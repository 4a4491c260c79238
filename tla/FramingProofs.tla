--------------------------- MODULE FramingProofs ----------------------------
(***************************************************************************)
(* Proofs about a connection, for streams of any length, any cuts, any     *)
(* limit of the buffer and an IMEI restored at any time.  The invariant    *)
(* says that its chunks so far amount to one read, or to one before and    *)
(* one after the restoration; what the decoders make of such a read is     *)
(* proved in DecoderProofs.                                                *)
(***************************************************************************)
EXTENDS DecoderProofs

-----------------------------------------------------------------------------
(* The connection. *)

Restorations == [imei : Registered \cup {0}, received : Nat, buffer : Bytes, decoded : Seq(Said)]
Conns == [at : {"none", "open", "destroyed", "topic"}, protocol : Protocol \cup {"none"}, sent : Seq(Frag), received : Nat,
          buffer : Bytes, imei : Nat, admitted : Registered \cup {0}, decoded : Seq(Said), handled : Seq(Said),
          lost : BOOLEAN, lapsed : SUBSET Nat, restored : Restorations]

LEMMA NeverRestoredIs ==
  /\ NeverRestored \in Restorations /\ NeverRestored.imei = 0 /\ NeverRestored.received = 0
  /\ NeverRestored.buffer = <<>> /\ NeverRestored.decoded = <<>>
<1> DEFINE none == <<>>
<1>1. NeverRestored = [imei |-> 0, received |-> 0, buffer |-> none, decoded |-> none]
  BY DEF NeverRestored
<1>2. none \in Bytes /\ none \in Seq(Said)
  BY NoMessages DEF Bytes
<1> HIDE DEF none
<1>3. /\ NeverRestored \in Restorations /\ NeverRestored.imei = 0 /\ NeverRestored.received = 0
      /\ NeverRestored.buffer = none /\ NeverRestored.decoded = none
  BY <1>1, <1>2 DEF Restorations
<1> QED
  BY <1>3 DEF none

LEMMA NoConnectionIsTyped == NoConnection \in Conns
<1> DEFINE none == <<>>
           never == NeverRestored
<1>1. NoConnection = [at |-> "none", protocol |-> "none", sent |-> none, received |-> 0, buffer |-> none, imei |-> 0,
                      admitted |-> 0, decoded |-> none, handled |-> none, lost |-> FALSE, lapsed |-> {}, restored |-> never]
  BY DEF NoConnection
<1>2. none \in Seq(Frag) /\ none \in Bytes /\ none \in Seq(Said) /\ never \in Restorations
  BY NoMessages, NeverRestoredIs DEF Bytes
<1> HIDE DEF none, never
<1> QED
  BY <1>1, <1>2 DEF Conns

\* What handling messages may change.
Untouched(c, d) ==
  /\ d.at \in {c.at, "destroyed"} /\ d.protocol = c.protocol /\ d.sent = c.sent /\ d.received = c.received
  /\ d.buffer = c.buffer /\ d.imei = c.imei /\ d.decoded = c.decoded /\ d.lost = c.lost /\ d.lapsed = c.lapsed
  /\ d.restored = c.restored

LEMMA HandleIs ==
  ASSUME NEW c \in Conns, NEW message \in Said
  PROVE  /\ Handle(c, message) \in Conns /\ Untouched(c, Handle(c, message))
         /\ Len(Handle(c, message).handled) <= Len(c.handled) + 1 /\ Len(c.handled) \in Nat
         /\ Len(Handle(c, message).handled) \in Nat
<1> DEFINE imei == IF message.imei = 0 THEN c.imei ELSE message.imei
           said == Message(message.kind, imei)
           handled == Append(c.handled, said)
           d == Handle(c, message)
           allowed == IF c.admitted = 0 THEN imei \in Registered ELSE imei = c.admitted
<1>1. c.handled \in Seq(Said) /\ Len(c.handled) \in Nat /\ imei \in Nat /\ said \in Said
  BY LenProperties DEF Conns, Said, Message
<1>2. handled \in Seq(Said) /\ Len(handled) = Len(c.handled) + 1
  <2> HIDE DEF said
  <2> QED
    BY <1>1, AppendProperties
<1>3. \/ d = c
      \/ imei # 0 /\ allowed /\ d = [c EXCEPT !.admitted = imei, !.handled = handled]
      \/ d = [c EXCEPT !.at = "destroyed"]
  BY DEF Handle
<1>4. allowed /\ imei # 0 => imei \in Registered \cup {0}
  BY DEF Conns
<1> HIDE DEF imei, handled, d, allowed
<1>5. CASE d = c
  BY <1>1, <1>5 DEF Untouched, d
<1>6. CASE imei # 0 /\ allowed /\ d = [c EXCEPT !.admitted = imei, !.handled = handled]
  <2>1. d \in Conns
    BY <1>2, <1>4, <1>6 DEF Conns
  <2>2. d.handled = handled /\ Untouched(c, d)
    BY <1>6 DEF Conns, Untouched
  <2>3. Len(d.handled) <= Len(c.handled) + 1 /\ Len(d.handled) \in Nat
    BY <1>1, <1>2, <2>2
  <2> QED
    BY <1>1, <2>1, <2>2, <2>3 DEF d
<1>7. CASE d = [c EXCEPT !.at = "destroyed"]
  <2>1. d \in Conns /\ d.handled = c.handled /\ Untouched(c, d)
    BY <1>7 DEF Conns, Untouched
  <2> QED
    BY <1>1, <2>1 DEF d
<1> QED
  BY <1>3, <1>5, <1>6, <1>7

LEMMA UntouchedOn ==
  ASSUME NEW c, NEW d, NEW e, Untouched(c, d), Untouched(d, e)
  PROVE  Untouched(c, e)
BY DEF Untouched

LEMMA HandleAllIs ==
  ASSUME NEW c \in Conns, NEW messages \in Seq(Said)
  PROVE  /\ HandleAll(c, messages) \in Conns /\ Untouched(c, HandleAll(c, messages))
         /\ Len(HandleAll(c, messages).handled) <= Len(c.handled) + Len(messages)
         /\ Len(HandleAll(c, messages).handled) \in Nat
<1> DEFINE n == Len(messages)
           V == {d \in Conns : Untouched(c, d)}
           step == [u \in (1 .. n) \X V |-> Handle(u[2], messages[u[1]])]
           Made(g) == [k \in 0 .. n |-> IF k = 0 THEN c ELSE Handle(g[k - 1], messages[k])]
           f == CHOOSE g : g = Made(g)
<1>1. n \in Nat /\ \A k \in 1 .. n : messages[k] \in Said
  BY LenProperties, ElementOfSeq
<1>2. HandleAll(c, messages) = f[n]
  BY DEF HandleAll
<1>3. c \in V
  BY DEF Untouched
<1>4. ASSUME NEW d \in V, NEW k \in 1 .. n PROVE Handle(d, messages[k]) \in V
  <2> DEFINE e == Handle(d, messages[k])
  <2>1. d \in Conns /\ Untouched(c, d) /\ messages[k] \in Said
    BY <1>1
  <2>2. e \in Conns /\ Untouched(d, e)
    BY <2>1, HandleIs
  <2> HIDE DEF e
  <2>3. Untouched(c, e)
    BY <2>1, <2>2, UntouchedOn
  <2> QED
    BY <2>2, <2>3 DEF e
<1> HIDE DEF n, V
<1>5. step \in [(1 .. n) \X V -> V]
  <2>1. ASSUME NEW u \in (1 .. n) \X V PROVE Handle(u[2], messages[u[1]]) \in V
    BY <1>4
  <2> QED
    BY <2>1
<1>6. \A k \in 1 .. n, d \in V : step[<<k, d>>] = Handle(d, messages[k])
  OBVIOUS
<1> HIDE DEF step
<1>7. PICK g : Solution(g, n, V, c, step)
  BY <1>1, <1>3, <1>5, Recursion
<1> USE <1>7 DEF Solution
<1>8. \A k \in 1 .. n : g[k] = Handle(g[k - 1], messages[k])
  <2> SUFFICES ASSUME NEW k \in 1 .. n PROVE g[k] = Handle(g[k - 1], messages[k])
    OBVIOUS
  <2>1. k - 1 \in 0 .. n /\ g[k - 1] \in V
    BY <1>1
  <2> QED
    BY <1>6, <1>7, <2>1
<1>9. g = Made(g)
  <2>1. ASSUME NEW k \in 0 .. n PROVE g[k] = IF k = 0 THEN c ELSE Handle(g[k - 1], messages[k])
    <3>1. CASE k = 0
      BY <1>7, <3>1
    <3>2. CASE k # 0
      <4>1. k \in 1 .. n
        BY <1>1, <3>2
      <4>2. g[k] = Handle(g[k - 1], messages[k])
        BY <1>8, <4>1
      <4> QED
        BY <3>2, <4>2
    <3> QED
      BY <3>1, <3>2
  <2>2. g = [k \in 0 .. n |-> g[k]]
    BY <1>7
  <2> QED
    BY <2>1, <2>2
<1>10. f = Made(f)
  <2> HIDE DEF Made
  <2> QED
    BY <1>9
<1> HIDE DEF f
<1>11. \A k \in 0 .. n : f[k] = IF k = 0 THEN c ELSE Handle(f[k - 1], messages[k])
  BY <1>10
<1> DEFINE Y == {k \in 0 .. n : f[k] \in V /\ Len(f[k].handled) <= Len(c.handled) + k /\ Len(f[k].handled) \in Nat}
<1>12. 0 \in Y
  <2>1. 0 \in 0 .. n /\ f[0] = IF 0 = 0 THEN c ELSE Handle(f[0 - 1], messages[0])
    BY <1>1, <1>11
  <2>2. f[0] = c
    BY <2>1
  <2>3. Len(c.handled) \in Nat
    BY LenProperties DEF Conns
  <2> QED
    BY <1>3, <2>1, <2>2, <2>3
<1>13. ASSUME NEW k \in 0 .. n - 1, k \in Y PROVE k + 1 \in Y
  <2> DEFINE m == k + 1
             d == f[k]
             e == Handle(d, messages[m])
             x == Len(c.handled)
  <2>1. m \in 0 .. n /\ m \in 1 .. n /\ m # 0 /\ m - 1 = k /\ k \in Nat /\ m = k + 1
    BY <1>1
  <2>2. d \in V /\ Len(d.handled) <= x + k
    BY <1>13
  <2>3. x \in Nat
    BY LenProperties DEF Conns
  <2> HIDE DEF m, x
  <2>4. f[m] = e
    <3>1. f[m] = Handle(f[m - 1], messages[m])
      BY <1>11, <2>1
    <3> QED
      BY <2>1, <3>1
  <2> HIDE DEF d
  <2>5. messages[m] \in Said /\ d \in Conns /\ e \in V
    BY <1>1, <1>4, <2>1, <2>2 DEF V
  <2>6. Len(e.handled) <= Len(d.handled) + 1 /\ Len(d.handled) \in Nat /\ Len(e.handled) \in Nat
    BY <2>5, HandleIs
  <2> HIDE DEF e
  <2>7. Len(e.handled) <= x + m
    <3> DEFINE y == Len(d.handled)
               z == Len(e.handled)
    <3>1. y <= x + k /\ z <= y + 1 /\ y \in Nat /\ z \in Nat
      BY <2>2, <2>6
    <3> HIDE DEF y, z
    <3>2. z <= x + m
      BY <2>1, <2>3, <3>1
    <3> QED
      BY <3>2 DEF z
  <2> QED
    BY <2>1, <2>4, <2>5, <2>6, <2>7 DEF m, x
<1>14. n \in Y
  <2> HIDE DEF Y
  <2>1. n \in 0 .. n
    BY <1>1
  <2> QED
    BY <1>1, <1>12, <1>13, <2>1, Along
<1> QED
  BY <1>2, <1>14 DEF V, n

-----------------------------------------------------------------------------
(* What was decoded chunk by chunk, as the outcome x of one read. *)

Follows(protocol, all, i, x) ==
  /\ x \in Outcomes /\ x.go = "stop" /\ x.n <= Len(all)
  /\ \A y \in Bytes : Alike(protocol, decode(protocol, all \o y, i),
                                      After(x, decode(protocol, From(all, x.n + 1) \o y, x.imei)))

\* What was left has been read too, and waits.
CaughtUp(protocol, all, i, x) ==
  Follows(protocol, all, i, x) /\ decode(protocol, From(all, x.n + 1), x.imei) = Stop(0, x.imei)

LEMMA BytesAssociative ==
  ASSUME NEW b \in Bytes, NEW z \in Bytes, NEW y \in Bytes
  PROVE  (b \o z) \o y = b \o (z \o y)
BY ConcatAssociative DEF Bytes

\* With the bytes z, read after what was left.
GoesOn(protocol, all, i, x, z, b, d) ==
  /\ Follows(protocol, all, i, x) /\ b = From(all, x.n + 1) \o z /\ d = decode(protocol, b, x.imei)
  /\ d.go = "stop" /\ ~DropsMarker(From(b, d.n + 1), protocol, b)

LEMMA StillCaughtUp ==
  ASSUME NEW protocol \in Protocol, NEW all \in Bytes, NEW i \in Nat, NEW x, NEW z \in Bytes, NEW b, NEW d, GoesOn(protocol, all, i, x, z, b, d)
  PROVE  CaughtUp(protocol, all \o z, i, After(x, d)) /\ From(all \o z, After(x, d).n + 1) = From(b, d.n + 1)
<1> DEFINE w == all \o z
           r == From(all, x.n + 1)
           q == From(b, d.n + 1)
           a == After(x, d)
<1> USE DEF GoesOn
<1>1. x \in Outcomes /\ x.go = "stop" /\ x.n \in Nat /\ x.n \in 0 .. Len(all) /\ x.imei \in Nat /\ Len(all) \in Nat
  BY ByteOf DEF Follows, Outcomes
<1>2. \A y \in Bytes : Alike(protocol, decode(protocol, all \o y, i), After(x, decode(protocol, r \o y, x.imei)))
  BY DEF Follows
<1>3. r \in Bytes /\ b = r \o z
  BY <1>1, FromFacts
<1>4. w \in Bytes /\ Len(w) = Len(all) + Len(z) /\ Len(z) \in Nat
  BY Joined
<1>5. From(w, x.n + 1) = b
  BY <1>1, FromJoined
<1> HIDE DEF w, r
<1>6. b \in Bytes
  BY <1>3, Joined
<1>7. Len(b) = Len(w) - x.n /\ x.n \in 0 .. Len(w)
  <2> HIDE DEF GoesOn
  <2>1. x.n \in 0 .. Len(w)
    BY <1>1, <1>4
  <2>2. Len(From(w, x.n + 1)) = Len(w) - x.n
    BY <1>4, <2>1, FromFacts
  <2> QED
    BY <1>5, <2>1, <2>2
<1>8. d \in Outcomes /\ d.n \in Nat /\ d.n \in 0 .. Len(b) /\ d.imei \in Nat
  BY <1>1, <1>6, DecodeParts
<1>9. q \in Bytes
  BY <1>6, <1>8, FromFacts
<1>10. Resumes(protocol, b, x.imei)
  BY <1>1, <1>6, CutsResume
<1>11. /\ decode(protocol, q, d.imei) = Stop(0, d.imei)
       /\ \A y \in Bytes : Alike(protocol, decode(protocol, b \o y, x.imei), After(d, decode(protocol, q \o y, d.imei)))
  BY <1>10 DEF Resumes
<1>12. From(w, (x.n + d.n) + 1) = q
  <2>1. d.n \in 0 .. Len(w) - x.n
    BY <1>7, <1>8
  <2> QED
    BY <1>4, <1>5, <1>7, <2>1, FromFrom
<1>13. a \in Outcomes /\ a.go = "stop" /\ a.n = x.n + d.n /\ a.imei = d.imei
  <2>1. After(x, d) \in Outcomes
    BY <1>1, <1>8, AfterIsOutcome, Zenon
  <2>2. After(x, d).go = d.go /\ After(x, d).n = x.n + d.n /\ After(x, d).imei = d.imei
    BY <1>8, AfterIs, Zenon
  <2> QED
    BY <2>1, <2>2, Zenon
<1> HIDE DEF a, q
<1>14. a.n <= Len(w) /\ From(w, a.n + 1) = q
  <2>1. x.n + d.n <= Len(w)
    <3> DEFINE n == x.n
               m == d.n
               k == Len(b)
               l == Len(w)
    <3>1. n \in Nat /\ m \in Nat /\ k = l - n /\ l \in Nat /\ m \in 0 .. k
      BY <1>1, <1>4, <1>7, <1>8
    <3> HIDE DEF n, m, k, l
    <3>2. n + m <= l
      BY <3>1
    <3> QED
      BY <3>2 DEF n, m, l
  <2> QED
    BY <1>12, <1>13, <2>1, Zenon
<1>15. ASSUME NEW y \in Bytes
       PROVE  Alike(protocol, decode(protocol, w \o y, i), After(a, decode(protocol, q \o y, a.imei)))
  <2> DEFINE v == z \o y
             e == decode(protocol, b \o y, x.imei)
             f == decode(protocol, q \o y, d.imei)
  <2>1. v \in Bytes /\ w \o y = all \o v /\ b \o y = r \o v
    <3>1. (all \o z) \o y = all \o (z \o y)
      BY BytesAssociative
    <3>2. (r \o z) \o y = r \o (z \o y)
      BY <1>3, BytesAssociative
    <3>3. z \o y \in Bytes
      BY Joined
    <3> QED
      BY <1>3, <3>1, <3>2, <3>3, Zenon DEF w
  <2>2. b \o y \in Bytes /\ q \o y \in Bytes
    BY <1>6, <1>9, Joined
  <2>3. Alike(protocol, e, After(d, f))
    BY <1>11
  <2>4. Alike(protocol, decode(protocol, w \o y, i), After(x, e))
    <3> HIDE DEF v
    <3>1. Alike(protocol, decode(protocol, all \o v, i), After(x, decode(protocol, r \o v, x.imei)))
      BY <1>2, <2>1
    <3> QED
      BY <2>1, <3>1
  <2>5. e \in Outcomes /\ f \in Outcomes
    BY <1>1, <1>8, <2>2, DecodeOutcome
  <2> HIDE DEF e
  <2>6. f = decode(protocol, q \o y, a.imei)
    BY <1>13
  <2> HIDE DEF f
  <2>7. After(d, f) \in Outcomes
    BY <1>8, <2>5, AfterIsOutcome
  <2>8. Alike(protocol, After(x, e), After(x, After(d, f)))
    BY <1>1, <2>3, <2>5, <2>7, AlikeAfter
  <2>9. After(x, After(d, f)) = After(a, f)
    BY <1>1, <1>8, <2>5, AfterAssociative DEF a
  <2>10. Alike(protocol, decode(protocol, w \o y, i), After(a, f))
    BY <2>4, <2>8, <2>9, AlikeTransitive
  <2> QED
    BY <2>6, <2>10
<1>16. CaughtUp(protocol, w, i, a)
  BY <1>11, <1>13, <1>14, <1>15 DEF CaughtUp, Follows
<1> QED
  BY <1>14, <1>16 DEF a, q, w

\* Whoever is caught up has what one read of everything gives.
LEMMA CaughtUpReads ==
  ASSUME NEW protocol \in Protocol, NEW all \in Bytes, NEW i \in Nat, NEW x, CaughtUp(protocol, all, i, x)
  PROVE  LET d == decode(protocol, all, i)
         IN  d.go = "stop" /\ d.messages = x.messages /\ d.imei = x.imei /\ (protocol = "meitrack" \/ d.n = x.n)
<1> DEFINE none == <<>>
           s == Stop(0, x.imei)
           d == decode(protocol, all, i)
           r == From(all, x.n + 1)
           a == After(x, s)
<1>1. x \in Outcomes /\ x.go = "stop" /\ x.n \in Nat /\ x.n \in 0 .. Len(all) /\ x.imei \in Nat /\ Len(all) \in Nat
  BY ByteOf DEF CaughtUp, Follows, Outcomes
<1>2. r \in Bytes
  BY <1>1, FromFacts
<1>3. decode(protocol, r, x.imei) = s
      /\ \A y \in Bytes : Alike(protocol, decode(protocol, all \o y, i), After(x, decode(protocol, r \o y, x.imei)))
  BY DEF CaughtUp, Follows
<1>4. none \in Bytes /\ all \o none = all /\ r \o none = r
  BY <1>2, ConcatEmptySeq DEF Bytes
<1>5. s \in Outcomes /\ s.go = "stop" /\ s.n = 0 /\ s.messages = <<>> /\ s.imei = x.imei
  BY <1>1, PlainOutcomes
<1> HIDE DEF none, s, r
<1>6. a.go = "stop" /\ a.n = x.n /\ a.messages = x.messages /\ a.imei = x.imei
  BY <1>1, <1>5, AfterIs, AfterNothing
<1>7. Alike(protocol, d, a)
  BY <1>3, <1>4
<1> HIDE DEF a, d
<1> QED
  BY <1>6, <1>7 DEF Alike, d

\* Before anything is read.
LEMMA FollowsAtOnce ==
  ASSUME NEW protocol \in Protocol, NEW all \in Bytes, NEW i \in Nat, NEW x, x = Stop(0, i)
  PROVE  Follows(protocol, all, i, x) /\ From(all, x.n + 1) = all
<1>1. 0 \in Nat /\ Len(all) \in Nat
  BY ByteOf
<1>2. x \in Outcomes /\ x.go = "stop" /\ x.n = 0 /\ x.imei = i /\ x.messages = <<>>
  BY <1>1, PlainOutcomes
<1>3. From(all, x.n + 1) = all
  BY <1>2, FromEnds
<1>4. ASSUME NEW y \in Bytes
      PROVE  Alike(protocol, decode(protocol, all \o y, i), After(x, decode(protocol, From(all, x.n + 1) \o y, x.imei)))
  <2> DEFINE e == decode(protocol, all \o y, i)
  <2>1. all \o y \in Bytes
    BY Joined
  <2>2. e \in Outcomes
    BY <2>1, DecodeOutcome
  <2> HIDE DEF e
  <2>3. After(x, e) = e
    BY <1>2, <2>2, AfterNothing
  <2> QED
    BY <1>2, <1>3, <2>3 DEF Alike, e
<1> QED
  BY <1>1, <1>2, <1>3, <1>4 DEF Follows

LEMMA CaughtUpFirst ==
  ASSUME NEW protocol \in Protocol, NEW i \in Nat
  PROVE  CaughtUp(protocol, <<>>, i, Stop(0, i))
<1> DEFINE none == <<>>
           x == Stop(0, i)
<1>1. none \in Bytes /\ decode(protocol, none, i) = x
  BY DecodeNothing
<1>2. 0 \in Nat
  OBVIOUS
<1>3. x.imei = i
  BY <1>2, PlainOutcomes
<1> HIDE DEF none, x
<1>4. x = Stop(0, i)
  BY DEF x
<1>5. Follows(protocol, none, i, x) /\ From(none, x.n + 1) = none
  BY <1>1, <1>4, FollowsAtOnce
<1> QED
  BY <1>1, <1>3, <1>4, <1>5 DEF CaughtUp, none, x

\* The bytes after some more have come.
LEMMA MoreBytes ==
  ASSUME NEW b \in Bytes, NEW m \in Nat, NEW k \in Nat, m + k <= Len(b)
  PROVE  /\ SubSeq(b, m + 1, m + k) \in Bytes
         /\ SubSeq(b, 1, m + k) = SubSeq(b, 1, m) \o SubSeq(b, m + 1, m + k)
<1> DEFINE x == SubSeq(b, 1, m)
           y == SubSeq(b, m + 1, m + k)
           z == SubSeq(b, 1, m + k)
           c == x \o y
<1>1. Len(b) \in Nat /\ m \in 0 .. Len(b) /\ m + k \in 0 .. Len(b) /\ \A j \in m + 1 .. m + k : b[j] \in Nat
  BY ByteOf
<1>2. x \in Bytes /\ Len(x) = m /\ \A j \in 1 .. m : x[j] = b[j]
  BY <1>1, PrefixFacts
<1>3. z \in Bytes /\ Len(z) = m + k /\ \A j \in 1 .. m + k : z[j] = b[j]
  BY <1>1, PrefixFacts
<1>4. /\ y \in Bytes /\ Len(y) = IF m + 1 <= m + k THEN (m + k) - (m + 1) + 1 ELSE 0
      /\ \A j \in 1 .. (m + k) - (m + 1) + 1 : y[j] = b[(m + 1) + j - 1]
  BY <1>1, SubSeqProperties DEF Bytes
<1> HIDE DEF x, y, z
<1>5. Len(y) = k
  BY <1>4
<1>6. \A j \in 1 .. k : y[j] = b[m + j]
  <2> SUFFICES ASSUME NEW j \in 1 .. k PROVE y[j] = b[m + j]
    OBVIOUS
  <2>1. j \in 1 .. (m + k) - (m + 1) + 1 /\ (m + 1) + j - 1 = m + j
    OBVIOUS
  <2> QED
    BY <1>4, <2>1
<1>7. c \in Bytes /\ Len(c) = Len(x) + Len(y) /\ \A j \in 1 .. Len(x) + Len(y) : c[j] = IF j <= Len(x) THEN x[j] ELSE y[j - Len(x)]
  BY <1>2, <1>4, ConcatAt
<1> HIDE DEF c
<1>8. Len(z) = Len(c)
  BY <1>2, <1>3, <1>5, <1>7
<1>9. ASSUME NEW j \in 1 .. Len(z) PROVE z[j] = c[j]
  <2>1. j \in 1 .. m + k /\ c[j] = IF j <= m THEN x[j] ELSE y[j - m]
    BY <1>2, <1>3, <1>5, <1>7, <1>8
  <2>2. CASE j <= m
    BY <1>2, <1>3, <2>1, <2>2
  <2>3. CASE j > m
    <3> DEFINE i == j - m
    <3>1. i \in 1 .. k /\ m + i = j
      BY <2>1, <2>3
    <3>2. y[i] = b[m + i] /\ c[j] = y[i] /\ z[j] = b[j]
      BY <1>3, <1>6, <2>1, <2>3, <3>1
    <3> QED
      BY <3>1, <3>2
  <2> QED
    BY <2>1, <2>2, <2>3
<1>10. z = c
  BY <1>3, <1>7, <1>8, <1>9, SameBytes
<1> QED
  BY <1>4, <1>10 DEF x, y, z, c

LEMMA MiddleBytes ==
  ASSUME NEW b \in Bytes, NEW r \in Nat, NEW m \in Nat, NEW k \in Nat, r <= m, m + k <= Len(b)
  PROVE  /\ SubSeq(b, r + 1, m) \in Bytes
         /\ SubSeq(b, r + 1, m + k) = SubSeq(b, r + 1, m) \o SubSeq(b, m + 1, m + k)
         /\ SubSeq(b, 1, m) = SubSeq(b, 1, r) \o SubSeq(b, r + 1, m)
<1> DEFINE t == From(b, r + 1)
           n == m - r
<1>1. Len(b) \in Nat /\ r \in 0 .. Len(b) /\ n \in Nat /\ n + k <= Len(b) - r /\ r + n = m /\ r + (n + k) = m + k
      /\ r + n <= Len(b) /\ r + (n + 1) = m + 1
  BY ByteOf
<1>2. t \in Bytes /\ Len(t) = Len(b) - r
  BY <1>1, FromFacts
<1> HIDE DEF n
<1>3. SubSeq(t, 1, n + k) = SubSeq(t, 1, n) \o SubSeq(t, n + 1, n + k)
  BY <1>1, <1>2, MoreBytes
<1>4. SubSeq(t, 1, n + k) = SubSeq(b, r + 1, m + k)
  <2>1. SubSeq(t, 1, n + k) = SubSeq(b, r + 1, r + (n + k))
    <3> DEFINE l == n + k
               one == 1
    <3>1. l \in Int /\ l <= Len(b) - r /\ one \in Nat \ {0}
      BY <1>1
    <3> HIDE DEF l, one
    <3>2. SubSeq(t, one, l) = SubSeq(b, r + one, r + l)
      BY <1>1, <3>1, PartOfRest
    <3> QED
      BY <3>2 DEF l, one
  <2> QED
    BY <1>1, <2>1
<1>5. SubSeq(t, 1, n) = SubSeq(b, r + 1, m)
  <2> DEFINE one == 1
  <2>1. n \in Int /\ n <= Len(b) - r /\ one \in Nat \ {0}
    BY <1>1
  <2> HIDE DEF one
  <2>2. SubSeq(t, one, n) = SubSeq(b, r + one, r + n)
    BY <1>1, <2>1, PartOfRest
  <2> QED
    BY <1>1, <2>2 DEF one
<1>6. SubSeq(t, n + 1, n + k) = SubSeq(b, m + 1, m + k)
  <2> DEFINE l == n + k
             i == n + 1
  <2>1. l \in Int /\ l <= Len(b) - r /\ i \in Nat \ {0} /\ r + i = m + 1 /\ r + l = m + k
    BY <1>1
  <2> HIDE DEF l, i
  <2>2. SubSeq(t, i, l) = SubSeq(b, r + i, r + l)
    BY <1>1, <2>1, PartOfRest
  <2> QED
    BY <2>1, <2>2 DEF l, i
<1>7. SubSeq(b, r + 1, r + n) \in Bytes /\ SubSeq(b, 1, r + n) = SubSeq(b, 1, r) \o SubSeq(b, r + 1, r + n)
  BY <1>1, MoreBytes
<1> QED
  BY <1>1, <1>3, <1>4, <1>5, <1>6, <1>7

-----------------------------------------------------------------------------
(* One chunk and one payload. *)

LEMMA KeptIs ==
  ASSUME NEW c \in Conns, NEW d \in Outcomes, NEW buffer, NEW rest \in Bytes, Len(c.handled) <= Len(c.decoded),
         MAX_BUFFER \in Nat, NEW e, e = Kept(c, d, buffer, rest)
  PROVE  /\ e \in Conns /\ e.at \in {c.at, "destroyed"} /\ e.protocol = c.protocol /\ e.sent = c.sent
         /\ e.received = c.received /\ e.imei = d.imei /\ e.lapsed = c.lapsed /\ e.restored = c.restored
         /\ Len(e.buffer) <= MAX_BUFFER /\ Len(e.handled) <= Len(e.decoded)
         /\ ~e.lost => /\ d.go # "throw" /\ ~c.lost /\ ~DropsMarker(rest, c.protocol, buffer)
                       /\ e.buffer = rest /\ e.decoded = c.decoded \o d.messages
<1> DEFINE none == <<>>
           drops == DropsMarker(rest, c.protocol, buffer)
           decoded == c.decoded \o d.messages
           kept == IF Len(rest) > MAX_BUFFER THEN none ELSE rest
           lost == c.lost \/ Len(rest) > MAX_BUFFER \/ drops
           a == [c EXCEPT !.imei = d.imei, !.decoded = decoded, !.buffer = kept, !.lost = lost]
           h == HandleAll(a, d.messages)
           t == [c EXCEPT !.imei = d.imei, !.buffer = none, !.lost = TRUE]
<1>1. e = IF d.go = "throw" THEN t ELSE h
  BY DEF Kept
<1>2. d.imei \in Nat /\ d.messages \in Seq(Said) /\ c.decoded \in Seq(Said) /\ c.handled \in Seq(Said)
  BY DEF Outcomes, Conns
<1>3. none \in Bytes /\ Len(none) = 0
  BY DEF Bytes
<1>4. decoded \in Seq(Said) /\ Len(decoded) = Len(c.decoded) + Len(d.messages)
  BY <1>2, ConcatProperties
<1>5. Len(c.handled) \in Nat /\ Len(c.decoded) \in Nat /\ Len(d.messages) \in Nat /\ Len(rest) \in Nat
  BY <1>2, LenProperties, ByteOf
<1> HIDE DEF none, drops, decoded
<1>6. kept \in Bytes /\ Len(kept) <= MAX_BUFFER
  BY <1>3, <1>5
<1>7. drops \in BOOLEAN
  BY DEF drops, DropsMarker
<1>8. lost \in BOOLEAN /\ (~lost => ~c.lost /\ ~drops /\ kept = rest)
  BY <1>7 DEF Conns
<1> HIDE DEF kept, lost
<1>9. CASE d.go = "throw"
  <2>1. t \in Conns
    BY <1>2, <1>3 DEF Conns
  <2>2. /\ t.at = c.at /\ t.protocol = c.protocol /\ t.sent = c.sent /\ t.received = c.received /\ t.imei = d.imei
        /\ t.restored = c.restored
        /\ t.lapsed = c.lapsed /\ t.buffer = none /\ t.handled = c.handled /\ t.decoded = c.decoded /\ t.lost
    BY DEF Conns
  <2> HIDE DEF t
  <2>3. e = t
    BY <1>1, <1>9
  <2>4. Len(t.buffer) <= MAX_BUFFER /\ Len(t.handled) <= Len(t.decoded)
    BY <1>3, <2>2
  <2> QED
    BY <2>1, <2>2, <2>3, <2>4, Zenon
<1>10. CASE d.go # "throw"
  <2>1. a \in Conns
    BY <1>2, <1>4, <1>6, <1>8 DEF Conns
  <2>2. /\ a.at = c.at /\ a.protocol = c.protocol /\ a.sent = c.sent /\ a.received = c.received /\ a.imei = d.imei
        /\ a.restored = c.restored
        /\ a.lapsed = c.lapsed /\ a.buffer = kept /\ a.handled = c.handled /\ a.decoded = decoded /\ a.lost = lost
    BY DEF Conns
  <2> HIDE DEF a
  <2>3. h \in Conns /\ Untouched(a, h) /\ Len(h.handled) <= Len(a.handled) + Len(d.messages) /\ Len(h.handled) \in Nat
    BY <1>2, <2>1, HandleAllIs
  <2> HIDE DEF h
  <2>4. Len(h.handled) <= Len(h.decoded)
    <3>1. Len(h.handled) <= Len(c.handled) + Len(d.messages) /\ h.decoded = decoded
      BY <2>2, <2>3 DEF Untouched
    <3> DEFINE x == Len(h.handled)
               y == Len(c.handled)
               z == Len(d.messages)
               u == Len(c.decoded)
               v == Len(decoded)
    <3>2. x <= y + z /\ y <= u /\ v = u + z /\ x \in Nat /\ y \in Nat /\ z \in Nat /\ u \in Nat
      BY <1>4, <1>5, <2>3, <3>1
    <3> HIDE DEF x, y, z, u, v
    <3>3. x <= v
      BY <3>2
    <3> QED
      BY <3>1, <3>3 DEF x, v
  <2>5. e = h
    BY <1>1, <1>10
  <2>6. /\ h.at \in {c.at, "destroyed"} /\ h.protocol = c.protocol /\ h.sent = c.sent /\ h.received = c.received
        /\ h.restored = c.restored
        /\ h.imei = d.imei /\ h.lapsed = c.lapsed /\ h.buffer = kept /\ h.decoded = decoded /\ h.lost = lost
    BY <2>2, <2>3 DEF Untouched
  <2> QED
    BY <1>6, <1>8, <1>10, <2>3, <2>4, <2>5, <2>6 DEF decoded, drops
<1> QED
  BY <1>9, <1>10

LEMMA OfTopicIs ==
  ASSUME NEW messages \in Seq(Said)
  PROVE  /\ OfTopic(messages) \in Seq(Said) /\ Len(OfTopic(messages)) <= Len(messages)
         /\ Len(OfTopic(messages)) \in Nat
         /\ (\A j \in 1 .. Len(messages) : messages[j].imei = Topic) => OfTopic(messages) = messages
         /\ Len(messages) # 0 /\ messages[1].imei # Topic => OfTopic(messages) = <<>>
<1> DEFINE strange == {i \in DOMAIN messages : messages[i].imei # Topic}
           m == Least(strange)
           none == <<>>
           part == SubSeq(messages, 1, m - 1)
           n == Len(messages)
<1>1. n \in Nat /\ DOMAIN messages = 1 .. n /\ \A j \in 1 .. n : messages[j] \in Said
  BY LenProperties, ElementOfSeq
<1>2. strange \in SUBSET (Nat \ {0}) /\ strange \subseteq 1 .. n
  BY <1>1
<1>3. \A j : j \in strange <=> j \in 1 .. n /\ messages[j].imei # Topic
  BY <1>1
<1>4. OfTopic(messages) = IF strange = {} THEN messages ELSE part
  BY DEF OfTopic, Least
<1> HIDE DEF strange, n
<1>5. /\ m \in Nat /\ (m = 0 <=> strange = {}) /\ (strange # {} => m \in strange)
      /\ \A k \in strange : m <= k
  BY <1>2, LeastFacts
<1> HIDE DEF m
<1>6. CASE strange = {}
  <2>1. OfTopic(messages) = messages
    BY <1>4, <1>6
  <2>2. ~(n # 0 /\ messages[1].imei # Topic)
    BY <1>1, <1>3, <1>6
  <2> QED
    BY <1>1, <2>1, <2>2 DEF n
<1>7. CASE strange # {}
  <2>1. m \in 1 .. n /\ OfTopic(messages) = part /\ messages[m].imei # Topic
    BY <1>2, <1>3, <1>4, <1>5, <1>7
  <2>2. \A j \in 1 .. m - 1 : messages[j] \in Said
    BY <1>1, <2>1
  <2>3. part \in Seq(Said) /\ Len(part) = IF 1 <= m - 1 THEN (m - 1) - 1 + 1 ELSE 0
    BY <2>1, <2>2, SubSeqProperties
  <2>4. ASSUME n # 0, messages[1].imei # Topic PROVE part = none
    <3>1. 1 \in strange
      BY <1>1, <1>3, <2>4
    <3>2. m = 1
      BY <1>5, <2>1, <3>1
    <3>3. SubSeq(messages, 1, 0) = none
      BY SubSeqEmpty
    <3> QED
      BY <3>2, <3>3
  <2> HIDE DEF part, none
  <2>5. Len(part) \in Nat /\ Len(part) <= n
    BY <1>1, <2>1, <2>3
  <2> QED
    BY <1>1, <2>1, <2>3, <2>4, <2>5 DEF n, none
<1> QED
  BY <1>6, <1>7

-----------------------------------------------------------------------------
(* The connection as it runs. *)

SentBytes(c) == BytesOf(c.sent)[Len(c.sent)]

ConnOK(c) ==
  /\ c \in Conns
  /\ c.at # "none" => c.protocol \in Protocol /\ c.sent \in Seq(Fragment[c.protocol])
  /\ Len(c.buffer) <= MAX_BUFFER
  /\ c.received <= IF c.at = "topic" THEN Len(c.sent) ELSE Len(SentBytes(c))
  /\ Len(c.handled) <= Len(c.decoded)
  /\ c.lapsed \subseteq DOMAIN c.sent
  /\ c.restored.received <= c.received

\* The bytes before an IMEI was restored, and what was left of them with those since.
Early(c) == SubSeq(SentBytes(c), 1, c.restored.received)
Since(c) == c.restored.buffer \o SubSeq(SentBytes(c), c.restored.received + 1, c.received)

\* The decoding up to the restoration, and from there, each as one outcome: nothing is
\* lost but what was thrown away.
Before(c, x) ==
  /\ CaughtUp(c.protocol, Early(c), 0, x) /\ x.imei = 0
  /\ c.restored.buffer = From(Early(c), x.n + 1) /\ c.restored.decoded = x.messages
Now(c, x) ==
  /\ IF c.received = c.restored.received THEN x = Stop(0, c.restored.imei)
     ELSE CaughtUp(c.protocol, Since(c), c.restored.imei, x)
  /\ c.buffer = From(Since(c), x.n + 1) /\ c.decoded = c.restored.decoded \o x.messages /\ c.imei = x.imei
Followed(c) ==
  c.at = "open" /\ ~c.lost =>
    /\ c.restored.imei = 0 => c.restored = NeverRestored
    /\ \E x : Before(c, x)
    /\ \E x : Now(c, x)

LEMMA StreamIsBytes ==
  ASSUME NEW c \in Conns
  PROVE  SentBytes(c) \in Bytes /\ Len(SentBytes(c)) \in Nat /\ Len(c.sent) \in Nat
<1>1. c.sent \in Seq(Frag)
  BY DEF Conns
<1> DEFINE s == c.sent
           n == Len(s)
<1>2. n \in Nat /\ BytesOf(s) \in [0 .. n -> Bytes]
  BY <1>1, BytesAreDefined
<1> HIDE DEF n
<1>3. BytesOf(s)[n] \in Bytes
  BY <1>2
<1> QED
  BY <1>2, <1>3, ByteOf DEF SentBytes, n

\* Of what are read: bytes, before the restoration and since.
LEMMA PartsAreBytes ==
  ASSUME NEW c, ConnOK(c), c.at = "open"
  PROVE  /\ c \in Conns /\ c.protocol \in Protocol /\ c.sent \in Seq(Fragment[c.protocol]) /\ c.sent \in Seq(Frag)
         /\ c.restored \in Restorations /\ c.restored.imei \in Nat /\ c.restored.buffer \in Bytes
         /\ c.restored.decoded \in Seq(Said) /\ c.restored.received \in Nat /\ c.received \in Nat
         /\ c.restored.received <= c.received /\ c.received <= Len(SentBytes(c))
         /\ SentBytes(c) \in Bytes /\ Early(c) \in Bytes /\ Since(c) \in Bytes
         /\ SubSeq(SentBytes(c), c.restored.received + 1, c.received) \in Bytes
         /\ SubSeq(SentBytes(c), 1, c.received)
            = Early(c) \o SubSeq(SentBytes(c), c.restored.received + 1, c.received)
<1> DEFINE t == c.restored
           r == t.received
           m == c.received
           S == SentBytes(c)
           zero == 0
<1>1. /\ c \in Conns /\ c.protocol \in Protocol /\ c.sent \in Seq(Fragment[c.protocol]) /\ c.sent \in Seq(Frag)
      /\ t \in Restorations /\ m \in Nat /\ r <= m /\ m <= Len(S)
  BY DEF ConnOK, Conns
<1>2. t.imei \in Nat /\ t.buffer \in Bytes /\ t.decoded \in Seq(Said) /\ r \in Nat
  BY <1>1 DEF Restorations, Registered
<1>3. S \in Bytes /\ Len(S) \in Nat
  BY <1>1, StreamIsBytes
<1> HIDE DEF t, r, m, S
<1>4. r \in 0 .. Len(S) /\ m + zero <= Len(S) /\ zero \in Nat
  BY <1>1, <1>2, <1>3
<1> HIDE DEF zero
<1>5. SubSeq(S, 1, r) \in Bytes
  BY <1>3, <1>4, PrefixFacts
<1>6. SubSeq(S, r + 1, m) \in Bytes /\ SubSeq(S, 1, m) = SubSeq(S, 1, r) \o SubSeq(S, r + 1, m)
  BY <1>1, <1>2, <1>3, <1>4, MiddleBytes, ZenonT(30)
<1>7. t.buffer \o SubSeq(S, r + 1, m) \in Bytes
  BY <1>2, <1>6, Joined
<1> QED
  BY <1>1, <1>2, <1>3, <1>5, <1>6, <1>7 DEF Early, Since, t, r, m, S

\* What has come so far is followed, whether or not something came since.
LEMMA NowFollows ==
  ASSUME NEW c, ConnOK(c), c.at = "open", NEW x, Now(c, x)
  PROVE  Follows(c.protocol, Since(c), c.restored.imei, x)
<1>1. c.protocol \in Protocol /\ c.restored.imei \in Nat /\ Since(c) \in Bytes
  BY PartsAreBytes
<1>2. CASE c.received = c.restored.received
  <2>1. x = Stop(0, c.restored.imei)
    BY <1>2 DEF Now
  <2> QED
    BY <1>1, <2>1, FollowsAtOnce
<1>3. CASE c.received # c.restored.received
  BY <1>3 DEF Now, CaughtUp
<1> QED
  BY <1>2, <1>3

LEMMA ChunkKeeps ==
  ASSUME NEW c, ConnOK(c), Followed(c), c.at = "open", NEW n \in Nat \ {0}, c.received + n <= Len(SentBytes(c)),
         MAX_BUFFER \in Nat
  PROVE  LET e == Chunk([c EXCEPT !.received = @ + n], c.buffer \o SubSeq(SentBytes(c), c.received + 1, c.received + n))
         IN  ConnOK(e) /\ Followed(e) /\ e.at \in {"open", "destroyed"}
<1> DEFINE m == c.received
           S == SentBytes(c)
           p == c.protocol
           t == c.restored
           rho == t.received
           i == t.imei
           z == SubSeq(S, m + 1, m + n)
           a == [c EXCEPT !.received = m + n]
           b == c.buffer \o z
           d == decode(p, b, c.imei)
           rest == From(b, d.n + 1)
           e == Kept(a, d, b, rest)
           since == Since(c)
<1>1. /\ c \in Conns /\ p \in Protocol /\ c.sent \in Seq(Fragment[p]) /\ m \in Nat /\ c.buffer \in Bytes /\ c.imei \in Nat
      /\ Len(c.handled) <= Len(c.decoded) /\ c.lapsed \subseteq DOMAIN c.sent /\ c.decoded \in Seq(Said)
      /\ c.lost \in BOOLEAN /\ rho \in Nat /\ rho <= m /\ i \in Nat /\ t.decoded \in Seq(Said) /\ t.buffer \in Bytes
  BY PartsAreBytes DEF ConnOK, Conns
<1>2. S \in Bytes /\ Len(S) \in Nat /\ m + n <= Len(S) /\ since \in Bytes
  BY <1>1, StreamIsBytes, PartsAreBytes
<1>3. /\ a \in Conns /\ a.at = "open" /\ a.protocol = p /\ a.sent = c.sent /\ a.received = m + n
      /\ a.buffer = c.buffer /\ a.imei = c.imei /\ a.decoded = c.decoded /\ a.handled = c.handled /\ a.lost = c.lost
      /\ a.lapsed = c.lapsed /\ a.restored = t
  <2> DEFINE k == m + n
  <2>1. k \in Nat /\ c.at = "open" /\ c \in Conns
    BY <1>1
  <2> HIDE DEF k
  <2>2. [c EXCEPT !.received = k] \in Conns
    BY <2>1 DEF Conns
  <2>3. LET f == [c EXCEPT !.received = k]
        IN  /\ f.at = "open" /\ f.protocol = p /\ f.sent = c.sent /\ f.received = k
            /\ f.buffer = c.buffer /\ f.imei = c.imei /\ f.decoded = c.decoded /\ f.handled = c.handled /\ f.lost = c.lost
            /\ f.lapsed = c.lapsed /\ f.restored = c.restored
    BY <2>1 DEF Conns
  <2> QED
    BY <2>2, <2>3 DEF k
<1> HIDE DEF m, S, t
<1>4. z \in Bytes
  BY <1>1, <1>2, MoreBytes
<1>5. SubSeq(S, rho + 1, m + n) = SubSeq(S, rho + 1, m) \o z /\ SubSeq(S, rho + 1, m) \in Bytes
  <2>1. S \in Bytes /\ rho \in Nat /\ m \in Nat /\ n \in Nat /\ rho <= m /\ m + n <= Len(S)
    BY <1>1, <1>2
  <2> HIDE DEF rho
  <2>2. /\ SubSeq(S, rho + 1, m) \in Bytes
        /\ SubSeq(S, rho + 1, m + n) = SubSeq(S, rho + 1, m) \o SubSeq(S, m + 1, m + n)
    BY ONLY <2>1, MiddleBytes
  <2> QED
    BY <2>2
<1>6. t.buffer \o SubSeq(S, rho + 1, m + n) = since \o z
  <2> DEFINE y == SubSeq(S, rho + 1, m)
  <2>1. since = t.buffer \o y
    BY DEF Since, S, t, m
  <2>2. y \in Bytes
    BY <1>5
  <2> HIDE DEF y, z, since
  <2>3. (t.buffer \o y) \o z = t.buffer \o (y \o z)
    BY <1>1, <1>4, <2>2, BytesAssociative
  <2> QED
    BY <1>5, <2>1, <2>3 DEF y
<1> HIDE DEF since, z, p
<1>8. b \in Bytes
  BY <1>1, <1>4, Joined
<1> HIDE DEF a, b
<1>9. d \in Outcomes /\ d.n \in Nat /\ d.n \in 0 .. Len(b) /\ d.imei \in Nat
      /\ d.messages \in Seq(Said) /\ d.go \in {"stop", "throw"}
  BY <1>1, <1>8, DecodeParts
<1>10. rest \in Bytes
  BY <1>8, <1>9, FromFacts
<1>11. Chunk([c EXCEPT !.received = @ + n], c.buffer \o SubSeq(SentBytes(c), c.received + 1, c.received + n)) = e
  BY <1>3 DEF Chunk, Decoded, a, b, z, m, S
<1> HIDE DEF d, rest
<1>12. /\ e \in Conns /\ e.at \in {a.at, "destroyed"} /\ e.protocol = a.protocol /\ e.sent = a.sent
       /\ e.received = a.received /\ e.imei = d.imei /\ e.lapsed = a.lapsed /\ e.restored = a.restored
       /\ Len(e.buffer) <= MAX_BUFFER /\ Len(e.handled) <= Len(e.decoded)
       /\ ~e.lost => /\ d.go # "throw" /\ ~a.lost /\ ~DropsMarker(rest, a.protocol, b)
                     /\ e.buffer = rest /\ e.decoded = a.decoded \o d.messages
  <2>1. Len(a.handled) <= Len(a.decoded)
    BY <1>1, <1>3
  <2> QED
    BY <1>3, <1>9, <1>10, <2>1, KeptIs
<1> HIDE DEF e
<1>13. SentBytes(e) = S
  BY <1>3, <1>12 DEF SentBytes, S
<1>14. ConnOK(e)
  <2>1. e.restored.received <= e.received
    <3>1. rho <= m + n
      <4> HIDE DEF rho
      <4> QED
        BY <1>1
    <3> QED
      BY <1>3, <1>12, <3>1
  <2> QED
    BY <1>1, <1>2, <1>3, <1>12, <1>13, <2>1 DEF ConnOK
<1>15. ASSUME e.at = "open", ~e.lost
       PROVE  /\ e.restored.imei = 0 => e.restored = NeverRestored
              /\ \E x : Before(e, x)
              /\ \E x : Now(e, x)
  <2>1. /\ d.go = "stop" /\ ~c.lost /\ ~DropsMarker(rest, p, b) /\ e.buffer = rest
        /\ e.decoded = c.decoded \o d.messages /\ e.imei = d.imei /\ e.received = m + n
        /\ e.restored = t /\ e.protocol = p
    BY <1>3, <1>9, <1>12, <1>15
  <2>2. (t.imei = 0 => t = NeverRestored) /\ (\E x : Before(c, x)) /\ (\E x : Now(c, x))
    BY <2>1 DEF Followed, t
  <2>3. PICK x0 : Before(c, x0)
    BY <2>2
  <2>4. Before(e, x0)
    <3>1. Early(e) = Early(c)
      BY <1>13, <2>1 DEF Early, t, S
    <3> QED
      BY <2>1, <2>3, <3>1 DEF Before, t, p
  <2>5. PICK x : Now(c, x)
    BY <2>2
  <2>6. Follows(p, since, i, x) /\ c.buffer = From(since, x.n + 1) /\ c.decoded = t.decoded \o x.messages /\ c.imei = x.imei
    <3>1. Follows(c.protocol, Since(c), c.restored.imei, x)
      BY <2>5, NowFollows
    <3> QED
      BY <2>5, <3>1 DEF Now, p, t, since
  <2>7. CaughtUp(p, since \o z, i, After(x, d)) /\ From(since \o z, After(x, d).n + 1) = rest
    <3>1. d.go = "stop" /\ ~DropsMarker(From(b, d.n + 1), p, b)
      BY <2>1 DEF rest
    <3>2. GoesOn(p, since, i, x, z, b, d)
      BY <2>6, <3>1 DEF GoesOn, b, d
    <3> HIDE DEF i
    <3>3. CaughtUp(p, since \o z, i, After(x, d)) /\ From(since \o z, After(x, d).n + 1) = From(b, d.n + 1)
      BY <1>1, <1>2, <1>4, <3>2, StillCaughtUp
    <3> QED
      BY <3>3 DEF rest
  <2>8. Since(e) = since \o z
    BY <1>6, <1>13, <2>1 DEF Since
  <2>9. x \in Outcomes /\ x.messages \in Seq(Said)
    BY <2>6 DEF Follows, Outcomes
  <2>10. After(x, d).messages = x.messages \o d.messages /\ After(x, d).imei = d.imei
    BY <1>9, AfterIs
  <2>11. e.decoded = t.decoded \o After(x, d).messages
    <3>1. (t.decoded \o x.messages) \o d.messages = t.decoded \o (x.messages \o d.messages)
      BY <1>1, <1>9, <2>9, SaidAssociative
    <3> QED
      BY <2>1, <2>6, <2>10, <3>1
  <2>12. e.received # e.restored.received
    <3>1. m + n # rho
      <4> HIDE DEF rho
      <4> QED
        BY <1>1
    <3> QED
      BY <2>1, <3>1
  <2>13. Now(e, After(x, d))
    <3> DEFINE y == After(x, d)
    <3>1. CaughtUp(p, Since(e), i, y) /\ rest = From(Since(e), y.n + 1) /\ e.decoded = t.decoded \o y.messages /\ d.imei = y.imei
      BY <2>7, <2>8, <2>10, <2>11
    <3> HIDE DEF y
    <3>2. Now(e, y)
      BY <2>1, <2>12, <3>1 DEF Now, i
    <3> QED
      BY <3>2 DEF y
  <2> QED
    BY <2>1, <2>2, <2>4, <2>13
<1> QED
  BY <1>3, <1>11, <1>12, <1>14, <1>15 DEF Followed

\* What Accept and Subscribe begin with.
OpenedWith(protocol, sent) == [NoConnection EXCEPT !.at = "open", !.protocol = protocol, !.sent = sent]
SubscribedTo(protocol, sent) == [NoConnection EXCEPT !.at = "topic", !.protocol = protocol, !.sent = sent, !.imei = Topic]

LEMMA AcceptKeeps ==
  ASSUME NEW protocol \in Protocol, NEW sent \in SeqOf(Fragment[protocol], MaxFragments), MAX_BUFFER \in Nat
  PROVE  /\ ConnOK(OpenedWith(protocol, sent)) /\ Followed(OpenedWith(protocol, sent))
         /\ ConnOK(SubscribedTo(protocol, sent))
<1> DEFINE e == [NoConnection EXCEPT !.at = "open", !.protocol = protocol, !.sent = sent]
           t == [NoConnection EXCEPT !.at = "topic", !.protocol = protocol, !.sent = sent, !.imei = Topic]
           none == <<>>
           never == NeverRestored
           S == SentBytes(e)
           x == Stop(0, 0)
<1>1. sent \in Seq(Fragment[protocol]) /\ sent \in Seq(Frag)
  BY SentIsTyped
<1>2. none \in Bytes /\ none \in Seq(Said) /\ Len(none) = 0
  BY NoMessages DEF Bytes
<1>3. NoConnection = [at |-> "none", protocol |-> "none", sent |-> none, received |-> 0, buffer |-> none, imei |-> 0,
                      admitted |-> 0, decoded |-> none, handled |-> none, lost |-> FALSE, lapsed |-> {}, restored |-> never]
  BY DEF NoConnection
<1>4. NoConnection \in Conns
  BY NoConnectionIsTyped
<1>5. never \in Restorations /\ never.imei = 0 /\ never.received = 0 /\ never.buffer = none /\ never.decoded = none
  BY NeverRestoredIs
<1> HIDE DEF none, never
<1>6. /\ e \in Conns /\ e.at = "open" /\ e.protocol = protocol /\ e.sent = sent /\ e.received = 0 /\ e.buffer = none
      /\ e.imei = 0 /\ e.decoded = none /\ e.handled = none /\ e.lapsed = {} /\ e.restored = never
  BY <1>1, <1>3, <1>4 DEF Conns
<1>7. /\ t \in Conns /\ t.at = "topic" /\ t.protocol = protocol /\ t.sent = sent /\ t.received = 0 /\ t.buffer = none
      /\ t.imei = Topic /\ t.decoded = none /\ t.handled = none /\ t.lapsed = {} /\ t.restored = never
  BY <1>1, <1>3, <1>4 DEF Conns, Topic
<1> HIDE DEF e, t
<1>8. S \in Bytes /\ Len(S) \in Nat
  BY <1>6, StreamIsBytes
<1>9. Len(sent) \in Nat
  BY <1>1, LenProperties
<1>10. ConnOK(e) /\ ConnOK(t)
  BY <1>1, <1>2, <1>5, <1>6, <1>7, <1>8, <1>9 DEF ConnOK
<1>11. SubSeq(S, 1, 0) = none
  BY SubSeqEmpty DEF none
<1>12. x.n = 0 /\ x.messages = none /\ x.imei = 0
  BY PlainOutcomes DEF none
<1>13. CaughtUp(protocol, none, 0, x)
  <2> DEFINE zero == 0
  <2>1. zero \in Nat
    OBVIOUS
  <2> HIDE DEF zero
  <2>2. CaughtUp(protocol, none, zero, Stop(0, zero))
    BY <2>1, CaughtUpFirst DEF none
  <2> QED
    BY <2>2 DEF zero
<1>14. From(none, 1) = none
  BY <1>2, FromEnds
<1>15. none \o none = none
  BY DEF none
<1>16. Early(e) = none
  BY <1>5, <1>6, <1>11 DEF Early
<1>17. Since(e) = none
  <2>1. SubSeq(S, 0 + 1, 0) = none
    BY <1>11
  <2> QED
    BY <1>5, <1>6, <1>15, <2>1 DEF Since
<1> HIDE DEF x
<1>18. From(none, x.n + 1) = none
  BY <1>12, <1>14
<1>19. Before(e, x)
  BY <1>5, <1>6, <1>12, <1>13, <1>16, <1>18 DEF Before
<1>20. Now(e, x)
  <2>1. x = Stop(0, 0)
    BY DEF x
  <2> QED
    BY <1>5, <1>6, <1>12, <1>15, <1>17, <1>18, <2>1 DEF Now
<1>21. Followed(e)
  BY <1>6, <1>19, <1>20 DEF Followed, never
<1> QED
  BY <1>10, <1>21 DEF e, t, OpenedWith, SubscribedTo

LEMMA NoConnectionIsFine ==
  ASSUME MAX_BUFFER \in Nat
  PROVE  ConnOK(NoConnection) /\ Followed(NoConnection)
<1> DEFINE c == NoConnection
           none == <<>>
           never == NeverRestored
<1>1. Len(none) = 0
  OBVIOUS
<1>2. c = [at |-> "none", protocol |-> "none", sent |-> none, received |-> 0, buffer |-> none, imei |-> 0,
           admitted |-> 0, decoded |-> none, handled |-> none, lost |-> FALSE, lapsed |-> {}, restored |-> never]
  BY DEF NoConnection
<1>3. c \in Conns /\ never.received = 0
  BY NoConnectionIsTyped, NeverRestoredIs
<1> HIDE DEF none, never
<1>4. /\ c.at = "none" /\ c.received = 0 /\ c.buffer = none /\ c.handled = none /\ c.decoded = none /\ c.lapsed = {}
      /\ c.restored = never
  BY <1>2
<1> HIDE DEF c
<1>5. Len(SentBytes(c)) \in Nat
  BY <1>3, StreamIsBytes
<1> QED
  BY <1>1, <1>3, <1>4, <1>5 DEF ConnOK, Followed, c

\* An IMEI restored where nothing had been restored before.
RestoredWith(c, imei) ==
  [c EXCEPT !.imei = imei,
            !.restored = [imei |-> imei, received |-> c.received, buffer |-> c.buffer, decoded |-> c.decoded]]

LEMMA RestoreKeeps ==
  ASSUME NEW c, ConnOK(c), Followed(c), c.at = "open", c.imei = 0, c.restored = NeverRestored, NEW imei \in Registered
  PROVE  ConnOK(RestoredWith(c, imei)) /\ Followed(RestoredWith(c, imei)) /\ RestoredWith(c, imei).at = "open"
<1> DEFINE t == [imei |-> imei, received |-> c.received, buffer |-> c.buffer, decoded |-> c.decoded]
           e == [c EXCEPT !.imei = imei, !.restored = t]
           p == c.protocol
           none == <<>>
           S == SentBytes(c)
           m == c.received
           never == NeverRestored
<1>1. /\ c \in Conns /\ p \in Protocol /\ c.sent \in Seq(Fragment[p]) /\ m \in Nat /\ c.buffer \in Bytes
      /\ c.decoded \in Seq(Said) /\ c.lost \in BOOLEAN /\ Len(c.buffer) <= MAX_BUFFER
      /\ Len(c.handled) <= Len(c.decoded) /\ c.lapsed \subseteq DOMAIN c.sent /\ m <= Len(S)
  BY DEF ConnOK, Conns
<1>2. imei \in Nat /\ imei # 0 /\ imei \in Registered \cup {0}
  BY DEF Registered
<1>3. never.imei = 0 /\ never.received = 0 /\ never.buffer = none /\ never.decoded = none
  BY NeverRestoredIs
<1>4. t \in Restorations /\ t.imei = imei /\ t.received = m /\ t.buffer = c.buffer /\ t.decoded = c.decoded
  BY <1>1, <1>2 DEF Restorations
<1> HIDE DEF t, never
<1>5. e \in Conns
  BY <1>1, <1>2, <1>4 DEF Conns
<1>6. /\ e.at = "open" /\ e.protocol = p /\ e.sent = c.sent /\ e.received = m /\ e.buffer = c.buffer /\ e.imei = imei
      /\ e.decoded = c.decoded /\ e.handled = c.handled /\ e.lost = c.lost /\ e.lapsed = c.lapsed /\ e.restored = t
  BY <1>1 DEF Conns
<1>7. e = RestoredWith(c, imei)
  BY DEF RestoredWith, t
<1> HIDE DEF e, p, none, S, m
<1>8. SentBytes(e) = S
  BY <1>6 DEF SentBytes, S
<1>9. ConnOK(e)
  <2>1. m <= m
    BY <1>1
  <2> QED
    BY <1>1, <1>4, <1>5, <1>6, <1>8, <2>1 DEF ConnOK
<1>10. ASSUME ~c.lost
       PROVE  (\E x : Before(e, x)) /\ (\E x : Now(e, x))
  <2> DEFINE first == SubSeq(S, 1, m)
             y == Stop(0, imei)
  <2>1. PICK x : Now(c, x)
    BY <1>10 DEF Followed
  <2>2. S \in Bytes /\ first \in Bytes
    <3> DEFINE w == Early(c)
               v == SubSeq(S, c.restored.received + 1, m)
    <3>1. first = w \o v /\ w \in Bytes /\ v \in Bytes /\ S \in Bytes
      BY PartsAreBytes DEF S, m
    <3> HIDE DEF first, w, v
    <3> QED
      BY <3>1, Joined
  <2>3. Since(c) = first
    <3>1. Since(c) = none \o SubSeq(S, 0 + 1, m)
      BY <1>3 DEF Since, S, m, never
    <3>2. none \o first = first
      BY <2>2, ConcatEmptySeq DEF none, Bytes
    <3>3. SubSeq(S, 0 + 1, m) = first
      BY 0 + 1 = 1
    <3> HIDE DEF first
    <3> QED
      BY <3>1, <3>2, <3>3
  <2>4. Early(e) = first
    BY <1>4, <1>6, <1>8 DEF Early
  <2>5. c.buffer = From(first, x.n + 1) /\ x.imei = 0
    BY <2>1, <2>3 DEF Now
  <2>6. x.messages \in Seq(Said) /\ c.decoded = x.messages
    <3>1. Follows(p, Since(c), c.restored.imei, x)
      BY <2>1, NowFollows DEF p
    <3>2. x.messages \in Seq(Said)
      BY <3>1 DEF Follows, Outcomes
    <3>3. c.decoded = none \o x.messages
      BY <1>3, <2>1 DEF Now, never
    <3>4. none \o x.messages = x.messages
      BY <3>2, ConcatEmptySeq DEF none
    <3> QED
      BY <3>2, <3>3, <3>4
  <2>7. CaughtUp(p, first, 0, x)
    <3>1. CASE m = 0
      <4> DEFINE zero == 0
      <4>1. x = Stop(0, 0)
        BY <1>3, <2>1, <3>1 DEF Now, m, never
      <4>2. first = <<>>
        BY <3>1, SubSeqEmpty
      <4>3. zero \in Nat
        OBVIOUS
      <4> HIDE DEF zero, first
      <4>4. CaughtUp(p, <<>>, zero, Stop(0, zero))
        BY <1>1, <4>3, CaughtUpFirst
      <4> QED
        BY <4>1, <4>2, <4>4 DEF zero
    <3>2. CASE m # 0
      BY <1>3, <2>1, <2>3, <3>2 DEF Now, m, p, never
    <3> QED
      BY <3>1, <3>2
  <2>8. Before(e, x)
    BY <1>4, <1>6, <2>4, <2>5, <2>6, <2>7 DEF Before
  <2>9. y.n = 0 /\ y.messages = none /\ y.imei = imei
    BY <1>2, Fields DEF none
  <2>10. Since(e) = c.buffer
    <3>1. SubSeq(S, m + 1, m) = none
      BY <1>1, SubSeqEmpty DEF none
    <3>2. c.buffer \o none = c.buffer
      BY <1>1, ConcatEmptySeq DEF none, Bytes
    <3> QED
      BY <1>4, <1>6, <1>8, <3>1, <3>2 DEF Since
  <2>11. From(c.buffer, 1) = c.buffer
    BY <1>1, FromEnds
  <2>12. c.decoded \o none = c.decoded
    BY <1>1, ConcatEmptySeq DEF none
  <2>13. y = Stop(0, imei)
    OBVIOUS
  <2> HIDE DEF y
  <2>14. From(c.buffer, y.n + 1) = c.buffer
    BY <2>9, <2>11
  <2>15. Now(e, y)
    BY <1>4, <1>6, <2>9, <2>10, <2>12, <2>13, <2>14 DEF Now
  <2> QED
    BY <2>8, <2>15
<1>11. Followed(e)
  BY <1>2, <1>4, <1>6, <1>10 DEF Followed
<1> QED
  BY <1>6, <1>7, <1>9, <1>11

-----------------------------------------------------------------------------
(* The fragments read one by one. *)

Readouts == [imei : Nat, messages : Seq(Said)]

LEMMA MessagesAreSaid ==
  ASSUME NEW f \in Frag, NEW i \in Nat
  PROVE  /\ Named(f, i) \in Nat /\ MessagesOf(f, i) \in Seq(Said) /\ (i # 0 => Named(f, i) # 0)
         /\ Len(MessagesOf(f, i)) \in Nat /\ Len(MessagesOf(f, i)) = Len(f.kinds)
         /\ \A j \in 1 .. Len(MessagesOf(f, i)) : MessagesOf(f, i)[j].imei = Named(f, i)
<1> DEFINE n == Len(f.kinds)
           j == Named(f, i)
           messages == MessagesOf(f, i)
<1>1. f.imei \in Nat /\ f.kinds \in Seq(Kinds)
  BY DEF Frag
<1>2. n \in Nat /\ DOMAIN f.kinds = 1 .. n /\ \A k \in 1 .. n : f.kinds[k] \in Kinds
  BY <1>1, LenProperties, ElementOfSeq
<1>3. j \in Nat /\ (i # 0 => j # 0)
  BY <1>1 DEF Named
<1>4. messages = [k \in 1 .. n |-> Message(f.kinds[k], j)]
  BY <1>2 DEF MessagesOf
<1> HIDE DEF n, j, messages
<1>5. \A k \in 1 .. n : Message(f.kinds[k], j) \in Said /\ Message(f.kinds[k], j).imei = j
  BY <1>2, <1>3 DEF Message, Said
<1>6. messages \in [1 .. n -> Said]
  BY <1>4, <1>5
<1>7. messages \in Seq(Said)
  BY <1>2, <1>6, SeqDef
<1>8. Len(messages) = n
  <2>1. Len(messages) \in Nat /\ DOMAIN messages = 1 .. Len(messages)
    BY <1>7, LenProperties
  <2>2. DOMAIN messages = 1 .. n
    BY <1>6
  <2> DEFINE x == Len(messages)
  <2>3. x \in Nat /\ \A k : k \in 1 .. n <=> k \in 1 .. x
    BY <2>1, <2>2
  <2> HIDE DEF x
  <2>4. (n # 0 => n \in 1 .. x) /\ (x # 0 => x \in 1 .. n)
    <3>1. (n # 0 => n \in 1 .. n) /\ (x # 0 => x \in 1 .. x)
      BY <1>2, <2>3
    <3> QED
      BY <2>3, <3>1, Zenon
  <2>5. x = n
    BY <1>2, <2>3, <2>4
  <2> QED
    BY <2>5 DEF x
<1>9. \A k \in 1 .. n : messages[k].imei = j
  BY <1>4, <1>5
<1> QED
  BY <1>2, <1>3, <1>7, <1>8, <1>9 DEF j, messages

LEMMA ReadIs ==
  ASSUME NEW r \in Readouts, NEW f \in Frag, NEW lapsed \in BOOLEAN, NEW heard, NEW i, i = IF lapsed THEN Topic ELSE r.imei
  PROVE  /\ i \in Nat /\ Read(r, f, lapsed, heard) \in Readouts /\ Read(r, f, lapsed, heard).imei = Named(f, i)
         /\ Read(r, f, lapsed, heard).messages = IF Named(f, i) \in heard THEN r.messages \o MessagesOf(f, i) ELSE r.messages
<1> DEFINE j == Named(f, i)
           said == MessagesOf(f, i)
           more == r.messages \o said
           messages == IF j \in heard THEN more ELSE r.messages
           e == Read(r, f, lapsed, heard)
<1>1. i \in Nat /\ r.messages \in Seq(Said)
  BY DEF Readouts, Topic
<1>2. j \in Nat /\ said \in Seq(Said)
  BY <1>1, MessagesAreSaid
<1>3. e = [imei |-> j, messages |-> messages]
  BY DEF Read, Named, MessagesOf
<1> HIDE DEF j, said, e
<1>4. more \in Seq(Said)
  BY <1>1, <1>2, ConcatProperties
<1> HIDE DEF more
<1>5. messages \in Seq(Said)
  BY <1>1, <1>4
<1> HIDE DEF messages
<1>6. e \in Readouts /\ e.imei = j /\ e.messages = messages
  BY <1>2, <1>3, <1>5 DEF Readouts
<1> QED
  BY <1>1, <1>6 DEF e, j, messages, more, said

LEMMA ReadingsAreDefined ==
  ASSUME NEW sent \in Seq(Frag), NEW imei \in Nat, NEW lapsed, NEW heard, NEW f, f = Readings(sent, imei, lapsed, heard)
  PROVE  /\ Len(sent) \in Nat /\ f[0].imei = imei /\ f[0].messages = <<>> /\ f[0] \in Readouts
         /\ \A k \in 1 .. Len(sent) : sent[k] \in Frag /\ f[k - 1] \in Readouts /\ f[k] \in Readouts
                                      /\ f[k] = Read(f[k - 1], sent[k], k \in lapsed, heard)
<1> DEFINE n == Len(sent)
           none == <<>>
           first == [imei |-> imei, messages |-> none]
           step == [u \in (1 .. n) \X Readouts |-> Read(u[2], sent[u[1]], u[1] \in lapsed, heard)]
           Made(g) == [k \in 0 .. n |-> IF k = 0 THEN first ELSE Read(g[k - 1], sent[k], k \in lapsed, heard)]
<1>1. n \in Nat /\ \A k \in 1 .. n : sent[k] \in Frag
  BY LenProperties, ElementOfSeq
<1>2. first \in Readouts /\ first.imei = imei /\ first.messages = none
  <2>1. none \in Seq(Said)
    BY NoMessages
  <2> HIDE DEF none
  <2> QED
    BY <2>1 DEF Readouts
<1>3. f = CHOOSE g : g = Made(g)
  BY DEF Readings
<1> HIDE DEF n, none, first
<1>4. ASSUME NEW d \in Readouts, NEW k \in 1 .. n PROVE Read(d, sent[k], k \in lapsed, heard) \in Readouts
  <2> DEFINE late == k \in lapsed
             i == IF late THEN Topic ELSE d.imei
  <2>1. late \in BOOLEAN /\ sent[k] \in Frag
    BY <1>1
  <2> HIDE DEF late
  <2>2. Read(d, sent[k], late, heard) \in Readouts
    BY <2>1, ReadIs
  <2> QED
    BY <2>2 DEF late
<1>5. step \in [(1 .. n) \X Readouts -> Readouts]
  <2>1. ASSUME NEW u \in (1 .. n) \X Readouts PROVE Read(u[2], sent[u[1]], u[1] \in lapsed, heard) \in Readouts
    BY <1>4
  <2> QED
    BY <2>1
<1>6. \A k \in 1 .. n, d \in Readouts : step[<<k, d>>] = Read(d, sent[k], k \in lapsed, heard)
  OBVIOUS
<1> HIDE DEF step
<1>7. PICK g : Solution(g, n, Readouts, first, step)
  BY <1>1, <1>2, <1>5, Recursion
<1> USE <1>7 DEF Solution
<1>8. \A k \in 1 .. n : g[k] = Read(g[k - 1], sent[k], k \in lapsed, heard)
  <2> SUFFICES ASSUME NEW k \in 1 .. n PROVE g[k] = Read(g[k - 1], sent[k], k \in lapsed, heard)
    OBVIOUS
  <2>1. k - 1 \in 0 .. n /\ g[k - 1] \in Readouts
    BY <1>1
  <2> QED
    BY <1>6, <1>7, <2>1
<1>9. g = Made(g)
  <2>1. ASSUME NEW k \in 0 .. n PROVE g[k] = IF k = 0 THEN first ELSE Read(g[k - 1], sent[k], k \in lapsed, heard)
    <3>1. CASE k = 0
      BY <1>7, <3>1
    <3>2. CASE k # 0
      <4>1. k \in 1 .. n
        BY <1>1, <3>2
      <4>2. g[k] = Read(g[k - 1], sent[k], k \in lapsed, heard)
        BY <1>8, <4>1
      <4> QED
        BY <3>2, <4>2
    <3> QED
      BY <3>1, <3>2
  <2>2. g = [k \in 0 .. n |-> g[k]]
    BY <1>7
  <2> QED
    BY <2>1, <2>2
<1>10. f = Made(f)
  <2> HIDE DEF Made
  <2> QED
    BY <1>3, <1>9
<1>11. \A k \in 0 .. n : f[k] = IF k = 0 THEN first ELSE Read(f[k - 1], sent[k], k \in lapsed, heard)
  BY <1>10
<1> DEFINE Y == {k \in 0 .. n : f[k] \in Readouts}
<1>12. 0 \in Y /\ f[0] = first
  <2>1. 0 \in 0 .. n /\ f[0] = IF 0 = 0 THEN first ELSE Read(f[0 - 1], sent[0], 0 \in lapsed, heard)
    BY <1>1, <1>11
  <2> QED
    BY <1>2, <2>1
<1>13. ASSUME NEW k \in 0 .. n - 1, k \in Y PROVE k + 1 \in Y
  <2> DEFINE m == k + 1
  <2>1. m \in 0 .. n /\ m \in 1 .. n /\ m # 0 /\ m - 1 = k /\ f[k] \in Readouts
    BY <1>1, <1>13
  <2> HIDE DEF m
  <2>2. f[m] = Read(f[k], sent[m], m \in lapsed, heard)
    <3>1. f[m] = Read(f[m - 1], sent[m], m \in lapsed, heard)
      BY <1>11, <2>1
    <3> QED
      BY <2>1, <3>1
  <2>3. f[m] \in Readouts
    BY <1>4, <2>1, <2>2
  <2> QED
    BY <2>1, <2>3 DEF m
<1> HIDE DEF Y
<1>14. \A k \in 0 .. n : k \in Y
  BY <1>1, <1>12, <1>13, Along
<1>15. \A k \in 0 .. n : f[k] \in Readouts
  BY <1>14 DEF Y
<1>16. ASSUME NEW k \in 1 .. n
       PROVE  f[k - 1] \in Readouts /\ f[k] \in Readouts /\ f[k] = Read(f[k - 1], sent[k], k \in lapsed, heard)
  <2>1. k \in 0 .. n /\ k - 1 \in 0 .. n /\ k # 0
    BY <1>1
  <2> QED
    BY <1>11, <1>15, <2>1
<1> QED
  BY <1>1, <1>2, <1>12, <1>16 DEF n, none

\* What was read first does not depend on the payloads after it.
LEMMA ReadingsAgree ==
  ASSUME NEW sent \in Seq(Frag), NEW imei \in Nat, NEW lapsed, NEW more, NEW heard, NEW n \in 0 .. Len(sent),
         \A k \in 1 .. n : k \in lapsed <=> k \in more
  PROVE  Readings(sent, imei, lapsed, heard)[n] = Readings(sent, imei, more, heard)[n]
<1> DEFINE f == Readings(sent, imei, lapsed, heard)
           g == Readings(sent, imei, more, heard)
           Y == {k \in 0 .. n : f[k] = g[k]}
<1>1. Len(sent) \in Nat /\ n \in Nat
  BY LenProperties
<1>2. f[0] \in Readouts /\ f[0].imei = imei /\ f[0].messages = <<>>
      /\ \A k \in 1 .. Len(sent) : f[k] = Read(f[k - 1], sent[k], k \in lapsed, heard)
  BY ReadingsAreDefined
<1>3. g[0] \in Readouts /\ g[0].imei = imei /\ g[0].messages = <<>>
      /\ \A k \in 1 .. Len(sent) : g[k] = Read(g[k - 1], sent[k], k \in more, heard)
  BY ReadingsAreDefined
<1> HIDE DEF f, g
<1>4. 0 \in Y
  <2>1. f[0] = g[0]
    BY <1>2, <1>3 DEF Readouts
  <2> QED
    BY <1>1, <2>1
<1>5. ASSUME NEW k \in 0 .. n - 1, k \in Y PROVE k + 1 \in Y
  <2> DEFINE m == k + 1
  <2>1. m \in 1 .. Len(sent) /\ m \in 1 .. n /\ m \in 0 .. n /\ m - 1 = k /\ f[k] = g[k]
    BY <1>1, <1>5
  <2> HIDE DEF m
  <2>2. f[m] = Read(f[m - 1], sent[m], m \in lapsed, heard) /\ g[m] = Read(g[m - 1], sent[m], m \in more, heard)
    BY <1>2, <1>3, <2>1
  <2>3. (m \in lapsed) = (m \in more)
    BY <2>1
  <2>4. f[m] = g[m]
    BY <2>1, <2>2, <2>3
  <2> QED
    BY <2>1, <2>4 DEF m
<1>6. n \in Y
  <2> HIDE DEF Y
  <2>1. n \in 0 .. n
    BY <1>1
  <2> QED
    BY <1>1, <1>4, <1>5, <2>1, Along
<1> QED
  BY <1>6 DEF f, g

-----------------------------------------------------------------------------
(* A topic as it runs. *)

Heeded(c) == Readings(c.sent, Topic, c.lapsed, {Topic})
Tuned(c) ==
  c.at = "topic" =>
    /\ c.protocol = "teltonika" => \A i \in DOMAIN c.sent : c.sent[i].imei = 0
    /\ c.lapsed \subseteq 1 .. c.received
    /\ c.imei # 0 /\ c.imei = Heeded(c)[c.received].imei /\ c.handled = Heeded(c)[c.received].messages

\* What onMessage makes of a payload.
Payload(c, expired) ==
  LET k == c.received + 1
      d == decode(c.protocol, c.sent[k].bytes, IF expired THEN Topic ELSE c.imei)
      messages == IF d.go = "throw" THEN <<>> ELSE d.messages
  IN  [c EXCEPT !.received = k, !.imei = d.imei, !.lapsed = IF expired THEN @ \cup {k} ELSE @,
                !.decoded = @ \o messages, !.handled = @ \o OfTopic(messages)]

\* A fragment that no login names is read alone, whatever the protocol.
LEMMA PayloadAlone ==
  ASSUME NEW protocol \in Protocol, NEW f \in Fragment[protocol], protocol = "teltonika" => f.imei = 0, NEW i \in Nat \ {0}
  PROVE  Alone(protocol, f, i)
<1>1. CASE protocol = "teltonika"
  BY <1>1, TeltonikaFragments
<1>2. CASE protocol # "teltonika"
  BY <1>2, FragmentsAreHeard DEF Heard
<1> QED
  BY <1>1, <1>2

\* Of a fragment's messages those about the topic's device: all or none.
LEMMA OfTopicOf ==
  ASSUME NEW f \in Frag, NEW i \in Nat, NEW messages, messages = MessagesOf(f, i)
  PROVE  OfTopic(messages) = IF Named(f, i) \in {Topic} THEN messages ELSE <<>>
<1>1. /\ messages \in Seq(Said) /\ Len(messages) \in Nat /\ \A j \in 1 .. Len(messages) : messages[j].imei = Named(f, i)
  BY MessagesAreSaid
<1>2. /\ OfTopic(messages) \in Seq(Said) /\ Len(OfTopic(messages)) <= Len(messages) /\ Len(OfTopic(messages)) \in Nat
      /\ (\A j \in 1 .. Len(messages) : messages[j].imei = Topic) => OfTopic(messages) = messages
      /\ Len(messages) # 0 /\ messages[1].imei # Topic => OfTopic(messages) = <<>>
  BY <1>1, OfTopicIs
<1>3. CASE Named(f, i) = Topic
  BY <1>1, <1>2, <1>3
<1>4. CASE Named(f, i) # Topic
  <2>1. CASE Len(messages) # 0
    <3>1. 1 \in 1 .. Len(messages)
      BY <1>1, <2>1
    <3>2. messages[1].imei = Named(f, i)
      BY <1>1, <3>1
    <3> QED
      BY <1>2, <1>4, <2>1, <3>2
  <2>2. CASE Len(messages) = 0
    <3> DEFINE said == OfTopic(messages)
    <3>1. said \in Seq(Said) /\ Len(said) = 0
      BY <1>2, <2>2
    <3> HIDE DEF said
    <3>2. said = <<>>
      BY <3>1, EmptySeq
    <3> QED
      BY <1>4, <3>2 DEF said
  <2> QED
    BY <2>1, <2>2
<1> QED
  BY <1>3, <1>4

LEMMA PayloadKeeps ==
  ASSUME NEW c, ConnOK(c), Tuned(c), c.at = "topic", c.received < Len(c.sent), NEW expired \in BOOLEAN
  PROVE  ConnOK(Payload(c, expired)) /\ Tuned(Payload(c, expired)) /\ Payload(c, expired).at = "topic"
<1> DEFINE k == c.received + 1
           p == c.protocol
           f == c.sent[k]
           r == Heeded(c)[c.received]
           i == IF expired THEN Topic ELSE c.imei
           d == decode(p, f.bytes, i)
           none == <<>>
           messages == IF d.go = "throw" THEN none ELSE d.messages
           lapsed == IF expired THEN c.lapsed \cup {k} ELSE c.lapsed
           decoded == c.decoded \o messages
           handled == c.handled \o OfTopic(messages)
           e == [c EXCEPT !.received = k, !.imei = d.imei, !.lapsed = lapsed, !.decoded = decoded, !.handled = handled]
           said == MessagesOf(f, i)
<1>1. /\ c \in Conns /\ p \in Protocol /\ c.sent \in Seq(Fragment[p]) /\ c.sent \in Seq(Frag) /\ c.received \in Nat
      /\ c.imei \in Nat /\ c.decoded \in Seq(Said) /\ c.handled \in Seq(Said) /\ c.lapsed \subseteq Nat
      /\ Len(c.handled) <= Len(c.decoded) /\ Len(c.buffer) <= MAX_BUFFER
  BY DEF ConnOK, Conns
<1>2. /\ c.imei # 0 /\ c.imei = r.imei /\ c.handled = r.messages /\ c.lapsed \subseteq 1 .. c.received
      /\ (p = "teltonika" => \A j \in DOMAIN c.sent : c.sent[j].imei = 0)
  BY DEF Tuned
<1>3. Len(c.sent) \in Nat /\ DOMAIN c.sent = 1 .. Len(c.sent)
  BY <1>1, LenProperties
<1>4. k \in 1 .. Len(c.sent) /\ k \in DOMAIN c.sent /\ k \in Nat /\ k - 1 = c.received /\ c.received \in 0 .. Len(c.sent)
  BY <1>1, <1>3
<1>5. f \in Fragment[p] /\ f \in Frag
  BY <1>1, <1>4, ElementOfSeq
<1>6. i \in Nat \ {0} /\ i \in Nat
  BY <1>1, <1>2 DEF Topic
<1>7. f.bytes \in Bytes /\ (p = "teltonika" => f.imei = 0)
  BY <1>2, <1>4, <1>5 DEF Frag
<1> HIDE DEF f, i, r, k, p
<1>8. Alone(p, f, i)
  BY <1>1, <1>5, <1>6, <1>7, PayloadAlone
<1>9. d.imei = Named(f, i) /\ said = messages
  BY <1>8 DEF Alone
<1>10. /\ Named(f, i) \in Nat /\ Named(f, i) # 0 /\ said \in Seq(Said) /\ Len(said) \in Nat
  BY <1>5, <1>6, MessagesAreSaid
<1>11. OfTopic(said) = IF Named(f, i) \in {Topic} THEN said ELSE <<>>
  BY <1>5, <1>6, OfTopicOf
<1>12. OfTopic(said) \in Seq(Said) /\ Len(OfTopic(said)) <= Len(said) /\ Len(OfTopic(said)) \in Nat
  BY <1>10, OfTopicIs
<1> HIDE DEF said
<1>13. Payload(c, expired) = e
  BY DEF Payload, k, f, p, i
<1> HIDE DEF d, messages
<1>14. /\ decoded \in Seq(Said) /\ Len(decoded) = Len(c.decoded) + Len(said)
       /\ handled \in Seq(Said) /\ Len(handled) = Len(c.handled) + Len(OfTopic(said))
  BY <1>1, <1>9, <1>10, <1>12, ConcatProperties
<1>15. Len(handled) <= Len(decoded)
  <2> DEFINE x == Len(c.handled)
             y == Len(c.decoded)
             z == Len(said)
             v == Len(OfTopic(said))
  <2>1. x \in Nat /\ y \in Nat
    BY <1>1, LenProperties
  <2>2. z \in Nat /\ v \in Nat /\ v <= z /\ x <= y
    BY <1>1, <1>10, <1>12
  <2> HIDE DEF x, y, z, v
  <2>3. x + v <= y + z
    BY <2>1, <2>2
  <2> QED
    BY <1>14, <2>3 DEF x, y, z, v
<1>16. /\ lapsed \subseteq Nat /\ lapsed \subseteq 1 .. k /\ lapsed \subseteq DOMAIN c.sent
       /\ (k \in lapsed <=> expired) /\ \A j \in 1 .. c.received : j \in c.lapsed <=> j \in lapsed
  <2>1. k \notin 1 .. c.received /\ 1 .. c.received \subseteq 1 .. k /\ 1 .. k \subseteq 1 .. Len(c.sent) /\ k \in 1 .. k
    <3> DEFINE x == c.received
               y == Len(c.sent)
    <3>1. x \in Nat /\ y \in Nat /\ k \in 1 .. y /\ k \in Nat /\ k - 1 = x
      BY <1>1, <1>3, <1>4
    <3> HIDE DEF x, y
    <3>2. k \notin 1 .. x /\ 1 .. x \subseteq 1 .. k /\ 1 .. k \subseteq 1 .. y /\ k \in 1 .. k
      BY <3>1
    <3> QED
      BY <3>2 DEF x, y
  <2>2. 1 .. k \subseteq Nat
    OBVIOUS
  <2> QED
    BY <1>2, <1>3, <2>1, <2>2
<1> HIDE DEF decoded, lapsed
<1>17. handled = IF Named(f, i) \in {Topic} THEN c.handled \o said ELSE c.handled
  <2>1. c.handled \o <<>> = c.handled
    BY <1>1, ConcatEmptySeq
  <2> QED
    BY <1>9, <1>11, <2>1
<1> HIDE DEF handled
<1>18. e \in Conns
  BY <1>1, <1>4, <1>9, <1>10, <1>14, <1>16 DEF Conns
<1>19. /\ e.at = "topic" /\ e.protocol = p /\ e.sent = c.sent /\ e.received = k /\ e.buffer = c.buffer /\ e.imei = d.imei
       /\ e.lapsed = lapsed /\ e.decoded = decoded /\ e.handled = handled /\ e.restored = c.restored
  BY <1>1 DEF Conns, p
<1> HIDE DEF e
<1>20. ConnOK(e)
  <2>1. e.received <= Len(e.sent)
    BY <1>3, <1>4, <1>19
  <2>2. e.restored.received <= e.received
    <3>1. c.restored.received \in Nat /\ c.restored.received <= c.received
      BY <1>1 DEF ConnOK, Conns, Restorations
    <3> DEFINE x == c.restored.received
               y == c.received
    <3>2. x \in Nat /\ y \in Nat /\ x <= y /\ k - 1 = y /\ k \in Nat
      BY <1>1, <1>4, <3>1
    <3> HIDE DEF x, y
    <3>3. x <= k
      BY <3>2
    <3> QED
      BY <1>19, <3>3 DEF x
  <2> QED
    BY <1>1, <1>15, <1>16, <1>18, <1>19, <2>1, <2>2 DEF ConnOK
<1>21. Tuned(e)
  <2> DEFINE g == Readings(c.sent, Topic, lapsed, {Topic})
             topic == Topic
             late == k \in lapsed
  <2>1. topic \in Nat
    BY DEF Topic
  <2>2. g[c.received] = r
    <3>1. Readings(c.sent, topic, c.lapsed, {topic})[c.received] = Readings(c.sent, topic, lapsed, {topic})[c.received]
      <4> DEFINE n == c.received
                 sent == c.sent
                 old == c.lapsed
                 heard == {topic}
      <4>1. sent \in Seq(Frag) /\ n \in 0 .. Len(sent) /\ \A j \in 1 .. n : j \in old <=> j \in lapsed
        BY <1>1, <1>4, <1>16
      <4> HIDE DEF n, sent, old, heard, topic
      <4>2. Readings(sent, topic, old, heard)[n] = Readings(sent, topic, lapsed, heard)[n]
        BY <2>1, <4>1, ReadingsAgree
      <4> QED
        BY <4>2 DEF n, sent, old, heard
    <3> QED
      BY <3>1 DEF r, Heeded
  <2>3. g[k - 1] \in Readouts /\ g[k] = Read(g[k - 1], c.sent[k], k \in lapsed, {Topic})
    <3>1. Readings(c.sent, topic, lapsed, {topic})[k - 1] \in Readouts
          /\ Readings(c.sent, topic, lapsed, {topic})[k]
             = Read(Readings(c.sent, topic, lapsed, {topic})[k - 1], c.sent[k], k \in lapsed, {topic})
      <4> HIDE DEF topic
      <4> QED
        BY <1>1, <1>4, <2>1, ReadingsAreDefined
    <3> QED
      BY <3>1
  <2> HIDE DEF g
  <2>4. r \in Readouts /\ g[k] = Read(r, f, late, {Topic})
    BY <1>4, <2>2, <2>3 DEF f
  <2>5. late \in BOOLEAN /\ i = IF late THEN Topic ELSE r.imei
    BY <1>2, <1>16 DEF i
  <2> HIDE DEF late, topic
  <2>6. /\ Read(r, f, late, {Topic}).imei = Named(f, i)
        /\ Read(r, f, late, {Topic}).messages = IF Named(f, i) \in {Topic} THEN r.messages \o MessagesOf(f, i) ELSE r.messages
    BY <1>5, <2>4, <2>5, ReadIs
  <2>7. g[k].imei = d.imei /\ g[k].messages = handled
    BY <1>2, <1>9, <1>17, <2>4, <2>6 DEF said
  <2>8. Heeded(e) = g
    BY <1>19 DEF Heeded, g
  <2> QED
    BY <1>2, <1>9, <1>10, <1>16, <1>19, <2>7, <2>8 DEF Tuned
<1> QED
  BY <1>13, <1>19, <1>20, <1>21

LEMMA SubscribeTunes ==
  ASSUME NEW protocol \in Protocol, NEW sent \in SeqOf(Fragment[protocol], MaxFragments),
         protocol = "teltonika" => \A i \in DOMAIN sent : sent[i].imei = 0
  PROVE  Tuned(SubscribedTo(protocol, sent))
<1> DEFINE t == [NoConnection EXCEPT !.at = "topic", !.protocol = protocol, !.sent = sent, !.imei = Topic]
           none == <<>>
           never == NeverRestored
           topic == Topic
           heard == {Topic}
           late == {}
           g == Readings(sent, topic, late, heard)
<1>1. sent \in Seq(Frag)
  BY SentIsTyped
<1>2. NoConnection = [at |-> "none", protocol |-> "none", sent |-> none, received |-> 0, buffer |-> none, imei |-> 0,
                      admitted |-> 0, decoded |-> none, handled |-> none, lost |-> FALSE, lapsed |-> {}, restored |-> never]
  BY DEF NoConnection
<1> HIDE DEF none, never
<1>3. /\ t.at = "topic" /\ t.protocol = protocol /\ t.sent = sent /\ t.received = 0 /\ t.imei = Topic
      /\ t.handled = none /\ t.lapsed = {}
  BY <1>2
<1> HIDE DEF t
<1>4. topic \in Nat /\ topic # 0
  BY DEF Topic
<1> HIDE DEF topic, late, heard
<1>5. g[0].imei = topic /\ g[0].messages = <<>>
  BY <1>1, <1>4, ReadingsAreDefined
<1>6. Heeded(t) = g
  BY <1>3 DEF Heeded, topic, late, heard
<1> HIDE DEF g
<1> QED
  BY <1>3, <1>4, <1>5, <1>6 DEF Tuned, t, topic, none, SubscribedTo

-----------------------------------------------------------------------------
(* To a decoder with an IMEI a Teltonika login is noise. *)

LEMMA TeltonikaNoiseByte ==
  ASSUME NEW z \in Bytes, NEW j \in 1 .. 4, j <= Len(z), z[j] # 0, NEW i \in Nat \ {0}
  PROVE  /\ decode("teltonika", z, i).messages = decode("teltonika", From(z, 2), i).messages
         /\ SameEnd(decode("teltonika", z, i), decode("teltonika", From(z, 2), i))
<1> DEFINE p == "teltonika"
           r == From(z, 2)
           none == <<>>
<1>1. Len(z) \in Nat /\ p \in Protocol /\ Len(z) >= 1
  BY ByteOf DEF Protocol
<1>2. r \in Bytes /\ Len(r) = Len(z) - 1 /\ From(z, 1 + 1) = r
  <2>1. 1 \in 0 .. Len(z) /\ 1 + 1 = 2
    BY <1>1
  <2>2. From(z, 1 + 1) \in Bytes /\ Len(From(z, 1 + 1)) = Len(z) - 1
    BY <2>1, FromFacts
  <2> QED
    BY <2>1, <2>2
<1>3. \A b \in Bytes : Iteration(p, b, i) = TeltonikaIteration(b, i)
  BY DEF Iteration
<1> HIDE DEF r, p
<1>4. CASE Len(z) < 12
  <2>1. Len(r) < 12
    BY <1>1, <1>2, <1>4
  <2>2. Iteration(p, z, i) = Stop(0, i) /\ Iteration(p, r, i) = Stop(0, i)
    <3>1. TeltonikaIteration(z, i) = Stop(0, i)
      BY <1>4, TeltonikaCases
    <3>2. TeltonikaIteration(r, i) = Stop(0, i)
      BY <1>2, <2>1, TeltonikaCases
    <3> QED
      BY <1>2, <1>3, <3>1, <3>2
  <2>3. Stop(0, i).go # "next"
    BY Fields
  <2>4. decode(p, z, i) = Stop(0, i)
    BY <1>1, <2>2, <2>3, DecodeUnrolls
  <2>5. decode(p, r, i) = Stop(0, i)
    BY <1>1, <1>2, <2>2, <2>3, DecodeUnrolls
  <2> QED
    BY <2>4, <2>5 DEF SameEnd, p, r
<1>5. CASE Len(z) >= 12
  <2> DEFINE e == Iteration(p, z, i)
             d == decode(p, r, i)
  <2>1. e = Skip(1, i)
    <3>1. ~Framed(z)
      BY DEF Framed
    <3>2. TeltonikaIteration(z, i) = Skip(1, i)
      BY <1>5, <3>1, TeltonikaCases
    <3> QED
      BY <1>3, <3>2
  <2>2. e.go = "next" /\ e.n = 1 /\ e.messages = none /\ e.imei = i
    <3> HIDE DEF e
    <3> QED
      BY <2>1, Fields
  <2>3. decode(p, z, i) = After(e, d)
    <3>1. decode(p, z, i) = After(e, decode(p, From(z, e.n + 1), e.imei))
      BY <1>1, <2>2, DecodeUnrolls
    <3> HIDE DEF e
    <3> QED
      BY <1>2, <2>2, <3>1
  <2>4. d \in Outcomes /\ d.messages \in Seq(Said)
    BY <1>1, <1>2, DecodeParts
  <2> HIDE DEF d, e
  <2>5. After(e, d).messages = e.messages \o d.messages /\ After(e, d).go = d.go /\ After(e, d).imei = d.imei
    BY <2>4, AfterIs
  <2>6. none \o d.messages = d.messages
    BY <2>4, ConcatEmptySeq
  <2> HIDE DEF none
  <2> QED
    BY <2>2, <2>3, <2>5, <2>6 DEF SameEnd, d, p, r
<1> QED
  BY <1>1, <1>4, <1>5

LEMMA LoginIsSkipped ==
  ASSUME NEW x \in Bytes, Len(x) = 3, x[2] = 1, x[3] # 0, NEW i \in Nat \ {0}
  PROVE  Legibly("teltonika", x, <<>>, i, i)
<1> DEFINE none == <<>>
           p == "teltonika"
<1>0. p \in Protocol /\ i \in Nat
  BY DEF Protocol
<1>1. ASSUME NEW y \in Bytes
      PROVE  /\ decode(p, x \o y, i).messages = decode(p, y, i).messages
             /\ SameEnd(decode(p, x \o y, i), decode(p, y, i))
  <2> DEFINE z == x \o y
             s == From(z, 2)
             t == From(s, 2)
             u == From(t, 2)
  <2>1. /\ z \in Bytes /\ Len(z) = 3 + Len(y) /\ Len(y) \in Nat /\ z[2] = 1 /\ z[3] = x[3] /\ From(z, 4) = y
    <3>1. /\ x \o y \in Bytes /\ Len(x \o y) = Len(x) + Len(y) /\ Len(y) \in Nat
          /\ \A j \in 1 .. Len(x) : (x \o y)[j] = x[j]
      BY Joined
    <3>2. 2 \in 1 .. Len(x) /\ 3 \in 1 .. Len(x) /\ 3 \in 0 .. Len(x) /\ 3 + 1 = 4
      OBVIOUS
    <3>3. From(x \o y, 3 + 1) = From(x, 3 + 1) \o y
      <4> DEFINE n == 3
      <4>1. n \in 0 .. Len(x)
        OBVIOUS
      <4> HIDE DEF n
      <4>2. From(x \o y, n + 1) = From(x, n + 1) \o y
        BY <4>1, FromJoined
      <4> QED
        BY <4>2 DEF n
    <3>4. From(x, 3 + 1) = <<>>
      BY FromEnds
    <3>5. <<>> \o y = y
      BY ConcatEmptySeq DEF Bytes
    <3>6. From(x \o y, 3 + 1) = y
      BY <3>3, <3>4, <3>5
    <3> QED
      BY <3>1, <3>2, <3>6
  <2> HIDE DEF z
  <2>2. s \in Bytes /\ Len(s) = 2 + Len(y) /\ s[1] = 1 /\ s[2] = x[3]
    <3> DEFINE n == 1
    <3>1. n \in 0 .. Len(z) /\ 1 \in 1 .. Len(z) - n /\ 2 \in 1 .. Len(z) - n
      BY <2>1
    <3> HIDE DEF n
    <3>2. From(z, n + 1) \in Bytes /\ Len(From(z, n + 1)) = Len(z) - n /\ \A j \in 1 .. Len(z) - n : From(z, n + 1)[j] = z[n + j]
      BY <2>1, <3>1, FromFacts
    <3>3. From(z, n + 1)[1] = z[n + 1] /\ From(z, n + 1)[2] = z[n + 2]
      BY <3>1, <3>2
    <3> QED
      BY <2>1, <3>2, <3>3 DEF n
  <2>3. From(s, 3) = y
    <3> DEFINE n == 1
               m == 2
    <3>1. n \in 0 .. Len(z) /\ m \in 0 .. Len(z) - n
      BY <2>1
    <3> HIDE DEF n, m
    <3>2. From(From(z, n + 1), m + 1) = From(z, n + m + 1)
      BY <2>1, <3>1, FromFrom
    <3> QED
      BY <2>1, <3>2 DEF n, m
  <2> HIDE DEF s
  <2>4. t \in Bytes /\ Len(t) = 1 + Len(y) /\ t[1] = x[3]
    <3> DEFINE n == 1
    <3>1. n \in 0 .. Len(s) /\ 1 \in 1 .. Len(s) - n
      BY <2>1, <2>2
    <3> HIDE DEF n
    <3>2. From(s, n + 1) \in Bytes /\ Len(From(s, n + 1)) = Len(s) - n /\ \A j \in 1 .. Len(s) - n : From(s, n + 1)[j] = s[n + j]
      BY <2>2, <3>1, FromFacts
    <3>3. From(s, n + 1)[1] = s[n + 1]
      BY <3>1, <3>2
    <3> QED
      BY <2>1, <2>2, <3>2, <3>3 DEF n
  <2>5. u = y
    <3> DEFINE n == 1
               m == 1
    <3>1. n \in 0 .. Len(s) /\ m \in 0 .. Len(s) - n
      BY <2>1, <2>2
    <3> HIDE DEF n, m
    <3>2. From(From(s, n + 1), m + 1) = From(s, n + m + 1)
      BY <2>2, <3>1, FromFrom
    <3> QED
      BY <2>3, <3>2 DEF n, m
  <2> HIDE DEF t
  <2>6. decode(p, z, i).messages = decode(p, s, i).messages /\ SameEnd(decode(p, z, i), decode(p, s, i))
    <3> DEFINE k == 2
    <3>1. k \in 1 .. 4 /\ k <= Len(z) /\ z[k] # 0
      BY <2>1
    <3> HIDE DEF k
    <3> QED
      BY <2>1, <3>1, TeltonikaNoiseByte DEF s
  <2>7. decode(p, s, i).messages = decode(p, t, i).messages /\ SameEnd(decode(p, s, i), decode(p, t, i))
    <3> DEFINE k == 1
    <3>1. k \in 1 .. 4 /\ k <= Len(s) /\ s[k] # 0
      BY <2>1, <2>2
    <3> HIDE DEF k
    <3> QED
      BY <2>2, <3>1, TeltonikaNoiseByte DEF t
  <2>8. decode(p, t, i).messages = decode(p, u, i).messages /\ SameEnd(decode(p, t, i), decode(p, u, i))
    <3> DEFINE k == 1
    <3>1. k \in 1 .. 4 /\ k <= Len(t) /\ t[k] # 0
      BY <2>1, <2>4
    <3> HIDE DEF k
    <3> QED
      BY <2>4, <3>1, TeltonikaNoiseByte
  <2> QED
    BY <2>5, <2>6, <2>7, <2>8 DEF SameEnd, z
<1>2. ASSUME NEW m \in 0 .. Len(x) - 1 PROVE decode(p, SubSeq(x, 1, m), i).messages = none
  <2> DEFINE y == SubSeq(x, 1, m)
  <2>1. y \in Bytes /\ Len(y) < 12
    <3>1. m \in 0 .. Len(x) /\ m < 12
      OBVIOUS
    <3> QED
      BY <3>1, PrefixFacts
  <2> HIDE DEF y
  <2>2. TeltonikaIteration(y, i) = Stop(0, i)
    BY <2>1, TeltonikaCases
  <2>3. Iteration(p, y, i) = Stop(0, i)
    BY <2>2 DEF Iteration
  <2>4. Stop(0, i).go # "next" /\ Stop(0, i).messages = none
    BY Fields
  <2> HIDE DEF p
  <2>5. decode(p, y, i) = Stop(0, i)
    BY <1>0, <2>1, <2>3, <2>4, DecodeUnrolls
  <2> QED
    BY <2>4, <2>5 DEF y
<1>3. ASSUME NEW y \in Bytes PROVE none \o decode(p, y, i).messages = decode(p, y, i).messages
  <2> DEFINE said == decode(p, y, i).messages
  <2>1. said \in Seq(Said)
    BY <1>0, DecodeParts
  <2> HIDE DEF said
  <2> QED
    BY <2>1, ConcatEmptySeq DEF said
<1> HIDE DEF none
<1> QED
  BY <1>1, <1>2, <1>3 DEF Legibly, none

\* Only a login names a device.
LEMMA LoginBytes ==
  ASSUME NEW f \in Fragment["teltonika"], f.imei # 0
  PROVE  f.bytes \in Bytes /\ Len(f.bytes) = 3 /\ f.bytes[2] = 1 /\ f.bytes[3] # 0
<1> DEFINE Told == f.bytes \in Bytes /\ Len(f.bytes) = 3 /\ f.bytes[2] = 1 /\ f.bytes[3] # 0
<1>1. ASSUME f = Whole(encodeTeltonikaImei(1), <<"login">>, 1) PROVE Told
  <2>1. f.bytes = <<0, 1, 1>>
    BY <1>1, FragmentParts DEF encodeTeltonikaImei
  <2> QED
    BY <2>1 DEF Bytes
<1>2. ASSUME NEW x, NEW kinds, f = Whole(x, kinds, 0) \/ f = Noise(x) \/ f = Cut(x) PROVE FALSE
  BY <1>2, FragmentParts
<1> HIDE DEF Told
<1>3. Told
  BY <1>1, <1>2, Zenon DEF Fragment
<1> QED
  BY <1>3 DEF Told

-----------------------------------------------------------------------------
(* A legible stream, fragment by fragment. *)

\* None of the fragments can be mistaken for the beginning of another frame.
Clear(protocol, sent) ==
  /\ \A k \in DOMAIN sent : sent[k].is # "cut"
  /\ protocol = "teltonika" => \A k \in DOMAIN sent : sent[k].is = "frame" /\ (k = 1 <=> sent[k].imei # 0)

\* Each fragment can be read where it comes, in a stream read from the context start.
Readably(protocol, sent, start) ==
  \A k \in 1 .. Len(sent), i \in Nat :
    (protocol = "teltonika" => (k = 1 /\ start = 0 <=> i = 0)) =>
      Readable(protocol, sent[k], i) /\ (protocol = "teltonika" => Named(sent[k], i) # 0)

\* What any read that begins with the first k fragments has of them.
ReadUpTo(protocol, sent, start, k) ==
  LET r == Readings(sent, start, {}, Nat)[k]
      b == BytesOf(sent)[k]
  IN  /\ r \in Readouts /\ b \in Bytes
      /\ k = 0 => r.imei = start
      /\ k # 0 /\ protocol = "teltonika" => r.imei # 0
      /\ \A y \in Bytes :
           /\ decode(protocol, b \o y, start).messages = r.messages \o decode(protocol, y, r.imei).messages
           /\ SameEnd(decode(protocol, b \o y, start), decode(protocol, y, r.imei))

\* All but Teltonika's frames can be read from any context, and its login from none.
LEMMA ClearIsReadable ==
  ASSUME NEW protocol \in Protocol, NEW sent \in Seq(Fragment[protocol]), Clear(protocol, sent),
         NEW start \in Nat, protocol = "teltonika" => start = 0
  PROVE  Readably(protocol, sent, start)
<1> SUFFICES ASSUME NEW k \in 1 .. Len(sent), NEW i \in Nat, protocol = "teltonika" => (k = 1 /\ start = 0 <=> i = 0)
             PROVE  Readable(protocol, sent[k], i) /\ (protocol = "teltonika" => Named(sent[k], i) # 0)
  BY DEF Readably
<1> DEFINE f == sent[k]
<1>1. f \in Fragment[protocol] /\ DOMAIN sent = 1 .. Len(sent)
  BY LenProperties, ElementOfSeq
<1>2. f.is # "cut" /\ (protocol = "teltonika" => f.is = "frame" /\ (k = 1 <=> f.imei # 0))
  BY <1>1 DEF Clear
<1> HIDE DEF f
<1>3. CASE protocol = "teltonika"
  <2>1. f.is = "frame" /\ (i = 0 <=> f.imei # 0)
    BY <1>2, <1>3
  <2>2. Heard("teltonika", f, i)
    BY <1>1, <1>3, <2>1, TeltonikaFragments
  <2>3. Named(f, i) # 0
    BY <2>1 DEF Named
  <2> QED
    BY <1>2, <1>3, <2>2, <2>3 DEF Heard, f
<1>4. CASE protocol # "teltonika"
  <2>1. Heard(protocol, f, i)
    BY <1>1, <1>4, FragmentsAreHeard
  <2> QED
    BY <1>2, <1>4, <2>1 DEF Heard, f
<1> QED
  BY <1>3, <1>4

\* The stream as a Teltonika decoder with an IMEI sees it.
AsNoise(sent) == [k \in DOMAIN sent |-> IF sent[k].imei # 0 THEN Noise(sent[k].bytes) ELSE sent[k]]

LEMMA NoiseIsReadable ==
  ASSUME NEW sent \in Seq(Fragment["teltonika"]), sent \in Seq(Frag), Clear("teltonika", sent), NEW start \in Nat \ {0}
  PROVE  /\ AsNoise(sent) \in Seq(Frag) /\ Len(AsNoise(sent)) = Len(sent) /\ Readably("teltonika", AsNoise(sent), start)
         /\ \A k \in 0 .. Len(sent) : BytesOf(AsNoise(sent))[k] = BytesOf(sent)[k]
<1> DEFINE n == Len(sent)
           seen == AsNoise(sent)
           h == BytesOf(sent)
           g == BytesOf(seen)
           Y == {k \in 0 .. n : g[k] = h[k]}
<1>1. n \in Nat /\ DOMAIN sent = 1 .. n
  BY LenProperties
<1>2. ASSUME NEW k \in 1 .. n
      PROVE  sent[k] \in Fragment["teltonika"] /\ sent[k] \in Frag /\ sent[k].bytes \in Bytes
  <2>1. sent[k] \in Fragment["teltonika"] /\ sent[k] \in Frag
    BY <1>1, ElementOfSeq
  <2> QED
    BY <2>1 DEF Frag
<1>3. seen = [k \in 1 .. n |-> IF sent[k].imei # 0 THEN Noise(sent[k].bytes) ELSE sent[k]]
  BY <1>1 DEF AsNoise
<1> HIDE DEF n, seen
<1>4. ASSUME NEW k \in 1 .. n
      PROVE  seen[k] = (IF sent[k].imei # 0 THEN Noise(sent[k].bytes) ELSE sent[k])
             /\ seen[k] \in Frag /\ seen[k].bytes = sent[k].bytes
  <2>1. seen[k] = IF sent[k].imei # 0 THEN Noise(sent[k].bytes) ELSE sent[k]
    BY <1>3
  <2>2. Noise(sent[k].bytes) \in Frag /\ Noise(sent[k].bytes).bytes = sent[k].bytes
    BY <1>2, FragmentParts
  <2> QED
    BY <1>2, <2>1, <2>2
<1>5. seen \in [1 .. n -> Frag]
  BY <1>3, <1>4
<1>6. seen \in Seq(Frag)
  BY <1>1, <1>5, SeqDef
<1>7. Len(seen) = n
  BY <1>1, <1>5, <1>6, LenProperties
<1>8. /\ h[0] = <<>> /\ \A k \in 1 .. n : h[k] = h[k - 1] \o sent[k].bytes
  BY BytesAreDefined DEF n
<1>9. g[0] = <<>> /\ \A k \in 1 .. n : g[k] = g[k - 1] \o seen[k].bytes
  BY <1>6, <1>7, BytesAreDefined
<1> HIDE DEF g, h
<1>10. 0 \in Y
  BY <1>1, <1>8, <1>9
<1>11. ASSUME NEW k \in 0 .. n - 1, k \in Y PROVE k + 1 \in Y
  <2> DEFINE m == k + 1
  <2>1. m \in 1 .. n /\ m \in 0 .. n /\ m - 1 = k /\ g[k] = h[k]
    BY <1>1, <1>11
  <2> HIDE DEF m
  <2>2. g[m] = g[m - 1] \o seen[m].bytes /\ h[m] = h[m - 1] \o sent[m].bytes /\ seen[m].bytes = sent[m].bytes
    BY <1>4, <1>8, <1>9, <2>1
  <2>3. g[m] = h[m]
    BY <2>1, <2>2
  <2> QED
    BY <2>1, <2>3 DEF m
<1> HIDE DEF Y
<1>12. \A k \in 0 .. n : k \in Y
  BY <1>1, <1>10, <1>11, Along
<1>13. ASSUME NEW k \in 1 .. n, NEW i \in Nat, i # 0
       PROVE  Readable("teltonika", seen[k], i) /\ Named(seen[k], i) # 0
  <2> DEFINE f == sent[k]
             x == f.bytes
  <2>1. f \in Fragment["teltonika"] /\ f.is = "frame" /\ f.bytes \in Bytes
    BY <1>1, <1>2 DEF Clear
  <2>2. seen[k] = IF f.imei # 0 THEN Noise(f.bytes) ELSE f
    BY <1>4
  <2> HIDE DEF f
  <2>3. CASE f.imei # 0
    <3>1. x \in Bytes /\ Len(x) = 3 /\ x[2] = 1 /\ x[3] # 0
      BY <2>1, <2>3, LoginBytes
    <3> HIDE DEF x
    <3>2. Legibly("teltonika", x, <<>>, i, i)
      BY <1>13, <3>1, LoginIsSkipped
    <3>3. seen[k] = Noise(x)
      BY <2>2, <2>3 DEF x
    <3>4. "teltonika" \in Protocol
      BY DEF Protocol
    <3>5. Heard("teltonika", seen[k], i)
      BY <3>1, <3>2, <3>3, <3>4, NoiseIsHeard
    <3>6. seen[k].is = "noise" /\ seen[k].imei = 0
      <4>1. Noise(x).is = "noise" /\ Noise(x).imei = 0
        BY FragmentParts
      <4> QED
        BY <3>3, <4>1
    <3>7. seen[k].is # "cut"
      BY <3>6
    <3> QED
      BY <1>13, <3>5, <3>6, <3>7 DEF Heard, Named
  <2>4. CASE f.imei = 0
    <3>1. Heard("teltonika", f, i)
      BY <1>13, <2>1, <2>4, TeltonikaFragments
    <3>2. seen[k] = f /\ f.is # "cut"
      BY <2>1, <2>2, <2>4
    <3> QED
      BY <1>13, <2>4, <3>1, <3>2 DEF Heard, Named
  <2> QED
    BY <2>3, <2>4
<1>14. Readably("teltonika", seen, start)
  BY <1>7, <1>13 DEF Readably
<1> QED
  BY <1>6, <1>7, <1>12, <1>14 DEF n, seen, g, h, Y

LEMMA ReadsOn ==
  ASSUME NEW protocol \in Protocol, NEW sent \in Seq(Frag), NEW start \in Nat, Readably(protocol, sent, start),
         NEW k \in 1 .. Len(sent), ReadUpTo(protocol, sent, start, k - 1)
  PROVE  ReadUpTo(protocol, sent, start, k)
<1> DEFINE late == {}
           g == Readings(sent, start, late, Nat)
           h == BytesOf(sent)
           r == g[k - 1]
           b == h[k - 1]
           f == sent[k]
           i == r.imei
           j == Named(f, i)
           said == MessagesOf(f, i)
           x == f.bytes
<1>1. k \in Nat /\ k # 0 /\ (k - 1 = 0 <=> k = 1)
  BY LenProperties
<1>2. /\ r \in Readouts /\ b \in Bytes /\ (k - 1 = 0 => r.imei = start) /\ (k - 1 # 0 /\ protocol = "teltonika" => r.imei # 0)
      /\ \A y \in Bytes : /\ decode(protocol, b \o y, start).messages = r.messages \o decode(protocol, y, r.imei).messages
                          /\ SameEnd(decode(protocol, b \o y, start), decode(protocol, y, r.imei))
  BY DEF ReadUpTo
<1> HIDE DEF late
<1>3. g[k] \in Readouts /\ g[k] = Read(r, f, k \in late, Nat) /\ f \in Frag
  BY <1>1, ReadingsAreDefined
<1>4. h[k] = b \o x /\ x \in Bytes
  BY BytesAreDefined
<1> HIDE DEF g, h
<1>5. i \in Nat /\ r.messages \in Seq(Said)
  BY <1>2 DEF Readouts
<1>6. protocol = "teltonika" => (k = 1 /\ start = 0 <=> i = 0)
  BY <1>1, <1>2
<1> HIDE DEF r, b, x
<1>7. Readable(protocol, f, i) /\ (protocol = "teltonika" => j # 0)
  <2> HIDE DEF i
  <2> QED
    BY <1>5, <1>6 DEF Readably
<1>8. j \in Nat /\ said \in Seq(Said)
  BY <1>3, <1>5, MessagesAreSaid
<1>9. g[k].imei = j /\ g[k].messages = r.messages \o said
  <2> DEFINE no == k \in late
             n == Nat
  <2>1. no \in BOOLEAN /\ ~no /\ i = IF no THEN Topic ELSE r.imei
    BY DEF late
  <2> HIDE DEF no, n, i, f
  <2>2. /\ Read(r, f, no, n).imei = Named(f, i)
        /\ Read(r, f, no, n).messages = IF Named(f, i) \in n THEN r.messages \o MessagesOf(f, i) ELSE r.messages
    BY <1>2, <1>3, <2>1, ReadIs
  <2> QED
    BY <1>3, <1>8, <2>2 DEF no, n
<1>10. h[k] \in Bytes
  BY <1>2, <1>4, Joined
<1>11. ASSUME NEW y \in Bytes
       PROVE  /\ decode(protocol, h[k] \o y, start).messages = g[k].messages \o decode(protocol, y, g[k].imei).messages
              /\ SameEnd(decode(protocol, h[k] \o y, start), decode(protocol, y, g[k].imei))
  <2> DEFINE z == x \o y
             rest == decode(protocol, y, j).messages
  <2>1. h[k] \o y = b \o z /\ z \in Bytes
    <3>1. (b \o x) \o y = b \o (x \o y)
      BY <1>2, <1>4, BytesAssociative
    <3>2. x \o y \in Bytes
      BY <1>4, Joined
    <3> QED
      BY <1>4, <3>1, <3>2
  <2>2. /\ decode(protocol, b \o z, start).messages = r.messages \o decode(protocol, z, i).messages
        /\ SameEnd(decode(protocol, b \o z, start), decode(protocol, z, i))
    <3> HIDE DEF z
    <3> QED
      BY <1>2, <2>1
  <2>3. decode(protocol, z, i).messages = said \o rest /\ SameEnd(decode(protocol, z, i), decode(protocol, y, j))
    BY <1>7 DEF Readable, Legibly, x
  <2>4. rest \in Seq(Said)
    BY <1>8, DecodeParts
  <2> HIDE DEF rest, said, z
  <2>5. r.messages \o (said \o rest) = (r.messages \o said) \o rest
    BY <1>5, <1>8, <2>4, SaidAssociative
  <2>6. SameEnd(decode(protocol, h[k] \o y, start), decode(protocol, y, j))
    BY <2>1, <2>2, <2>3 DEF SameEnd
  <2> QED
    BY <1>9, <2>1, <2>2, <2>3, <2>5, <2>6 DEF rest
<1> QED
  BY <1>1, <1>3, <1>7, <1>9, <1>10, <1>11 DEF ReadUpTo, g, h, late

LEMMA ReadAll ==
  ASSUME NEW protocol \in Protocol, NEW sent \in Seq(Frag), NEW start \in Nat, Readably(protocol, sent, start)
  PROVE  \A k \in 0 .. Len(sent) : ReadUpTo(protocol, sent, start, k)
<1> DEFINE n == Len(sent)
           Y == {k \in 0 .. n : ReadUpTo(protocol, sent, start, k)}
<1>1. n \in Nat
  BY LenProperties
<1>2. 0 \in Y
  <2> DEFINE late == {}
             none == <<>>
             r == Readings(sent, start, late, Nat)[0]
             b == BytesOf(sent)[0]
  <2> HIDE DEF late
  <2>2. r \in Readouts /\ r.imei = start /\ r.messages = none
    BY ReadingsAreDefined
  <2>3. b = none /\ none \in Bytes
    <3>1. b = none
      BY BytesAreDefined
    <3>2. none \in Bytes
      BY DEF Bytes
    <3> QED
      BY <3>1, <3>2
  <2> HIDE DEF r, b
  <2>4. ASSUME NEW y \in Bytes
        PROVE  /\ decode(protocol, b \o y, start).messages = r.messages \o decode(protocol, y, r.imei).messages
               /\ SameEnd(decode(protocol, b \o y, start), decode(protocol, y, r.imei))
    <3> DEFINE said == decode(protocol, y, start).messages
    <3>1. none \o y = y
      BY ConcatEmptySeq DEF Bytes
    <3>2. said \in Seq(Said)
      BY DecodeParts
    <3> HIDE DEF said
    <3>3. none \o said = said
      BY <3>2, ConcatEmptySeq
    <3> HIDE DEF none
    <3> QED
      BY <2>2, <2>3, <3>1, <3>3 DEF said, SameEnd
  <2>5. ReadUpTo(protocol, sent, start, 0)
    BY <2>2, <2>3, <2>4 DEF ReadUpTo, r, b, late
  <2> QED
    BY <1>1, <2>5
<1>3. ASSUME NEW k \in 0 .. n - 1, k \in Y PROVE k + 1 \in Y
  <2> DEFINE m == k + 1
  <2>1. m \in 1 .. n /\ m \in 0 .. n /\ m - 1 = k /\ ReadUpTo(protocol, sent, start, k)
    BY <1>1, <1>3
  <2> HIDE DEF m
  <2>2. ReadUpTo(protocol, sent, start, m)
    BY <2>1, ReadsOn
  <2> QED
    BY <2>1, <2>2 DEF m
<1> HIDE DEF Y
<1>4. \A k \in 0 .. n : k \in Y
  BY <1>1, <1>2, <1>3, Along
<1> QED
  BY <1>4 DEF Y, n

\* From another context the same fragments give as many messages, and keep to it until
\* one names a device.
LEMMA ReadingsBeside ==
  ASSUME NEW sent \in Seq(Frag), NEW start \in Nat, NEW k \in 0 .. Len(sent), NEW f, f = Readings(sent, 0, {}, Nat)[k],
         NEW g, g = Readings(sent, start, {}, Nat)[k]
  PROVE  /\ f \in Readouts /\ g \in Readouts /\ Len(g.messages) = Len(f.messages)
         /\ f.imei = 0 => g.imei = start
<1> DEFINE n == Len(sent)
           zero == 0
           late == {}
           u == Readings(sent, zero, late, Nat)
           v == Readings(sent, start, late, Nat)
           Beside(d, e) == d \in Readouts /\ e \in Readouts /\ Len(e.messages) = Len(d.messages) /\ (d.imei = 0 => e.imei = start)
           Y == {m \in 0 .. n : Beside(u[m], v[m])}
<1>1. n \in Nat /\ zero \in Nat
  BY LenProperties
<1> HIDE DEF zero, late
<1>2. /\ u[0].imei = zero /\ u[0].messages = <<>> /\ u[0] \in Readouts
      /\ \A m \in 1 .. n : sent[m] \in Frag /\ u[m - 1] \in Readouts /\ u[m] \in Readouts /\ u[m] = Read(u[m - 1], sent[m], m \in late, Nat)
  BY <1>1, ReadingsAreDefined DEF n
<1>3. /\ v[0].imei = start /\ v[0].messages = <<>> /\ v[0] \in Readouts
      /\ \A m \in 1 .. n : v[m - 1] \in Readouts /\ v[m] \in Readouts /\ v[m] = Read(v[m - 1], sent[m], m \in late, Nat)
  BY <1>1, ReadingsAreDefined DEF n
<1> HIDE DEF u, v
<1>4. 0 \in Y
  BY <1>1, <1>2, <1>3
<1>5. ASSUME NEW d \in Readouts, NEW x \in Frag, NEW no, no = FALSE
      PROVE  /\ Read(d, x, no, Nat).imei = Named(x, d.imei) /\ Len(Read(d, x, no, Nat).messages) = Len(d.messages) + Len(x.kinds)
             /\ Len(d.messages) \in Nat
  <2> DEFINE i == d.imei
             said == MessagesOf(x, i)
             more == Nat
             e == Read(d, x, no, more)
  <2>1. no \in BOOLEAN /\ i = IF no THEN Topic ELSE d.imei
    BY <1>5
  <2>2. d.messages \in Seq(Said)
    BY DEF Readouts
  <2> HIDE DEF more
  <2>3. i \in Nat /\ e.imei = Named(x, i) /\ e.messages = IF Named(x, i) \in more THEN d.messages \o said ELSE d.messages
    <3> HIDE DEF i
    <3> QED
      BY <2>1, ReadIs
  <2>4. Named(x, i) \in Nat /\ said \in Seq(Said) /\ Len(said) = Len(x.kinds)
    BY <2>3, MessagesAreSaid
  <2> HIDE DEF said, e, i
  <2>5. e.messages = d.messages \o said
    BY <2>3, <2>4 DEF more
  <2>6. Len(d.messages \o said) = Len(d.messages) + Len(said) /\ Len(d.messages) \in Nat
    BY <2>2, <2>4, ConcatProperties, LenProperties
  <2> QED
    BY <2>3, <2>4, <2>5, <2>6 DEF e, i, more
<1>6. ASSUME NEW m \in 0 .. n - 1, m \in Y PROVE m + 1 \in Y
  <2> DEFINE l == m + 1
             x == sent[l]
             no == l \in late
  <2>1. l \in 1 .. n /\ l \in 0 .. n /\ l - 1 = m /\ Beside(u[m], v[m])
    BY <1>1, <1>6
  <2>2. no = FALSE
    BY DEF late
  <2> HIDE DEF l
  <2>3. /\ x \in Frag /\ u[m] \in Readouts /\ v[m] \in Readouts /\ u[l] \in Readouts /\ v[l] \in Readouts
        /\ u[l] = Read(u[m], x, no, Nat) /\ v[l] = Read(v[m], x, no, Nat)
    BY <1>2, <1>3, <2>1
  <2> HIDE DEF x, no
  <2>4. u[l].imei = Named(x, u[m].imei) /\ Len(u[l].messages) = Len(u[m].messages) + Len(x.kinds)
    <3> DEFINE d == u[m]
               e == Read(d, x, no, Nat)
    <3>1. d \in Readouts /\ u[l] = e
      BY <2>3
    <3> HIDE DEF d
    <3>2. e.imei = Named(x, d.imei) /\ Len(e.messages) = Len(d.messages) + Len(x.kinds)
      BY <1>5, <2>2, <2>3, <3>1
    <3> HIDE DEF e
    <3> QED
      BY <3>1, <3>2 DEF d
  <2>5. v[l].imei = Named(x, v[m].imei) /\ Len(v[l].messages) = Len(v[m].messages) + Len(x.kinds)
    <3> DEFINE d == v[m]
               e == Read(d, x, no, Nat)
    <3>1. d \in Readouts /\ v[l] = e
      BY <2>3
    <3> HIDE DEF d
    <3>2. e.imei = Named(x, d.imei) /\ Len(e.messages) = Len(d.messages) + Len(x.kinds)
      BY <1>5, <2>2, <2>3, <3>1
    <3> HIDE DEF e
    <3> QED
      BY <3>1, <3>2 DEF d
  <2>6. Beside(u[l], v[l])
    BY <2>1, <2>3, <2>4, <2>5 DEF Named
  <2> QED
    BY <2>1, <2>6 DEF l
<1> HIDE DEF Y
<1>7. \A m \in 0 .. n : m \in Y
  BY <1>1, <1>4, <1>6, Along
<1>8. Beside(u[k], v[k])
  BY <1>7 DEF Y, n
<1> QED
  BY <1>8 DEF u, v, zero, late

\* What has arrived of a stream begins like all of it.
LEMMA BeginsWith ==
  ASSUME NEW sent \in Seq(Frag), NEW k \in 0 .. Len(sent)
  PROVE  \E w \in Bytes : BytesOf(sent)[Len(sent)] = BytesOf(sent)[k] \o w
<1> DEFINE h == BytesOf(sent)
           n == Len(sent)
           m == n - k
           Y == {j \in 0 .. m : \E w \in Bytes : h[k + j] = h[k] \o w}
<1>1. /\ n \in Nat /\ h \in [0 .. n -> Bytes]
      /\ \A j \in 1 .. n : sent[j].bytes \in Bytes /\ h[j] = h[j - 1] \o sent[j].bytes
  BY BytesAreDefined
<1>2. k \in 0 .. n /\ k \in Nat /\ m \in Nat
  BY <1>1
<1> HIDE DEF h, n
<1>3. 0 \in Y
  <2> DEFINE none == <<>>
  <2>1. h[k] \in Bytes /\ none \in Bytes
    BY <1>1, <1>2 DEF Bytes
  <2>2. h[k] \o none = h[k]
    BY <2>1, ConcatEmptySeq DEF Bytes
  <2>3. k + 0 = k
    BY <1>2
  <2> HIDE DEF none
  <2>4. 0 \in 0 .. m
    BY <1>2
  <2> QED
    BY <2>1, <2>2, <2>3, <2>4
<1>4. ASSUME NEW j \in 0 .. m - 1, j \in Y PROVE j + 1 \in Y
  <2> DEFINE i == k + (j + 1)
             x == sent[i].bytes
  <2>1. PICK w \in Bytes : h[k + j] = h[k] \o w
    BY <1>4
  <2>2. i \in 1 .. n /\ i - 1 = k + j /\ j + 1 \in 0 .. m
    BY <1>1, <1>2
  <2> HIDE DEF i
  <2>3. x \in Bytes /\ h[i] = h[i - 1] \o x /\ h[k] \in Bytes
    BY <1>1, <1>2, <2>2
  <2> HIDE DEF x
  <2>4. h[i] = (h[k] \o w) \o x
    BY <2>1, <2>2, <2>3
  <2>5. (h[k] \o w) \o x = h[k] \o (w \o x) /\ w \o x \in Bytes
    BY <2>3, BytesAssociative, Joined
  <2>6. \E v \in Bytes : h[i] = h[k] \o v
    BY <2>4, <2>5
  <2> QED
    BY <2>2, <2>6 DEF i
<1>5. m \in Y
  <2> HIDE DEF Y, m
  <2>1. m \in 0 .. m
    BY <1>2
  <2> QED
    BY <1>2, <1>3, <1>4, <2>1, Along
<1>6. k + m = n
  BY <1>1, <1>2
<1> QED
  BY <1>5, <1>6 DEF h, n

\* The largest number of a bounded set.
LEMMA MaxIs ==
  ASSUME NEW n \in Nat, NEW S \in SUBSET (0 .. n), 0 \in S
  PROVE  Max(S) \in S /\ \A k \in S : Max(S) >= k
<1> DEFINE T == {j \in 1 .. n + 1 : n + 1 - j \in S}
           j == Least(T)
           k == n + 1 - j
<1>1. T \in SUBSET (Nat \ {0})
  OBVIOUS
<1>2. n + 1 \in T
  BY n + 1 - (n + 1) = 0
<1>3. \A i : i \in T <=> i \in 1 .. n + 1 /\ n + 1 - i \in S
  OBVIOUS
<1> HIDE DEF T
<1>4. j \in T /\ \A i \in T : j <= i
  BY <1>1, <1>2, LeastFacts
<1> HIDE DEF j
<1>5. k \in S
  BY <1>3, <1>4
<1>6. ASSUME NEW i \in S PROVE k >= i
  <2> DEFINE l == n + 1 - i
  <2>1. i \in 0 .. n /\ l \in 1 .. n + 1 /\ n + 1 - l = i
    OBVIOUS
  <2> HIDE DEF l
  <2>2. l \in T
    BY <1>3, <2>1
  <2>3. j <= l /\ j \in 1 .. n + 1
    BY <1>3, <1>4, <2>2
  <2> QED
    BY <2>1, <2>3
<1> QED
  BY <1>5, <1>6 DEF Max

\* The first bytes of two sequences joined.
LEMMA PrefixOfJoined ==
  ASSUME NEW b \in Bytes, NEW x \in Bytes, NEW m \in Nat, m <= Len(x)
  PROVE  SubSeq(b \o x, 1, Len(b) + m) = b \o SubSeq(x, 1, m)
<1> DEFINE c == b \o x
           l == Len(b)
<1>1. c \in Bytes /\ Len(c) = l + Len(x) /\ l \in Nat /\ Len(x) \in Nat
  BY Joined
<1>2. SubSeq(c, 1, l) = b
  <2>1. SubSeq(b \o x, 1, l) = SubSeq(b, 1, l)
    BY <1>1, PartOfJoined
  <2>2. SubSeq(b, 1, l) = b
    BY SubSeqFull DEF Bytes
  <2> QED
    BY <2>1, <2>2
<1>3. From(c, l + 1) = x
  <2>1. From(b \o x, l + 1) = From(b, l + 1) \o x
    <3>1. l \in 0 .. Len(b)
      BY <1>1
    <3> QED
      BY <3>1, FromJoined
  <2>2. From(b, l + 1) = <<>>
    BY FromEnds
  <2>3. <<>> \o x = x
    BY ConcatEmptySeq DEF Bytes
  <2> QED
    BY <2>1, <2>2, <2>3
<1> HIDE DEF c, l
<1>4. SubSeq(c, 1, l + m) = SubSeq(c, 1, l) \o SubSeq(c, l + 1, l + m)
  BY <1>1, MoreBytes
<1>5. SubSeq(x, 1, m) = SubSeq(c, l + 1, l + m)
  <2>1. l \in 0 .. Len(c) /\ 1 \in Nat \ {0} /\ m \in Int /\ m <= Len(c) - l
    BY <1>1
  <2>2. SubSeq(From(c, l + 1), 1, m) = SubSeq(c, l + 1, l + m)
    BY <1>1, <2>1, PartOfRest
  <2> QED
    BY <1>3, <2>2
<1> QED
  BY <1>2, <1>4, <1>5 DEF c, l

\* The first m bytes of a stream hold the messages of the fragments that came whole.
Has(sent, m, k) ==
  LET h == BytesOf(sent)
  IN  /\ m <= Len(h[Len(sent)]) /\ Len(h[k]) <= m
      /\ k < Len(sent) => m < Len(h[k + 1])

LEMMA StreamArrives ==
  ASSUME NEW protocol \in Protocol, NEW sent \in Seq(Frag), NEW start \in Nat, Readably(protocol, sent, start),
         NEW m \in Nat, NEW k \in 0 .. Len(sent), Has(sent, m, k)
  PROVE  /\ decode(protocol, SubSeq(BytesOf(sent)[Len(sent)], 1, m), start).messages = Readings(sent, start, {}, Nat)[k].messages
         /\ decode(protocol, SubSeq(BytesOf(sent)[Len(sent)], 1, m), start).imei = Readings(sent, start, {}, Nat)[k].imei
<1> DEFINE n == Len(sent)
           h == BytesOf(sent)
           g == Readings(sent, start, {}, Nat)
           r == g[k]
           b == h[k]
           all == SubSeq(h[n], 1, m)
<1>1. /\ n \in Nat /\ h \in [0 .. n -> Bytes]
      /\ \A j \in 1 .. n : sent[j].bytes \in Bytes /\ h[j] = h[j - 1] \o sent[j].bytes
  BY BytesAreDefined
<1>2. /\ r \in Readouts /\ b \in Bytes
      /\ \A y \in Bytes : /\ decode(protocol, b \o y, start).messages = r.messages \o decode(protocol, y, r.imei).messages
                          /\ SameEnd(decode(protocol, b \o y, start), decode(protocol, y, r.imei))
  BY ReadAll DEF ReadUpTo
<1>3. r.imei \in Nat /\ r.messages \in Seq(Said)
  BY <1>2 DEF Readouts
<1>4. m <= Len(h[n]) /\ Len(b) <= m /\ (k < n => m < Len(h[k + 1])) /\ k \in 0 .. n /\ k \in Nat
  BY DEF Has
<1>5. r.messages \o <<>> = r.messages
  BY <1>3, ConcatEmptySeq
<1>6. Len(b) \in Nat /\ h[n] \in Bytes /\ Len(h[n]) \in Nat
  BY <1>1, <1>2, ByteOf
<1> HIDE DEF n, h, g, r, b
<1>7. CASE k = n
  <2> DEFINE none == <<>>
  <2>1. b = h[n] /\ m = Len(h[n])
    BY <1>4, <1>6, <1>7 DEF b
  <2>2. all = b
    <3>1. SubSeq(h[n], 1, Len(h[n])) = h[n]
      BY <1>6, SubSeqFull DEF Bytes
    <3> QED
      BY <2>1, <3>1
  <2>3. none \in Bytes /\ decode(protocol, none, r.imei) = Stop(0, r.imei)
    BY <1>3, DecodeNothing
  <2>4. Stop(0, r.imei).messages = none /\ Stop(0, r.imei).imei = r.imei
    BY <1>3, PlainOutcomes
  <2>5. b \o none = b
    BY <1>2, ConcatEmptySeq DEF Bytes
  <2>6. decode(protocol, b, start).messages = r.messages \o none /\ decode(protocol, b, start).imei = r.imei
    <3> HIDE DEF none
    <3> QED
      BY <1>2, <2>3, <2>4, <2>5 DEF SameEnd
  <2> QED
    BY <1>5, <2>2, <2>6 DEF n, h, g, r
<1>8. CASE k # n
  <2> DEFINE i == k + 1
             f == sent[i]
             x == f.bytes
             l == m - Len(b)
             y == SubSeq(x, 1, l)
  <2>1. i \in 1 .. n /\ i - 1 = k /\ i \in 0 .. n /\ k < n
    BY <1>1, <1>4, <1>8
  <2>2. m < Len(h[i])
    BY <1>4, <2>1
  <2> HIDE DEF i
  <2>3. x \in Bytes /\ h[i] = b \o x /\ h[i] \in Bytes
    <3>1. h[i] = h[i - 1] \o sent[i].bytes /\ sent[i].bytes \in Bytes /\ h[i] \in Bytes
      BY <1>1, <2>1
    <3> QED
      BY <2>1, <3>1 DEF b
  <2>4. PICK w \in Bytes : h[n] = h[i] \o w
    BY <2>1, BeginsWith DEF n, h
  <2>5. Legibly(protocol, x, MessagesOf(f, r.imei), r.imei, Named(f, r.imei))
    <3>1. ReadUpTo(protocol, sent, start, k)
      BY ReadAll
    <3>2. (k = 0 => r.imei = start) /\ (k # 0 /\ protocol = "teltonika" => r.imei # 0)
      BY <3>1 DEF ReadUpTo, r, g
    <3>3. protocol = "teltonika" => (i = 1 /\ start = 0 <=> r.imei = 0)
      BY <1>4, <2>1, <3>2
    <3> DEFINE j == r.imei
    <3>4. i \in 1 .. Len(sent) /\ j \in Nat
      BY <1>3, <2>1 DEF n
    <3> HIDE DEF j, f, x
    <3>5. Readable(protocol, sent[i], j)
      BY <3>3, <3>4 DEF Readably, j
    <3> QED
      BY <3>5 DEF Readable, j, f, x
  <2> HIDE DEF x
  <2>6. Len(h[i]) = Len(b) + Len(x) /\ Len(x) \in Nat /\ Len(h[i]) \in Nat
    BY <1>2, <2>3, Joined
  <2>7. l \in 0 .. Len(x) - 1 /\ l \in Nat /\ l <= Len(x) /\ Len(b) + l = m
    BY <1>4, <1>6, <2>2, <2>6
  <2>8. all = b \o y
    <3>1. SubSeq(h[i] \o w, 1, m) = SubSeq(h[i], 1, m)
      <4>1. m <= Len(h[i]) /\ 1 \in Nat \ {0} /\ m \in Int
        BY <2>2, <2>6
      <4> QED
        BY <2>3, <2>4, <4>1, PartOfJoined
    <3> HIDE DEF l
    <3>2. SubSeq(b \o x, 1, Len(b) + l) = b \o SubSeq(x, 1, l)
      BY <1>2, <2>3, <2>7, PrefixOfJoined
    <3> QED
      BY <2>3, <2>4, <2>7, <3>1, <3>2
  <2>9. y \in Bytes
    <3> HIDE DEF l
    <3>1. l \in 0 .. Len(x)
      BY <2>6, <2>7
    <3> QED
      BY <2>3, <3>1, PrefixFacts
  <2>10. decode(protocol, y, r.imei).messages = <<>>
    BY <2>5, <2>7 DEF Legibly
  <2> HIDE DEF y, all
  <2>11. Silent(decode(protocol, y, r.imei), r.imei)
    BY <1>3, <2>9, SilenceKeeps
  <2>12. /\ decode(protocol, b \o y, start).messages = r.messages \o decode(protocol, y, r.imei).messages
         /\ SameEnd(decode(protocol, b \o y, start), decode(protocol, y, r.imei))
    BY <1>2, <2>9
  <2>13. decode(protocol, b \o y, start).imei = r.imei
    BY <2>10, <2>11, <2>12 DEF Silent, SameEnd
  <2> QED
    BY <1>5, <2>8, <2>10, <2>12, <2>13 DEF all, n, h, g, r
<1> QED
  BY <1>7, <1>8

\* Messages joined, and their parts.
LEMMA SaidParts ==
  ASSUME NEW s \in Seq(Said), NEW t \in Seq(Said)
  PROVE  /\ SubSeq(s \o t, 1, Len(s)) = s /\ From(s \o t, Len(s) + 1) = t
         /\ From(s, Len(s) + 1) = <<>> /\ From(t, 1) = t
<1> DEFINE n == Len(s)
           l == Len(t)
           q == s \o t
           a == SubSeq(q, 1, n)
           z == SubSeq(q, n + 1, n + l)
<1>1. n \in Nat /\ l \in Nat
  BY LenProperties
<1>2. q \in Seq(Said) /\ Len(q) = n + l /\ \A i \in 1 .. n + l : q[i] = IF i <= n THEN s[i] ELSE t[i - n]
  BY ConcatProperties
<1>3. \A i \in 1 .. n + l : q[i] \in Said
  BY <1>2, ElementOfSeq
<1> HIDE DEF q, n, l
<1>4. a \in Seq(Said) /\ Len(a) = n /\ \A i \in 1 .. n : a[i] = q[i]
  <2>1. 1 \in Int /\ n \in Int /\ \A i \in 1 .. n : q[i] \in Said
    BY <1>1, <1>3
  <2>2. /\ a \in Seq(Said) /\ Len(a) = IF 1 <= n THEN n - 1 + 1 ELSE 0
        /\ \A i \in 1 .. n - 1 + 1 : a[i] = q[1 + i - 1]
    BY <2>1, SubSeqProperties
  <2> HIDE DEF a
  <2> QED
    BY <1>1, <2>2
<1>5. z \in Seq(Said) /\ Len(z) = l /\ \A i \in 1 .. l : z[i] = q[n + i]
  <2> DEFINE k == n + 1
             m == n + l
  <2>1. k \in Int /\ m \in Int /\ m - k + 1 = l /\ (k <= m <=> 1 <= l) /\ \A i \in k .. m : q[i] \in Said
    BY <1>1, <1>3
  <2>2. \A i \in 1 .. l : k + i - 1 = n + i
    BY <1>1
  <2> HIDE DEF k, m
  <2>3. /\ SubSeq(q, k, m) \in Seq(Said) /\ Len(SubSeq(q, k, m)) = IF k <= m THEN m - k + 1 ELSE 0
        /\ \A i \in 1 .. m - k + 1 : SubSeq(q, k, m)[i] = q[k + i - 1]
    BY <2>1, SubSeqProperties
  <2>4. Len(SubSeq(q, k, m)) = l
    BY <1>1, <2>1, <2>3
  <2> QED
    BY <2>1, <2>2, <2>3, <2>4 DEF k, m
<1> HIDE DEF a, z
<1>6. a = s
  <2>1. \A i \in 1 .. n : a[i] = s[i]
    BY <1>1, <1>2, <1>4
  <2>2. Len(a) = Len(s) /\ \A i \in 1 .. Len(a) : a[i] = s[i]
    BY <1>4, <2>1 DEF n
  <2> QED
    BY <1>4, <2>2, SeqEqual
<1>7. z = t
  <2>1. \A i \in 1 .. l : z[i] = t[i]
    <3> TAKE i \in 1 .. l
    <3> DEFINE j == n + i
    <3>1. j \in 1 .. n + l /\ ~(j <= n) /\ j - n = i
      BY <1>1
    <3> HIDE DEF j
    <3>2. q[j] = t[i]
      BY <1>2, <3>1
    <3> QED
      BY <1>5, <3>2 DEF j
  <2>2. Len(z) = Len(t) /\ \A i \in 1 .. Len(z) : z[i] = t[i]
    BY <1>5, <2>1 DEF l
  <2> QED
    BY <1>5, <2>2, SeqEqual
<1>8. From(s, Len(s) + 1) = <<>>
  <2>1. SubSeq(s, n + 1, n) = <<>>
    BY <1>1, SubSeqEmpty
  <2> QED
    BY <2>1 DEF From, n
<1>9. From(t, 1) = t
  BY SubSeqFull DEF From
<1> QED
  BY <1>2, <1>6, <1>7, <1>8, <1>9 DEF From, a, z, q, n

\* The fragments that came whole among the first m bytes.
LEMMA ArrivedIs ==
  ASSUME NEW sent \in Seq(Frag), NEW m \in Nat, m <= Len(BytesOf(sent)[Len(sent)]), NEW S,
         S = {k \in 0 .. Len(sent) : Len(BytesOf(sent)[k]) <= m}
  PROVE  Max(S) \in 0 .. Len(sent) /\ Has(sent, m, Max(S))
<1> DEFINE n == Len(sent)
           h == BytesOf(sent)
           k == Max(S)
<1>1. h[0] = <<>> /\ h \in [0 .. n -> Bytes] /\ n \in Nat
  BY BytesAreDefined
<1>2. Len(h[0]) = 0
  BY <1>1
<1> HIDE DEF h
<1>3. S \in SUBSET (0 .. n) /\ 0 \in S
  BY <1>1, <1>2 DEF h
<1>4. k \in S /\ \A j \in S : k >= j
  BY <1>1, <1>3, MaxIs
<1> HIDE DEF k
<1>5. k \in 0 .. n /\ Len(h[k]) <= m
  BY <1>4 DEF h
<1>6. ASSUME k < n PROVE m < Len(h[k + 1])
  <2> DEFINE j == k + 1
  <2>1. j \in 0 .. n /\ j > k /\ k \in Nat
    BY <1>1, <1>5, <1>6
  <2> HIDE DEF j
  <2>2. j \notin S
    BY <1>4, <2>1
  <2>3. Len(h[j]) \in Nat
    BY <1>1, <2>1, ByteOf
  <2>4. m < Len(h[j])
    BY <2>1, <2>2, <2>3 DEF h
  <2> QED
    BY <2>4 DEF j
<1>7. Has(sent, m, k)
  BY <1>5, <1>6 DEF Has, h
<1> QED
  BY <1>5, <1>7 DEF k

\* What was decoded before an IMEI was restored is one read.
LEMMA EarlyReads ==
  ASSUME NEW c, ConnOK(c), c.at = "open", NEW x, Before(c, x)
  PROVE  LET d == decode(c.protocol, Early(c), 0)
         IN  /\ d.go = "stop" /\ c.restored.decoded = d.messages /\ d.imei = 0
             /\ c.protocol = "meitrack" \/ (c.restored.buffer = From(Early(c), d.n + 1) /\ d.n = x.n)
<1> DEFINE p == c.protocol
           b == Early(c)
           zero == 0
           d == decode(p, b, zero)
<1>1. p \in Protocol /\ b \in Bytes /\ zero \in Nat
  BY PartsAreBytes
<1>2. CaughtUp(p, b, zero, x) /\ x.imei = 0 /\ c.restored.buffer = From(b, x.n + 1) /\ c.restored.decoded = x.messages
  BY DEF Before
<1> HIDE DEF p, b, zero
<1>3. d.go = "stop" /\ d.messages = x.messages /\ d.imei = x.imei /\ (p = "meitrack" \/ d.n = x.n)
  BY <1>1, <1>2, CaughtUpReads
<1> HIDE DEF d
<1> QED
  BY <1>2, <1>3 DEF d, p, b, zero

\* What was decoded since is another.
LEMMA LateReads ==
  ASSUME NEW c, ConnOK(c), c.at = "open", NEW x, Now(c, x)
  PROVE  LET d == decode(c.protocol, Since(c), c.restored.imei)
         IN  /\ c.received # c.restored.received =>
                  /\ d.go = "stop" /\ c.decoded = c.restored.decoded \o d.messages
                  /\ c.protocol = "meitrack" \/ c.buffer = From(Since(c), d.n + 1)
             /\ c.received = c.restored.received => c.decoded = c.restored.decoded
<1> DEFINE p == c.protocol
           b == Since(c)
           i == c.restored.imei
           d == decode(p, b, i)
<1>1. p \in Protocol /\ b \in Bytes /\ i \in Nat /\ c.restored.decoded \in Seq(Said)
  BY PartsAreBytes
<1>2. c.buffer = From(b, x.n + 1) /\ c.decoded = c.restored.decoded \o x.messages
  BY DEF Now
<1>3. ASSUME c.received # c.restored.received
      PROVE  d.go = "stop" /\ c.decoded = c.restored.decoded \o d.messages /\ (p = "meitrack" \/ c.buffer = From(b, d.n + 1))
  <2>1. CaughtUp(p, b, i, x)
    BY <1>3 DEF Now
  <2> HIDE DEF p, b, i
  <2>2. d.go = "stop" /\ d.messages = x.messages /\ (p = "meitrack" \/ d.n = x.n)
    BY <1>1, <2>1, CaughtUpReads
  <2> HIDE DEF d
  <2> QED
    BY <1>2, <2>2
<1>4. ASSUME c.received = c.restored.received PROVE c.decoded = c.restored.decoded
  <2> DEFINE none == <<>>
             s == c.restored.decoded
  <2>1. x = Stop(0, i)
    BY <1>4 DEF Now
  <2>2. x.messages = none
    BY <2>1, Fields
  <2>3. s \o none = s
    BY <1>1, ConcatEmptySeq
  <2> HIDE DEF none, s
  <2> QED
    BY <1>2, <2>2, <2>3 DEF s
<1> HIDE DEF d
<1> QED
  BY <1>3, <1>4 DEF d, p, b, i

\* One read of all the bytes, from the IMEI that was restored, says what a read of the
\* first says, and then what was read of those since.
LEMMA RestIsRead ==
  ASSUME NEW c, ConnOK(c), c.at = "open", c.protocol \notin {"teltonika", "meitrack"}, NEW x, Before(c, x),
         decode(c.protocol, Early(c), c.restored.imei).imei = c.restored.imei
  PROVE  decode(c.protocol, SubSeq(SentBytes(c), 1, c.received), c.restored.imei).messages
         = decode(c.protocol, Early(c), c.restored.imei).messages
           \o decode(c.protocol, Since(c), c.restored.imei).messages
<1> DEFINE p == c.protocol
           b == Early(c)
           i == c.restored.imei
           y == SubSeq(SentBytes(c), c.restored.received + 1, c.received)
           all == SubSeq(SentBytes(c), 1, c.received)
           since == Since(c)
           zero == 0
           o == decode(p, b, zero)
           d == decode(p, b, i)
           r == From(b, d.n + 1)
           e == decode(p, since, i)
<1>1. p \in Protocol /\ b \in Bytes /\ i \in Nat /\ y \in Bytes /\ all = b \o y /\ zero \in Nat /\ since \in Bytes
  BY PartsAreBytes
<1>2. o.go = "stop" /\ c.restored.buffer = From(b, o.n + 1)
  BY EarlyReads
<1>3. since = c.restored.buffer \o y /\ p # "teltonika" /\ p # "meitrack" /\ d.imei = i
  BY DEF Since
<1> HIDE DEF p, b, i, y, all, since, zero
<1>4. SamePlace(o, d)
  BY <1>1, <1>3, PlaceIsTheBytes
<1>5. d.go = "stop" /\ since = r \o y
  BY <1>2, <1>3, <1>4 DEF SamePlace
<1>6. d \in Outcomes /\ e \in Outcomes
  BY <1>1, DecodeOutcome
<1>7. ~DropsMarker(r, p, b)
  BY <1>3 DEF DropsMarker
<1>8. Resumes(p, b, i)
  BY <1>1, CutsResume
<1>9. Alike(p, decode(p, b \o y, i), After(d, decode(p, r \o y, d.imei)))
  BY <1>1, <1>5, <1>7, <1>8 DEF Resumes
<1>10. decode(p, all, i) = After(d, e)
  BY <1>1, <1>3, <1>5, <1>9 DEF Alike
<1> HIDE DEF d, e
<1>11. After(d, e).messages = d.messages \o e.messages
  BY <1>6, AfterIs
<1> QED
  BY <1>10, <1>11 DEF d, e, p, b, i, all, since

\* Meitrack's frames name their devices: without an IMEI there was no message.
LEMMA MeitrackRestIsRead ==
  ASSUME NEW c, ConnOK(c), c.at = "open", c.protocol = "meitrack", NEW x, Before(c, x)
  PROVE  /\ decode(c.protocol, SubSeq(SentBytes(c), 1, c.received), c.restored.imei).messages
            = decode(c.protocol, Since(c), c.restored.imei).messages
         /\ c.restored.decoded = <<>>
<1> DEFINE p == "meitrack"
           b == Early(c)
           i == c.restored.imei
           y == SubSeq(SentBytes(c), c.restored.received + 1, c.received)
           all == SubSeq(SentBytes(c), 1, c.received)
           since == Since(c)
           zero == 0
           none == <<>>
           o == decode(p, b, zero)
           e == decode(p, since, zero)
<1>1. p \in Protocol /\ b \in Bytes /\ i \in Nat /\ y \in Bytes /\ all = b \o y /\ zero \in Nat /\ since \in Bytes
      /\ all \in Bytes
  <2>1. p \in Protocol /\ b \in Bytes /\ i \in Nat /\ y \in Bytes /\ all = b \o y /\ since \in Bytes
    BY PartsAreBytes
  <2> HIDE DEF p, b, i, y, all, since
  <2> QED
    BY <2>1, Joined
<1>2. c.restored.decoded = o.messages /\ o.imei = 0
  BY EarlyReads
<1>3. CaughtUp(p, b, zero, x) /\ x.imei = 0 /\ since = From(b, x.n + 1) \o y /\ c.restored.decoded = x.messages
  BY DEF Before, Since
<1> HIDE DEF b, i, y, all, since, zero, none
<1>4. o.messages = none
  BY <1>1, <1>2, MeitrackSpeaksForItself DEF none
<1> HIDE DEF o, p
<1>5. Alike(p, decode(p, b \o y, zero), After(x, decode(p, From(b, x.n + 1) \o y, x.imei))) /\ x \in Outcomes
  BY <1>1, <1>3 DEF CaughtUp, Follows
<1>6. Alike(p, decode(p, all, zero), After(x, e))
  BY <1>1, <1>3, <1>5 DEF zero
<1>7. e \in Outcomes /\ e.messages \in Seq(Said)
  BY <1>1, DecodeParts
<1> HIDE DEF e
<1>8. After(x, e).messages = x.messages \o e.messages
  BY <1>5, <1>7, AfterIs
<1>9. none \o e.messages = e.messages
  BY <1>7, ConcatEmptySeq DEF none
<1>10. decode(p, all, zero).messages = e.messages
  BY <1>2, <1>3, <1>4, <1>6, <1>8, <1>9 DEF Alike
<1>11. decode(p, all, i).messages = decode(p, all, zero).messages
  BY <1>1, MeitrackSpeaksForItself DEF p
<1>12. decode(p, since, i).messages = decode(p, since, zero).messages
  BY <1>1, MeitrackSpeaksForItself DEF p
<1> QED
  BY <1>2, <1>4, <1>10, <1>11, <1>12 DEF e, p, i, all, since, none

\* When nothing was consumed before, or nothing restored, all the bytes are read since.
LEMMA AllIsSince ==
  ASSUME NEW c, ConnOK(c), c.at = "open", NEW x, Before(c, x),
         c.protocol = "teltonika" \/ c.restored = NeverRestored
  PROVE  Since(c) = SubSeq(SentBytes(c), 1, c.received) /\ c.restored.decoded = <<>>
<1> DEFINE p == c.protocol
           b == Early(c)
           y == SubSeq(SentBytes(c), c.restored.received + 1, c.received)
           all == SubSeq(SentBytes(c), 1, c.received)
           zero == 0
           none == <<>>
           o == decode(p, b, zero)
<1>1. p \in Protocol /\ b \in Bytes /\ y \in Bytes /\ all = b \o y /\ zero \in Nat
  BY PartsAreBytes
<1>2. /\ o.go = "stop" /\ c.restored.decoded = o.messages /\ o.imei = 0
      /\ p = "meitrack" \/ c.restored.buffer = From(b, o.n + 1)
  BY EarlyReads
<1>3. Since(c) = c.restored.buffer \o y
  BY DEF Since
<1>4. CASE p = "teltonika"
  <2> HIDE DEF b, y, all, zero, none
  <2>1. o = Stop(0, 0)
    <3>1. decode("teltonika", b, zero).imei = 0
      BY <1>2, <1>4
    <3>2. decode("teltonika", b, zero) = Stop(0, 0)
      BY <1>1, <3>1, TeltonikaKeepsItsImei
    <3> QED
      BY <1>4, <3>2
  <2> HIDE DEF o
  <2>2. o.n = 0 /\ o.messages = <<>>
    BY <2>1, PlainOutcomes
  <2>3. From(b, 1) = b
    BY <1>1, FromEnds
  <2>4. c.restored.buffer = b
    BY <1>2, <1>4, <2>2, <2>3
  <2> QED
    BY <1>1, <1>2, <1>3, <2>2, <2>4 DEF all
<1>5. CASE c.restored = NeverRestored
  <2>1. c.restored.received = 0 /\ c.restored.buffer = none /\ c.restored.decoded = none
    BY <1>5, NeverRestoredIs
  <2>2. b = none
    <3>1. SubSeq(SentBytes(c), 1, 0) = none
      BY SubSeqEmpty
    <3> QED
      BY <2>1, <3>1 DEF Early
  <2> HIDE DEF b, y, all, zero
  <2> QED
    BY <1>1, <1>3, <2>1, <2>2 DEF all, none
<1> QED
  BY <1>4, <1>5

\* The fragments as the decoder sees them once an IMEI is restored.
SeenBy(c) == IF c.protocol = "teltonika" /\ c.restored.imei # 0 THEN AsNoise(c.sent) ELSE c.sent

LEMMA SeenIsReadable ==
  ASSUME NEW c, ConnOK(c), c.at = "open", Clear(c.protocol, c.sent)
  PROVE  /\ SeenBy(c) \in Seq(Frag) /\ Len(SeenBy(c)) = Len(c.sent)
         /\ Readably(c.protocol, SeenBy(c), c.restored.imei)
         /\ \A k \in 0 .. Len(c.sent) : BytesOf(SeenBy(c))[k] = BytesOf(c.sent)[k]
<1> DEFINE p == c.protocol
           sent == c.sent
           i == c.restored.imei
<1>1. p \in Protocol /\ sent \in Seq(Fragment[p]) /\ sent \in Seq(Frag) /\ i \in Nat /\ Clear(p, sent)
  BY PartsAreBytes
<1>2. SeenBy(c) = IF p = "teltonika" /\ i # 0 THEN AsNoise(sent) ELSE sent
  BY DEF SeenBy
<1> HIDE DEF p, sent, i
<1>3. CASE p = "teltonika" /\ i # 0
  <2>1. /\ AsNoise(sent) \in Seq(Frag) /\ Len(AsNoise(sent)) = Len(sent) /\ Readably("teltonika", AsNoise(sent), i)
        /\ \A k \in 0 .. Len(sent) : BytesOf(AsNoise(sent))[k] = BytesOf(sent)[k]
    BY <1>1, <1>3, NoiseIsReadable
  <2> QED
    BY <1>2, <1>3, <2>1 DEF p, sent, i
<1>4. CASE ~(p = "teltonika" /\ i # 0)
  <2>1. p = "teltonika" => i = 0
    BY <1>4
  <2>2. Readably(p, sent, i)
    BY <1>1, <2>1, ClearIsReadable
  <2> QED
    BY <1>1, <1>2, <1>4, <2>2 DEF p, sent, i
<1> QED
  BY <1>3, <1>4

\* What the fragments that came whole before the restoration say, and as many messages
\* from the IMEI restored.
LEMMA EarlyArrive ==
  ASSUME NEW c, ConnOK(c), c.at = "open", Clear(c.protocol, c.sent), NEW x, Before(c, x),
         NEW k \in 0 .. Len(c.sent), Has(c.sent, c.restored.received, k)
  PROVE  LET u == Readings(SeenBy(c), 0, {}, Nat)[k]
             v == Readings(SeenBy(c), c.restored.imei, {}, Nat)[k]
         IN  /\ u.messages = c.restored.decoded /\ v.messages \in Seq(Said) /\ Len(v.messages) = Len(c.restored.decoded)
             /\ v.imei = c.restored.imei
<1> DEFINE p == c.protocol
           sent == c.sent
           seen == SeenBy(c)
           i == c.restored.imei
           rho == c.restored.received
           b == Early(c)
           zero == 0
           late == {}
           none == <<>>
           d == decode(p, b, zero)
           w == Readings(sent, zero, late, Nat)[k]
           u == Readings(seen, zero, late, Nat)[k]
           v == Readings(seen, i, late, Nat)[k]
<1>1. p \in Protocol /\ sent \in Seq(Fragment[p]) /\ sent \in Seq(Frag) /\ i \in Nat /\ Clear(p, sent) /\ b \in Bytes
      /\ rho \in Nat
  BY PartsAreBytes
<1>2. c.restored.decoded = d.messages /\ d.imei = 0
  BY EarlyReads
<1>3. seen \in Seq(Frag) /\ Len(seen) = Len(sent) /\ (~(p = "teltonika" /\ i # 0) => seen = sent)
  BY SeenIsReadable DEF SeenBy
<1>4. b = SubSeq(BytesOf(sent)[Len(sent)], 1, rho) /\ k \in 0 .. Len(sent) /\ Has(sent, rho, k)
  BY DEF Early, SentBytes
<1> HIDE DEF p, sent, seen, i, rho, b
<1>5. Readably(p, sent, 0)
  BY <1>1, ClearIsReadable
<1>6. d.messages = w.messages /\ d.imei = w.imei
  <2>1. zero \in Nat /\ Readably(p, sent, zero)
    BY <1>5
  <2> HIDE DEF zero
  <2>2. decode(p, SubSeq(BytesOf(sent)[Len(sent)], 1, rho), zero).messages = Readings(sent, zero, {}, Nat)[k].messages
        /\ decode(p, SubSeq(BytesOf(sent)[Len(sent)], 1, rho), zero).imei = Readings(sent, zero, {}, Nat)[k].imei
    BY <1>1, <1>4, <2>1, StreamArrives
  <2> QED
    BY <1>4, <2>2
<1>7. u.messages = w.messages /\ u.imei = 0
  <2>1. CASE ~(p = "teltonika" /\ i # 0)
    <3>1. u = w
      BY <1>3, <2>1
    <3> HIDE DEF u, w, d
    <3> QED
      BY <1>2, <1>6, <3>1
  <2>2. CASE p = "teltonika" /\ i # 0
    <3>1. k = 0
      <4>1. ReadUpTo(p, sent, 0, k)
        BY <1>1, <1>4, <1>5, ReadAll
      <4>2. k # 0 => w.imei # 0
        BY <2>2, <4>1 DEF ReadUpTo
      <4> HIDE DEF w, d
      <4> QED
        BY <1>2, <1>6, <4>2
    <3> HIDE DEF late
    <3>2. Readings(sent, zero, late, Nat)[0].messages = none
      BY <1>1, ReadingsAreDefined
    <3>3. Readings(seen, zero, late, Nat)[0].messages = none /\ Readings(seen, zero, late, Nat)[0].imei = zero
      BY <1>3, ReadingsAreDefined
    <3> QED
      BY <3>1, <3>2, <3>3
  <2> QED
    BY <2>1, <2>2
<1>8. v \in Readouts /\ Len(v.messages) = Len(u.messages) /\ (u.imei = 0 => v.imei = i)
  <2>1. k \in 0 .. Len(seen)
    BY <1>3, <1>4
  <2> QED
    BY <1>1, <1>3, <2>1, ReadingsBeside
<1>9. v.messages \in Seq(Said)
  BY <1>8 DEF Readouts
<1> HIDE DEF d, u, v, w
<1>10. u.messages = c.restored.decoded /\ v.messages \in Seq(Said) /\ Len(v.messages) = Len(c.restored.decoded) /\ v.imei = i
  BY <1>2, <1>6, <1>7, <1>8, <1>9
<1> QED
  BY <1>10 DEF u, v, seen, i, zero, late

LEMMA FramesHaveArrived ==
  ASSUME NEW c, ConnOK(c), Followed(c), c.at = "open", ~c.lost, Clear(c.protocol, c.sent),
         NEW k \in 0 .. Len(c.sent), Has(c.sent, c.restored.received, k),
         NEW l \in 0 .. Len(c.sent), Has(c.sent, c.received, l), c.restored.received = c.received => k = l
  PROVE  LET early == Readings(SeenBy(c), 0, {}, Nat)[k].messages
             late  == Readings(SeenBy(c), c.restored.imei, {}, Nat)[l].messages
         IN  c.decoded = early \o From(late, Len(early) + 1)
<1> DEFINE p == c.protocol
           sent == c.sent
           seen == SeenBy(c)
           t == c.restored
           i == t.imei
           rho == t.received
           m == c.received
           S == SentBytes(c)
           all == SubSeq(S, 1, m)
           b == Early(c)
           since == Since(c)
           early == Readings(seen, 0, {}, Nat)[k].messages
           v == Readings(seen, i, {}, Nat)[k]
           late == Readings(seen, i, {}, Nat)[l].messages
           e == decode(p, since, i)
<1>1. /\ p \in Protocol /\ sent \in Seq(Frag) /\ i \in Nat /\ rho \in Nat /\ m \in Nat /\ all \in Bytes /\ b \in Bytes
      /\ since \in Bytes /\ t.decoded \in Seq(Said)
  <2>1. /\ p \in Protocol /\ sent \in Seq(Frag) /\ i \in Nat /\ rho \in Nat /\ m \in Nat /\ b \in Bytes
        /\ since \in Bytes /\ t.decoded \in Seq(Said) /\ S \in Bytes /\ m <= Len(S)
    BY PartsAreBytes
  <2> HIDE DEF p, sent, t, i, rho, m, S, b, since, all
  <2>2. m \in 0 .. Len(S)
    BY <2>1, ByteOf
  <2>3. all \in Bytes
    BY <2>1, <2>2, PrefixFacts DEF all
  <2> QED
    BY <2>1, <2>3 DEF i, rho
<1>2. PICK x : Before(c, x)
  BY DEF Followed
<1>3. PICK y : Now(c, y)
  BY DEF Followed
<1>4. early = t.decoded /\ v.messages \in Seq(Said) /\ Len(v.messages) = Len(t.decoded) /\ v.imei = i
  BY <1>2, EarlyArrive
<1>5. /\ rho # m => c.decoded = t.decoded \o e.messages
      /\ rho = m => c.decoded = t.decoded
  BY <1>3, LateReads
<1>6. seen \in Seq(Frag) /\ Len(seen) = Len(sent) /\ Readably(p, seen, i)
      /\ \A j \in 0 .. Len(sent) : BytesOf(seen)[j] = BytesOf(sent)[j]
  BY SeenIsReadable
<1>7. Len(sent) \in Nat
  BY <1>1, LenProperties
<1>8. ASSUME NEW n \in Nat, NEW j \in 0 .. Len(sent), Has(sent, n, j)
      PROVE  /\ decode(p, SubSeq(S, 1, n), i).messages = Readings(seen, i, {}, Nat)[j].messages
             /\ decode(p, SubSeq(S, 1, n), i).imei = Readings(seen, i, {}, Nat)[j].imei
  <2>0. S = BytesOf(sent)[Len(sent)]
    BY DEF SentBytes
  <2> HIDE DEF p, sent, seen, i, S
  <2>1. Len(sent) \in 0 .. Len(sent) /\ (j < Len(sent) => j + 1 \in 0 .. Len(sent))
    BY <1>7
  <2>2. /\ BytesOf(seen)[Len(seen)] = S /\ BytesOf(seen)[j] = BytesOf(sent)[j]
        /\ j < Len(sent) => BytesOf(seen)[j + 1] = BytesOf(sent)[j + 1]
    BY <1>6, <2>0, <2>1
  <2>3. Has(seen, n, j)
    BY <1>6, <1>8, <2>0, <2>2 DEF Has
  <2>4. j \in 0 .. Len(seen)
    BY <1>6
  <2>5. /\ decode(p, SubSeq(BytesOf(seen)[Len(seen)], 1, n), i).messages = Readings(seen, i, {}, Nat)[j].messages
        /\ decode(p, SubSeq(BytesOf(seen)[Len(seen)], 1, n), i).imei = Readings(seen, i, {}, Nat)[j].imei
    BY <1>1, <1>6, <2>3, <2>4, StreamArrives DEF i
  <2> QED
    BY <2>2, <2>5
<1>9. decode(p, all, i).messages = late /\ Has(sent, m, l) /\ l \in 0 .. Len(sent)
  <2>1. Has(sent, m, l) /\ l \in 0 .. Len(sent)
    OBVIOUS
  <2> QED
    BY <1>1, <1>8, <2>1
<1>10. decode(p, b, i).messages = v.messages /\ decode(p, b, i).imei = v.imei
  <2>1. Has(sent, rho, k) /\ k \in 0 .. Len(sent) /\ b = SubSeq(S, 1, rho)
    BY DEF Early
  <2> QED
    BY <1>1, <1>8, <2>1
<1>11. e.messages \in Seq(Said)
  BY <1>1, DecodeParts
<1>12. CASE rho = m
  <2>1. late = v.messages
    BY <1>12
  <2>2. From(v.messages, Len(v.messages) + 1) = <<>>
    BY <1>4, SaidParts
  <2>3. t.decoded \o <<>> = t.decoded
    BY <1>1, ConcatEmptySeq
  <2> HIDE DEF early, late, v, t, e
  <2>4. From(late, Len(early) + 1) = <<>>
    BY <1>4, <2>1, <2>2
  <2> QED
    BY <1>4, <1>5, <1>12, <2>3, <2>4 DEF early, late, t
<1>13. CASE rho # m
  <2>1. \E first \in Seq(Said) : Len(first) = Len(t.decoded) /\ late = first \o e.messages
    <3>1. CASE p = "teltonika" \/ t = NeverRestored
      <4> DEFINE none == <<>>
      <4>1. since = all /\ t.decoded = none
        BY <1>2, <3>1, AllIsSince
      <4>2. none \in Seq(Said) /\ none \o e.messages = e.messages
        BY <1>11, NoMessages, ConcatEmptySeq
      <4> HIDE DEF none, late, t, all, since
      <4> QED
        BY <1>9, <4>1, <4>2
    <3>2. CASE p = "meitrack"
      <4> DEFINE none == <<>>
      <4>1. decode(p, all, i).messages = e.messages /\ t.decoded = none
        BY <1>2, <3>2, MeitrackRestIsRead
      <4>2. none \in Seq(Said) /\ none \o e.messages = e.messages
        BY <1>11, NoMessages, ConcatEmptySeq
      <4> HIDE DEF none, late, t, all, since, e
      <4> QED
        BY <1>9, <4>1, <4>2
    <3>3. CASE p \notin {"teltonika", "meitrack"}
      <4>1. decode(p, all, i).messages = decode(p, b, i).messages \o e.messages
        <5>1. decode(p, b, i).imei = i
          BY <1>4, <1>10
        <5> QED
          BY <1>2, <3>3, <5>1, RestIsRead
      <4> HIDE DEF late, t, all, since, e, v, b
      <4> QED
        BY <1>4, <1>9, <1>10, <4>1
    <3> QED
      BY <3>1, <3>2, <3>3
  <2>2. PICK first \in Seq(Said) : Len(first) = Len(t.decoded) /\ late = first \o e.messages
    BY <2>1
  <2>3. From(first \o e.messages, Len(first) + 1) = e.messages
    BY <1>11, SaidParts
  <2> HIDE DEF early, late, v, t, e
  <2>4. From(late, Len(early) + 1) = e.messages
    BY <1>4, <2>2, <2>3
  <2> QED
    BY <1>4, <1>5, <1>13, <2>4 DEF early, late, t
<1> QED
  BY <1>12, <1>13

-----------------------------------------------------------------------------
(* The invariants. *)

FramingInv == ConnOK(conn) /\ Followed(conn) /\ Tuned(conn)

LEMMA FramingStarts == FramingInit => FramingInv
<1> SUFFICES ASSUME FramingInit PROVE FramingInv
  OBVIOUS
<1>1. conn = NoConnection
  BY DEF FramingInit
<1>2. ConnOK(NoConnection) /\ Followed(NoConnection)
  BY NoConnectionIsFine, FramingAssumption
<1>3. Tuned(NoConnection)
  BY DEF Tuned, NoConnection
<1> QED
  BY <1>1, <1>2, <1>3 DEF FramingInv

LEMMA FramingSteps == FramingInv /\ [FramingNext]_conn => FramingInv'
<1> SUFFICES ASSUME FramingInv, [FramingNext]_conn PROVE FramingInv'
  OBVIOUS
<1>1. ConnOK(conn) /\ Followed(conn) /\ Tuned(conn) /\ MAX_BUFFER \in Nat
  BY FramingAssumption DEF FramingInv
<1>2. ASSUME NEW protocol \in Protocol, NEW sent \in SeqOf(Fragment[protocol], MaxFragments), Accept(protocol, sent)
      PROVE  FramingInv'
  <2> DEFINE e == OpenedWith(protocol, sent)
  <2>1. conn' = e
    BY <1>2 DEF Accept, OpenedWith
  <2>2. ConnOK(e) /\ Followed(e)
    BY <1>1, AcceptKeeps
  <2>3. Tuned(e)
    BY DEF Tuned, NoConnection, OpenedWith
  <2> HIDE DEF e
  <2> QED
    BY <2>1, <2>2, <2>3 DEF FramingInv
<1>3. ASSUME NEW protocol \in Protocol, NEW sent \in SeqOf(Fragment[protocol], MaxFragments), Subscribe(protocol, sent)
      PROVE  FramingInv'
  <2> DEFINE t == SubscribedTo(protocol, sent)
  <2>1. conn' = t /\ (protocol = "teltonika" => \A i \in DOMAIN sent : sent[i].imei = 0)
    BY <1>3 DEF Subscribe, SubscribedTo
  <2>2. ConnOK(t)
    BY <1>1, AcceptKeeps
  <2>3. Tuned(t)
    BY <2>1, SubscribeTunes
  <2>4. t.at = "topic"
    BY DEF NoConnection, SubscribedTo
  <2> HIDE DEF t
  <2> QED
    BY <2>1, <2>2, <2>3, <2>4 DEF FramingInv, Followed
<1>4. ASSUME NEW n \in 1 .. Len(Sent) - conn.received, processChunk(n)
      PROVE  FramingInv'
  <2> DEFINE c == conn
             e == Chunk([c EXCEPT !.received = @ + n], c.buffer \o SubSeq(SentBytes(c), c.received + 1, c.received + n))
  <2>1. conn' = e /\ c.at = "open" /\ n \in Nat \ {0} /\ c.received + n <= Len(SentBytes(c))
    BY <1>4 DEF processChunk, Sent, SentBytes
  <2>2. ConnOK(c) /\ Followed(c)
    BY <1>1
  <2> HIDE DEF c
  <2>3. ConnOK(e) /\ Followed(e) /\ e.at \in {"open", "destroyed"}
    BY <1>1, <2>1, <2>2, ChunkKeeps
  <2> HIDE DEF e
  <2> QED
    BY <2>1, <2>3 DEF FramingInv, Tuned
<1>5. ASSUME NEW expired \in BOOLEAN, onMessage(expired)
      PROVE  FramingInv'
  <2> DEFINE c == conn
             e == Payload(c, expired)
  <2>1. conn' = e /\ c.at = "topic" /\ c.received < Len(c.sent)
    BY <1>5 DEF onMessage, Payload
  <2>2. ConnOK(c) /\ Tuned(c)
    BY <1>1
  <2> HIDE DEF c
  <2>3. ConnOK(e) /\ Tuned(e) /\ e.at = "topic"
    BY <2>1, <2>2, PayloadKeeps
  <2> HIDE DEF e
  <2> QED
    BY <2>1, <2>3 DEF FramingInv, Followed
<1>6. ASSUME NEW imei \in Registered, Restore(imei)
      PROVE  FramingInv'
  <2> DEFINE c == conn
             e == RestoredWith(c, imei)
  <2>1. conn' = e /\ c.at = "open" /\ c.imei = 0 /\ c.restored = NeverRestored
    BY <1>6 DEF Restore, RestoredWith
  <2>2. ConnOK(c) /\ Followed(c)
    BY <1>1
  <2> HIDE DEF c
  <2>3. ConnOK(e) /\ Followed(e) /\ e.at = "open"
    BY <2>1, <2>2, RestoreKeeps
  <2> HIDE DEF e
  <2> QED
    BY <2>1, <2>3 DEF FramingInv, Tuned
<1>7. CASE UNCHANGED conn
  BY <1>1, <1>7 DEF FramingInv
<1> QED
  BY <1>2, <1>3, <1>4, <1>5, <1>6, <1>7 DEF FramingNext

LEMMA FramingImplies ==
  ASSUME FramingInv
  PROVE  FramingTypeOK /\ CutsAreHarmless /\ FramesArrive /\ PayloadsAreApart
<1> DEFINE c == conn
           p == c.protocol
           t == c.restored
           m == c.received
<1>1. ConnOK(c) /\ Followed(c) /\ Tuned(c)
  BY DEF FramingInv
<1>2. FramingTypeOK
  BY <1>1 DEF ConnOK, Conns, Restorations, FramingTypeOK, Sent, SentBytes
<1>3. ASSUME c.at = "open", ~c.lost
      PROVE  /\ LikeOneRead(Early(c), 0, t.decoded, t.buffer)
             /\ SubSeq(c.decoded, 1, Len(t.decoded)) = t.decoded
             /\ m > t.received => LikeOneRead(Since(c), t.imei, From(c.decoded, Len(t.decoded) + 1), c.buffer)
  <2> DEFINE d == decode(p, Early(c), 0)
             e == decode(p, Since(c), t.imei)
  <2>1. PICK x : Before(c, x)
    BY <1>1, <1>3 DEF Followed
  <2>2. PICK y : Now(c, y)
    BY <1>1, <1>3 DEF Followed
  <2>3. /\ p \in Protocol /\ t.imei \in Nat /\ t.decoded \in Seq(Said) /\ Since(c) \in Bytes
        /\ t.received \in Nat /\ m \in Nat /\ t.received <= m
    BY <1>1, <1>3, PartsAreBytes
  <2>4. d.go = "stop" /\ t.decoded = d.messages /\ (p = "meitrack" \/ t.buffer = From(Early(c), d.n + 1))
    BY <1>1, <1>3, <2>1, EarlyReads
  <2>5. m = t.received => c.decoded = t.decoded
    BY <1>1, <1>3, <2>2, LateReads
  <2>6. e.messages \in Seq(Said)
    BY <2>3, DecodeParts
  <2>7. LikeOneRead(Early(c), 0, t.decoded, t.buffer)
    BY <2>4 DEF LikeOneRead
  <2> HIDE DEF d, e
  <2>8. CASE m = t.received
    <3>1. SubSeq(t.decoded, 1, Len(t.decoded)) = t.decoded
      BY <2>3, SubSeqFull
    <3>2. ~(m > t.received)
      BY <2>3, <2>8
    <3> QED
      BY <2>5, <2>7, <2>8, <3>1, <3>2
  <2>9. CASE m # t.received
    <3>1. SubSeq(t.decoded \o e.messages, 1, Len(t.decoded)) = t.decoded
          /\ From(t.decoded \o e.messages, Len(t.decoded) + 1) = e.messages
      BY <2>3, <2>6, SaidParts
    <3>2. /\ e.go = "stop" /\ c.decoded = t.decoded \o e.messages
          /\ p = "meitrack" \/ c.buffer = From(Since(c), e.n + 1)
      BY <1>1, <1>3, <2>2, <2>9, LateReads DEF e
    <3> DEFINE late == From(c.decoded, Len(t.decoded) + 1)
    <3>3. late = e.messages /\ SubSeq(c.decoded, 1, Len(t.decoded)) = t.decoded
      BY <3>1, <3>2
    <3> HIDE DEF late
    <3>4. LikeOneRead(Since(c), t.imei, late, c.buffer)
      BY <3>2, <3>3 DEF LikeOneRead, e
    <3> QED
      BY <2>7, <3>3, <3>4 DEF late
  <2> QED
    BY <2>8, <2>9
<1>4. CutsAreHarmless
  BY <1>3 DEF CutsAreHarmless, Sent, SentBytes, Early, Since
<1>5. ASSUME c.at = "open", ~c.lost, Legible
      PROVE  LET early == Readings(Seen, 0, {}, Nat)[Arrived(t.received)].messages
                 late  == Readings(Seen, t.imei, {}, Nat)[Arrived(m)].messages
             IN  c.decoded = early \o From(late, Len(early) + 1)
  <2> DEFINE sent == c.sent
             k == Arrived(t.received)
             l == Arrived(m)
  <2>1. Seen = SeenBy(c) /\ Clear(p, sent)
    BY <1>5 DEF Seen, SeenBy, AsNoise, Clear, Legible
  <2>2. /\ sent \in Seq(Frag) /\ t.received \in Nat /\ m \in Nat /\ t.received <= m
        /\ m <= Len(BytesOf(sent)[Len(sent)]) /\ Len(BytesOf(sent)[Len(sent)]) \in Nat
    <3>1. /\ sent \in Seq(Frag) /\ t.received \in Nat /\ m \in Nat /\ t.received <= m
          /\ m <= Len(SentBytes(c)) /\ SentBytes(c) \in Bytes
      BY <1>1, <1>5, PartsAreBytes
    <3> QED
      BY <3>1, ByteOf DEF SentBytes
  <2>3. k \in 0 .. Len(sent) /\ Has(sent, t.received, k)
    <3> DEFINE n == t.received
    <3>1. k = Max({j \in 0 .. Len(sent) : Len(BytesOf(sent)[j]) <= n})
      BY DEF Arrived
    <3>2. n \in Nat /\ n <= Len(BytesOf(sent)[Len(sent)])
      BY <2>2
    <3> HIDE DEF n, k, sent
    <3>3. k \in 0 .. Len(sent) /\ Has(sent, n, k)
      BY <2>2, <3>1, <3>2, ArrivedIs
    <3> QED
      BY <3>3 DEF n
  <2>4. l \in 0 .. Len(sent) /\ Has(sent, m, l)
    <3>1. l = Max({j \in 0 .. Len(sent) : Len(BytesOf(sent)[j]) <= m})
      BY DEF Arrived
    <3> HIDE DEF m, l, sent
    <3> QED
      BY <2>2, <3>1, ArrivedIs
  <2>5. t.received = m => k = l
    OBVIOUS
  <2> HIDE DEF k, l
  <2>6. LET early == Readings(SeenBy(c), 0, {}, Nat)[k].messages
            late  == Readings(SeenBy(c), c.restored.imei, {}, Nat)[l].messages
        IN  c.decoded = early \o From(late, Len(early) + 1)
    BY <1>1, <1>5, <2>1, <2>3, <2>4, <2>5, FramesHaveArrived
  <2> QED
    BY <2>1, <2>6 DEF k, l
<1>6. FramesArrive
  BY <1>5 DEF FramesArrive
<1>7. PayloadsAreApart
  BY <1>1 DEF Tuned, Heeded, PayloadsAreApart
<1> QED
  BY <1>2, <1>4, <1>6, <1>7

LEMMA FramingAlways == FramingSpec => []FramingInv
<1> QED
  BY FramingStarts, FramingSteps, PTL DEF FramingSpec

\* The buffer keeps to MAX_BUFFER after every chunk, no more is handled than was
\* decoded, and nothing is read that was not sent (processChunk and the session of a
\* connection, server.ts; the session of a topic, mqtt.ts).
THEOREM FramingIsTyped == FramingSpec => []FramingTypeOK
<1>1. FramingInv => FramingTypeOK
  BY FramingImplies
<1> QED
  BY <1>1, FramingAlways, PTL

\* For every stream of any length, cut anywhere into chunks of any size, the messages
\* decoded chunk by chunk are those of one read of all bytes so far, and what is kept is
\* the rest of that read; when an IMEI is restored before some byte, they are those of
\* one read of the bytes before it and one, with that IMEI, of what was kept and the
\* bytes since: the six decode loops, processChunk and the restoration (server.ts).
THEOREM CutsNeverHarm == FramingSpec => []CutsAreHarmless
<1>1. FramingInv => CutsAreHarmless
  BY FramingImplies
<1> QED
  BY <1>1, FramingAlways, PTL

\* In a legible stream of any length each frame is a message as soon as its last byte
\* is in, once and in order, whatever noise is between the frames (the decode loops'
\* resynchronisation).  An IMEI restored on the way loses none and doubles none, but
\* names the device of the frames that name none, and makes noise of a Teltonika login
\* that has not come whole.
THEOREM LegibleFramesArrive == FramingSpec => []FramesArrive
<1>1. FramingInv => FramesArrive
  BY FramingImplies
<1> QED
  BY <1>1, FramingAlways, PTL

\* A damaged payload of a topic harms no other, and a frame is handled exactly when the
\* device its session named last is the topic's (onMessage, mqtt.ts).
THEOREM PayloadsStayApart == FramingSpec => []PayloadsAreApart
<1>1. FramingInv => PayloadsAreApart
  BY FramingImplies
<1> QED
  BY <1>1, FramingAlways, PTL

\* The three together, as the run checks them: neither the cuts of TCP nor the IMEI the
\* session store restores between them (server.ts lines 76-82 and 135-187) nor a damaged
\* MQTT payload (onMessage, mqtt.ts) changes what is read, except where each part says.
THEOREM FramesAlwaysSurvive == FramingSpec => []FramesSurvive
  BY CutsNeverHarm, LegibleFramesArrive, PayloadsStayApart, PTL DEF FramesSurvive

=============================================================================
