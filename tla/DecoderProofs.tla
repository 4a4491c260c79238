--------------------------- MODULE DecoderProofs ----------------------------
(***************************************************************************)
(* Proofs about the six decoders, for bytes of any number.  An iteration   *)
(* that goes on does so whatever follows, one that waits resumes where it  *)
(* was; by induction over the bytes, a read that was cut is the read that  *)
(* was not.  Then what the repository's encoders write, which the decoders *)
(* read frame by frame.                                                    *)
(***************************************************************************)
EXTENDS Framing, SequenceTheorems, WellFoundedInduction, TLAPS

-----------------------------------------------------------------------------
(* Numbers and sequences. *)

LEMMA Climb ==
  ASSUME NEW X, 0 \in X, \A n \in Nat : n \in X => n + 1 \in X
  PROVE  Nat \subseteq X
<1> DEFINE R == OpToRel(<, Nat)
           T == Nat \ X
<1>1. IsWellFoundedOn(R, Nat)
  BY NatLessThanWellFounded
<1>2. \A n, m \in Nat : <<m, n>> \in R <=> m < n
  BY DEF OpToRel
<1>3. CASE T # {}
  <2> HIDE DEF R
  <2>1. PICK n \in T : \A m \in T : <<m, n>> \notin R
    BY <1>1, <1>3, WFMin
  <2>2. n \in Nat \ {0} /\ n - 1 \in Nat /\ n - 1 < n /\ n - 1 + 1 = n
    BY <2>1
  <2>3. n - 1 \notin X
    BY <2>1, <2>2
  <2> QED
    BY <1>2, <2>1, <2>2, <2>3
<1> QED
  BY <1>3

\* A set of positions is empty or has a least one.
LEMMA LeastFacts ==
  ASSUME NEW S \in SUBSET (Nat \ {0})
  PROVE  /\ Least(S) \in Nat
         /\ Least(S) = 0 <=> S = {}
         /\ S # {} => Least(S) \in S
         /\ \A k \in S : Least(S) <= k
<1> DEFINE R == OpToRel(<, Nat)
<1>1. CASE S # {}
  <2>1. IsWellFoundedOn(R, Nat) /\ \A n, m \in Nat : <<m, n>> \in R <=> m < n
    BY NatLessThanWellFounded DEF OpToRel
  <2> HIDE DEF R
  <2>2. PICK n \in S : \A m \in S : <<m, n>> \notin R
    BY <1>1, <2>1, WFMin
  <2>3. ASSUME NEW m \in S PROVE n <= m
    <3>1. m \in Nat /\ n \in Nat /\ <<m, n>> \notin R
      BY <2>2
    <3> QED
      BY <2>1, <3>1
  <2>4. Min(S) \in S /\ \A m \in S : Min(S) <= m
    BY <2>3 DEF Min
  <2> QED
    BY <1>1, <2>4 DEF Least
<1>2. CASE S = {}
  BY <1>2 DEF Least
<1> QED
  BY <1>1, <1>2

\* The least position is known by what it is.
LEMMA LeastIs ==
  ASSUME NEW S \in SUBSET (Nat \ {0}), NEW k \in S, \A j \in S : k <= j
  PROVE  Least(S) = k
<1>1. Least(S) \in S /\ Least(S) <= k /\ k <= Least(S) /\ k \in Nat /\ Least(S) \in Nat
  BY LeastFacts
<1> QED
  BY <1>1

Bytes == Seq(Nat)

LEMMA FromFacts ==
  ASSUME NEW b \in Bytes, NEW n \in 0 .. Len(b)
  PROVE  /\ From(b, n + 1) \in Bytes
         /\ Len(From(b, n + 1)) = Len(b) - n
         /\ \A j \in 1 .. Len(b) - n : From(b, n + 1)[j] = b[n + j]
<1>1. Len(b) \in Nat /\ \A j \in n + 1 .. Len(b) : b[j] \in Nat
  BY LenProperties DEF Bytes
<1> QED
  BY <1>1, SubSeqProperties DEF From, Bytes

LEMMA SameBytes ==
  ASSUME NEW b \in Bytes, NEW c \in Bytes, Len(b) = Len(c), \A j \in 1 .. Len(b) : b[j] = c[j]
  PROVE  b = c
BY SeqEqual DEF Bytes

LEMMA Joined ==
  ASSUME NEW b \in Bytes, NEW y \in Bytes
  PROVE  /\ b \o y \in Bytes /\ Len(b \o y) = Len(b) + Len(y) /\ Len(b) \in Nat /\ Len(y) \in Nat
         /\ \A j \in 1 .. Len(b) : (b \o y)[j] = b[j]
         /\ \A j \in 1 .. Len(y) : (b \o y)[Len(b) + j] = y[j]
<1>1. Len(b) \in Nat /\ Len(y) \in Nat
  BY LenProperties DEF Bytes
<1>2. /\ b \o y \in Bytes /\ Len(b \o y) = Len(b) + Len(y)
      /\ \A i \in 1 .. Len(b) + Len(y) : (b \o y)[i] = IF i <= Len(b) THEN b[i] ELSE y[i - Len(b)]
  BY ConcatProperties DEF Bytes
<1> QED
  BY <1>1, <1>2

\* A byte of a sequence of bytes.
LEMMA ByteOf ==
  ASSUME NEW b \in Bytes
  PROVE  Len(b) \in Nat /\ \A j \in 1 .. Len(b) : b[j] \in Nat
BY LenProperties DEF Bytes

LEMMA FromFrom ==
  ASSUME NEW b \in Bytes, NEW n \in 0 .. Len(b), NEW m \in 0 .. Len(b) - n
  PROVE  From(From(b, n + 1), m + 1) = From(b, n + m + 1)
<1>1. Len(b) \in Nat /\ n + m \in 0 .. Len(b)
  BY ByteOf
<1> DEFINE c == From(b, n + 1)
           e == From(b, n + m + 1)
           g == From(c, m + 1)
<1>2. /\ c \in Bytes /\ Len(c) = Len(b) - n
      /\ \A j \in 1 .. Len(b) - n : c[j] = b[n + j]
  BY FromFacts
<1>3. /\ e \in Bytes /\ Len(e) = Len(b) - (n + m)
      /\ \A j \in 1 .. Len(b) - (n + m) : e[j] = b[n + m + j]
  BY <1>1, FromFacts
<1> HIDE DEF c, e
<1>4. /\ g \in Bytes /\ Len(g) = Len(c) - m
      /\ \A j \in 1 .. Len(c) - m : g[j] = c[m + j]
  BY <1>1, <1>2, FromFacts
<1> HIDE DEF g
<1>5. Len(g) = Len(e)
  BY <1>1, <1>2, <1>3, <1>4
<1>6. ASSUME NEW j \in 1 .. Len(g) PROVE g[j] = e[j]
  <2>1. j \in 1 .. Len(c) - m /\ m + j \in 1 .. Len(b) - n /\ j \in 1 .. Len(b) - (n + m) /\ n + (m + j) = n + m + j
    BY <1>1, <1>2, <1>3, <1>4
  <2> QED
    BY <1>2, <1>3, <1>4, <2>1
<1>7. g = e
  BY <1>3, <1>4, <1>5, <1>6, SameBytes
<1> QED
  BY <1>7 DEF c, e, g

LEMMA FromJoined ==
  ASSUME NEW b \in Bytes, NEW y \in Bytes, NEW n \in 0 .. Len(b)
  PROVE  From(b \o y, n + 1) = From(b, n + 1) \o y
<1> DEFINE c == b \o y
           r == From(b, n + 1)
<1>1. /\ c \in Bytes /\ Len(c) = Len(b) + Len(y) /\ Len(b) \in Nat /\ Len(y) \in Nat
      /\ \A j \in 1 .. Len(b) : c[j] = b[j]
      /\ \A j \in 1 .. Len(y) : c[Len(b) + j] = y[j]
  BY Joined
<1>2. r \in Bytes /\ Len(r) = Len(b) - n /\ \A j \in 1 .. Len(b) - n : r[j] = b[n + j]
  BY FromFacts
<1> HIDE DEF c, r
<1> DEFINE g == From(c, n + 1)
           e == r \o y
<1>3. /\ g \in Bytes /\ Len(g) = Len(c) - n
      /\ \A j \in 1 .. Len(c) - n : g[j] = c[n + j]
  <2>1. n \in 0 .. Len(c)
    BY <1>1
  <2> QED
    BY <1>1, <2>1, FromFacts
<1>4. /\ e \in Bytes /\ Len(e) = Len(r) + Len(y)
      /\ \A j \in 1 .. Len(r) : e[j] = r[j]
      /\ \A j \in 1 .. Len(y) : e[Len(r) + j] = y[j]
  BY <1>2, Joined
<1> HIDE DEF g, e
<1>5. Len(g) = Len(e)
  BY <1>1, <1>2, <1>3, <1>4
<1>6. ASSUME NEW j \in 1 .. Len(g) PROVE g[j] = e[j]
  <2>1. g[j] = c[n + j]
    BY <1>3
  <2>2. CASE j <= Len(r)
    <3>1. j \in 1 .. Len(r) /\ j \in 1 .. Len(b) - n /\ n + j \in 1 .. Len(b)
      BY <1>1, <1>2, <1>3, <2>2
    <3> QED
      BY <1>1, <1>2, <1>4, <2>1, <3>1
  <2>3. CASE j > Len(r)
    <3> DEFINE k == j - Len(r)
    <3>1. k \in 1 .. Len(y) /\ j = Len(r) + k /\ n + j = Len(b) + k
      BY <1>1, <1>2, <1>3, <2>3
    <3> HIDE DEF k
    <3> QED
      BY <1>1, <1>4, <2>1, <3>1
  <2> QED
    BY <1>1, <1>2, <1>3, <2>2, <2>3
<1>7. g = e
  BY <1>3, <1>4, <1>5, <1>6, SameBytes
<1> QED
  BY <1>7 DEF c, r, g, e

LEMMA FromEnds ==
  ASSUME NEW b \in Bytes
  PROVE  From(b, 1) = b /\ From(b, Len(b) + 1) = <<>>
<1>1. Len(b) \in Nat
  BY ByteOf
<1>2. SubSeq(b, 1, Len(b)) = b
  BY SubSeqFull DEF Bytes
<1>3. SubSeq(b, Len(b) + 1, Len(b)) = <<>>
  BY <1>1, SubSeqEmpty
<1> QED
  BY <1>2, <1>3 DEF From

LEMMA PartOfJoined ==
  ASSUME NEW b \in Bytes, NEW y \in Bytes, NEW m \in Nat \ {0}, NEW n \in Int, n <= Len(b)
  PROVE  SubSeq(b \o y, m, n) = SubSeq(b, m, n) /\ SubSeq(b, m, n) \in Bytes
<1>1. /\ b \o y \in Bytes /\ Len(b \o y) = Len(b) + Len(y) /\ Len(b) \in Nat /\ Len(y) \in Nat
      /\ \A j \in 1 .. Len(b) : (b \o y)[j] = b[j]
  BY Joined
<1>2. \A j \in m .. n : b[j] \in Nat /\ (b \o y)[j] = b[j]
  BY <1>1, ByteOf
<1>3. /\ SubSeq(b, m, n) \in Bytes /\ Len(SubSeq(b, m, n)) = IF m <= n THEN n - m + 1 ELSE 0
      /\ \A i \in 1 .. n - m + 1 : SubSeq(b, m, n)[i] = b[m + i - 1]
  BY <1>2, SubSeqProperties DEF Bytes
<1> DEFINE c == b \o y
<1> HIDE DEF c
<1>4. /\ SubSeq(c, m, n) \in Bytes /\ Len(SubSeq(c, m, n)) = IF m <= n THEN n - m + 1 ELSE 0
      /\ \A i \in 1 .. n - m + 1 : SubSeq(c, m, n)[i] = c[m + i - 1]
  BY <1>2, SubSeqProperties DEF Bytes, c
<1>5. \A i \in 1 .. Len(SubSeq(b, m, n)) : SubSeq(c, m, n)[i] = SubSeq(b, m, n)[i]
  BY <1>2, <1>3, <1>4 DEF c
<1>6. SubSeq(c, m, n) = SubSeq(b, m, n)
  BY <1>3, <1>4, <1>5, SameBytes
<1> QED
  BY <1>3, <1>6 DEF c

\* A part of the rest is a part of the whole.
LEMMA PartOfRest ==
  ASSUME NEW b \in Bytes, NEW n \in 0 .. Len(b), NEW m \in Nat \ {0}, NEW k \in Int, k <= Len(b) - n
  PROVE  SubSeq(From(b, n + 1), m, k) = SubSeq(b, n + m, n + k)
<1> DEFINE r == From(b, n + 1)
           g == SubSeq(r, m, k)
           e == SubSeq(b, n + m, n + k)
<1>1. Len(b) \in Nat /\ \A j \in 1 .. Len(b) : b[j] \in Nat
  BY ByteOf
<1>2. r \in Bytes /\ Len(r) = Len(b) - n /\ \A j \in 1 .. Len(b) - n : r[j] = b[n + j]
  BY FromFacts
<1> HIDE DEF r
<1>3. \A j \in m .. k : r[j] \in Nat /\ r[j] = b[n + j] /\ b[n + j] \in Nat
  BY <1>1, <1>2
<1>4. /\ g \in Bytes /\ Len(g) = IF m <= k THEN k - m + 1 ELSE 0
      /\ \A j \in 1 .. k - m + 1 : g[j] = r[m + j - 1]
  BY <1>3, SubSeqProperties DEF Bytes
<1>5. \A j \in n + m .. n + k : b[j] \in Nat
  BY <1>1
<1>6. /\ e \in Bytes /\ Len(e) = IF n + m <= n + k THEN (n + k) - (n + m) + 1 ELSE 0
      /\ \A j \in 1 .. (n + k) - (n + m) + 1 : e[j] = b[n + m + j - 1]
  BY <1>1, <1>5, SubSeqProperties DEF Bytes
<1> HIDE DEF g, e
<1>7. Len(g) = Len(e)
  BY <1>1, <1>4, <1>6
<1>8. ASSUME NEW j \in 1 .. Len(g) PROVE g[j] = e[j]
  <2>1. m + j - 1 \in m .. k /\ j \in 1 .. k - m + 1 /\ j \in 1 .. (n + k) - (n + m) + 1
        /\ n + (m + j - 1) = n + m + j - 1
    BY <1>1, <1>4
  <2> QED
    BY <1>3, <1>4, <1>6, <2>1
<1>9. g = e
  BY <1>4, <1>6, <1>7, <1>8, SameBytes
<1> QED
  BY <1>9 DEF r, g, e

LEMMA IndexFacts ==
  ASSUME NEW b \in Bytes, NEW byte, NEW i \in Nat \ {0}
  PROVE  \/ indexOf(b, byte, i) = 0 /\ \A j \in i .. Len(b) : b[j] # byte
         \/ /\ indexOf(b, byte, i) \in i .. Len(b) /\ b[indexOf(b, byte, i)] = byte
            /\ \A j \in i .. Len(b) : b[j] = byte => indexOf(b, byte, i) <= j
<1> DEFINE S == {k \in i .. Len(b) : b[k] = byte}
<1>1. Len(b) \in Nat
  BY ByteOf
<1>2. S \in SUBSET (Nat \ {0})
  BY <1>1
<1>3. indexOf(b, byte, i) = Least(S)
  BY DEF indexOf
<1>4. \A k : k \in S <=> k \in i .. Len(b) /\ b[k] = byte
  OBVIOUS
<1> HIDE DEF S
<1>5. /\ Least(S) = 0 <=> S = {}
      /\ S # {} => Least(S) \in S
      /\ \A k \in S : Least(S) <= k
  BY <1>2, LeastFacts
<1> QED
  BY <1>3, <1>4, <1>5

LEMMA IndexIs ==
  ASSUME NEW b \in Bytes, NEW byte, NEW i \in Nat \ {0}
  PROVE  /\ \A k \in i .. Len(b) : b[k] = byte /\ (\A j \in i .. k - 1 : b[j] # byte) => indexOf(b, byte, i) = k
         /\ (\A j \in i .. Len(b) : b[j] # byte) => indexOf(b, byte, i) = 0
<1>1. Len(b) \in Nat
  BY ByteOf
<1>2. ASSUME NEW k \in i .. Len(b), b[k] = byte, \A j \in i .. k - 1 : b[j] # byte
      PROVE  indexOf(b, byte, i) = k
  <2> DEFINE p == indexOf(b, byte, i)
  <2>1. p \in i .. Len(b) /\ b[p] = byte /\ p <= k
    BY <1>2, IndexFacts
  <2> HIDE DEF p
  <2>2. p \notin i .. k - 1
    BY <1>2, <2>1
  <2>3. p = k
    BY <1>1, <2>1, <2>2
  <2> QED
    BY <2>3 DEF p
<1>3. ASSUME \A j \in i .. Len(b) : b[j] # byte
      PROVE  indexOf(b, byte, i) = 0
  BY <1>3, IndexFacts
<1> QED
  BY <1>2, <1>3

\* A byte that was found is found at the same place when more bytes follow.
LEMMA IndexStays ==
  ASSUME NEW b \in Bytes, NEW y \in Bytes, NEW byte, NEW i \in Nat \ {0}, indexOf(b, byte, i) # 0
  PROVE  indexOf(b \o y, byte, i) = indexOf(b, byte, i)
<1> DEFINE c == b \o y
           k == indexOf(b, byte, i)
<1>1. /\ c \in Bytes /\ Len(c) = Len(b) + Len(y) /\ Len(b) \in Nat /\ Len(y) \in Nat
      /\ \A j \in 1 .. Len(b) : c[j] = b[j]
  BY Joined
<1>2. k \in i .. Len(b) /\ b[k] = byte /\ \A j \in i .. Len(b) : b[j] = byte => k <= j
  BY IndexFacts
<1> HIDE DEF c, k
<1>3. k \in i .. Len(c) /\ k \in 1 .. Len(b)
  BY <1>1, <1>2
<1>4. \A j \in i .. k - 1 : c[j] # byte
  BY <1>1, <1>2
<1>5. c[k] = byte
  BY <1>1, <1>2, <1>3
<1>6. indexOf(c, byte, i) = k
  BY <1>1, <1>3, <1>4, <1>5, IndexIs
<1> QED
  BY <1>6 DEF c, k

\* Searching the rest is searching the whole from there on.
LEMMA IndexInRest ==
  ASSUME NEW b \in Bytes, NEW n \in 0 .. Len(b), NEW byte, NEW i \in Nat \ {0}
  PROVE  indexOf(b, byte, n + i) = IF indexOf(From(b, n + 1), byte, i) = 0 THEN 0 ELSE n + indexOf(From(b, n + 1), byte, i)
<1> DEFINE r == From(b, n + 1)
           k == indexOf(r, byte, i)
<1>1. Len(b) \in Nat /\ n + i \in Nat \ {0}
  BY ByteOf
<1>2. r \in Bytes /\ Len(r) = Len(b) - n /\ \A j \in 1 .. Len(b) - n : r[j] = b[n + j]
  BY FromFacts
<1> HIDE DEF r
<1>3. \/ k = 0 /\ \A j \in i .. Len(r) : r[j] # byte
      \/ k \in i .. Len(r) /\ r[k] = byte /\ \A j \in i .. Len(r) : r[j] = byte => k <= j
  BY <1>2, IndexFacts
<1> HIDE DEF k
<1>4. \A j \in n + i .. Len(b) : j - n \in i .. Len(r) /\ j - n \in 1 .. Len(b) - n /\ b[j] = r[j - n]
  BY <1>1, <1>2
<1>5. CASE k = 0
  <2>1. \A j \in n + i .. Len(b) : b[j] # byte
    BY <1>1, <1>2, <1>3, <1>4, <1>5
  <2>2. indexOf(b, byte, n + i) = 0
    BY <1>1, <2>1, IndexIs
  <2> QED
    BY <1>5, <2>2 DEF r, k
<1>6. CASE k # 0
  <2> DEFINE q == n + k
  <2>1. q \in n + i .. Len(b) /\ b[q] = byte
    BY <1>1, <1>2, <1>3, <1>6
  <2>2. ASSUME NEW j \in n + i .. q - 1 PROVE b[j] # byte
    <3>1. j \in n + i .. Len(b)
      BY <1>1, <1>2, <1>3, <1>6
    <3>2. r[j - n] # byte
      BY <1>1, <1>2, <1>3, <1>4, <1>6, <3>1
    <3> QED
      BY <1>4, <3>1, <3>2
  <2> HIDE DEF q
  <2>3. indexOf(b, byte, n + i) = q
    BY <1>1, <2>1, <2>2, IndexIs
  <2> QED
    BY <1>6, <2>3 DEF r, k, q
<1> QED
  BY <1>5, <1>6

-----------------------------------------------------------------------------
(* Frames between two bytes (H02 and Queclink). *)

\* What comes before the first byte of a frame only moves the frame.
LEMMA DelimitedMoves ==
  ASSUME NEW b \in Bytes, NEW n \in 0 .. Len(b), NEW first, NEW last, \A j \in 1 .. n : b[j] # first
  PROVE  /\ Delimited(b, first, last).whole = Delimited(From(b, n + 1), first, last).whole
         /\ Delimited(b, first, last).n = n + Delimited(From(b, n + 1), first, last).n
         /\ Delimited(b, first, last).parts = Delimited(From(b, n + 1), first, last).parts
<1> DEFINE r == From(b, n + 1)
           s == indexOf(r, first, 1)
           e == indexOf(r, last, s + 1)
           sb == indexOf(b, first, 1)
           eb == indexOf(b, last, sb + 1)
<1>1. Len(b) \in Nat
  BY ByteOf
<1>2. r \in Bytes /\ Len(r) = Len(b) - n
  BY FromFacts
<1>3. s \in 0 .. Len(r)
  BY <1>1, <1>2, IndexFacts
<1>4. indexOf(b, first, n + 1) = IF s = 0 THEN 0 ELSE n + s
  BY IndexInRest
<1>5. sb = IF s = 0 THEN 0 ELSE n + s
  <2> DEFINE q == indexOf(b, first, n + 1)
  <2>1. \/ q = 0 /\ \A j \in n + 1 .. Len(b) : b[j] # first
        \/ q \in n + 1 .. Len(b) /\ b[q] = first /\ \A j \in n + 1 .. Len(b) : b[j] = first => q <= j
    BY IndexFacts
  <2> HIDE DEF q
  <2>2. CASE q = 0
    <3>1. \A j \in 1 .. Len(b) : b[j] # first
      BY <1>1, <2>1, <2>2
    <3> QED
      BY <1>4, <2>2, <3>1, IndexIs DEF q
  <2>3. CASE q # 0
    <3>1. q \in 1 .. Len(b) /\ b[q] = first /\ \A j \in 1 .. q - 1 : b[j] # first
      BY <1>1, <2>1, <2>3
    <3> QED
      BY <1>4, <2>3, <3>1, IndexIs DEF q
  <2> QED
    BY <2>2, <2>3
<1> HIDE DEF r, s, sb
<1>6. CASE s = 0
  <2>1. Delimited(r, first, last) = [whole |-> FALSE, n |-> Len(r), parts |-> <<>>]
    BY <1>6 DEF Delimited, s
  <2>2. Delimited(b, first, last) = [whole |-> FALSE, n |-> Len(b), parts |-> <<>>]
    BY <1>5, <1>6 DEF Delimited, sb
  <2> QED
    <3>1. n + Len(r) = Len(b)
      BY <1>1, <1>2
    <3>2. Delimited(b, first, last).whole = Delimited(r, first, last).whole
      BY <2>1, <2>2
    <3>3. Delimited(b, first, last).n = n + Delimited(r, first, last).n
      BY <2>1, <2>2, <3>1
    <3>4. Delimited(b, first, last).parts = Delimited(r, first, last).parts
      BY <2>1, <2>2
    <3> QED
      BY <3>2, <3>3, <3>4 DEF r
<1>7. CASE s # 0
  <2>1. s \in Nat /\ s + 1 \in Nat \ {0} /\ sb = n + s /\ sb # 0 /\ sb + 1 = n + (s + 1)
    BY <1>1, <1>3, <1>5, <1>7
  <2>2. eb = IF e = 0 THEN 0 ELSE n + e
    BY <2>1, IndexInRest DEF r
  <2>3. e = 0 \/ e \in s + 1 .. Len(r)
    BY <1>2, <2>1, IndexFacts
  <2> HIDE DEF e, eb
  <2>4. CASE e = 0
    <3>1. Delimited(r, first, last) = [whole |-> FALSE, n |-> s - 1, parts |-> <<>>]
      BY <1>7, <2>4 DEF Delimited, s, e
    <3>2. Delimited(b, first, last) = [whole |-> FALSE, n |-> sb - 1, parts |-> <<>>]
      BY <2>1, <2>2, <2>4 DEF Delimited, sb, eb
    <3>3. sb - 1 = n + (s - 1)
      BY <2>1
    <3>5. Delimited(b, first, last).whole = Delimited(r, first, last).whole
      BY <3>1, <3>2
    <3>6. Delimited(b, first, last).n = n + Delimited(r, first, last).n
      BY <3>1, <3>2, <3>3
    <3>7. Delimited(b, first, last).parts = Delimited(r, first, last).parts
      BY <3>1, <3>2
    <3> QED
      BY <3>5, <3>6, <3>7 DEF r
  <2>5. CASE e # 0
    <3> DEFINE pr == SubSeq(r, s + 1, e - 1)
               pb == SubSeq(b, sb + 1, eb - 1)
    <3>1. Delimited(r, first, last) = [whole |-> TRUE, n |-> e, parts |-> pr]
      BY <1>7, <2>5 DEF Delimited, s, e
    <3>2. eb = n + e /\ eb # 0 /\ e - 1 \in Int /\ e - 1 <= Len(b) - n /\ sb + 1 = n + (s + 1) /\ eb - 1 = n + (e - 1)
      BY <1>1, <1>2, <2>1, <2>2, <2>3, <2>5
    <3>3. Delimited(b, first, last) = [whole |-> TRUE, n |-> eb, parts |-> pb]
      BY <2>1, <3>2 DEF Delimited, sb, eb
    <3>4. pr = pb
      <4>1. SubSeq(r, s + 1, e - 1) = SubSeq(b, n + (s + 1), n + (e - 1))
        BY <2>1, <3>2, PartOfRest DEF r
      <4> QED
        BY <3>2, <4>1
    <3> HIDE DEF pr, pb
    <3>5. Delimited(b, first, last).whole = Delimited(r, first, last).whole
      BY <3>1, <3>3
    <3>6. Delimited(b, first, last).n = n + Delimited(r, first, last).n
      BY <3>1, <3>2, <3>3
    <3>7. Delimited(b, first, last).parts = Delimited(r, first, last).parts
      BY <3>1, <3>3, <3>4
    <3> QED
      BY <3>5, <3>6, <3>7 DEF r
  <2> QED
    BY <2>4, <2>5
<1> QED
  BY <1>6, <1>7

-----------------------------------------------------------------------------
(* What one iteration, or the whole loop, comes to. *)

Kinds == {"login", "location", "alarm", "heartbeat", "unknown"}
Said == [kind : Kinds, imei : Nat]
Frag == [bytes : Bytes, is : {"frame", "noise", "cut"}, kinds : Seq(Kinds), imei : Nat]
Outcomes == [go : {"stop", "next", "throw"}, n : Nat, messages : Seq(Said), imei : Nat]

LEMMA Constructors ==
  ASSUME NEW n, NEW messages, NEW i
  PROVE  /\ Stop(n, i) = [go |-> "stop", n |-> n, messages |-> <<>>, imei |-> i]
         /\ Skip(n, i) = [go |-> "next", n |-> n, messages |-> <<>>, imei |-> i]
         /\ Take(n, messages, i) = [go |-> "next", n |-> n, messages |-> messages, imei |-> i]
         /\ Throw(i) = [go |-> "throw", n |-> 0, messages |-> <<>>, imei |-> i]
<1>1. Stop(n, i) = [go |-> "stop", n |-> n, messages |-> <<>>, imei |-> i]
  BY DEF Stop
<1>2. Skip(n, i) = [go |-> "next", n |-> n, messages |-> <<>>, imei |-> i]
  BY DEF Stop, Skip
<1>3. Take(n, messages, i) = [go |-> "next", n |-> n, messages |-> messages, imei |-> i]
  <2> DEFINE none == <<>>
  <2>1. Skip(n, i) = [go |-> "next", n |-> n, messages |-> none, imei |-> i]
    BY <1>2
  <2> HIDE DEF none
  <2> QED
    BY <2>1 DEF Take
<1>4. Throw(i) = [go |-> "throw", n |-> 0, messages |-> <<>>, imei |-> i]
  BY DEF Stop, Throw
<1> QED
  BY <1>1, <1>2, <1>3, <1>4

LEMMA Fields ==
  ASSUME NEW n, NEW messages, NEW i
  PROVE  /\ Stop(n, i).go = "stop" /\ Stop(n, i).n = n /\ Stop(n, i).messages = <<>> /\ Stop(n, i).imei = i
         /\ Skip(n, i).go = "next" /\ Skip(n, i).n = n /\ Skip(n, i).messages = <<>> /\ Skip(n, i).imei = i
         /\ Take(n, messages, i).go = "next" /\ Take(n, messages, i).n = n
         /\ Take(n, messages, i).messages = messages /\ Take(n, messages, i).imei = i
         /\ Throw(i).go = "throw" /\ Throw(i).n = 0 /\ Throw(i).messages = <<>> /\ Throw(i).imei = i
<1> DEFINE none == <<>>
<1>1. /\ Stop(n, i) = [go |-> "stop", n |-> n, messages |-> none, imei |-> i]
      /\ Skip(n, i) = [go |-> "next", n |-> n, messages |-> none, imei |-> i]
      /\ Take(n, messages, i) = [go |-> "next", n |-> n, messages |-> messages, imei |-> i]
      /\ Throw(i) = [go |-> "throw", n |-> 0, messages |-> none, imei |-> i]
  BY Constructors
<1> HIDE DEF none
<1>2. /\ Stop(n, i).go = "stop" /\ Stop(n, i).n = n /\ Stop(n, i).messages = none /\ Stop(n, i).imei = i
      /\ Skip(n, i).go = "next" /\ Skip(n, i).n = n /\ Skip(n, i).messages = none /\ Skip(n, i).imei = i
      /\ Take(n, messages, i).go = "next" /\ Take(n, messages, i).n = n
      /\ Take(n, messages, i).messages = messages /\ Take(n, messages, i).imei = i
      /\ Throw(i).go = "throw" /\ Throw(i).n = 0 /\ Throw(i).messages = none /\ Throw(i).imei = i
  BY <1>1
<1> QED
  BY <1>2 DEF none

LEMMA NoMessages == <<>> \in Seq(Said) /\ Len(<<>>) = 0
BY EmptySeq

LEMMA ConstructorsAreOutcomes ==
  ASSUME NEW n \in Nat, NEW messages \in Seq(Said), NEW i \in Nat
  PROVE  Stop(n, i) \in Outcomes /\ Skip(n, i) \in Outcomes /\ Take(n, messages, i) \in Outcomes /\ Throw(i) \in Outcomes
<1> DEFINE none == <<>>
<1>1. /\ Stop(n, i) = [go |-> "stop", n |-> n, messages |-> none, imei |-> i]
      /\ Skip(n, i) = [go |-> "next", n |-> n, messages |-> none, imei |-> i]
      /\ Take(n, messages, i) = [go |-> "next", n |-> n, messages |-> messages, imei |-> i]
      /\ Throw(i) = [go |-> "throw", n |-> 0, messages |-> none, imei |-> i]
  BY Constructors
<1>2. none \in Seq(Said)
  BY NoMessages
<1> HIDE DEF none
<1> QED
  BY <1>1, <1>2 DEF Outcomes

\* Without messages.
LEMMA PlainOutcomes ==
  ASSUME NEW n \in Nat, NEW i \in Nat
  PROVE  /\ Stop(n, i) \in Outcomes /\ Skip(n, i) \in Outcomes /\ Throw(i) \in Outcomes
         /\ Stop(n, i).go = "stop" /\ Stop(n, i).n = n /\ Stop(n, i).messages = <<>> /\ Stop(n, i).imei = i
         /\ Skip(n, i).go = "next" /\ Skip(n, i).n = n /\ Skip(n, i).messages = <<>> /\ Skip(n, i).imei = i
<1> DEFINE none == <<>>
<1>1. none \in Seq(Said)
  BY NoMessages
<1> HIDE DEF none
<1>2. Stop(n, i) \in Outcomes /\ Skip(n, i) \in Outcomes /\ Throw(i) \in Outcomes
  BY <1>1, ConstructorsAreOutcomes
<1>3. /\ Stop(n, i).go = "stop" /\ Stop(n, i).n = n /\ Stop(n, i).messages = <<>> /\ Stop(n, i).imei = i
      /\ Skip(n, i).go = "next" /\ Skip(n, i).n = n /\ Skip(n, i).messages = <<>> /\ Skip(n, i).imei = i
  BY <1>1, Fields
<1> QED
  BY <1>2, <1>3

LEMMA OneMessage ==
  ASSUME NEW kind \in Kinds, NEW i \in Nat
  PROVE  <<Message(kind, i)>> \in Seq(Said)
<1>1. Message(kind, i) \in Said
  BY DEF Message, Said
<1> QED
  BY <1>1

LEMMA AfterIs ==
  ASSUME NEW d, NEW e \in Outcomes
  PROVE  /\ After(d, e) = [go |-> e.go, n |-> d.n + e.n, messages |-> d.messages \o e.messages, imei |-> e.imei]
         /\ After(d, e).go = e.go /\ After(d, e).n = d.n + e.n
         /\ After(d, e).messages = d.messages \o e.messages /\ After(d, e).imei = e.imei
<1> DEFINE messages == d.messages \o e.messages
           n == d.n + e.n
<1>1. After(d, e) = [[e EXCEPT !.n = n] EXCEPT !.messages = messages]
  BY DEF After, Outcomes
<1> HIDE DEF messages, n
<1>2. After(d, e) = [go |-> e.go, n |-> n, messages |-> messages, imei |-> e.imei]
  BY <1>1 DEF Outcomes
<1>3. After(d, e).go = e.go /\ After(d, e).n = n /\ After(d, e).messages = messages /\ After(d, e).imei = e.imei
  BY <1>2
<1> QED
  BY <1>2, <1>3 DEF messages, n

LEMMA AfterIsOutcome ==
  ASSUME NEW d \in Outcomes, NEW e \in Outcomes
  PROVE  After(d, e) \in Outcomes
<1> DEFINE messages == d.messages \o e.messages
           n == d.n + e.n
<1>1. messages \in Seq(Said)
  BY ConcatProperties DEF Outcomes
<1>2. n \in Nat
  BY DEF Outcomes
<1>3. After(d, e) = [go |-> e.go, n |-> n, messages |-> messages, imei |-> e.imei]
  BY AfterIs
<1> HIDE DEF messages, n
<1> QED
  BY <1>1, <1>2, <1>3 DEF Outcomes

\* Outcomes are equal when their parts are.
LEMMA SameOutcome ==
  ASSUME NEW d \in Outcomes, NEW e \in Outcomes, d.go = e.go, d.n = e.n, d.messages = e.messages, d.imei = e.imei
  PROVE  d = e
BY DEF Outcomes

LEMMA SaidAssociative ==
  ASSUME NEW s \in Seq(Said), NEW t \in Seq(Said), NEW u \in Seq(Said)
  PROVE  s \o (t \o u) = (s \o t) \o u
<1>1. (s \o t) \o u = s \o (t \o u)
  BY ConcatAssociative
<1> QED
  BY <1>1

LEMMA AfterAssociative ==
  ASSUME NEW d \in Outcomes, NEW e \in Outcomes, NEW f \in Outcomes
  PROVE  After(d, After(e, f)) = After(After(d, e), f)
<1> DEFINE g == After(e, f)
           h == After(d, e)
<1>1. g \in Outcomes /\ g.go = f.go /\ g.n = e.n + f.n /\ g.messages = e.messages \o f.messages /\ g.imei = f.imei
  BY AfterIs, AfterIsOutcome
<1>2. h \in Outcomes /\ h.n = d.n + e.n /\ h.messages = d.messages \o e.messages
  BY AfterIs, AfterIsOutcome
<1> HIDE DEF g, h
<1>3. /\ After(d, g) \in Outcomes /\ After(d, g).go = g.go /\ After(d, g).n = d.n + g.n
      /\ After(d, g).messages = d.messages \o g.messages /\ After(d, g).imei = g.imei
  BY <1>1, AfterIs, AfterIsOutcome
<1>4. /\ After(h, f) \in Outcomes /\ After(h, f).go = f.go /\ After(h, f).n = h.n + f.n
      /\ After(h, f).messages = h.messages \o f.messages /\ After(h, f).imei = f.imei
  BY <1>2, AfterIs, AfterIsOutcome
<1>5. d.messages \o (e.messages \o f.messages) = (d.messages \o e.messages) \o f.messages
  <2>1. d.messages \in Seq(Said) /\ e.messages \in Seq(Said) /\ f.messages \in Seq(Said)
    BY DEF Outcomes
  <2> QED
    BY <2>1, SaidAssociative
<1>6. After(d, g).n = After(h, f).n
  BY <1>1, <1>2, <1>3, <1>4 DEF Outcomes
<1>7. After(d, g).messages = After(h, f).messages
  BY <1>1, <1>2, <1>3, <1>4, <1>5
<1>8. After(d, g) = After(h, f)
  BY <1>1, <1>3, <1>4, <1>6, <1>7, SameOutcome
<1> QED
  BY <1>8 DEF g, h

\* After an outcome without bytes and messages, or before one.
LEMMA AfterNothing ==
  ASSUME NEW d \in Outcomes, NEW e \in Outcomes
  PROVE  /\ d.n = 0 /\ d.messages = <<>> => After(d, e) = e
         /\ e.n = 0 /\ e.messages = <<>> => After(d, e).n = d.n /\ After(d, e).messages = d.messages
<1>1. After(d, e) \in Outcomes
  BY AfterIsOutcome
<1>2. /\ After(d, e).go = e.go /\ After(d, e).n = d.n + e.n
      /\ After(d, e).messages = d.messages \o e.messages /\ After(d, e).imei = e.imei
  BY AfterIs
<1>3. d.n \in Nat /\ e.n \in Nat /\ d.messages \in Seq(Said) /\ e.messages \in Seq(Said)
  BY DEF Outcomes
<1>4. d.messages = <<>> => d.messages \o e.messages = e.messages
  BY <1>3, ConcatEmptySeq
<1>5. e.messages = <<>> => d.messages \o e.messages = d.messages
  BY <1>3, ConcatEmptySeq
<1>6. ASSUME d.n = 0, d.messages = <<>> PROVE After(d, e) = e
  <2>1. d.n + e.n = e.n
    BY <1>3, <1>6
  <2> QED
    BY <1>1, <1>2, <1>4, <1>6, <2>1, SameOutcome
<1>7. ASSUME e.n = 0, e.messages = <<>> PROVE After(d, e).n = d.n /\ After(d, e).messages = d.messages
  BY <1>2, <1>3, <1>5, <1>7
<1> QED
  BY <1>6, <1>7

\* What every iteration and every run of the loop keeps to.
OutcomeOf(d, b, i) ==
  /\ d \in Outcomes /\ d.n <= Len(b)
  /\ d.go = "next" => d.n >= 1
  /\ d.go # "next" => d.messages = <<>> /\ d.imei = i
  /\ d.go = "throw" => Len(b) >= 1

\* Equal but for the bytes consumed, of which Meitrack may keep one of noise.
Alike(protocol, d, e) ==
  \/ d = e
  \/ /\ protocol = "meitrack" /\ d.go = "stop" /\ e.go = "stop"
     /\ d.messages = e.messages /\ d.imei = e.imei

\* An iteration that goes on, or throws, does so whatever follows the bytes it saw;
\* one that waits for more, waits with the rest alone and resumes there.
Steady(protocol) ==
  \A b \in Bytes, i \in Nat :
    LET d == Iteration(protocol, b, i)
        r == From(b, d.n + 1)
    IN  /\ OutcomeOf(d, b, i)
        /\ d.go # "stop" => \A y \in Bytes : Iteration(protocol, b \o y, i) = d
        /\ d.go = "stop" =>
             /\ Iteration(protocol, r, i) = Stop(0, i)
             /\ ~DropsMarker(r, protocol, b) =>
                  \A y \in Bytes : Alike(protocol, Iteration(protocol, b \o y, i), After(d, Iteration(protocol, r \o y, i)))

LEMMA StopOutcome ==
  ASSUME NEW b \in Bytes, NEW n \in 0 .. Len(b), NEW i \in Nat
  PROVE  OutcomeOf(Stop(n, i), b, i) /\ Stop(n, i).go = "stop"
<1>1. n \in Nat /\ n <= Len(b)
  BY ByteOf
<1>2. Stop(n, i) \in Outcomes
  BY <1>1, NoMessages, ConstructorsAreOutcomes
<1> QED
  BY <1>1, <1>2, Fields DEF OutcomeOf

LEMMA SkipOutcome ==
  ASSUME NEW b \in Bytes, NEW n \in 1 .. Len(b), NEW i \in Nat
  PROVE  OutcomeOf(Skip(n, i), b, i) /\ Skip(n, i).go = "next"
<1>1. n \in Nat /\ n <= Len(b) /\ n >= 1
  BY ByteOf
<1>2. Skip(n, i) \in Outcomes
  BY <1>1, NoMessages, ConstructorsAreOutcomes
<1> QED
  BY <1>1, <1>2, Fields DEF OutcomeOf

LEMMA TakeOutcome ==
  ASSUME NEW b \in Bytes, NEW n \in 1 .. Len(b), NEW messages \in Seq(Said), NEW i \in Nat, NEW k \in Nat
  PROVE  OutcomeOf(Take(n, messages, k), b, i) /\ Take(n, messages, k).go = "next"
<1>1. n \in Nat /\ n <= Len(b) /\ n >= 1
  BY ByteOf
<1>2. Take(n, messages, k) \in Outcomes
  BY <1>1, ConstructorsAreOutcomes
<1> QED
  BY <1>1, <1>2, Fields DEF OutcomeOf

LEMMA ThrowOutcome ==
  ASSUME NEW b \in Bytes, Len(b) >= 1, NEW i \in Nat
  PROVE  OutcomeOf(Throw(i), b, i) /\ Throw(i).go = "throw"
<1>1. Throw(i) \in Outcomes
  BY NoMessages, ConstructorsAreOutcomes
<1> QED
  BY <1>1, Fields, ByteOf DEF OutcomeOf

\* A decoder that leaves everything when it waits is steady.
LEMMA WaitsForAll ==
  ASSUME NEW protocol,
         \A b \in Bytes, i \in Nat : OutcomeOf(Iteration(protocol, b, i), b, i),
         \A b \in Bytes, i \in Nat, y \in Bytes :
           Iteration(protocol, b, i).go # "stop" => Iteration(protocol, b \o y, i) = Iteration(protocol, b, i),
         \A b \in Bytes, i \in Nat : Iteration(protocol, b, i).go = "stop" => Iteration(protocol, b, i) = Stop(0, i)
  PROVE  Steady(protocol)
<1> SUFFICES ASSUME NEW b \in Bytes, NEW i \in Nat
             PROVE  LET d == Iteration(protocol, b, i)
                        r == From(b, d.n + 1)
                    IN  /\ OutcomeOf(d, b, i)
                        /\ d.go # "stop" => \A y \in Bytes : Iteration(protocol, b \o y, i) = d
                        /\ d.go = "stop" =>
                             /\ Iteration(protocol, r, i) = Stop(0, i)
                             /\ \A y \in Bytes : Alike(protocol, Iteration(protocol, b \o y, i), After(d, Iteration(protocol, r \o y, i)))
  BY DEF Steady
<1> DEFINE d == Iteration(protocol, b, i)
           r == From(b, d.n + 1)
<1>1. OutcomeOf(d, b, i)
  OBVIOUS
<1>2. d.go # "stop" => \A y \in Bytes : Iteration(protocol, b \o y, i) = d
  OBVIOUS
<1>3. ASSUME d.go = "stop"
      PROVE  /\ Iteration(protocol, r, i) = Stop(0, i)
             /\ \A y \in Bytes : Alike(protocol, Iteration(protocol, b \o y, i), After(d, Iteration(protocol, r \o y, i)))
  <2>1. d = Stop(0, i)
    BY <1>3
  <2>2. d.n = 0 /\ d.messages = <<>>
    BY <2>1, Fields
  <2>3. r = b
    <3>1. d.n + 1 = 1
      BY <2>2
    <3> QED
      BY <3>1, FromEnds
  <2>4. ASSUME NEW y \in Bytes
        PROVE  Alike(protocol, Iteration(protocol, b \o y, i), After(d, Iteration(protocol, r \o y, i)))
    <3>1. b \o y \in Bytes
      BY Joined
    <3>2. Iteration(protocol, b \o y, i) \in Outcomes /\ d \in Outcomes
      BY <1>1, <3>1 DEF OutcomeOf
    <3> HIDE DEF d, r
    <3>3. After(d, Iteration(protocol, b \o y, i)) = Iteration(protocol, b \o y, i)
      BY <2>2, <3>2, AfterNothing
    <3> QED
      BY <2>3, <3>3 DEF Alike
  <2> QED
    BY <2>1, <2>3, <2>4
<1> QED
  BY <1>1, <1>2, <1>3

-----------------------------------------------------------------------------
(* GT06. *)

LEMMA Gt06ParseFrameOutcome ==
  ASSUME NEW b \in Bytes, NEW protocol, NEW info \in Bytes, NEW n \in 1 .. Len(b), NEW i \in Nat
  PROVE  /\ OutcomeOf(Gt06ParseFrame(protocol, info, n, i), b, i)
         /\ Gt06ParseFrame(protocol, info, n, i).go # "stop"
<1> DEFINE d == Gt06ParseFrame(protocol, info, n, i)
<1>1. CASE protocol = 1
  <2> DEFINE own == IF info = <<>> THEN 0 ELSE info[1]
  <2>1. own \in Nat
    BY EmptySeq, ElementOfSeq DEF Bytes
  <2>2. d = Take(n, <<Message("login", own)>>, own)
    BY <1>1 DEF Gt06ParseFrame
  <2> DEFINE messages == <<Message("login", own)>>
  <2> HIDE DEF own
  <2>3. messages \in Seq(Said)
    BY <2>1, OneMessage DEF Kinds
  <2> HIDE DEF messages
  <2>4. OutcomeOf(Take(n, messages, own), b, i) /\ Take(n, messages, own).go = "next"
    BY <2>1, <2>3, TakeOutcome
  <2> QED
    BY <2>2, <2>4 DEF messages
<1>2. CASE protocol # 1 /\ protocol \in {18, 34, 22, 38} /\ Len(info) < 2
  <2>1. d = Throw(i)
    BY <1>2 DEF Gt06ParseFrame
  <2>2. Len(b) >= 1
    BY ByteOf
  <2> QED
    BY <2>1, <2>2, ThrowOutcome, Fields
<1>3. ASSUME NEW kind \in Kinds, d = Take(n, <<Message(kind, i)>>, i)
      PROVE  OutcomeOf(d, b, i) /\ d.go # "stop"
  <2> DEFINE messages == <<Message(kind, i)>>
  <2>1. messages \in Seq(Said)
    BY OneMessage
  <2> HIDE DEF messages
  <2>2. OutcomeOf(Take(n, messages, i), b, i) /\ Take(n, messages, i).go = "next"
    BY <2>1, TakeOutcome
  <2> QED
    BY <1>3, <2>2 DEF messages
<1>4. CASE protocol # 1 /\ protocol \in {18, 34, 22, 38} /\ ~(Len(info) < 2)
  <2> DEFINE kind == IF protocol \in {18, 34} THEN "location" ELSE "alarm"
  <2>1. d = Take(n, <<Message(kind, i)>>, i)
    BY <1>4 DEF Gt06ParseFrame
  <2>2. kind \in Kinds
    BY DEF Kinds
  <2> HIDE DEF kind
  <2> QED
    BY <1>3, <2>1, <2>2
<1>5. CASE protocol # 1 /\ protocol \notin {18, 34, 22, 38} /\ protocol = 19
  <2>1. d = Take(n, <<Message("heartbeat", i)>>, i)
    BY <1>5 DEF Gt06ParseFrame
  <2> QED
    BY <1>3, <2>1 DEF Kinds
<1>6. CASE protocol # 1 /\ protocol \notin {18, 34, 22, 38} /\ protocol # 19
  <2>1. d = Take(n, <<Message("unknown", i)>>, i)
    BY <1>6 DEF Gt06ParseFrame
  <2> QED
    BY <1>3, <2>1 DEF Kinds
<1> QED
  BY <1>1, <1>2, <1>4, <1>5, <1>6

\* An iteration by its cases.
LEMMA Gt06Cases ==
  ASSUME NEW b \in Bytes, NEW i \in Nat
  PROVE  /\ Len(b) < 5 => Gt06Iteration(b, i) = Stop(0, i)
         /\ Len(b) >= 5 /\ ~(b[1] = 120 /\ b[2] = 120) => Gt06Iteration(b, i) = Skip(1, i)
         /\ Len(b) >= 5 /\ b[1] = 120 /\ b[2] = 120 /\ Len(b) < b[3] + 5 => Gt06Iteration(b, i) = Stop(0, i)
         /\ Len(b) >= 5 /\ b[1] = 120 /\ b[2] = 120 /\ Len(b) >= b[3] + 5 =>
              Gt06Iteration(b, i) =
                IF b[b[3] + 2] * 256 + b[b[3] + 3] # crc16(SubSeq(b, 3, b[3] + 1)) THEN Skip(1, i)
                ELSE Gt06ParseFrame(b[4], SubSeq(b, 5, b[3] - 1), b[3] + 5, i)
<1>1. Len(b) \in Nat /\ \A j \in 1 .. Len(b) : b[j] \in Nat
  BY ByteOf
<1>2. Len(b) < 5 => Gt06Iteration(b, i) = Stop(0, i)
  BY DEF Gt06Iteration
<1>3. Len(b) >= 5 /\ ~(b[1] = 120 /\ b[2] = 120) => Gt06Iteration(b, i) = Skip(1, i)
  BY <1>1 DEF Gt06Iteration
<1>4. ASSUME Len(b) >= 5, b[1] = 120, b[2] = 120
      PROVE  Gt06Iteration(b, i) =
               IF Len(b) < b[3] + 5 THEN Stop(0, i)
               ELSE IF b[b[3] + 2] * 256 + b[b[3] + 3] # crc16(SubSeq(b, 3, b[3] + 1)) THEN Skip(1, i)
               ELSE Gt06ParseFrame(b[4], SubSeq(b, 5, b[3] - 1), b[3] + 5, i)
  <2>1. b[3] \in Nat
    BY <1>1, <1>4
  <2>2. b[3] + 2 + 1 = b[3] + 3 /\ b[3] + 2 - 1 = b[3] + 1 /\ b[3] + 2 - 3 = b[3] - 1
    BY <2>1
  <2> QED
    BY <1>1, <1>4, <2>1, <2>2, SMTT(30) DEF Gt06Iteration
<1> QED
  BY <1>1, <1>2, <1>3, <1>4

LEMMA Gt06Steady == Steady("gt06")
<1>1. ASSUME NEW b \in Bytes, NEW i \in Nat
      PROVE  /\ OutcomeOf(Gt06Iteration(b, i), b, i)
             /\ Gt06Iteration(b, i).go = "stop" => Gt06Iteration(b, i) = Stop(0, i)
             /\ Gt06Iteration(b, i).go # "stop" => \A y \in Bytes : Gt06Iteration(b \o y, i) = Gt06Iteration(b, i)
  <2>1. Len(b) \in Nat /\ \A j \in 1 .. Len(b) : b[j] \in Nat
    BY ByteOf
  <2>2. CASE Len(b) < 5 \/ (Len(b) >= 5 /\ b[1] = 120 /\ b[2] = 120 /\ Len(b) < b[3] + 5)
    <3>1. Gt06Iteration(b, i) = Stop(0, i) /\ 0 \in 0 .. Len(b)
      BY <2>1, <2>2, Gt06Cases
    <3> QED
      BY <3>1, StopOutcome, Fields
  <2>3. CASE Len(b) >= 5 /\ ~(b[1] = 120 /\ b[2] = 120)
    <3>1. Gt06Iteration(b, i) = Skip(1, i) /\ 1 \in 1 .. Len(b)
      BY <2>1, <2>3, Gt06Cases
    <3>2. ASSUME NEW y \in Bytes PROVE Gt06Iteration(b \o y, i) = Skip(1, i)
      <4> DEFINE c == b \o y
      <4>0. c \in Bytes /\ Len(c) = Len(b) + Len(y) /\ Len(y) \in Nat /\ \A j \in 1 .. Len(b) : c[j] = b[j]
        BY Joined
      <4> HIDE DEF c
      <4>1. Len(c) >= 5 /\ c[1] = b[1] /\ c[2] = b[2]
        BY <2>1, <2>3, <4>0
      <4>2. Gt06Iteration(c, i) = Skip(1, i)
        BY <2>3, <4>0, <4>1, Gt06Cases
      <4> QED
        BY <4>2 DEF c
    <3> QED
      BY <3>1, <3>2, SkipOutcome, Fields
  <2>4. CASE Len(b) >= 5 /\ b[1] = 120 /\ b[2] = 120 /\ Len(b) >= b[3] + 5
    <3> DEFINE wrong == b[b[3] + 2] * 256 + b[b[3] + 3] # crc16(SubSeq(b, 3, b[3] + 1))
               parsed == Gt06ParseFrame(b[4], SubSeq(b, 5, b[3] - 1), b[3] + 5, i)
    <3>1. /\ b[3] \in Nat /\ b[3] + 5 \in 1 .. Len(b) /\ b[3] + 1 \in Int /\ b[3] + 1 <= Len(b)
          /\ b[3] - 1 \in Int /\ b[3] - 1 <= Len(b) /\ 1 \in 1 .. Len(b)
      BY <2>1, <2>4
    <3>2. Gt06Iteration(b, i) = IF wrong THEN Skip(1, i) ELSE parsed
      BY <2>4, Gt06Cases
    <3>3. SubSeq(b, 5, b[3] - 1) \in Bytes
      <4>1. \A j \in 5 .. b[3] - 1 : b[j] \in Nat
        BY <2>1, <3>1
      <4> QED
        BY <3>1, <4>1, SubSeqProperties DEF Bytes
    <3>4. OutcomeOf(parsed, b, i) /\ parsed.go # "stop"
      BY <3>1, <3>3, Gt06ParseFrameOutcome
    <3>5. ASSUME NEW y \in Bytes PROVE Gt06Iteration(b \o y, i) = IF wrong THEN Skip(1, i) ELSE parsed
      <4> DEFINE c == b \o y
      <4>0. c \in Bytes /\ Len(c) = Len(b) + Len(y) /\ Len(y) \in Nat /\ \A j \in 1 .. Len(b) : c[j] = b[j]
        BY Joined
      <4>5. SubSeq(c, 3, b[3] + 1) = SubSeq(b, 3, b[3] + 1)
        <5> DEFINE k == b[3] + 1
        <5>1. k \in Int /\ k <= Len(b) /\ 3 \in Nat \ {0}
          BY <3>1
        <5> HIDE DEF k
        <5>2. SubSeq(b \o y, 3, k) = SubSeq(b, 3, k)
          BY <5>1, PartOfJoined
        <5> QED
          BY <5>2 DEF k
      <4>6. SubSeq(c, 5, b[3] - 1) = SubSeq(b, 5, b[3] - 1)
        <5> DEFINE k == b[3] - 1
        <5>1. k \in Int /\ k <= Len(b) /\ 5 \in Nat \ {0}
          BY <3>1
        <5> HIDE DEF k
        <5>2. SubSeq(b \o y, 5, k) = SubSeq(b, 5, k)
          BY <5>1, PartOfJoined
        <5> QED
          BY <5>2 DEF k
      <4> HIDE DEF c
      <4>1. Len(c) >= 5 /\ Len(c) >= b[3] + 5
        BY <2>1, <2>4, <3>1, <4>0
      <4>2. 1 \in 1 .. Len(b) /\ 2 \in 1 .. Len(b) /\ 3 \in 1 .. Len(b) /\ 4 \in 1 .. Len(b)
            /\ b[3] + 2 \in 1 .. Len(b) /\ b[3] + 3 \in 1 .. Len(b)
        <5> DEFINE k == b[3]
        <5>1. k \in Nat /\ Len(b) \in Nat /\ Len(b) >= k + 5
          BY <2>1, <2>4, <3>1
        <5> HIDE DEF k
        <5> QED
          BY <5>1 DEF k
      <4>3. c[1] = 120 /\ c[2] = 120 /\ c[3] = b[3] /\ c[4] = b[4] /\ c[b[3] + 2] = b[b[3] + 2] /\ c[b[3] + 3] = b[b[3] + 3]
        BY <2>4, <4>0, <4>2
      <4>4. Gt06Iteration(c, i) =
              IF c[c[3] + 2] * 256 + c[c[3] + 3] # crc16(SubSeq(c, 3, c[3] + 1)) THEN Skip(1, i)
              ELSE Gt06ParseFrame(c[4], SubSeq(c, 5, c[3] - 1), c[3] + 5, i)
        BY <4>0, <4>1, <4>3, Gt06Cases
      <4>7. Gt06Iteration(c, i) = IF wrong THEN Skip(1, i) ELSE parsed
        BY <4>3, <4>4, <4>5, <4>6
      <4> QED
        BY <4>7 DEF c
    <3> HIDE DEF wrong, parsed
    <3> QED
      BY <3>1, <3>2, <3>4, <3>5, SkipOutcome, Fields
  <2> QED
    BY <2>1, <2>2, <2>3, <2>4
<1>2. \A b, i : Iteration("gt06", b, i) = Gt06Iteration(b, i)
  BY DEF Iteration
<1> QED
  BY <1>1, <1>2, WaitsForAll

-----------------------------------------------------------------------------
(* H02 and Queclink. *)

LEMMA AfterStop ==
  ASSUME NEW n \in Nat, NEW m \in Nat, NEW messages \in Seq(Said), NEW i \in Nat, NEW k \in Nat
  PROVE  /\ After(Stop(n, i), Stop(m, k)) = Stop(n + m, k)
         /\ After(Stop(n, i), Skip(m, k)) = Skip(n + m, k)
         /\ After(Stop(n, i), Take(m, messages, k)) = Take(n + m, messages, k)
<1> DEFINE d == Stop(n, i)
<1>1. d.n = n /\ d.messages = <<>> /\ n + m \in Nat
  BY Fields
<1>2. /\ Stop(m, k) \in Outcomes /\ Skip(m, k) \in Outcomes /\ Take(m, messages, k) \in Outcomes /\ d \in Outcomes
      /\ Stop(n + m, k) \in Outcomes /\ Skip(n + m, k) \in Outcomes /\ Take(n + m, messages, k) \in Outcomes
  BY <1>1, NoMessages, ConstructorsAreOutcomes
<1> HIDE DEF d
<1>3. ASSUME NEW e \in Outcomes
      PROVE  /\ After(d, e) \in Outcomes /\ After(d, e).go = e.go /\ After(d, e).n = n + e.n
             /\ After(d, e).messages = e.messages /\ After(d, e).imei = e.imei
  <2>1. <<>> \o e.messages = e.messages
    BY ConcatEmptySeq DEF Outcomes
  <2>2. /\ After(d, e) \in Outcomes /\ After(d, e).go = e.go /\ After(d, e).n = d.n + e.n
        /\ After(d, e).messages = d.messages \o e.messages /\ After(d, e).imei = e.imei
    BY <1>2, AfterIs, AfterIsOutcome
  <2>3. d.n + e.n = n + e.n
    BY <1>1
  <2>4. d.messages \o e.messages = e.messages
    BY <1>1, <2>1
  <2> QED
    BY <2>2, <2>3, <2>4
<1>4. ASSUME NEW e \in Outcomes, NEW f \in Outcomes, f.go = e.go, f.n = n + e.n, f.messages = e.messages, f.imei = e.imei
      PROVE  After(d, e) = f
  BY <1>3, <1>4, SameOutcome
<1>5. After(d, Stop(m, k)) = Stop(n + m, k)
  BY <1>2, <1>4, Fields
<1>6. After(d, Skip(m, k)) = Skip(n + m, k)
  BY <1>2, <1>4, Fields
<1>7. After(d, Take(m, messages, k)) = Take(n + m, messages, k)
  BY <1>2, <1>4, Fields
<1> QED
  BY <1>5, <1>6, <1>7 DEF d

LEMMA AfterStopPlain ==
  ASSUME NEW n \in Nat, NEW m \in Nat, NEW i \in Nat, NEW k \in Nat
  PROVE  /\ After(Stop(n, i), Stop(m, k)) = Stop(n + m, k)
         /\ After(Stop(n, i), Skip(m, k)) = Skip(n + m, k)
<1>1. <<>> \in Seq(Said)
  BY NoMessages
<1> DEFINE none == <<>>
<1>2. none \in Seq(Said)
  BY <1>1
<1> HIDE DEF none
<1> QED
  BY <1>2, AfterStop

\* A whole frame stays where it is; without one, only noise goes.
LEMMA DelimitedFacts ==
  ASSUME NEW b \in Bytes, NEW first, NEW last
  PROVE  /\ Delimited(b, first, last).whole \in BOOLEAN
         /\ Delimited(b, first, last).whole =>
              /\ Delimited(b, first, last).n \in 1 .. Len(b) /\ Delimited(b, first, last).parts \in Bytes
              /\ \A y \in Bytes : Delimited(b \o y, first, last) = Delimited(b, first, last)
         /\ ~Delimited(b, first, last).whole =>
              /\ Delimited(b, first, last).n \in 0 .. Len(b)
              /\ \A j \in 1 .. Delimited(b, first, last).n : b[j] # first
<1> DEFINE s == indexOf(b, first, 1)
           e == indexOf(b, last, s + 1)
           f == Delimited(b, first, last)
           parts == SubSeq(b, s + 1, e - 1)
           none == <<>>
<1>1. Len(b) \in Nat
  BY ByteOf
<1>2. \/ s = 0 /\ \A j \in 1 .. Len(b) : b[j] # first
      \/ s \in 1 .. Len(b) /\ \A j \in 1 .. Len(b) : b[j] = first => s <= j
  BY IndexFacts
<1>3. f = CASE s = 0            -> [whole |-> FALSE, n |-> Len(b), parts |-> none]
            [] s # 0 /\ e = 0  -> [whole |-> FALSE, n |-> s - 1, parts |-> none]
            [] OTHER           -> [whole |-> TRUE, n |-> e, parts |-> parts]
  BY DEF Delimited
<1>4. s \in Nat /\ s + 1 \in Nat \ {0}
  BY <1>1, <1>2
<1>5. e = 0 \/ e \in s + 1 .. Len(b)
  BY <1>4, IndexFacts
<1>6. ASSUME s # 0, e # 0
      PROVE  parts \in Bytes /\ \A y \in Bytes : Delimited(b \o y, first, last) = f
  <2>1. e - 1 \in Int /\ e - 1 <= Len(b) /\ <<>> \in Bytes
    BY <1>1, <1>4, <1>5, <1>6, EmptySeq DEF Bytes
  <2> HIDE DEF s, e, f
  <2>2. parts \in Bytes
    BY <1>4, <2>1, PartOfJoined
  <2>3. ASSUME NEW y \in Bytes PROVE Delimited(b \o y, first, last) = f
    <3> DEFINE c == b \o y
    <3>1. indexOf(c, first, 1) = s
      BY <1>6, IndexStays DEF s
    <3>2. indexOf(c, last, s + 1) = e
      BY <1>4, <1>6, IndexStays DEF e
    <3>3. SubSeq(c, s + 1, e - 1) = parts
      BY <1>4, <2>1, PartOfJoined
    <3> HIDE DEF c, parts
    <3>4. Delimited(c, first, last) = [whole |-> TRUE, n |-> e, parts |-> parts]
      BY <1>6, <3>1, <3>2, <3>3 DEF Delimited
    <3> QED
      BY <1>3, <1>6, <3>4 DEF c
  <2> QED
    BY <2>2, <2>3
<1> HIDE DEF s, e, f, parts, none
<1>7. /\ f.whole \in BOOLEAN
      /\ f.whole => f.n \in 1 .. Len(b) /\ f.parts \in Bytes /\ \A y \in Bytes : Delimited(b \o y, first, last) = f
      /\ ~f.whole => f.n \in 0 .. Len(b) /\ \A j \in 1 .. f.n : b[j] # first
  <2>1. CASE s = 0
    <3>1. f.whole = FALSE /\ f.n = Len(b)
      BY <1>3, <2>1
    <3>2. f.n \in 0 .. Len(b) /\ \A j \in 1 .. f.n : b[j] # first
      BY <1>1, <1>2, <2>1, <3>1
    <3> QED
      BY <3>1, <3>2
  <2>2. CASE s # 0 /\ e = 0
    <3>1. f.whole = FALSE /\ f.n = s - 1
      BY <1>3, <2>2
    <3>2. f.n \in 0 .. Len(b) /\ \A j \in 1 .. f.n : b[j] # first
      BY <1>1, <1>2, <2>2, <3>1
    <3> QED
      BY <3>1, <3>2
  <2>3. CASE s # 0 /\ e # 0
    <3>1. f.whole = TRUE /\ f.n = e /\ f.parts = parts
      BY <1>3, <2>3
    <3>2. e \in 1 .. Len(b)
      BY <1>1, <1>4, <1>5, <2>3
    <3> QED
      BY <1>6, <2>3, <3>1, <3>2
  <2> QED
    BY <2>1, <2>2, <2>3
<1> QED
  BY <1>7 DEF f

\* A decoder of such frames, given what it makes of the parts of one.
Reads(protocol, first, last, good, said) ==
  /\ \A parts \in Bytes : good[parts] \in BOOLEAN /\ (good[parts] => said[parts] \in Said)
  /\ \A b \in Bytes, i \in Nat :
       Iteration(protocol, b, i) =
         LET f == Delimited(b, first, last)
         IN  IF ~f.whole THEN Stop(f.n, i)
             ELSE IF good[f.parts] THEN Take(f.n, <<said[f.parts]>>, said[f.parts].imei)
             ELSE Skip(f.n, i)

LEMMA DelimitedSteady ==
  ASSUME NEW protocol, NEW first, NEW last, NEW good, NEW said, Reads(protocol, first, last, good, said)
  PROVE  Steady(protocol)
<1> DEFINE Made(whole, n, parts, i) ==
             IF ~whole THEN Stop(n, i)
             ELSE IF good[parts] THEN Take(n, <<said[parts]>>, said[parts].imei)
             ELSE Skip(n, i)
<1>1. ASSUME NEW b \in Bytes, NEW i \in Nat
      PROVE  Iteration(protocol, b, i) = Made(Delimited(b, first, last).whole, Delimited(b, first, last).n, Delimited(b, first, last).parts, i)
  BY DEF Reads
<1>0. \A parts \in Bytes : good[parts] \in BOOLEAN /\ (good[parts] => said[parts] \in Said)
  BY DEF Reads
<1>2. ASSUME NEW parts \in Bytes, good[parts] PROVE <<said[parts]>> \in Seq(Said) /\ said[parts].imei \in Nat
  <2>1. said[parts] \in Said
    BY <1>0, <1>2
  <2> QED
    BY <2>1 DEF Said
<1>3. ASSUME NEW n \in Nat, NEW m \in Nat, NEW i \in Nat, NEW whole \in BOOLEAN, NEW parts, whole => parts \in Bytes
      PROVE  After(Stop(n, i), Made(whole, m, parts, i)) = Made(whole, n + m, parts, i)
  <2>1. CASE ~whole
    BY <2>1, AfterStopPlain
  <2>2. CASE whole /\ good[parts]
    <3> DEFINE messages == <<said[parts]>>
               k == said[parts].imei
    <3>1. messages \in Seq(Said) /\ k \in Nat
      BY <1>2, <1>3, <2>2
    <3> HIDE DEF messages, k
    <3>2. After(Stop(n, i), Take(m, messages, k)) = Take(n + m, messages, k)
      BY <3>1, AfterStop
    <3> QED
      BY <2>2, <3>2 DEF messages, k
  <2>3. CASE whole /\ ~good[parts]
    BY <2>3, AfterStopPlain
  <2> QED
    BY <2>1, <2>2, <2>3
<1>4. ASSUME NEW b \in Bytes, NEW n \in 1 .. Len(b), NEW parts \in Bytes, NEW i \in Nat
      PROVE  OutcomeOf(Made(TRUE, n, parts, i), b, i) /\ Made(TRUE, n, parts, i).go = "next"
  <2>1. CASE good[parts]
    <3> DEFINE messages == <<said[parts]>>
               k == said[parts].imei
    <3>1. messages \in Seq(Said) /\ k \in Nat
      BY <1>2, <2>1
    <3> HIDE DEF messages, k
    <3>2. OutcomeOf(Take(n, messages, k), b, i) /\ Take(n, messages, k).go = "next"
      BY <3>1, TakeOutcome
    <3> QED
      BY <2>1, <3>2 DEF messages, k
  <2>2. CASE ~good[parts]
    BY <2>2, SkipOutcome
  <2> QED
    BY <2>1, <2>2
<1>5. ASSUME NEW n, NEW parts, NEW i PROVE Made(FALSE, n, parts, i) = Stop(n, i)
  OBVIOUS
<1> HIDE DEF Made
<1> SUFFICES ASSUME NEW b \in Bytes, NEW i \in Nat
             PROVE  LET d == Iteration(protocol, b, i)
                        r == From(b, d.n + 1)
                    IN  /\ OutcomeOf(d, b, i)
                        /\ d.go # "stop" => \A y \in Bytes : Iteration(protocol, b \o y, i) = d
                        /\ d.go = "stop" =>
                             /\ Iteration(protocol, r, i) = Stop(0, i)
                             /\ \A y \in Bytes : Alike(protocol, Iteration(protocol, b \o y, i), After(d, Iteration(protocol, r \o y, i)))
  BY DEF Steady
<1> DEFINE d == Iteration(protocol, b, i)
           r == From(b, d.n + 1)
           F(c) == Delimited(c, first, last)
<1>6. \A c \in Bytes : Iteration(protocol, c, i) = Made(F(c).whole, F(c).n, F(c).parts, i)
  BY <1>1
<1>7. /\ F(b).whole \in BOOLEAN
      /\ F(b).whole => F(b).n \in 1 .. Len(b) /\ F(b).parts \in Bytes /\ \A y \in Bytes : F(b \o y) = F(b)
      /\ ~F(b).whole => F(b).n \in 0 .. Len(b) /\ \A j \in 1 .. F(b).n : b[j] # first
  BY DelimitedFacts
<1>8. \A c \in Bytes : F(c).whole \in BOOLEAN /\ (F(c).whole => F(c).n \in 1 .. Len(c) /\ F(c).parts \in Bytes)
                       /\ (~F(c).whole => F(c).n \in 0 .. Len(c))
  BY DelimitedFacts
<1>9. \A n \in 0 .. Len(b) : (\A j \in 1 .. n : b[j] # first) =>
        F(b).whole = F(From(b, n + 1)).whole /\ F(b).n = n + F(From(b, n + 1)).n /\ F(b).parts = F(From(b, n + 1)).parts
  BY DelimitedMoves
<1>10. ASSUME NEW y \in Bytes
       PROVE  \A n \in 0 .. Len(b) : (\A j \in 1 .. n : b[j] # first) =>
                /\ F(b \o y).whole = F(From(b, n + 1) \o y).whole /\ F(b \o y).n = n + F(From(b, n + 1) \o y).n
                /\ F(b \o y).parts = F(From(b, n + 1) \o y).parts
  <2> SUFFICES ASSUME NEW n \in 0 .. Len(b), \A j \in 1 .. n : b[j] # first
               PROVE  /\ F(b \o y).whole = F(From(b, n + 1) \o y).whole /\ F(b \o y).n = n + F(From(b, n + 1) \o y).n
                      /\ F(b \o y).parts = F(From(b, n + 1) \o y).parts
    OBVIOUS
  <2> DEFINE c == b \o y
  <2>1. c \in Bytes /\ Len(c) = Len(b) + Len(y) /\ Len(b) \in Nat /\ Len(y) \in Nat /\ \A j \in 1 .. Len(b) : c[j] = b[j]
    BY Joined
  <2>2. From(c, n + 1) = From(b, n + 1) \o y
    BY FromJoined
  <2> HIDE DEF c
  <2>3. n \in 0 .. Len(c) /\ \A j \in 1 .. n : c[j] # first
    BY <2>1
  <2>4. F(c).whole = F(From(c, n + 1)).whole /\ F(c).n = n + F(From(c, n + 1)).n /\ F(c).parts = F(From(c, n + 1)).parts
    BY <2>1, <2>3, DelimitedMoves
  <2> QED
    BY <2>2, <2>4 DEF c
<1>11. d = Made(F(b).whole, F(b).n, F(b).parts, i)
  BY <1>6
<1> HIDE DEF F, d
<1>12. CASE F(b).whole
  <2>1. OutcomeOf(d, b, i) /\ d.go = "next"
    BY <1>4, <1>7, <1>11, <1>12
  <2>2. ASSUME NEW y \in Bytes PROVE Iteration(protocol, b \o y, i) = d
    <3>1. b \o y \in Bytes /\ F(b \o y) = F(b)
      BY <1>7, <1>12, Joined
    <3> QED
      BY <1>6, <1>11, <3>1
  <2> QED
    BY <2>1, <2>2 DEF d
<1>13. CASE ~F(b).whole
  <2> DEFINE n == F(b).n
  <2>1. n \in 0 .. Len(b) /\ n \in Nat /\ \A j \in 1 .. n : b[j] # first
    BY <1>7, <1>13, ByteOf
  <2>2. d = Stop(n, i)
    BY <1>5, <1>7, <1>11, <1>13
  <2> HIDE DEF n
  <2>3. OutcomeOf(d, b, i) /\ d.go = "stop" /\ d.n = n
    <3>1. OutcomeOf(Stop(n, i), b, i) /\ Stop(n, i).go = "stop"
      BY <2>1, StopOutcome
    <3>2. Stop(n, i).n = n
      BY Fields
    <3> QED
      BY <2>2, <3>1, <3>2
  <2>4. r = From(b, n + 1) /\ r \in Bytes
    BY <2>1, <2>3, FromFacts
  <2> HIDE DEF r
  <2>5. Iteration(protocol, r, i) = Stop(0, i)
    <3>1. F(b).whole = F(r).whole /\ F(b).n = n + F(r).n
      BY <1>9, <2>1, <2>4
    <3>2. F(r).n \in 0 .. Len(r) /\ Len(r) \in Nat
      BY <1>8, <1>13, <2>4, <3>1, ByteOf
    <3>3. F(r).whole = FALSE /\ F(r).n = 0
      BY <1>8, <1>13, <2>1, <2>4, <3>1, <3>2 DEF n
    <3> QED
      BY <1>5, <1>6, <2>4, <3>3
  <2>6. ASSUME NEW y \in Bytes
        PROVE  Alike(protocol, Iteration(protocol, b \o y, i), After(d, Iteration(protocol, r \o y, i)))
    <3> DEFINE c == r \o y
               e == b \o y
    <3>1. c \in Bytes /\ e \in Bytes
      BY <2>4, Joined
    <3>2. F(e).whole = F(c).whole /\ F(e).n = n + F(c).n /\ F(e).parts = F(c).parts
      BY <1>10, <2>1, <2>4
    <3> HIDE DEF c, e
    <3>3. F(c).whole \in BOOLEAN /\ F(c).n \in Nat /\ (F(c).whole => F(c).parts \in Bytes)
      BY <1>8, <3>1, ByteOf
    <3>4. After(Stop(n, i), Made(F(c).whole, F(c).n, F(c).parts, i)) = Made(F(c).whole, n + F(c).n, F(c).parts, i)
      <4> DEFINE whole == F(c).whole
                 m == F(c).n
                 parts == F(c).parts
      <4>1. whole \in BOOLEAN /\ m \in Nat /\ (whole => parts \in Bytes)
        BY <3>3
      <4> HIDE DEF whole, m, parts
      <4>2. After(Stop(n, i), Made(whole, m, parts, i)) = Made(whole, n + m, parts, i)
        BY <1>3, <2>1, <4>1
      <4> QED
        BY <4>2 DEF whole, m, parts
    <3>5. Iteration(protocol, e, i) = After(d, Iteration(protocol, c, i))
      BY <1>6, <2>2, <3>1, <3>2, <3>4
    <3> QED
      BY <3>5 DEF Alike, c, e
  <2> QED
    BY <2>3, <2>5, <2>6 DEF d, r
<1> QED
  BY <1>7, <1>12, <1>13

LEMMA H02Steady == Steady("h02")
<1> DEFINE good == [parts \in Bytes |-> Len(parts) >= 3 /\ parts[1] = HQ]
           said == [parts \in Bytes |-> Message(KindOf(parts[3]), parts[2])]
<1>1. ASSUME NEW parts \in Bytes
      PROVE  good[parts] \in BOOLEAN /\ (good[parts] => said[parts] \in Said)
  <2>1. Len(parts) >= 3 => parts[2] \in Nat
    BY ByteOf
  <2>2. KindOf(parts[3]) \in Kinds
    BY DEF KindOf, Kinds
  <2> QED
    BY <2>1, <2>2 DEF Message, Said
<1>2. ASSUME NEW b \in Bytes, NEW i \in Nat
      PROVE  Iteration("h02", b, i) =
               LET f == Delimited(b, 42, 35)
               IN  IF ~f.whole THEN Stop(f.n, i)
                   ELSE IF good[f.parts] THEN Take(f.n, <<said[f.parts]>>, said[f.parts].imei)
                   ELSE Skip(f.n, i)
  <2> DEFINE f == Delimited(b, 42, 35)
  <2>1. f.whole => f.parts \in Bytes
    BY DelimitedFacts
  <2>2. Iteration("h02", b, i) =
          CASE ~f.whole -> Stop(f.n, i)
            [] f.whole /\ Len(f.parts) >= 3 /\ f.parts[1] = HQ ->
                 Take(f.n, <<Message(KindOf(f.parts[3]), f.parts[2])>>, f.parts[2])
            [] OTHER -> Skip(f.n, i)
    BY DEF Iteration, H02Iteration
  <2> HIDE DEF f
  <2>3. f.whole => good[f.parts] = (Len(f.parts) >= 3 /\ f.parts[1] = HQ) /\ said[f.parts] = Message(KindOf(f.parts[3]), f.parts[2])
                   /\ said[f.parts].imei = f.parts[2]
    BY <2>1 DEF Message
  <2> HIDE DEF good, said
  <2>4. Iteration("h02", b, i) =
          IF ~f.whole THEN Stop(f.n, i)
          ELSE IF good[f.parts] THEN Take(f.n, <<said[f.parts]>>, said[f.parts].imei)
          ELSE Skip(f.n, i)
    BY <2>2, <2>3
  <2> QED
    BY <2>4 DEF f
<1> HIDE DEF good, said
<1>3. Reads("h02", 42, 35, good, said)
  BY <1>1, <1>2 DEF Reads
<1> QED
  BY <1>3, DelimitedSteady

LEMMA QueclinkSteady == Steady("queclink")
<1> DEFINE good == [parts \in Bytes |-> Len(parts) >= 4 /\ parts[1] \in {RESP, ACK} /\ IsImei(parts[4])]
           said == [parts \in Bytes |-> Message(QueclinkKind(parts[1], parts[2]), parts[4])]
<1>1. ASSUME NEW parts \in Bytes
      PROVE  good[parts] \in BOOLEAN /\ (good[parts] => said[parts] \in Said)
  <2>1. Len(parts) >= 4 => parts[4] \in Nat
    BY ByteOf
  <2>2. QueclinkKind(parts[1], parts[2]) \in Kinds
    BY DEF QueclinkKind, Kinds
  <2> QED
    BY <2>1, <2>2 DEF Message, Said, IsImei
<1>2. ASSUME NEW b \in Bytes, NEW i \in Nat
      PROVE  Iteration("queclink", b, i) =
               LET f == Delimited(b, 43, 36)
               IN  IF ~f.whole THEN Stop(f.n, i)
                   ELSE IF good[f.parts] THEN Take(f.n, <<said[f.parts]>>, said[f.parts].imei)
                   ELSE Skip(f.n, i)
  <2> DEFINE f == Delimited(b, 43, 36)
  <2>1. f.whole => f.parts \in Bytes
    BY DelimitedFacts
  <2>2. Iteration("queclink", b, i) =
          CASE ~f.whole -> Stop(f.n, i)
            [] f.whole /\ Len(f.parts) >= 4 /\ f.parts[1] \in {RESP, ACK} /\ IsImei(f.parts[4]) ->
                 Take(f.n, <<Message(QueclinkKind(f.parts[1], f.parts[2]), f.parts[4])>>, f.parts[4])
            [] OTHER -> Skip(f.n, i)
    BY DEF Iteration, QueclinkIteration
  <2> HIDE DEF f
  <2>3. f.whole => good[f.parts] = (Len(f.parts) >= 4 /\ f.parts[1] \in {RESP, ACK} /\ IsImei(f.parts[4]))
                   /\ said[f.parts] = Message(QueclinkKind(f.parts[1], f.parts[2]), f.parts[4])
                   /\ said[f.parts].imei = f.parts[4]
    BY <2>1 DEF Message
  <2> HIDE DEF good, said
  <2>4. Iteration("queclink", b, i) =
          IF ~f.whole THEN Stop(f.n, i)
          ELSE IF good[f.parts] THEN Take(f.n, <<said[f.parts]>>, said[f.parts].imei)
          ELSE Skip(f.n, i)
    BY <2>2, <2>3
  <2> QED
    BY <2>4 DEF f
<1> HIDE DEF good, said
<1>3. Reads("queclink", 43, 36, good, said)
  BY <1>1, <1>2 DEF Reads
<1> QED
  BY <1>3, DelimitedSteady

-----------------------------------------------------------------------------
(* NMEA. *)

LEMMA NmeaLineOutcome ==
  ASSUME NEW b \in Bytes, NEW line, NEW n \in 1 .. Len(b), NEW i \in Nat
  PROVE  OutcomeOf(NmeaLine(line, n, i), b, i) /\ NmeaLine(line, n, i).go = "next"
<1> DEFINE d == NmeaLine(line, n, i)
<1>1. ASSUME NEW kind \in Kinds, NEW k \in Nat, d = Take(n, <<Message(kind, k)>>, k)
      PROVE  OutcomeOf(d, b, i) /\ d.go = "next"
  <2> DEFINE messages == <<Message(kind, k)>>
  <2>1. messages \in Seq(Said)
    BY OneMessage
  <2> HIDE DEF messages
  <2>2. OutcomeOf(Take(n, messages, k), b, i) /\ Take(n, messages, k).go = "next"
    BY <2>1, TakeOutcome
  <2> QED
    BY <1>1, <2>2 DEF messages
<1>2. CASE Len(line) = 2 /\ line[1] = 35 /\ IsImei(line[2])
  <2>1. d = Take(n, <<Message("login", line[2])>>, line[2])
    BY <1>2 DEF NmeaLine
  <2>2. line[2] \in Nat
    BY <1>2 DEF IsImei
  <2> QED
    BY <1>1, <2>1, <2>2 DEF Kinds
<1>3. CASE ~(Len(line) = 2 /\ line[1] = 35 /\ IsImei(line[2]))
  <2>1. d = Take(n, <<Message("location", i)>>, i) \/ d = Skip(n, i)
    BY <1>3 DEF NmeaLine
  <2>2. OutcomeOf(Skip(n, i), b, i) /\ Skip(n, i).go = "next"
    BY SkipOutcome
  <2> QED
    BY <1>1, <2>1, <2>2 DEF Kinds
<1> QED
  BY <1>2, <1>3

LEMMA NmeaSteady == Steady("nmea")
<1>1. ASSUME NEW b \in Bytes, NEW i \in Nat
      PROVE  /\ OutcomeOf(NmeaIteration(b, i), b, i)
             /\ NmeaIteration(b, i).go = "stop" => NmeaIteration(b, i) = Stop(0, i)
             /\ NmeaIteration(b, i).go # "stop" => \A y \in Bytes : NmeaIteration(b \o y, i) = NmeaIteration(b, i)
  <2> DEFINE nl == indexOf(b, 10, 1)
             line == SubSeq(b, 1, nl - 1)
  <2>1. Len(b) \in Nat
    BY ByteOf
  <2>2. nl = 0 \/ nl \in 1 .. Len(b)
    BY IndexFacts
  <2>3. NmeaIteration(b, i) = IF nl = 0 THEN Stop(0, i) ELSE NmeaLine(line, nl, i)
    BY DEF NmeaIteration
  <2>4. CASE nl = 0
    <3>1. NmeaIteration(b, i) = Stop(0, i) /\ 0 \in 0 .. Len(b)
      BY <2>1, <2>3, <2>4
    <3>2. OutcomeOf(Stop(0, i), b, i) /\ Stop(0, i).go = "stop"
      BY <3>1, StopOutcome
    <3> QED
      BY <3>1, <3>2
  <2>5. CASE nl # 0
    <3>1. nl \in 1 .. Len(b) /\ nl - 1 \in Int /\ nl - 1 <= Len(b)
      BY <2>1, <2>2, <2>5
    <3> HIDE DEF line
    <3>2. OutcomeOf(NmeaLine(line, nl, i), b, i) /\ NmeaLine(line, nl, i).go = "next"
      BY <3>1, NmeaLineOutcome
    <3>3. ASSUME NEW y \in Bytes PROVE NmeaIteration(b \o y, i) = NmeaLine(line, nl, i)
      <4>1. indexOf(b \o y, 10, 1) = nl
        BY <2>5, IndexStays
      <4> HIDE DEF nl
      <4>2. SubSeq(b \o y, 1, nl - 1) = line
        BY <3>1, PartOfJoined DEF line
      <4> QED
        BY <2>5, <4>1, <4>2 DEF NmeaIteration
    <3> QED
      BY <2>3, <2>5, <3>2, <3>3
  <2> QED
    BY <2>4, <2>5
<1>2. \A b, i : Iteration("nmea", b, i) = NmeaIteration(b, i)
  BY DEF Iteration
<1> QED
  BY <1>1, <1>2, WaitsForAll

-----------------------------------------------------------------------------
(* Teltonika. *)

LEMMA AvlMessagesAreSaid ==
  ASSUME NEW data \in Bytes, Len(data) >= 3, NEW i \in Nat
  PROVE  AvlMessages(data, i) \in Seq(Said)
<1> DEFINE locations == [j \in 1 .. data[2] |-> Message("location", i)]
<1>1. data[2] \in Nat
  BY ByteOf
<1>2. <<>> \in Seq(Said) /\ <<Message("heartbeat", i)>> \in Seq(Said)
  BY NoMessages, OneMessage DEF Kinds
<1>3. locations \in Seq(Said)
  <2>1. \A j \in 1 .. data[2] : Message("location", i) \in Said
    BY DEF Message, Said, Kinds
  <2> QED
    BY <1>1, <2>1, SeqDef
<1>4. AvlMessages(data, i) \in {<<>>, <<Message("heartbeat", i)>>, locations}
  BY DEF AvlMessages
<1> QED
  BY <1>2, <1>3, <1>4

DataLength(b) == ((b[5] * 256 + b[6]) * 256 + b[7]) * 256 + b[8]
\* What the check of the length lets through.
Framed(b) ==
  (\A j \in 1 .. 4 : b[j] = 0) /\ ~(b[5] > 0) /\ ~(b[6] > 0) /\ ~(DataLength(b) < 3) /\ ~(DataLength(b) > 61440)

LEMMA NextByte ==
  ASSUME NEW high \in Nat, NEW low \in Nat
  PROVE  high * 256 + low \in Nat
OBVIOUS

LEMMA DataLengthIs ==
  ASSUME NEW b \in Bytes, Len(b) >= 12
  PROVE  DataLength(b) \in Nat /\ (Framed(b) => DataLength(b) >= 3)
<1>1. b[5] \in Nat /\ b[6] \in Nat /\ b[7] \in Nat /\ b[8] \in Nat
  BY ByteOf
<1>2. DataLength(b) \in Nat
  <2> DEFINE u == b[5] * 256 + b[6]
             v == u * 256 + b[7]
  <2>1. u \in Nat
    BY <1>1, NextByte
  <2> HIDE DEF u
  <2>2. v \in Nat
    BY <1>1, <2>1, NextByte
  <2>3. DataLength(b) = v * 256 + b[8]
    BY DEF DataLength, u
  <2> HIDE DEF v
  <2> QED
    BY <1>1, <2>2, <2>3, NextByte
<1> QED
  BY <1>2 DEF Framed
AvlOf(data, i) == IF data[1] \in {8, 142} /\ data[2] <= 128 THEN AvlMessages(data, i) ELSE <<>>

\* A data iteration by its cases.
LEMMA TeltonikaCases ==
  ASSUME NEW b \in Bytes, NEW i \in Nat \ {0}
  PROVE  /\ Len(b) < 12 => TeltonikaIteration(b, i) = Stop(0, i)
         /\ Len(b) >= 12 /\ ~Framed(b) => TeltonikaIteration(b, i) = Skip(1, i)
         /\ Len(b) >= 12 /\ Framed(b) /\ Len(b) < DataLength(b) + 12 => TeltonikaIteration(b, i) = Stop(0, i)
         /\ Len(b) >= 12 /\ Framed(b) /\ Len(b) >= DataLength(b) + 12 =>
              TeltonikaIteration(b, i) =
                IF b[DataLength(b) + 11] * 256 + b[DataLength(b) + 12] # crc16(SubSeq(b, 9, 8 + DataLength(b))) THEN Skip(1, i)
                ELSE Take(DataLength(b) + 12, AvlOf(SubSeq(b, 9, 8 + DataLength(b)), i), i)
<1> DEFINE len == DataLength(b)
<1>1. Len(b) \in Nat
  BY ByteOf
<1>2. Len(b) < 12 => TeltonikaIteration(b, i) = Stop(0, i)
  BY <1>1 DEF TeltonikaIteration
<1>3. ASSUME Len(b) >= 12
      PROVE  TeltonikaIteration(b, i) =
               IF ~Framed(b) THEN Skip(1, i)
               ELSE IF Len(b) < len + 12 THEN Stop(0, i)
               ELSE IF b[len + 12 - 1] * 256 + b[len + 12] # crc16(SubSeq(b, 9, 8 + len)) THEN Skip(1, i)
               ELSE Take(len + 12, AvlOf(SubSeq(b, 9, 8 + len), i), i)
  <2>1. TeltonikaIteration(b, i) =
          CASE ~(\A j \in 1 .. 4 : b[j] = 0) \/ b[5] > 0 \/ b[6] > 0 \/ len < 3 \/ len > 61440 -> Skip(1, i)
            [] OTHER ->
                 CASE Len(b) < len + 12 -> Stop(0, i)
                   [] Len(b) >= len + 12 /\ b[len + 12 - 1] * 256 + b[len + 12] # crc16(SubSeq(b, 9, 8 + len)) -> Skip(1, i)
                   [] OTHER -> Take(len + 12, AvlOf(SubSeq(b, 9, 8 + len), i), i)
    <3> DEFINE preamble == \A j \in 1 .. 4 : b[j] = 0
               n == ((b[5] * 256 + b[6]) * 256 + b[7]) * 256 + b[8]
               data == SubSeq(b, 9, 8 + n)
               framed ==
                 CASE ~preamble \/ b[5] > 0 \/ b[6] > 0 \/ n < 3 \/ n > 61440 -> Skip(1, i)
                   [] OTHER ->
                        CASE Len(b) < n + 12 -> Stop(0, i)
                          [] Len(b) >= n + 12 /\ b[n + 12 - 1] * 256 + b[n + 12] # crc16(data) -> Skip(1, i)
                          [] OTHER -> Take(n + 12, IF data[1] \in {8, 142} /\ data[2] <= 128
                                                  THEN AvlMessages(data, i) ELSE <<>>, i)
    <3>1. TeltonikaIteration(b, i) =
            CASE i = 0 -> IF b = <<>> THEN Stop(0, i) ELSE TeltonikaHandshake(b)
              [] i # 0 /\ Len(b) < 12 -> Stop(0, i)
              [] i # 0 /\ Len(b) >= 12 -> framed
      BY DEF TeltonikaIteration
    <3>2. n = len
      BY DEF DataLength
    <3>3. framed =
            CASE ~(\A j \in 1 .. 4 : b[j] = 0) \/ b[5] > 0 \/ b[6] > 0 \/ len < 3 \/ len > 61440 -> Skip(1, i)
              [] OTHER ->
                   CASE Len(b) < len + 12 -> Stop(0, i)
                     [] Len(b) >= len + 12 /\ b[len + 12 - 1] * 256 + b[len + 12] # crc16(SubSeq(b, 9, 8 + len)) -> Skip(1, i)
                     [] OTHER -> Take(len + 12, AvlOf(SubSeq(b, 9, 8 + len), i), i)
      <4> HIDE DEF n, len
      <4> QED
        BY <3>2 DEF AvlOf
    <3> HIDE DEF framed
    <3>4. TeltonikaIteration(b, i) = framed
      BY <1>1, <1>3, <3>1
    <3> QED
      BY <3>3, <3>4
  <2>2. len \in Nat
    BY <1>3, DataLengthIs
  <2>3. Framed(b) <=> ~(~(\A j \in 1 .. 4 : b[j] = 0) \/ b[5] > 0 \/ b[6] > 0 \/ len < 3 \/ len > 61440)
    BY DEF Framed
  <2> HIDE DEF len
  <2> QED
    BY <1>1, <2>1, <2>2, <2>3
<1>4. Len(b) >= 12 => len \in Nat /\ len + 12 - 1 = len + 11
  BY DataLengthIs
<1> HIDE DEF len
<1>5. Len(b) >= 12 /\ ~Framed(b) => TeltonikaIteration(b, i) = Skip(1, i)
  BY <1>3
<1>6. Len(b) >= 12 /\ Framed(b) /\ Len(b) < len + 12 => TeltonikaIteration(b, i) = Stop(0, i)
  BY <1>3
<1>7. Len(b) >= 12 /\ Framed(b) /\ Len(b) >= len + 12 =>
        TeltonikaIteration(b, i) =
          IF b[len + 11] * 256 + b[len + 12] # crc16(SubSeq(b, 9, 8 + len)) THEN Skip(1, i)
          ELSE Take(len + 12, AvlOf(SubSeq(b, 9, 8 + len), i), i)
  <2> HAVE Len(b) >= 12 /\ Framed(b) /\ Len(b) >= len + 12
  <2>1. ~(Len(b) < len + 12)
    BY <1>1, <1>4
  <2> QED
    BY <1>3, <1>4, <2>1
<1> QED
  BY <1>2, <1>5, <1>6, <1>7 DEF len

LEMMA TeltonikaHandshakeSteady ==
  ASSUME NEW b \in Bytes
  PROVE  /\ OutcomeOf(TeltonikaIteration(b, 0), b, 0)
         /\ TeltonikaIteration(b, 0).go = "stop" => TeltonikaIteration(b, 0) = Stop(0, 0)
         /\ TeltonikaIteration(b, 0).go # "stop" => \A y \in Bytes : TeltonikaIteration(b \o y, 0) = TeltonikaIteration(b, 0)
<1> DEFINE len == b[1] * 256 + b[2]
           bad(c, l) == Len(c) < 2 \/ l < 1 \/ l > 20 \/ Len(c) < 2 + l \/ \E j \in 3 .. 2 + l : ~IsImei(c[j])
           read(c, l) == Take(2 + l, <<Message("login", c[3])>>, c[3])
<1>1. Len(b) \in Nat /\ \A j \in 1 .. Len(b) : b[j] \in Nat
  BY ByteOf
<1>2. ASSUME NEW c \in Bytes
      PROVE  TeltonikaIteration(c, 0) = IF c = <<>> \/ bad(c, c[1] * 256 + c[2]) THEN Stop(0, 0) ELSE read(c, c[1] * 256 + c[2])
  BY DEF TeltonikaIteration, TeltonikaHandshake
<1>3. TeltonikaIteration(b, 0) = IF b = <<>> \/ bad(b, len) THEN Stop(0, 0) ELSE read(b, len)
  BY <1>2
<1>4. CASE b = <<>> \/ bad(b, len)
  <2> HIDE DEF bad
  <2>1. TeltonikaIteration(b, 0) = Stop(0, 0) /\ 0 \in 0 .. Len(b) /\ 0 \in Nat
    BY <1>1, <1>3, <1>4
  <2>2. OutcomeOf(Stop(0, 0), b, 0) /\ Stop(0, 0).go = "stop"
    BY <2>1, StopOutcome
  <2> QED
    BY <2>1, <2>2
<1>5. CASE b # <<>> /\ ~bad(b, len)
  <2>1. /\ Len(b) >= 2 /\ b[1] \in Nat /\ b[2] \in Nat /\ len \in Nat /\ len >= 1 /\ ~(len > 20) /\ 2 + len \in 1 .. Len(b)
        /\ \A j \in 3 .. 2 + len : IsImei(b[j])
    BY <1>1, <1>5
  <2>2. b[3] \in Nat /\ 3 \in 1 .. Len(b) /\ 1 \in 1 .. Len(b) /\ 2 \in 1 .. Len(b)
    BY <1>1, <2>1
  <2> DEFINE messages == <<Message("login", b[3])>>
  <2>3. messages \in Seq(Said)
    BY <2>2, OneMessage DEF Kinds
  <2>4. TeltonikaIteration(b, 0) = Take(2 + len, messages, b[3])
    BY <1>3, <1>5
  <2> HIDE DEF messages
  <2>5. OutcomeOf(Take(2 + len, messages, b[3]), b, 0) /\ Take(2 + len, messages, b[3]).go = "next"
    <3> DEFINE n == 2 + len
    <3>1. n \in 1 .. Len(b) /\ 0 \in Nat
      BY <2>1
    <3> HIDE DEF n
    <3>2. OutcomeOf(Take(n, messages, b[3]), b, 0) /\ Take(n, messages, b[3]).go = "next"
      BY <2>2, <2>3, <3>1, TakeOutcome
    <3> QED
      BY <3>2 DEF n
  <2>6. ASSUME NEW y \in Bytes PROVE TeltonikaIteration(b \o y, 0) = Take(2 + len, messages, b[3])
    <3> DEFINE c == b \o y
    <3>1. c \in Bytes /\ Len(c) = Len(b) + Len(y) /\ Len(y) \in Nat /\ \A j \in 1 .. Len(b) : c[j] = b[j]
      BY Joined
    <3> HIDE DEF c
    <3>2. c[1] = b[1] /\ c[2] = b[2] /\ c[3] = b[3]
      BY <2>2, <3>1
    <3>3. Len(c) >= 2 /\ Len(c) >= 2 + len
      BY <1>1, <2>1, <3>1
    <3>4. \A j \in 3 .. 2 + len : j \in 1 .. Len(b) /\ IsImei(c[j])
      BY <1>1, <2>1, <3>1
    <3>8. c[1] * 256 + c[2] = len
      BY <3>2
    <3>5. ~bad(c, len)
      <4> HIDE DEF len
      <4> QED
        BY <1>1, <2>1, <3>1, <3>3, <3>4
    <3>6. c # <<>>
      BY <3>3, EmptySeq
    <3>7. TeltonikaIteration(c, 0) = read(c, len)
      <4> HIDE DEF len, bad, read
      <4> QED
        BY <1>2, <3>1, <3>5, <3>6, <3>8
    <3> QED
      BY <3>2, <3>7 DEF c, messages
  <2> QED
    BY <2>4, <2>5, <2>6
<1> QED
  BY <1>4, <1>5

LEMMA TeltonikaDataSteady ==
  ASSUME NEW b \in Bytes, NEW i \in Nat \ {0}
  PROVE  /\ OutcomeOf(TeltonikaIteration(b, i), b, i)
         /\ TeltonikaIteration(b, i).go = "stop" => TeltonikaIteration(b, i) = Stop(0, i)
         /\ TeltonikaIteration(b, i).go # "stop" => \A y \in Bytes : TeltonikaIteration(b \o y, i) = TeltonikaIteration(b, i)
<1>1. Len(b) \in Nat /\ \A j \in 1 .. Len(b) : b[j] \in Nat
  BY ByteOf
<1>2. CASE Len(b) < 12 \/ (Len(b) >= 12 /\ Framed(b) /\ Len(b) < DataLength(b) + 12)
  <2>1. TeltonikaIteration(b, i) = Stop(0, i) /\ 0 \in 0 .. Len(b)
    BY <1>1, <1>2, TeltonikaCases
  <2>2. OutcomeOf(Stop(0, i), b, i) /\ Stop(0, i).go = "stop"
    BY <2>1, StopOutcome
  <2> QED
    BY <2>1, <2>2
<1>3. ASSUME NEW y \in Bytes, Len(b) >= 12
      PROVE  /\ b \o y \in Bytes /\ Len(b \o y) >= 12 /\ Len(b \o y) = Len(b) + Len(y) /\ Len(y) \in Nat
             /\ DataLength(b \o y) = DataLength(b) /\ (Framed(b \o y) <=> Framed(b))
             /\ \A j \in 1 .. Len(b) : (b \o y)[j] = b[j]
  <2> DEFINE c == b \o y
  <2>1. c \in Bytes /\ Len(c) = Len(b) + Len(y) /\ Len(y) \in Nat /\ \A j \in 1 .. Len(b) : c[j] = b[j]
    BY Joined
  <2> HIDE DEF c
  <2>2. Len(c) >= 12 /\ \A j \in 1 .. 8 : c[j] = b[j]
    BY <1>1, <1>3, <2>1
  <2>3. DataLength(c) = DataLength(b)
    BY <2>2 DEF DataLength
  <2>4. Framed(c) <=> Framed(b)
    BY <2>2, <2>3 DEF Framed
  <2> QED
    BY <2>1, <2>2, <2>3, <2>4 DEF c
<1>4. CASE Len(b) >= 12 /\ ~Framed(b)
  <2>1. TeltonikaIteration(b, i) = Skip(1, i) /\ 1 \in 1 .. Len(b)
    BY <1>1, <1>4, TeltonikaCases
  <2>2. OutcomeOf(Skip(1, i), b, i) /\ Skip(1, i).go = "next"
    BY <2>1, SkipOutcome
  <2>3. ASSUME NEW y \in Bytes PROVE TeltonikaIteration(b \o y, i) = Skip(1, i)
    <3> DEFINE c == b \o y
    <3>1. c \in Bytes /\ Len(c) >= 12 /\ ~Framed(c)
      BY <1>3, <1>4
    <3> HIDE DEF c
    <3>2. TeltonikaIteration(c, i) = Skip(1, i)
      BY <3>1, TeltonikaCases
    <3> QED
      BY <3>2 DEF c
  <2> QED
    BY <2>1, <2>2, <2>3
<1>5. CASE Len(b) >= 12 /\ Framed(b) /\ Len(b) >= DataLength(b) + 12
  <2> DEFINE len == DataLength(b)
             data == SubSeq(b, 9, 8 + len)
             messages == AvlOf(data, i)
             wrong == b[len + 11] * 256 + b[len + 12] # crc16(data)
             made == IF wrong THEN Skip(1, i) ELSE Take(len + 12, messages, i)
  <2>1. len \in Nat /\ len >= 3
    BY <1>5, DataLengthIs
  <2>2. TeltonikaIteration(b, i) = made
    BY <1>5, TeltonikaCases
  <2>0. Len(b) >= len + 12
    BY <1>5
  <2> HIDE DEF len
  <2>3. /\ len + 12 \in 1 .. Len(b) /\ 8 + len \in Int /\ 8 + len <= Len(b) /\ 1 \in 1 .. Len(b)
        /\ len + 11 \in 1 .. Len(b)
    BY <1>1, <2>0, <2>1
  <2>4. data \in Bytes /\ Len(data) >= 3
    <3>1. \A j \in 9 .. 8 + len : b[j] \in Nat
      BY <1>1, <2>1, <2>3
    <3>2. data \in Bytes /\ Len(data) = IF 9 <= 8 + len THEN (8 + len) - 9 + 1 ELSE 0
      BY <2>3, <3>1, SubSeqProperties DEF Bytes
    <3> QED
      BY <2>1, <3>2
  <2> HIDE DEF data
  <2>5. messages \in Seq(Said)
    BY <2>4, AvlMessagesAreSaid, NoMessages DEF AvlOf
  <2> HIDE DEF messages, wrong
  <2>6. OutcomeOf(made, b, i) /\ made.go = "next"
    <3> DEFINE n == len + 12
    <3>1. n \in 1 .. Len(b)
      BY <2>3
    <3> HIDE DEF n
    <3>2. OutcomeOf(Take(n, messages, i), b, i) /\ Take(n, messages, i).go = "next"
      BY <2>5, <3>1, TakeOutcome
    <3>3. OutcomeOf(Skip(1, i), b, i) /\ Skip(1, i).go = "next"
      BY <2>3, SkipOutcome
    <3> QED
      BY <3>2, <3>3 DEF n
  <2>7. ASSUME NEW y \in Bytes PROVE TeltonikaIteration(b \o y, i) = made
    <3> DEFINE c == b \o y
               k == 8 + len
    <3>1. c \in Bytes /\ Len(c) >= 12 /\ DataLength(c) = len /\ Framed(c) /\ Len(c) = Len(b) + Len(y) /\ Len(y) \in Nat
          /\ \A j \in 1 .. Len(b) : c[j] = b[j]
      BY <1>3, <1>5 DEF len
    <3>2. k \in Int /\ k <= Len(b) /\ 9 \in Nat \ {0}
      BY <2>3
    <3>3. data = SubSeq(b, 9, k)
      BY DEF data
    <3> HIDE DEF k
    <3>4. SubSeq(c, 9, k) = data
      BY <3>2, <3>3, PartOfJoined
    <3> HIDE DEF c
    <3>5. Len(c) >= len + 12
      BY <1>1, <2>0, <2>1, <3>1
    <3>6. c[len + 11] = b[len + 11] /\ c[len + 12] = b[len + 12]
      BY <2>3, <3>1
    <3>7. TeltonikaIteration(c, i) =
            IF c[DataLength(c) + 11] * 256 + c[DataLength(c) + 12] # crc16(SubSeq(c, 9, 8 + DataLength(c))) THEN Skip(1, i)
            ELSE Take(DataLength(c) + 12, AvlOf(SubSeq(c, 9, 8 + DataLength(c)), i), i)
      BY <3>1, <3>5, TeltonikaCases
    <3>8. TeltonikaIteration(c, i) =
            IF c[len + 11] * 256 + c[len + 12] # crc16(SubSeq(c, 9, k)) THEN Skip(1, i)
            ELSE Take(len + 12, AvlOf(SubSeq(c, 9, k), i), i)
      BY <3>1, <3>7 DEF k
    <3>9. TeltonikaIteration(c, i) = made
      BY <3>4, <3>6, <3>8 DEF wrong, messages
    <3> QED
      BY <3>9 DEF c
  <2> HIDE DEF made
  <2> QED
    BY <2>2, <2>6, <2>7
<1>6. Len(b) >= 12 => DataLength(b) \in Nat
  BY DataLengthIs
<1> QED
  BY <1>1, <1>2, <1>4, <1>5, <1>6

LEMMA TeltonikaSteady == Steady("teltonika")
<1>1. ASSUME NEW b \in Bytes, NEW i \in Nat
      PROVE  /\ OutcomeOf(TeltonikaIteration(b, i), b, i)
             /\ TeltonikaIteration(b, i).go = "stop" => TeltonikaIteration(b, i) = Stop(0, i)
             /\ TeltonikaIteration(b, i).go # "stop" => \A y \in Bytes : TeltonikaIteration(b \o y, i) = TeltonikaIteration(b, i)
  <2>1. CASE i = 0
    BY <2>1, TeltonikaHandshakeSteady
  <2>2. CASE i # 0
    BY <2>2, TeltonikaDataSteady
  <2> QED
    BY <2>1, <2>2
<1>2. \A b, i : Iteration("teltonika", b, i) = TeltonikaIteration(b, i)
  BY DEF Iteration
<1> QED
  BY <1>1, <1>2, WaitsForAll

-----------------------------------------------------------------------------
(* Meitrack, which looks for two bytes together. *)

Pair(b, x, z, i) == Least({k \in i .. Len(b) - 1 : b[k] = x /\ b[k + 1] = z})

LEMMA PairFacts ==
  ASSUME NEW b \in Bytes, NEW x, NEW z, NEW i \in Nat \ {0}
  PROVE  \/ Pair(b, x, z, i) = 0 /\ \A j \in i .. Len(b) - 1 : ~(b[j] = x /\ b[j + 1] = z)
         \/ /\ Pair(b, x, z, i) \in i .. Len(b) - 1 /\ b[Pair(b, x, z, i)] = x /\ b[Pair(b, x, z, i) + 1] = z
            /\ \A j \in i .. Len(b) - 1 : b[j] = x /\ b[j + 1] = z => Pair(b, x, z, i) <= j
<1> DEFINE S == {k \in i .. Len(b) - 1 : b[k] = x /\ b[k + 1] = z}
<1>1. Len(b) \in Nat
  BY ByteOf
<1>2. S \in SUBSET (Nat \ {0})
  BY <1>1
<1>3. Pair(b, x, z, i) = Least(S)
  BY DEF Pair
<1>4. \A k : k \in S <=> k \in i .. Len(b) - 1 /\ b[k] = x /\ b[k + 1] = z
  OBVIOUS
<1> HIDE DEF S
<1>5. /\ Least(S) = 0 <=> S = {}
      /\ S # {} => Least(S) \in S
      /\ \A k \in S : Least(S) <= k
  BY <1>2, LeastFacts
<1> QED
  BY <1>3, <1>4, <1>5

LEMMA PairIs ==
  ASSUME NEW b \in Bytes, NEW x, NEW z, NEW i \in Nat \ {0}
  PROVE  /\ \A k \in i .. Len(b) - 1 :
              b[k] = x /\ b[k + 1] = z /\ (\A j \in i .. k - 1 : ~(b[j] = x /\ b[j + 1] = z)) => Pair(b, x, z, i) = k
         /\ (\A j \in i .. Len(b) - 1 : ~(b[j] = x /\ b[j + 1] = z)) => Pair(b, x, z, i) = 0
<1>1. Len(b) \in Nat
  BY ByteOf
<1>2. ASSUME NEW k \in i .. Len(b) - 1, b[k] = x, b[k + 1] = z, \A j \in i .. k - 1 : ~(b[j] = x /\ b[j + 1] = z)
      PROVE  Pair(b, x, z, i) = k
  <2> DEFINE p == Pair(b, x, z, i)
  <2>1. p \in i .. Len(b) - 1 /\ b[p] = x /\ b[p + 1] = z /\ p <= k
    BY <1>2, PairFacts
  <2> HIDE DEF p
  <2>2. p \notin i .. k - 1
    BY <1>2, <2>1
  <2>3. p = k
    BY <1>1, <2>1, <2>2
  <2> QED
    BY <2>3 DEF p
<1>3. ASSUME \A j \in i .. Len(b) - 1 : ~(b[j] = x /\ b[j + 1] = z)
      PROVE  Pair(b, x, z, i) = 0
  BY <1>3, PairFacts
<1> QED
  BY <1>2, <1>3

LEMMA PairStays ==
  ASSUME NEW b \in Bytes, NEW y \in Bytes, NEW x, NEW z, NEW i \in Nat \ {0}, Pair(b, x, z, i) # 0
  PROVE  Pair(b \o y, x, z, i) = Pair(b, x, z, i)
<1> DEFINE c == b \o y
           k == Pair(b, x, z, i)
<1>1. /\ c \in Bytes /\ Len(c) = Len(b) + Len(y) /\ Len(b) \in Nat /\ Len(y) \in Nat
      /\ \A j \in 1 .. Len(b) : c[j] = b[j]
  BY Joined
<1>2. /\ k \in i .. Len(b) - 1 /\ b[k] = x /\ b[k + 1] = z
      /\ \A j \in i .. Len(b) - 1 : b[j] = x /\ b[j + 1] = z => k <= j
  BY PairFacts
<1> HIDE DEF c, k
<1>3. k \in i .. Len(c) - 1 /\ k \in 1 .. Len(b) /\ k + 1 \in 1 .. Len(b)
  BY <1>1, <1>2
<1>4. c[k] = x /\ c[k + 1] = z
  BY <1>1, <1>2, <1>3
<1> DEFINE p == Pair(c, x, z, i)
<1>5. \/ p = 0 /\ \A j \in i .. Len(c) - 1 : ~(c[j] = x /\ c[j + 1] = z)
      \/ /\ p \in i .. Len(c) - 1 /\ c[p] = x /\ c[p + 1] = z
         /\ \A j \in i .. Len(c) - 1 : c[j] = x /\ c[j + 1] = z => p <= j
  BY <1>1, PairFacts
<1> HIDE DEF p
<1>6. p \in i .. Len(c) - 1 /\ c[p] = x /\ c[p + 1] = z /\ p <= k
  BY <1>3, <1>4, <1>5
<1>7. p \in i .. Len(b) - 1 /\ p \in 1 .. Len(b) /\ p + 1 \in 1 .. Len(b)
  BY <1>1, <1>2, <1>6
<1>8. k <= p
  BY <1>1, <1>2, <1>6, <1>7
<1>9. p = k
  BY <1>1, <1>2, <1>6, <1>7, <1>8
<1> QED
  BY <1>9 DEF c, k, p

LEMMA PairInRest ==
  ASSUME NEW b \in Bytes, NEW n \in 0 .. Len(b), NEW x, NEW z, NEW i \in Nat \ {0}
  PROVE  Pair(b, x, z, n + i) = IF Pair(From(b, n + 1), x, z, i) = 0 THEN 0 ELSE n + Pair(From(b, n + 1), x, z, i)
<1> DEFINE r == From(b, n + 1)
           k == Pair(r, x, z, i)
<1>1. Len(b) \in Nat /\ n + i \in Nat \ {0}
  BY ByteOf
<1>2. r \in Bytes /\ Len(r) = Len(b) - n /\ \A j \in 1 .. Len(b) - n : r[j] = b[n + j]
  BY FromFacts
<1> HIDE DEF r
<1>3. \/ k = 0 /\ \A j \in i .. Len(r) - 1 : ~(r[j] = x /\ r[j + 1] = z)
      \/ /\ k \in i .. Len(r) - 1 /\ r[k] = x /\ r[k + 1] = z
         /\ \A j \in i .. Len(r) - 1 : r[j] = x /\ r[j + 1] = z => k <= j
  BY <1>2, PairFacts
<1> HIDE DEF k
<1>4. ASSUME NEW j \in n + i .. Len(b) - 1
      PROVE  j - n \in i .. Len(r) - 1 /\ b[j] = r[j - n] /\ b[j + 1] = r[j - n + 1]
  <2>1. /\ j - n \in i .. Len(r) - 1 /\ j - n \in 1 .. Len(b) - n /\ j - n + 1 \in 1 .. Len(b) - n
        /\ n + (j - n) = j /\ n + (j - n + 1) = j + 1
    BY <1>1, <1>2
  <2> QED
    BY <1>2, <2>1
<1>5. CASE k = 0
  <2>1. \A j \in n + i .. Len(b) - 1 : ~(b[j] = x /\ b[j + 1] = z)
    BY <1>1, <1>2, <1>3, <1>4, <1>5
  <2>2. Pair(b, x, z, n + i) = 0
    BY <1>1, <2>1, PairIs
  <2> QED
    BY <1>5, <2>2 DEF r, k
<1>6. CASE k # 0
  <2> DEFINE q == n + k
  <2>1. q \in n + i .. Len(b) - 1 /\ b[q] = x /\ b[q + 1] = z
    <3>1. q \in n + i .. Len(b) - 1 /\ q - n = k
      BY <1>1, <1>2, <1>3, <1>6
    <3> HIDE DEF q
    <3> QED
      BY <1>3, <1>4, <1>6, <3>1
  <2>2. ASSUME NEW j \in n + i .. q - 1 PROVE ~(b[j] = x /\ b[j + 1] = z)
    <3>1. j \in n + i .. Len(b) - 1 /\ ~(k <= j - n)
      BY <1>1, <1>2, <1>3, <1>6
    <3>2. j - n \in i .. Len(r) - 1 /\ b[j] = r[j - n] /\ b[j + 1] = r[j - n + 1]
      BY <1>4, <3>1
    <3> QED
      BY <1>3, <1>6, <3>1, <3>2
  <2> HIDE DEF q
  <2>3. Pair(b, x, z, n + i) = q
    BY <1>1, <2>1, <2>2, PairIs
  <2> QED
    BY <1>6, <2>3 DEF r, k, q
<1> QED
  BY <1>5, <1>6

\* An iteration by its cases: start and end as the code finds them.
MeitrackStart(b) == Pair(b, 36, 36, 1)
MeitrackEnd(b) == Pair(b, 13, 10, MeitrackStart(b) + 2) + 1

LEMMA MeitrackCases ==
  ASSUME NEW b \in Bytes, NEW i \in Nat
  PROVE  /\ Len(b) < 2 => MeitrackIteration(b, i) = Stop(0, i)
         /\ Len(b) >= 2 /\ MeitrackStart(b) = 0 => MeitrackIteration(b, i) = Stop(Len(b), i)
         /\ Len(b) >= 2 /\ MeitrackStart(b) # 0 /\ MeitrackEnd(b) = 1 => MeitrackIteration(b, i) = Stop(MeitrackStart(b) - 1, i)
         /\ Len(b) >= 2 /\ MeitrackStart(b) # 0 /\ MeitrackEnd(b) # 1 =>
              MeitrackIteration(b, i) =
                After(Skip(MeitrackStart(b) - 1, i), MeitrackFrame(SubSeq(b, MeitrackStart(b), MeitrackEnd(b)), i))
<1> DEFINE start == MeitrackStart(b)
           end == MeitrackEnd(b)
<1>1. Len(b) \in Nat
  BY ByteOf
<1>2. MeitrackIteration(b, i) =
        CASE Len(b) < 2                -> Stop(0, i)
          [] Len(b) >= 2 /\ start = 0  -> Stop(Len(b), i)
          [] OTHER -> IF end = 1 THEN Stop(start - 1, i)
                      ELSE After(Skip(start - 1, i), MeitrackFrame(SubSeq(b, start, end), i))
  BY DEF MeitrackIteration, MeitrackStart, MeitrackEnd, Pair
<1> HIDE DEF start, end
<1>3. /\ Len(b) < 2 => MeitrackIteration(b, i) = Stop(0, i)
      /\ Len(b) >= 2 /\ start = 0 => MeitrackIteration(b, i) = Stop(Len(b), i)
      /\ Len(b) >= 2 /\ start # 0 /\ end = 1 => MeitrackIteration(b, i) = Stop(start - 1, i)
      /\ Len(b) >= 2 /\ start # 0 /\ end # 1 =>
           MeitrackIteration(b, i) = After(Skip(start - 1, i), MeitrackFrame(SubSeq(b, start, end), i))
  BY <1>1, <1>2
<1> QED
  BY <1>3 DEF start, end

\* Where the marker and the end are, if they are there.
LEMMA MeitrackPlaces ==
  ASSUME NEW b \in Bytes
  PROVE  /\ Len(b) \in Nat
         /\ MeitrackStart(b) = 0 => \A j \in 1 .. Len(b) - 1 : ~(b[j] = 36 /\ b[j + 1] = 36)
         /\ MeitrackStart(b) # 0 =>
              /\ MeitrackStart(b) \in 1 .. Len(b) - 1
              /\ b[MeitrackStart(b)] = 36 /\ b[MeitrackStart(b) + 1] = 36
              /\ \A j \in 1 .. MeitrackStart(b) - 1 : ~(b[j] = 36 /\ b[j + 1] = 36)
              /\ MeitrackEnd(b) = 1 \/ MeitrackEnd(b) \in MeitrackStart(b) + 3 .. Len(b)
<1> DEFINE start == MeitrackStart(b)
           q == Pair(b, 13, 10, start + 2)
<1>1. Len(b) \in Nat
  BY ByteOf
<1>2. \/ start = 0 /\ \A j \in 1 .. Len(b) - 1 : ~(b[j] = 36 /\ b[j + 1] = 36)
      \/ /\ start \in 1 .. Len(b) - 1 /\ b[start] = 36 /\ b[start + 1] = 36
         /\ \A j \in 1 .. Len(b) - 1 : b[j] = 36 /\ b[j + 1] = 36 => start <= j
  BY PairFacts DEF MeitrackStart
<1> HIDE DEF start
<1>3. start + 2 \in Nat \ {0}
  BY <1>1, <1>2
<1>4. q = 0 \/ q \in start + 2 .. Len(b) - 1
  BY <1>3, PairFacts
<1>5. MeitrackEnd(b) = q + 1
  BY DEF MeitrackEnd, start
<1> HIDE DEF q
<1>6. start # 0 => MeitrackEnd(b) = 1 \/ MeitrackEnd(b) \in start + 3 .. Len(b)
  BY <1>1, <1>2, <1>4, <1>5
<1>7. start # 0 => \A j \in 1 .. start - 1 : ~(b[j] = 36 /\ b[j + 1] = 36)
  BY <1>1, <1>2
<1> QED
  BY <1>1, <1>2, <1>6, <1>7 DEF start

LEMMA MeitrackFrameIs ==
  ASSUME NEW frame \in Bytes, Len(frame) >= 1, NEW i \in Nat
  PROVE  \/ MeitrackFrame(frame, i) = Skip(Len(frame), i)
         \/ \E messages \in Seq(Said), k \in Nat : MeitrackFrame(frame, i) = Take(Len(frame), messages, k)
<1> DEFINE star == Max({0} \cup {k \in 1 .. Len(frame) - 2 : frame[k] = 42})
           body == SubSeq(frame, 3, star - 1)
           messages == <<Message(IF body[3] = LOC THEN "location" ELSE "heartbeat", body[2])>>
<1>1. MeitrackFrame(frame, i) = MeitrackParsed(frame, star, body, i)
  BY DEF MeitrackFrame
<1> HIDE DEF star, body
<1>2. \/ MeitrackParsed(frame, star, body, i) = Skip(Len(frame), i)
      \/ IsImei(body[2]) /\ MeitrackParsed(frame, star, body, i) = Take(Len(frame), messages, body[2])
  BY DEF MeitrackParsed
<1>3. IsImei(body[2]) => body[2] \in Nat /\ messages \in Seq(Said)
  <2> HAVE IsImei(body[2])
  <2>1. body[2] \in Nat
    BY DEF IsImei
  <2>2. (IF body[3] = LOC THEN "location" ELSE "heartbeat") \in Kinds
    BY DEF Kinds
  <2> QED
    BY <2>1, <2>2, OneMessage
<1> HIDE DEF messages
<1> QED
  BY <1>1, <1>2, <1>3

\* Noise before the marker only moves the rest.
LEMMA MeitrackMoves ==
  ASSUME NEW b \in Bytes, NEW n \in 0 .. Len(b), Len(b) - n >= 2, NEW i \in Nat,
         \A j \in 1 .. n : ~(b[j] = 36 /\ b[j + 1] = 36)
  PROVE  MeitrackIteration(b, i) = After(Stop(n, i), MeitrackIteration(From(b, n + 1), i))
<1> DEFINE r == From(b, n + 1)
           s == MeitrackStart(r)
           e == MeitrackEnd(r)
<1>1. Len(b) \in Nat /\ n \in Nat
  BY ByteOf
<1>2. r \in Bytes /\ Len(r) = Len(b) - n
  BY FromFacts
<1>3. Pair(b, 36, 36, n + 1) = IF s = 0 THEN 0 ELSE n + s
  BY PairInRest DEF MeitrackStart
<1>4. Pair(b, 13, 10, n + (s + 2)) = IF Pair(r, 13, 10, s + 2) = 0 THEN 0 ELSE n + Pair(r, 13, 10, s + 2)
  <2>1. s + 2 \in Nat \ {0}
    BY <1>2, MeitrackPlaces
  <2> QED
    BY <2>1, PairInRest
<1>5. e = Pair(r, 13, 10, s + 2) + 1
  BY DEF MeitrackEnd
<1>6. s = 0 \/ (s \in 1 .. Len(r) - 1 /\ (e = 1 \/ e \in s + 3 .. Len(r)))
  <2> HIDE DEF r
  <2>1. MeitrackStart(r) # 0 =>
          MeitrackStart(r) \in 1 .. Len(r) - 1 /\ (MeitrackEnd(r) = 1 \/ MeitrackEnd(r) \in MeitrackStart(r) + 3 .. Len(r))
    BY <1>2, MeitrackPlaces
  <2> QED
    BY <2>1
<1>7. MeitrackStart(b) = IF s = 0 THEN 0 ELSE n + s
  <2> DEFINE q == Pair(b, 36, 36, n + 1)
  <2>1. \/ q = 0 /\ \A j \in n + 1 .. Len(b) - 1 : ~(b[j] = 36 /\ b[j + 1] = 36)
        \/ /\ q \in n + 1 .. Len(b) - 1 /\ b[q] = 36 /\ b[q + 1] = 36
           /\ \A j \in n + 1 .. Len(b) - 1 : b[j] = 36 /\ b[j + 1] = 36 => q <= j
    BY PairFacts
  <2> HIDE DEF q, s
  <2>2. CASE q = 0
    <3>1. \A j \in 1 .. Len(b) - 1 : ~(b[j] = 36 /\ b[j + 1] = 36)
      BY <1>1, <2>1, <2>2
    <3>2. MeitrackStart(b) = 0
      BY <3>1, PairIs DEF MeitrackStart
    <3> QED
      BY <1>3, <2>2, <3>2 DEF q
  <2>3. CASE q # 0
    <3>1. q \in 1 .. Len(b) - 1 /\ b[q] = 36 /\ b[q + 1] = 36 /\ \A j \in 1 .. q - 1 : ~(b[j] = 36 /\ b[j + 1] = 36)
      BY <1>1, <2>1, <2>3
    <3>2. MeitrackStart(b) = q
      BY <3>1, PairIs DEF MeitrackStart
    <3> QED
      BY <1>3, <2>3, <3>2 DEF q
  <2> QED
    BY <2>2, <2>3
<1> HIDE DEF r, s
<1>8. MeitrackIteration(b, i) = After(Stop(n, i), MeitrackIteration(r, i))
  <2>1. CASE s = 0
    <3>1. MeitrackIteration(r, i) = Stop(Len(r), i) /\ MeitrackIteration(b, i) = Stop(Len(b), i)
      BY <1>1, <1>2, <1>7, <2>1, MeitrackCases DEF s
    <3>2. n + Len(r) = Len(b) /\ Len(r) \in Nat
      BY <1>1, <1>2
    <3>3. After(Stop(n, i), Stop(Len(r), i)) = Stop(n + Len(r), i)
      BY <1>1, <3>2, AfterStopPlain
    <3> QED
      BY <3>1, <3>2, <3>3
  <2>2. CASE s # 0
    <3>1. s \in Nat /\ s - 1 \in Nat /\ MeitrackStart(b) = n + s /\ MeitrackStart(b) # 0 /\ n + s - 1 = n + (s - 1) /\ n + s + 2 = n + (s + 2)
      BY <1>1, <1>2, <1>6, <1>7, <2>2
    <3>2. MeitrackEnd(b) = IF e = 1 THEN 1 ELSE n + e
      <4> DEFINE q == Pair(r, 13, 10, s + 2)
      <4>1. q \in Int
        <5>1. s + 2 \in Nat \ {0}
          BY <3>1
        <5> QED
          BY <1>2, <5>1, PairFacts
      <4>2. e = q + 1
        BY <1>5
      <4>3. MeitrackEnd(b) = Pair(b, 13, 10, n + (s + 2)) + 1
        BY <3>1 DEF MeitrackEnd
      <4> HIDE DEF q, e
      <4> QED
        BY <1>1, <1>4, <4>1, <4>2, <4>3 DEF q
    <3> HIDE DEF e
    <3>3. CASE e = 1
      <4>1. MeitrackIteration(r, i) = Stop(s - 1, i)
        BY <1>1, <1>2, <2>2, <3>3, MeitrackCases DEF s, e
      <4>2. MeitrackIteration(b, i) = Stop(n + (s - 1), i)
        <5>1. Len(b) >= 2 /\ MeitrackEnd(b) = 1
          BY <1>1, <3>2, <3>3
        <5> QED
          BY <3>1, <5>1, MeitrackCases
      <4>3. After(Stop(n, i), Stop(s - 1, i)) = Stop(n + (s - 1), i)
        BY <1>1, <3>1, AfterStopPlain
      <4> QED
        BY <4>1, <4>2, <4>3
    <3>4. CASE e # 1
      <4> DEFINE frame == SubSeq(r, s, e)
                 f == MeitrackFrame(frame, i)
      <4>1. e \in s + 3 .. Len(r) /\ s \in Nat \ {0} /\ e \in Int /\ e <= Len(b) - n
        BY <1>1, <1>2, <1>6, <2>2, <3>1, <3>4
      <4>2. frame = SubSeq(b, n + s, n + e)
        BY <4>1, PartOfRest DEF r
      <4>3. MeitrackIteration(r, i) = After(Skip(s - 1, i), f)
        BY <1>1, <1>2, <2>2, <3>4, MeitrackCases DEF s, e
      <4>4. MeitrackIteration(b, i) = After(Skip(n + (s - 1), i), f)
        <5>1. Len(b) >= 2 /\ MeitrackEnd(b) = n + e /\ MeitrackEnd(b) # 1
          BY <1>1, <1>2, <3>1, <3>2, <3>4, <4>1
        <5>2. MeitrackIteration(b, i) = After(Skip(MeitrackStart(b) - 1, i), MeitrackFrame(SubSeq(b, MeitrackStart(b), MeitrackEnd(b)), i))
          BY <3>1, <5>1, MeitrackCases
        <5> QED
          BY <3>1, <4>2, <5>1, <5>2
      <4>5. frame \in Bytes /\ Len(frame) >= 1
        <5>1. \A j \in s .. e : r[j] \in Nat
          BY <1>2, <4>1, ByteOf
        <5>2. frame \in Bytes /\ Len(frame) = IF s <= e THEN e - s + 1 ELSE 0
          BY <4>1, <5>1, SubSeqProperties DEF Bytes
        <5> QED
          BY <4>1, <5>2
      <4> HIDE DEF frame
      <4>6. f \in Outcomes
        <5>1. Len(frame) \in Nat
          BY <4>5, ByteOf
        <5>2. \A messages \in Seq(Said), k \in Nat : Take(Len(frame), messages, k) \in Outcomes
          BY <5>1, ConstructorsAreOutcomes
        <5>3. Skip(Len(frame), i) \in Outcomes
          BY <5>1, ConstructorsAreOutcomes, NoMessages
        <5> QED
          BY <4>5, <5>2, <5>3, MeitrackFrameIs
      <4> HIDE DEF f
      <4>7. Stop(n, i) \in Outcomes /\ Skip(s - 1, i) \in Outcomes
        BY <1>1, <3>1, ConstructorsAreOutcomes, NoMessages
      <4>8. After(Stop(n, i), After(Skip(s - 1, i), f)) = After(After(Stop(n, i), Skip(s - 1, i)), f)
        BY <4>6, <4>7, AfterAssociative
      <4>9. After(Stop(n, i), Skip(s - 1, i)) = Skip(n + (s - 1), i)
        BY <1>1, <3>1, AfterStopPlain
      <4> QED
        BY <4>3, <4>4, <4>8, <4>9
    <3> QED
      BY <3>3, <3>4
  <2> QED
    BY <2>1, <2>2
<1> QED
  BY <1>8 DEF r

\* A whole frame, after noise: the bytes up to its end.
LEMMA MeitrackTakes ==
  ASSUME NEW b \in Bytes, NEW i \in Nat, Len(b) >= 2, MeitrackStart(b) # 0, MeitrackEnd(b) # 1
  PROVE  OutcomeOf(MeitrackIteration(b, i), b, i) /\ MeitrackIteration(b, i).go = "next"
<1> DEFINE start == MeitrackStart(b)
           end == MeitrackEnd(b)
           frame == SubSeq(b, start, end)
<1>1. Len(b) \in Nat /\ start \in 1 .. Len(b) - 1 /\ end \in start + 3 .. Len(b)
  BY MeitrackPlaces
<1>2. MeitrackIteration(b, i) = After(Skip(start - 1, i), MeitrackFrame(frame, i))
  BY MeitrackCases
<1> HIDE DEF start, end
<1>3. frame \in Bytes /\ Len(frame) = end - start + 1
  <2>1. \A j \in start .. end : b[j] \in Nat
    BY <1>1, ByteOf
  <2>2. frame \in Bytes /\ Len(frame) = IF start <= end THEN end - start + 1 ELSE 0
    BY <1>1, <2>1, SubSeqProperties DEF Bytes
  <2> QED
    BY <1>1, <2>2
<1>4. \/ MeitrackFrame(frame, i) = Skip(Len(frame), i)
      \/ \E messages \in Seq(Said), k \in Nat : MeitrackFrame(frame, i) = Take(Len(frame), messages, k)
  <2>1. Len(frame) >= 1
    BY <1>1, <1>3
  <2> HIDE DEF frame
  <2> QED
    BY <1>3, <2>1, MeitrackFrameIs
<1> HIDE DEF frame
<1> DEFINE n == start - 1
           m == Len(frame)
<1>5. n \in Nat /\ m \in Nat /\ n + m = end /\ end \in 1 .. Len(b)
  BY <1>1, <1>3
<1>6. MeitrackIteration(b, i) = After(Skip(n, i), MeitrackFrame(frame, i))
  BY <1>2
<1>7. \/ MeitrackFrame(frame, i) = Skip(m, i)
      \/ \E messages \in Seq(Said), k \in Nat : MeitrackFrame(frame, i) = Take(m, messages, k)
  BY <1>4
<1> HIDE DEF n, m
<1>8. ASSUME NEW e \in Outcomes, e.go = "next", e.n = m
      PROVE  OutcomeOf(After(Skip(n, i), e), b, i) /\ After(Skip(n, i), e).go = "next"
  <2>1. Skip(n, i) \in Outcomes /\ Skip(n, i).n = n
    BY <1>5, PlainOutcomes
  <2>2. After(Skip(n, i), e) \in Outcomes /\ After(Skip(n, i), e).go = e.go
    BY <2>1, AfterIs, AfterIsOutcome
  <2>3. After(Skip(n, i), e).n = n + m
    BY <1>8, <2>1, AfterIs
  <2> QED
    BY <1>5, <1>8, <2>2, <2>3 DEF OutcomeOf
<1>9. CASE MeitrackFrame(frame, i) = Skip(m, i)
  <2>0. m \in Nat
    BY <1>5
  <2>1. Skip(m, i) \in Outcomes /\ Skip(m, i).go = "next" /\ Skip(m, i).n = m
    BY <2>0, PlainOutcomes
  <2> QED
    BY <1>6, <1>8, <1>9, <2>1
<1>10. ASSUME NEW messages \in Seq(Said), NEW k \in Nat, MeitrackFrame(frame, i) = Take(m, messages, k)
       PROVE  OutcomeOf(MeitrackIteration(b, i), b, i) /\ MeitrackIteration(b, i).go = "next"
  <2>0. m \in Nat
    BY <1>5
  <2>1. Take(m, messages, k) \in Outcomes
    BY <1>10, <2>0, ConstructorsAreOutcomes
  <2>2. Take(m, messages, k).go = "next" /\ Take(m, messages, k).n = m
    BY Fields
  <2> QED
    BY <1>6, <1>8, <1>10, <2>1, <2>2
<1> QED
  BY <1>7, <1>9, <1>10

LEMMA MeitrackStays ==
  ASSUME NEW b \in Bytes, NEW y \in Bytes, NEW i \in Nat, Len(b) >= 2, MeitrackStart(b) # 0, MeitrackEnd(b) # 1
  PROVE  MeitrackIteration(b \o y, i) = MeitrackIteration(b, i)
<1> DEFINE c == b \o y
           start == MeitrackStart(b)
           end == MeitrackEnd(b)
           q == Pair(b, 13, 10, start + 2)
<1>1. Len(b) \in Nat /\ start \in 1 .. Len(b) - 1 /\ end \in start + 3 .. Len(b) /\ end = q + 1
  BY MeitrackPlaces DEF MeitrackEnd
<1>2. c \in Bytes /\ Len(c) = Len(b) + Len(y) /\ Len(y) \in Nat
  BY Joined
<1>3. MeitrackStart(c) = start
  BY PairStays DEF MeitrackStart
<1>4. start + 2 \in Nat \ {0} /\ q # 0
  <2> HIDE DEF start, end, q
  <2> QED
    BY <1>1
<1>5. MeitrackEnd(c) = end
  <2>1. Pair(c, 13, 10, start + 2) = q
    BY <1>4, PairStays
  <2> QED
    BY <1>1, <1>3, <2>1 DEF MeitrackEnd
<1>6. SubSeq(c, start, end) = SubSeq(b, start, end)
  <2>1. start \in Nat \ {0} /\ end \in Int /\ end <= Len(b)
    BY <1>1
  <2> HIDE DEF start, end
  <2> QED
    BY <2>1, PartOfJoined
<1>7. MeitrackIteration(b, i) = After(Skip(start - 1, i), MeitrackFrame(SubSeq(b, start, end), i))
  BY MeitrackCases
<1> HIDE DEF c, q
<1>8. MeitrackIteration(c, i) = After(Skip(start - 1, i), MeitrackFrame(SubSeq(c, start, end), i))
  <2>1. Len(c) >= 2 /\ MeitrackStart(c) # 0 /\ MeitrackEnd(c) # 1
    BY <1>1, <1>2, <1>3, <1>5
  <2> QED
    BY <1>2, <1>3, <1>5, <2>1, MeitrackCases
<1> QED
  BY <1>6, <1>7, <1>8 DEF c

\* The three ways to wait: too few bytes, no marker, or no end.
LEMMA MeitrackWaits ==
  ASSUME NEW b \in Bytes, NEW i \in Nat,
         Len(b) < 2 \/ MeitrackStart(b) = 0 \/ MeitrackEnd(b) = 1
  PROVE  LET d == MeitrackIteration(b, i)
             r == From(b, d.n + 1)
         IN  /\ OutcomeOf(d, b, i) /\ d.go = "stop"
             /\ MeitrackIteration(r, i) = Stop(0, i)
             /\ ~DropsMarker(r, "meitrack", b) =>
                  \A y \in Bytes : Alike("meitrack", MeitrackIteration(b \o y, i), After(d, MeitrackIteration(r \o y, i)))
<1> DEFINE n == IF Len(b) < 2 THEN 0 ELSE IF MeitrackStart(b) = 0 THEN Len(b) ELSE MeitrackStart(b) - 1
           d == MeitrackIteration(b, i)
           r == From(b, n + 1)
<1>1. Len(b) \in Nat
  BY ByteOf
<1>2. d = Stop(n, i)
  BY <1>1, MeitrackCases
<1>3. n \in 0 .. Len(b) /\ n \in Nat
  BY <1>1, MeitrackPlaces
<1> HIDE DEF n
<1>4. OutcomeOf(d, b, i) /\ d.go = "stop" /\ d.n = n
  <2>1. OutcomeOf(Stop(n, i), b, i) /\ Stop(n, i).go = "stop" /\ Stop(n, i).n = n
    BY <1>3, StopOutcome, PlainOutcomes
  <2> QED
    BY <1>2, <2>1
<1>5. r \in Bytes /\ Len(r) = Len(b) - n
  BY <1>3, FromFacts
<1>6. \A c \in Bytes : MeitrackIteration(c, i) \in Outcomes
  <2> SUFFICES ASSUME NEW c \in Bytes PROVE MeitrackIteration(c, i) \in Outcomes
    OBVIOUS
  <2>1. CASE Len(c) >= 2 /\ MeitrackStart(c) # 0 /\ MeitrackEnd(c) # 1
    BY <2>1, MeitrackTakes DEF OutcomeOf
  <2>2. CASE ~(Len(c) >= 2 /\ MeitrackStart(c) # 0 /\ MeitrackEnd(c) # 1)
    <3>1. Len(c) \in Nat /\ (MeitrackStart(c) = 0 \/ MeitrackStart(c) \in 1 .. Len(c) - 1)
      BY MeitrackPlaces
    <3>2. \E m \in Nat : MeitrackIteration(c, i) = Stop(m, i)
      <4>1. CASE Len(c) < 2
        BY <4>1, MeitrackCases
      <4>2. CASE Len(c) >= 2 /\ MeitrackStart(c) = 0
        BY <3>1, <4>2, MeitrackCases
      <4>3. CASE Len(c) >= 2 /\ MeitrackStart(c) # 0
        <5>1. MeitrackStart(c) - 1 \in Nat
          BY <3>1, <4>3
        <5> QED
          BY <2>2, <4>3, <5>1, MeitrackCases
      <4> QED
        BY <3>1, <4>1, <4>2, <4>3
    <3> QED
      BY <3>2, ConstructorsAreOutcomes, NoMessages
  <2> QED
    BY <2>1, <2>2
\* It moves past the noise, exactly if two bytes are left.
<1>7. ASSUME NEW y \in Bytes, Len(b) >= 2, \A j \in 1 .. n : j + 1 \in 1 .. Len(b) => ~(b[j] = 36 /\ b[j + 1] = 36),
             n < Len(b) \/ b[Len(b)] # 36, Len(r) + Len(y) >= 2
      PROVE  MeitrackIteration(b \o y, i) = After(Stop(n, i), MeitrackIteration(r \o y, i))
  <2> DEFINE c == b \o y
  <2>1. c \in Bytes /\ Len(c) = Len(b) + Len(y) /\ Len(y) \in Nat /\ \A j \in 1 .. Len(b) : c[j] = b[j]
    BY Joined
  <2>2. From(c, n + 1) = r \o y
    BY <1>3, FromJoined
  <2> HIDE DEF c, r
  <2>3. n \in 0 .. Len(c) /\ Len(c) - n >= 2
    BY <1>1, <1>3, <1>5, <1>7, <2>1
  <2>4. \A j \in 1 .. n : ~(c[j] = 36 /\ c[j + 1] = 36)
    BY <1>1, <1>3, <1>7, <2>1
  <2>5. MeitrackIteration(c, i) = After(Stop(n, i), MeitrackIteration(From(c, n + 1), i))
    BY <2>1, <2>3, <2>4, MeitrackMoves
  <2> QED
    BY <2>2, <2>5 DEF c
<1>8. CASE Len(b) < 2
  <2>1. n = 0
    BY <1>8 DEF n
  <2>2. r = b
    <3>1. n + 1 = 1
      BY <2>1
    <3> QED
      BY <3>1, FromEnds
  <2>3. MeitrackIteration(r, i) = Stop(0, i)
    BY <1>2, <2>1, <2>2
  <2>4. ASSUME NEW y \in Bytes
        PROVE  Alike("meitrack", MeitrackIteration(b \o y, i), After(d, MeitrackIteration(r \o y, i)))
    <3>1. b \o y \in Bytes
      BY Joined
    <3> DEFINE e == MeitrackIteration(b \o y, i)
    <3>2. e \in Outcomes /\ d \in Outcomes /\ d.n = 0 /\ d.messages = <<>>
      BY <1>2, <1>4, <1>6, <2>1, <3>1, Fields DEF OutcomeOf
    <3> HIDE DEF e, d, r
    <3>3. After(d, e) = e
      BY <3>2, AfterNothing
    <3> QED
      BY <2>2, <3>3 DEF Alike, e
  <2> QED
    BY <1>4, <2>3, <2>4
<1>9. CASE Len(b) >= 2 /\ MeitrackStart(b) = 0
  <2>1. n = Len(b)
    BY <1>1, <1>9 DEF n
  <2>2. r = <<>>
    BY <2>1, FromEnds
  <2>3. MeitrackIteration(r, i) = Stop(0, i)
    <3>1. Len(r) < 2
      BY <1>1, <1>5, <2>1
    <3> HIDE DEF r
    <3> QED
      BY <1>5, <3>1, MeitrackCases
  <2>4. ASSUME NEW y \in Bytes, ~DropsMarker(r, "meitrack", b)
        PROVE  Alike("meitrack", MeitrackIteration(b \o y, i), After(d, MeitrackIteration(r \o y, i)))
    <3>1. b[Len(b)] # 36
      BY <1>1, <1>9, <2>2, <2>4 DEF DropsMarker, Last
    <3>2. \A j \in 1 .. n : j + 1 \in 1 .. Len(b) => ~(b[j] = 36 /\ b[j + 1] = 36)
      <4>1. \A j \in 1 .. Len(b) - 1 : ~(b[j] = 36 /\ b[j + 1] = 36)
        BY <1>9, MeitrackPlaces
      <4> QED
        BY <1>1, <1>3, <4>1
    <3>3. CASE Len(r) + Len(y) >= 2
      BY <1>2, <1>7, <1>9, <3>1, <3>2, <3>3 DEF Alike
    <3>4. CASE Len(r) + Len(y) < 2
      <4> DEFINE c == b \o y
                 q == r \o y
      <4>1. c \in Bytes /\ Len(c) = Len(b) + Len(y) /\ Len(y) \in Nat /\ \A j \in 1 .. Len(b) : c[j] = b[j]
        BY Joined
      <4>2. q \in Bytes /\ Len(q) = Len(r) + Len(y)
        BY <1>5, Joined
      <4> HIDE DEF c, q
      <4>3. MeitrackIteration(q, i) = Stop(0, i)
        BY <3>4, <4>2, MeitrackCases
      <4>4. Len(c) >= 2 /\ Len(c) - 1 <= Len(b)
        BY <1>1, <1>5, <1>9, <2>1, <3>4, <4>1
      <4>5. MeitrackStart(c) = 0
        <5>1. MeitrackStart(c) # 0 => /\ MeitrackStart(c) \in 1 .. Len(c) - 1
                                      /\ c[MeitrackStart(c)] = 36 /\ c[MeitrackStart(c) + 1] = 36
          BY <4>1, MeitrackPlaces
        <5> DEFINE s == MeitrackStart(c)
        <5>2. s # 0 => s \in 1 .. Len(c) - 1 /\ c[s] = 36 /\ c[s + 1] = 36
          BY <5>1
        <5> HIDE DEF s
        <5>3. ASSUME s # 0 PROVE FALSE
          <6>1. s \in 1 .. Len(b) /\ c[s] = b[s] /\ s # Len(b)
            BY <1>1, <3>1, <4>1, <4>4, <5>2, <5>3
          <6>2. s + 1 \in 1 .. Len(b) /\ c[s + 1] = b[s + 1]
            BY <1>1, <4>1, <6>1
          <6> QED
            BY <2>1, <3>2, <5>2, <5>3, <6>1, <6>2
        <5> QED
          BY <5>3 DEF s
      <4>6. MeitrackIteration(c, i) = Stop(Len(c), i)
        BY <4>1, <4>4, <4>5, MeitrackCases
      <4>7. After(d, Stop(0, i)) = Stop(n + 0, i)
        <5>1. After(Stop(n, i), Stop(0, i)) = Stop(n + 0, i)
          BY <1>3, AfterStopPlain
        <5> QED
          BY <1>2, <5>1
      <4>8. After(d, MeitrackIteration(q, i)) = Stop(n + 0, i)
        BY <4>3, <4>7
      <4>9. Stop(Len(c), i).go = "stop" /\ Stop(Len(c), i).messages = <<>> /\ Stop(Len(c), i).imei = i
            /\ Stop(n + 0, i).go = "stop" /\ Stop(n + 0, i).messages = <<>> /\ Stop(n + 0, i).imei = i
        BY Fields
      <4> QED
        BY <4>6, <4>8, <4>9 DEF Alike, c, q
    <3> QED
      BY <1>5, <1>1, <1>3, ByteOf, <3>3, <3>4
  <2> QED
    BY <1>4, <2>3, <2>4
<1>10. CASE Len(b) >= 2 /\ MeitrackStart(b) # 0
  <2>1. n = MeitrackStart(b) - 1 /\ MeitrackStart(b) \in 1 .. Len(b) - 1 /\ MeitrackEnd(b) = 1
        /\ \A j \in 1 .. MeitrackStart(b) - 1 : ~(b[j] = 36 /\ b[j + 1] = 36)
    BY <1>1, <1>10, MeitrackPlaces DEF n
  <2>2. \A j \in 1 .. n : ~(b[j] = 36 /\ b[j + 1] = 36)
    BY <2>1
  <2>3. n < Len(b) /\ Len(r) >= 2
    BY <1>1, <1>5, <2>1
  <2>4. MeitrackIteration(r, i) = Stop(0, i)
    <3>1. d = After(Stop(n, i), MeitrackIteration(r, i))
      BY <1>1, <1>3, <1>5, <2>2, <2>3, MeitrackMoves
    <3> DEFINE e == MeitrackIteration(r, i)
    <3> HIDE DEF r
    <3>2. e \in Outcomes
      BY <1>5, <1>6
    <3>3. e.go = "stop" /\ e.n = 0
      <4>1. After(Stop(n, i), e).go = e.go /\ After(Stop(n, i), e).n = Stop(n, i).n + e.n
        BY <3>2, AfterIs
      <4>2. Stop(n, i).n = n
        BY Fields
      <4>3. e.n \in Nat
        BY <3>2 DEF Outcomes
      <4> HIDE DEF e, d
      <4> QED
        BY <1>3, <1>4, <3>1, <4>1, <4>2, <4>3 DEF e
    <3>4. ~(Len(r) >= 2 /\ MeitrackStart(r) # 0 /\ MeitrackEnd(r) # 1)
      <4> SUFFICES ASSUME Len(r) >= 2, MeitrackStart(r) # 0, MeitrackEnd(r) # 1
                   PROVE  FALSE
        OBVIOUS
      <4>1. e.go = "next"
        BY <1>5, MeitrackTakes
      <4> QED
        BY <3>3, <4>1
    <3>5. Len(r) \in Nat /\ (MeitrackStart(r) = 0 \/ MeitrackStart(r) \in 1 .. Len(r) - 1)
      BY <1>5, MeitrackPlaces
    <3>6. \E m \in Nat : e = Stop(m, i)
      <4>1. CASE MeitrackStart(r) = 0
        BY <1>5, <2>3, <3>5, <4>1, MeitrackCases
      <4>2. CASE MeitrackStart(r) # 0
        <5>1. MeitrackStart(r) - 1 \in Nat
          BY <3>5, <4>2
        <5> QED
          BY <1>5, <2>3, <3>4, <4>2, <5>1, MeitrackCases
      <4> QED
        BY <4>1, <4>2
    <3>7. PICK m \in Nat : e = Stop(m, i)
      BY <3>6
    <3>8. m = 0
      BY <3>3, <3>7, Fields
    <3> QED
      BY <3>7, <3>8
  <2>5. ASSUME NEW y \in Bytes
        PROVE  Alike("meitrack", MeitrackIteration(b \o y, i), After(d, MeitrackIteration(r \o y, i)))
    <3>1. Len(r) + Len(y) >= 2
      BY <1>1, <1>3, <1>5, <2>3, ByteOf
    <3>2. MeitrackIteration(b \o y, i) = After(Stop(n, i), MeitrackIteration(r \o y, i))
      BY <1>7, <1>10, <2>2, <2>3, <3>1
    <3> QED
      BY <1>2, <3>2 DEF Alike
  <2> QED
    BY <1>4, <2>4, <2>5
<1> QED
  BY <1>1, <1>8, <1>9, <1>10

LEMMA MeitrackSteady == Steady("meitrack")
<1>1. \A b, i : Iteration("meitrack", b, i) = MeitrackIteration(b, i)
  BY DEF Iteration
<1>2. ASSUME NEW b \in Bytes, NEW i \in Nat
      PROVE  LET d == MeitrackIteration(b, i)
                 r == From(b, d.n + 1)
             IN  /\ OutcomeOf(d, b, i)
                 /\ d.go # "stop" => \A y \in Bytes : MeitrackIteration(b \o y, i) = d
                 /\ d.go = "stop" =>
                      /\ MeitrackIteration(r, i) = Stop(0, i)
                      /\ ~DropsMarker(r, "meitrack", b) =>
                           \A y \in Bytes : Alike("meitrack", MeitrackIteration(b \o y, i), After(d, MeitrackIteration(r \o y, i)))
  <2>1. CASE Len(b) < 2 \/ MeitrackStart(b) = 0 \/ MeitrackEnd(b) = 1
    BY <2>1, MeitrackWaits
  <2>2. CASE Len(b) >= 2 /\ MeitrackStart(b) # 0 /\ MeitrackEnd(b) # 1
    BY <2>2, MeitrackTakes, MeitrackStays
  <2> QED
    BY <2>1, <2>2, ByteOf
<1> QED
  BY <1>1, <1>2 DEF Steady

\* One iteration of each of the six decode loops (gt06, h02, meitrack, nmea, queclink and
\* teltonika) waits and resumes like that, consumes a byte when it goes on, and never
\* more than there are.
THEOREM DecodersAreSteady == \A protocol \in Protocol : Steady(protocol)
BY Gt06Steady, H02Steady, QueclinkSteady, NmeaSteady, TeltonikaSteady, MeitrackSteady DEF Protocol

-----------------------------------------------------------------------------
(* The loop. *)

\* A recursive definition over 0 .. n whose steps stay in a set has a solution.
Solution(g, n, V, v, step) ==
  g \in [0 .. n -> V] /\ g[0] = v /\ \A k \in 1 .. n : g[k] = step[<<k, g[k - 1]>>]

LEMMA Recursion ==
  ASSUME NEW n \in Nat, NEW V, NEW v \in V, NEW step \in [(1 .. n) \X V -> V]
  PROVE  \E g : Solution(g, n, V, v, step)
<1> DEFINE Solves(g, m) == g[0] = v /\ \A k \in 1 .. m : g[k] = step[<<k, g[k - 1]>>]
           X == {m \in Nat : m <= n => \E g \in [0 .. m -> V] : Solves(g, m)}
<1>1. 0 \in X
  <2> DEFINE g == [k \in 0 .. 0 |-> v]
  <2>1. g \in [0 .. 0 -> V] /\ Solves(g, 0)
    OBVIOUS
  <2> QED
    BY <2>1
<1>2. ASSUME NEW m \in Nat, m \in X PROVE m + 1 \in X
  <2> SUFFICES ASSUME m + 1 <= n
               PROVE  \E g \in [0 .. m + 1 -> V] : Solves(g, m + 1)
    OBVIOUS
  <2>1. PICK g \in [0 .. m -> V] : Solves(g, m)
    BY <1>2
  <2> DEFINE h == [k \in 0 .. m + 1 |-> IF k = m + 1 THEN step[<<m + 1, g[m]>>] ELSE g[k]]
  <2>2. step[<<m + 1, g[m]>>] \in V
    <3>1. g[m] \in V /\ m + 1 \in 1 .. n
      OBVIOUS
    <3> QED
      BY <3>1
  <2>3. h \in [0 .. m + 1 -> V]
    <3>1. \A k \in 0 .. m + 1 : k # m + 1 => k \in 0 .. m
      OBVIOUS
    <3> QED
      BY <2>2, <3>1
  <2>4. h[0] = v /\ h[m + 1] = step[<<m + 1, g[m]>>] /\ \A k \in 0 .. m : h[k] = g[k]
    BY <2>1
  <2> HIDE DEF h
  <2>5. ASSUME NEW k \in 1 .. m + 1 PROVE h[k] = step[<<k, h[k - 1]>>]
    <3>1. CASE k = m + 1
      <4>1. k - 1 = m /\ m \in 0 .. m
        BY <3>1
      <4> QED
        BY <2>4, <3>1, <4>1
    <3>2. CASE k # m + 1
      <4>1. k \in 1 .. m /\ k \in 0 .. m /\ k - 1 \in 0 .. m
        BY <3>2
      <4> QED
        BY <2>1, <2>4, <4>1
    <3> QED
      BY <3>1, <3>2
  <2> QED
    BY <2>3, <2>4, <2>5
<1> HIDE DEF X
<1>3. n \in X
  BY <1>1, <1>2, Climb
<1>4. \E g \in [0 .. n -> V] : Solves(g, n)
  BY <1>3 DEF X
<1> QED
  BY <1>4 DEF Solution

\* What holds first and is kept holds all along.
LEMMA Along ==
  ASSUME NEW n \in Nat, NEW Y, 0 \in Y, \A k \in 0 .. n - 1 : k \in Y => k + 1 \in Y
  PROVE  \A k \in 0 .. n : k \in Y
<1> DEFINE X == {m \in Nat : m <= n => m \in Y}
<1>1. 0 \in X
  OBVIOUS
<1>2. ASSUME NEW m \in Nat, m \in X PROVE m + 1 \in X
  <2> SUFFICES ASSUME m + 1 <= n PROVE m + 1 \in Y
    OBVIOUS
  <2>1. m \in 0 .. n - 1 /\ m \in Y
    BY <1>2
  <2> QED
    BY <2>1
<1> HIDE DEF X
<1>3. Nat \subseteq X
  BY <1>1, <1>2, Climb
<1> QED
  BY <1>3 DEF X

LEMMA IterationIsOutcome ==
  ASSUME NEW protocol \in Protocol, NEW b \in Bytes, NEW i \in Nat
  PROVE  OutcomeOf(Iteration(protocol, b, i), b, i)
BY DecodersAreSteady DEF Steady

LEMMA ContinuedIsOutcome ==
  ASSUME NEW protocol \in Protocol, NEW b \in Bytes, NEW d \in Outcomes, d.n <= Len(b)
  PROVE  Continued(protocol, b, d) \in Outcomes /\ Continued(protocol, b, d).n <= Len(b)
<1>1. d.n \in 0 .. Len(b) /\ d.imei \in Nat /\ Len(b) \in Nat
  BY ByteOf DEF Outcomes
<1> DEFINE r == From(b, d.n + 1)
           e == Iteration(protocol, r, d.imei)
<1>2. r \in Bytes /\ Len(r) = Len(b) - d.n
  BY <1>1, FromFacts
<1> HIDE DEF r
<1>3. e \in Outcomes /\ e.n <= Len(r)
  BY <1>1, <1>2, IterationIsOutcome DEF OutcomeOf
<1> HIDE DEF e
<1>4. After(d, e) \in Outcomes /\ After(d, e).n = d.n + e.n
  BY <1>3, AfterIs, AfterIsOutcome
<1>5. d.n + e.n <= Len(b)
  BY <1>1, <1>2, <1>3 DEF Outcomes
<1>6. Continued(protocol, b, d) = IF d.go = "next" THEN After(d, e) ELSE d
  BY DEF Continued, e, r
<1> QED
  BY <1>4, <1>5, <1>6

LEMMA IterationsAreDefined ==
  ASSUME NEW protocol \in Protocol, NEW b \in Bytes, NEW i \in Nat
  PROVE  /\ Iterations(protocol, b, i)[0] = Skip(0, i)
         /\ \A k \in 1 .. Len(b) + 1 : Iterations(protocol, b, i)[k] = Continued(protocol, b, Iterations(protocol, b, i)[k - 1])
<1> DEFINE n == Len(b) + 1
           V == {d \in Outcomes : d.n <= Len(b)}
           step == [u \in (1 .. n) \X V |-> Continued(protocol, b, u[2])]
           Made(g) == [k \in 0 .. n |-> IF k = 0 THEN Skip(0, i) ELSE Continued(protocol, b, g[k - 1])]
           f == Iterations(protocol, b, i)
<1>1. Len(b) \in Nat /\ n \in Nat
  BY ByteOf
<1>2. Skip(0, i) \in V
  BY <1>1, PlainOutcomes
<1>3. step \in [(1 .. n) \X V -> V]
  <2>1. ASSUME NEW u \in (1 .. n) \X V PROVE Continued(protocol, b, u[2]) \in V
    BY ContinuedIsOutcome
  <2> HIDE DEF V
  <2> QED
    BY <2>1
<1>4. \A k \in 1 .. n, d \in V : step[<<k, d>>] = Continued(protocol, b, d)
  <2> HIDE DEF V
  <2> QED
    OBVIOUS
<1>5. f = CHOOSE g : g = Made(g)
  BY DEF Iterations
<1> HIDE DEF n, V, step
<1>6. PICK g : Solution(g, n, V, Skip(0, i), step)
  BY <1>1, <1>2, <1>3, Recursion
<1> USE <1>6 DEF Solution
<1>7. \A k \in 1 .. n : g[k] = Continued(protocol, b, g[k - 1])
  <2> SUFFICES ASSUME NEW k \in 1 .. n PROVE g[k] = Continued(protocol, b, g[k - 1])
    OBVIOUS
  <2>1. k - 1 \in 0 .. n
    BY <1>1
  <2>2. g[k - 1] \in V
    BY <2>1
  <2> QED
    BY <1>4, <1>6, <2>2
<1>8. g = Made(g)
  <2>1. \A k \in 0 .. n : g[k] = IF k = 0 THEN Skip(0, i) ELSE Continued(protocol, b, g[k - 1])
    BY <1>1, <1>6, <1>7
  <2> QED
    BY <2>1
<1>9. f = Made(f)
  <2> HIDE DEF Made
  <2> QED
    BY <1>5, <1>8
<1> HIDE DEF f
<1>10. f[0] = Skip(0, i) /\ \A k \in 1 .. n : f[k] = Continued(protocol, b, f[k - 1])
  BY <1>1, <1>9
<1> QED
  BY <1>10 DEF f, n

\* Each iteration that goes on has consumed a byte more; the bytes are enough.
LEMMA IterationsProgress ==
  ASSUME NEW protocol \in Protocol, NEW b \in Bytes, NEW i \in Nat
  PROVE  \A k \in 0 .. Len(b) + 1 :
           /\ Iterations(protocol, b, i)[k] \in Outcomes /\ Iterations(protocol, b, i)[k].n <= Len(b)
           /\ Iterations(protocol, b, i)[k].go = "next" => Iterations(protocol, b, i)[k].n >= k
<1> DEFINE f == Iterations(protocol, b, i)
           n == Len(b) + 1
           Fine(k) == f[k] \in Outcomes /\ f[k].n <= Len(b) /\ (f[k].go = "next" => f[k].n >= k)
           Y == {k \in 0 .. n : Fine(k)}
<1>1. Len(b) \in Nat /\ n \in Nat
  BY ByteOf
<1>2. f[0] = Skip(0, i) /\ \A k \in 1 .. n : f[k] = Continued(protocol, b, f[k - 1])
  BY IterationsAreDefined
<1> HIDE DEF f, n
<1>3. 0 \in Y
  <2>1. Skip(0, i) \in Outcomes /\ Skip(0, i).n = 0
    BY PlainOutcomes
  <2> QED
    BY <1>1, <1>2, <2>1
<1>4. ASSUME NEW k \in 0 .. n - 1, k \in Y PROVE k + 1 \in Y
  <2> DEFINE d == f[k]
             r == From(b, d.n + 1)
             e == Iteration(protocol, r, d.imei)
  <2>1. d \in Outcomes /\ d.n <= Len(b) /\ (d.go = "next" => d.n >= k)
    BY <1>4
  <2>2. k + 1 \in 1 .. n /\ k + 1 \in 0 .. n /\ (k + 1) - 1 = k
    BY <1>1
  <2>3. f[k + 1] = Continued(protocol, b, d)
    <3> DEFINE m == k + 1
    <3>1. m \in 1 .. n /\ m - 1 = k
      BY <2>2
    <3> HIDE DEF m
    <3>2. f[m] = Continued(protocol, b, f[m - 1])
      BY <1>2, <3>1
    <3> QED
      BY <3>1, <3>2 DEF m
  <2> HIDE DEF d
  <2>4. f[k + 1] \in Outcomes /\ f[k + 1].n <= Len(b)
    BY <2>1, <2>3, ContinuedIsOutcome
  <2>5. ASSUME f[k + 1].go = "next" PROVE f[k + 1].n >= k + 1
    <3>1. d.go = "next"
      BY <2>3, <2>5 DEF Continued
    <3>2. f[k + 1] = After(d, e)
      BY <2>3, <3>1 DEF Continued
    <3>3. d.n \in 0 .. Len(b) /\ d.imei \in Nat
      BY <1>1, <2>1 DEF Outcomes
    <3>4. r \in Bytes
      BY <3>3, FromFacts
    <3> HIDE DEF r
    <3>5. e \in Outcomes /\ (e.go = "next" => e.n >= 1)
      BY <3>3, <3>4, IterationIsOutcome DEF OutcomeOf
    <3> HIDE DEF e
    <3>6. f[k + 1].go = e.go /\ f[k + 1].n = d.n + e.n
      <4>1. After(d, e).go = e.go /\ After(d, e).n = d.n + e.n
        BY <3>5, AfterIs
      <4> QED
        BY <3>2, <4>1
    <3>7. e.n \in Nat /\ d.n \in Nat
      BY <2>1, <3>5 DEF Outcomes
    <3> QED
      BY <2>1, <2>5, <3>1, <3>5, <3>6, <3>7
  <2> QED
    BY <2>2, <2>4, <2>5
<1> HIDE DEF Y
<1>5. \A k \in 0 .. n : k \in Y
  BY <1>1, <1>3, <1>4, Along
<1> QED
  BY <1>5 DEF Y, f, n

\* Once the loop has ended nothing changes.
LEMMA IterationsStay ==
  ASSUME NEW protocol \in Protocol, NEW b \in Bytes, NEW i \in Nat, NEW j \in 0 .. Len(b) + 1,
         Iterations(protocol, b, i)[j].go # "next"
  PROVE  decode(protocol, b, i) = Iterations(protocol, b, i)[j]
<1> DEFINE f == Iterations(protocol, b, i)
           m == Len(b) + 1 - j
           Y == {k \in 0 .. m : f[j + k] = f[j]}
<1>1. Len(b) \in Nat /\ m \in Nat
  BY ByteOf
<1>2. \A k \in 1 .. Len(b) + 1 : f[k] = Continued(protocol, b, f[k - 1])
  BY IterationsAreDefined
<1>3. f[j].go # "next"
  OBVIOUS
<1> HIDE DEF f
<1>4. 0 \in Y
  <2>1. j + 0 = j
    BY <1>1
  <2> QED
    BY <1>1, <2>1
<1>5. ASSUME NEW k \in 0 .. m - 1, k \in Y PROVE k + 1 \in Y
  <2> DEFINE q == j + k + 1
  <2>1. q \in 1 .. Len(b) + 1 /\ q - 1 = j + k /\ q = j + (k + 1) /\ k + 1 \in 0 .. m
    BY <1>1
  <2> HIDE DEF q
  <2>2. f[q] = Continued(protocol, b, f[q - 1])
    BY <1>2, <2>1
  <2>3. f[q] = f[j]
    BY <1>3, <1>5, <2>1, <2>2 DEF Continued
  <2> QED
    BY <2>1, <2>3
<1>6. m \in Y
  <2> HIDE DEF Y, m
  <2>1. m \in 0 .. m
    BY <1>1
  <2> QED
    BY <1>1, <1>4, <1>5, <2>1, Along
<1>7. j + m = Len(b) + 1
  BY <1>1
<1> QED
  BY <1>6, <1>7 DEF decode, f

\* The loop runs to an end within the bytes it has.
LEMMA DecodeOutcome ==
  ASSUME NEW protocol \in Protocol, NEW b \in Bytes, NEW i \in Nat
  PROVE  decode(protocol, b, i) \in Outcomes /\ decode(protocol, b, i).n <= Len(b) /\ decode(protocol, b, i).go # "next"
<1>1. Len(b) \in Nat /\ Len(b) + 1 \in 0 .. Len(b) + 1
  BY ByteOf
<1> DEFINE d == decode(protocol, b, i)
<1>2. d \in Outcomes /\ d.n <= Len(b) /\ (d.go = "next" => d.n >= Len(b) + 1)
  BY <1>1, IterationsProgress DEF decode
<1> HIDE DEF d
<1>3. d.n \in Nat
  BY <1>2 DEF Outcomes
<1> QED
  BY <1>1, <1>2, <1>3 DEF d

\* The parts of an iteration's outcome, and of a loop's.
LEMMA IterationParts ==
  ASSUME NEW protocol \in Protocol, NEW b \in Bytes, NEW i \in Nat, NEW e, e = Iteration(protocol, b, i)
  PROVE  /\ e \in Outcomes /\ e.n \in Nat /\ e.n \in 0 .. Len(b) /\ e.imei \in Nat /\ Len(b) \in Nat
         /\ e.go = "next" => e.n >= 1
         /\ e.go # "next" => e.messages = <<>> /\ e.imei = i
         /\ e.go = "throw" => Len(b) >= 1
<1>1. OutcomeOf(e, b, i) /\ Len(b) \in Nat
  BY IterationIsOutcome, ByteOf
<1>2. e \in Outcomes
  BY <1>1 DEF OutcomeOf
<1>3. e.n \in Nat /\ e.imei \in Nat
  BY <1>2 DEF Outcomes
<1> QED
  BY <1>1, <1>2, <1>3 DEF OutcomeOf

LEMMA DecodeParts ==
  ASSUME NEW protocol \in Protocol, NEW b \in Bytes, NEW i \in Nat, NEW d, d = decode(protocol, b, i)
  PROVE  d \in Outcomes /\ d.n \in Nat /\ d.n \in 0 .. Len(b) /\ d.imei \in Nat /\ Len(b) \in Nat
         /\ d.messages \in Seq(Said) /\ d.go \in {"stop", "throw"}
<1>1. d \in Outcomes /\ d.n <= Len(b) /\ d.go # "next" /\ Len(b) \in Nat
  BY DecodeOutcome, ByteOf
<1>2. d.n \in Nat /\ d.imei \in Nat /\ d.messages \in Seq(Said) /\ d.go \in {"stop", "next", "throw"}
  BY <1>1 DEF Outcomes
<1> QED
  BY <1>1, <1>2

\* The first iteration and what the loop does with the rest.
LEMMA FirstIteration ==
  ASSUME NEW protocol \in Protocol, NEW b \in Bytes, NEW i \in Nat
  PROVE  Iterations(protocol, b, i)[1] = Iteration(protocol, b, i)
<1> DEFINE f == Iterations(protocol, b, i)
           e == Iteration(protocol, b, i)
           d == Skip(0, i)
<1>1. Len(b) \in Nat /\ 1 \in 1 .. Len(b) + 1 /\ 1 - 1 = 0
  BY ByteOf
<1>2. f[1] = Continued(protocol, b, d)
  BY <1>1, IterationsAreDefined
<1>3. d \in Outcomes /\ d.go = "next" /\ d.n = 0 /\ d.imei = i /\ d.messages = <<>>
  BY PlainOutcomes
<1>4. From(b, d.n + 1) = b
  <2>1. d.n + 1 = 1
    BY <1>3
  <2> QED
    BY <2>1, FromEnds
<1>5. e \in Outcomes
  BY IterationIsOutcome DEF OutcomeOf
<1> HIDE DEF f, d
<1>6. f[1] = After(d, e)
  BY <1>2, <1>3, <1>4 DEF Continued
<1>7. After(d, e) = e
  <2> HIDE DEF e
  <2> QED
    BY <1>3, <1>5, AfterNothing
<1> QED
  BY <1>6, <1>7 DEF f

LEMMA RestOfIterations ==
  ASSUME NEW protocol \in Protocol, NEW b \in Bytes, NEW i \in Nat, NEW e, e = Iteration(protocol, b, i), e.go = "next",
         NEW r, r = From(b, e.n + 1)
  PROVE  \A k \in 0 .. Len(r) + 1 : Iterations(protocol, b, i)[k + 1] = After(e, Iterations(protocol, r, e.imei)[k])
<1> DEFINE f == Iterations(protocol, b, i)
           g == Iterations(protocol, r, e.imei)
           n == Len(r) + 1
           Y == {k \in 0 .. n : f[k + 1] = After(e, g[k])}
<1>1. /\ e \in Outcomes /\ e.n \in 0 .. Len(b) /\ e.n >= 1 /\ e.imei \in Nat /\ e.n \in Nat
      /\ Len(b) \in Nat
  BY IterationParts
<1>2. r \in Bytes /\ Len(r) = Len(b) - e.n
  BY <1>1, FromFacts
<1>3. n \in Nat /\ n + 1 <= Len(b) + 1
  BY <1>1, <1>2
<1>4. \A k \in 1 .. Len(b) + 1 : f[k] = Continued(protocol, b, f[k - 1])
  BY IterationsAreDefined
<1>5. g[0] = Skip(0, e.imei) /\ \A k \in 1 .. n : g[k] = Continued(protocol, r, g[k - 1])
  BY <1>1, <1>2, IterationsAreDefined
<1>6. \A k \in 0 .. n : g[k] \in Outcomes /\ g[k].n <= Len(r)
  BY <1>1, <1>2, IterationsProgress
<1>7. f[1] = e
  BY FirstIteration
<1> HIDE DEF f, g, n
<1>8. 0 \in Y
  <2>1. Skip(0, e.imei) \in Outcomes /\ Skip(0, e.imei).go = "next" /\ Skip(0, e.imei).n = 0
        /\ Skip(0, e.imei).messages = <<>> /\ Skip(0, e.imei).imei = e.imei
    BY <1>1, PlainOutcomes
  <2> DEFINE d == Skip(0, e.imei)
  <2> HIDE DEF d
  <2>2. d \in Outcomes /\ d.go = "next" /\ d.n = 0 /\ d.messages = <<>> /\ d.imei = e.imei
    BY <2>1 DEF d
  <2>3. After(e, d) \in Outcomes /\ After(e, d).go = d.go /\ After(e, d).imei = d.imei
    BY <1>1, <2>2, AfterIs, AfterIsOutcome
  <2>4. After(e, d).n = e.n /\ After(e, d).messages = e.messages
    BY <1>1, <2>2, AfterNothing
  <2>5. After(e, d) = e
    BY <1>1, <2>2, <2>3, <2>4, SameOutcome
  <2>6. 0 + 1 = 1 /\ 0 \in 0 .. n
    BY <1>3
  <2> QED
    BY <1>5, <1>7, <2>5, <2>6 DEF d
<1>9. ASSUME NEW k \in 0 .. n - 1, k \in Y PROVE k + 1 \in Y
  <2> DEFINE d == g[k]
  <2>1. k \in 0 .. n /\ k + 1 \in 0 .. n /\ k + 1 \in 1 .. n /\ (k + 1) - 1 = k
        /\ (k + 1) + 1 \in 1 .. Len(b) + 1 /\ ((k + 1) + 1) - 1 = k + 1
    BY <1>1, <1>3
  <2>2. d \in Outcomes /\ d.n <= Len(r) /\ f[k + 1] = After(e, d)
    BY <1>6, <1>9, <2>1
  <2>3. g[k + 1] = Continued(protocol, r, d)
    <3> DEFINE m == k + 1
    <3>1. m \in 1 .. n /\ m - 1 = k
      BY <2>1
    <3> HIDE DEF m
    <3>2. g[m] = Continued(protocol, r, g[m - 1])
      BY <1>5, <3>1
    <3> QED
      BY <3>1, <3>2 DEF m
  <2>4. f[(k + 1) + 1] = Continued(protocol, b, After(e, d))
    <3> DEFINE m == (k + 1) + 1
    <3>1. m \in 1 .. Len(b) + 1 /\ m - 1 = k + 1
      BY <2>1
    <3> HIDE DEF m
    <3>2. f[m] = Continued(protocol, b, f[m - 1])
      BY <1>4, <3>1
    <3> QED
      BY <2>2, <3>1, <3>2 DEF m
  <2> HIDE DEF d
  <2>5. /\ After(e, d) \in Outcomes /\ After(e, d).go = d.go /\ After(e, d).n = e.n + d.n /\ After(e, d).imei = d.imei
    <3>1. e \in Outcomes /\ d \in Outcomes
      BY <1>1, <2>2
    <3>2. After(e, d) \in Outcomes
      BY <3>1, AfterIsOutcome
    <3>3. After(e, d).go = d.go /\ After(e, d).n = e.n + d.n /\ After(e, d).imei = d.imei
      BY <3>1, AfterIs
    <3> QED
      BY <3>2, <3>3
  <2>6. d.n \in 0 .. Len(b) - e.n /\ d.imei \in Nat
    BY <1>1, <1>2, <2>2 DEF Outcomes
  <2>7. CASE d.go = "next"
    <3> DEFINE rest == From(r, d.n + 1)
               it == Iteration(protocol, rest, d.imei)
    <3>1. From(b, (e.n + d.n) + 1) = rest
      BY <1>1, <2>6, FromFrom
    <3>2. rest \in Bytes
      <4>1. d.n \in 0 .. Len(r)
        BY <1>2, <2>6
      <4> QED
        BY <1>2, <4>1, FromFacts
    <3> HIDE DEF rest
    <3>3. it \in Outcomes
      BY <2>6, <3>2, IterationIsOutcome DEF OutcomeOf
    <3>4. g[k + 1] = After(d, it)
      BY <2>3, <2>7 DEF Continued, rest
    <3>5. f[(k + 1) + 1] = After(After(e, d), it)
      BY <2>4, <2>5, <2>7, <3>1 DEF Continued
    <3> HIDE DEF it
    <3>6. After(e, After(d, it)) = After(After(e, d), it)
      BY <1>1, <2>2, <3>3, AfterAssociative
    <3> QED
      BY <2>1, <3>4, <3>5, <3>6
  <2>8. CASE d.go # "next"
    <3>1. g[k + 1] = d
      BY <2>3, <2>8 DEF Continued
    <3>2. f[(k + 1) + 1] = After(e, d)
      BY <2>4, <2>5, <2>8 DEF Continued
    <3> QED
      BY <2>1, <3>1, <3>2
  <2> QED
    BY <2>7, <2>8
<1> HIDE DEF Y
<1>10. \A k \in 0 .. n : k \in Y
  BY <1>3, <1>8, <1>9, Along
<1> QED
  BY <1>10 DEF Y, f, g, n

\* The loop unrolled once.
LEMMA DecodeUnrolls ==
  ASSUME NEW protocol \in Protocol, NEW b \in Bytes, NEW i \in Nat, NEW e, e = Iteration(protocol, b, i)
  PROVE  /\ e.go # "next" => decode(protocol, b, i) = e
         /\ e.go = "next" => decode(protocol, b, i) = After(e, decode(protocol, From(b, e.n + 1), e.imei))
<1> DEFINE f == Iterations(protocol, b, i)
<1>1. Len(b) \in Nat /\ 1 \in 0 .. Len(b) + 1
  BY ByteOf
<1>2. f[1] = e
  BY FirstIteration
<1>3. ASSUME e.go # "next" PROVE decode(protocol, b, i) = e
  BY <1>1, <1>2, <1>3, IterationsStay
<1>4. ASSUME e.go = "next"
      PROVE  decode(protocol, b, i) = After(e, decode(protocol, From(b, e.n + 1), e.imei))
  <2> DEFINE r == From(b, e.n + 1)
             d == decode(protocol, r, e.imei)
             j == (Len(r) + 1) + 1
  <2>1. e \in Outcomes /\ e.n \in 0 .. Len(b) /\ e.n >= 1 /\ e.imei \in Nat
    BY <1>4, IterationParts
  <2>2. r \in Bytes /\ Len(r) = Len(b) - e.n
    BY <2>1, FromFacts
  <2>3. \A k \in 0 .. Len(r) + 1 : f[k + 1] = After(e, Iterations(protocol, r, e.imei)[k])
    BY <1>4, RestOfIterations
  <2> HIDE DEF r, f
  <2>4. Len(r) + 1 \in 0 .. Len(r) + 1 /\ j \in 0 .. Len(b) + 1
    BY <1>1, <2>1, <2>2
  <2>5. f[j] = After(e, d)
    BY <2>3, <2>4 DEF decode
  <2>6. d \in Outcomes /\ d.go # "next"
    BY <2>1, <2>2, DecodeOutcome
  <2> HIDE DEF d, j
  <2>7. f[j].go # "next"
    <3>1. After(e, d).go = d.go
      BY <2>6, AfterIs
    <3> QED
      BY <2>5, <2>6, <3>1
  <2>8. decode(protocol, b, i) = f[j]
    BY <2>4, <2>7, IterationsStay DEF f
  <2> QED
    BY <2>5, <2>8 DEF d, r
<1> QED
  BY <1>3, <1>4

-----------------------------------------------------------------------------
(* A read that is cut. *)

LEMMA AlikeAfter ==
  ASSUME NEW protocol, NEW x \in Outcomes, NEW d \in Outcomes, NEW e \in Outcomes, Alike(protocol, d, e)
  PROVE  Alike(protocol, After(x, d), After(x, e))
<1>1. /\ After(x, d).go = d.go /\ After(x, d).messages = x.messages \o d.messages /\ After(x, d).imei = d.imei
      /\ After(x, e).go = e.go /\ After(x, e).messages = x.messages \o e.messages /\ After(x, e).imei = e.imei
  BY AfterIs
<1>2. CASE d = e
  BY <1>2 DEF Alike
<1>3. CASE d # e
  BY <1>1, <1>3 DEF Alike
<1> QED
  BY <1>2, <1>3

LEMMA AlikeTransitive ==
  ASSUME NEW protocol, NEW d, NEW e, NEW f, Alike(protocol, d, e), Alike(protocol, e, f)
  PROVE  Alike(protocol, d, f)
BY DEF Alike

\* What a loop leaves is at rest, and with more bytes it resumes there, unless a
\* marker was dropped.
Resumes(protocol, b, i) ==
  LET d == decode(protocol, b, i)
      r == From(b, d.n + 1)
  IN  d.go = "stop" =>
        /\ decode(protocol, r, d.imei) = Stop(0, d.imei)
        /\ ~DropsMarker(r, protocol, b) =>
             \A y \in Bytes : Alike(protocol, decode(protocol, b \o y, i), After(d, decode(protocol, r \o y, d.imei)))

\* It waits at once.
LEMMA ResumesAtOnce ==
  ASSUME NEW protocol \in Protocol, NEW b \in Bytes, NEW i \in Nat, Iteration(protocol, b, i).go # "next"
  PROVE  Resumes(protocol, b, i)
<1> DEFINE d == Iteration(protocol, b, i)
           r == From(b, d.n + 1)
<1>1. decode(protocol, b, i) = d
  BY DecodeUnrolls
<1>2. OutcomeOf(d, b, i)
  BY IterationIsOutcome
<1>3. d.go = "stop" =>
        /\ Iteration(protocol, r, i) = Stop(0, i)
        /\ ~DropsMarker(r, protocol, b) =>
             \A y \in Bytes : Alike(protocol, Iteration(protocol, b \o y, i), After(d, Iteration(protocol, r \o y, i)))
  BY DecodersAreSteady DEF Steady
<1> HIDE DEF d
<1>4. d \in Outcomes /\ d.n \in 0 .. Len(b) /\ d.n \in Nat /\ d.imei = i /\ d.go # "next"
  BY <1>2, ByteOf DEF d, OutcomeOf, Outcomes
<1>5. r \in Bytes
  BY <1>4, FromFacts
<1>6. ASSUME d.go = "stop" PROVE decode(protocol, r, i) = Stop(0, i)
  <2>1. Iteration(protocol, r, i) = Stop(0, i) /\ Stop(0, i).go # "next"
    BY <1>3, <1>6, PlainOutcomes
  <2> HIDE DEF r
  <2> QED
    BY <1>5, <2>1, DecodeUnrolls
<1>7. ASSUME d.go = "stop", ~DropsMarker(r, protocol, b), NEW y \in Bytes
      PROVE  Alike(protocol, decode(protocol, b \o y, i), After(d, decode(protocol, r \o y, i)))
  <2> DEFINE c == b \o y
             q == r \o y
             u == Iteration(protocol, c, i)
             v == Iteration(protocol, q, i)
  <2>1. Alike(protocol, u, After(d, v))
    BY <1>3, <1>7
  <2>2. c \in Bytes /\ Len(c) = Len(b) + Len(y) /\ Len(b) \in Nat /\ Len(y) \in Nat
    BY Joined
  <2>3. q \in Bytes
    BY <1>5, Joined
  <2>4. From(c, d.n + 1) = q
    BY <1>4, FromJoined
  <2> HIDE DEF c, q, r
  <2>5. v \in Outcomes /\ v.n \in 0 .. Len(q) /\ v.imei \in Nat
    BY <2>3, IterationParts
  <2>6. u.go # "next" => decode(protocol, c, i) = u
    BY <2>2, DecodeUnrolls
  <2>7. u.go = "next" => decode(protocol, c, i) = After(u, decode(protocol, From(c, u.n + 1), u.imei))
    BY <2>2, DecodeUnrolls
  <2>8. v.go # "next" => decode(protocol, q, i) = v
    BY <2>3, DecodeUnrolls
  <2>9. v.go = "next" => decode(protocol, q, i) = After(v, decode(protocol, From(q, v.n + 1), v.imei))
    BY <2>3, DecodeUnrolls
  <2> HIDE DEF u, v
  <2>10. After(d, v).go = v.go /\ After(d, v).n = d.n + v.n /\ After(d, v).imei = v.imei
    BY <2>5, AfterIs
  <2>11. CASE v.go = "next"
    <3> DEFINE rest == From(q, v.n + 1)
               w == decode(protocol, rest, v.imei)
    <3>1. u = After(d, v)
      BY <2>1, <2>10, <2>11 DEF Alike
    <3>2. From(c, (d.n + v.n) + 1) = rest
      <4>1. d.n \in 0 .. Len(c) /\ v.n \in 0 .. Len(c) - d.n
        <5>1. Len(q) = Len(c) - d.n /\ d.n \in 0 .. Len(c)
          <6>1. d.n \in 0 .. Len(c)
            BY <1>4, <2>2
          <6> QED
            BY <2>2, <2>4, <6>1, FromFacts
        <5> QED
          BY <2>5, <5>1
      <4> QED
        BY <2>2, <2>4, <4>1, FromFrom
    <3>3. rest \in Bytes
      BY <2>3, <2>5, FromFacts
    <3> HIDE DEF rest
    <3>4. w \in Outcomes
      BY <2>5, <3>3, DecodeOutcome
    <3>5. decode(protocol, c, i) = After(After(d, v), w)
      BY <2>7, <2>10, <2>11, <3>1, <3>2
    <3>6. decode(protocol, q, i) = After(v, w)
      BY <2>9, <2>11 DEF rest
    <3> HIDE DEF w
    <3>7. After(d, After(v, w)) = After(After(d, v), w)
      BY <1>4, <2>5, <3>4, AfterAssociative
    <3> QED
      BY <3>5, <3>6, <3>7 DEF Alike, c, q
  <2>12. CASE v.go # "next"
    <3>1. u.go # "next"
      BY <2>1, <2>10, <2>12 DEF Alike
    <3> QED
      BY <2>1, <2>6, <2>8, <2>12, <3>1 DEF c, q
  <2> QED
    BY <2>11, <2>12
<1> QED
  BY <1>1, <1>4, <1>6, <1>7 DEF Resumes

\* It goes on, and what is left resumes.
LEMMA ResumesLater ==
  ASSUME NEW protocol \in Protocol, NEW b \in Bytes, NEW i \in Nat, NEW x, x = Iteration(protocol, b, i), x.go = "next",
         Resumes(protocol, From(b, x.n + 1), x.imei)
  PROVE  Resumes(protocol, b, i)
<1> DEFINE s == From(b, x.n + 1)
           e == decode(protocol, s, x.imei)
           d == decode(protocol, b, i)
           r == From(b, d.n + 1)
<1>1. x \in Outcomes /\ x.n \in 0 .. Len(b) /\ x.n \in Nat /\ x.n >= 1 /\ x.imei \in Nat /\ Len(b) \in Nat
  BY IterationParts
<1>2. s \in Bytes /\ Len(s) = Len(b) - x.n /\ \A j \in 1 .. Len(b) - x.n : s[j] = b[x.n + j]
  BY <1>1, FromFacts
<1>3. d = After(x, e)
  BY DecodeUnrolls
<1>4. Resumes(protocol, s, x.imei)
  OBVIOUS
<1>5. \A y \in Bytes : Iteration(protocol, b \o y, i) = x
  BY DecodersAreSteady DEF Steady
<1>6. \A y \in Bytes : From(b \o y, x.n + 1) = s \o y
  BY <1>1, FromJoined
<1> HIDE DEF s, d
<1>7. e \in Outcomes /\ e.n \in 0 .. Len(s) /\ e.imei \in Nat
  BY <1>1, <1>2, DecodeParts
<1>8. d.go = e.go /\ d.n = x.n + e.n /\ d.imei = e.imei
  BY <1>3, <1>7, AfterIs
<1>9. r = From(s, e.n + 1)
  <2>1. From(b, (x.n + e.n) + 1) = From(s, e.n + 1)
    BY <1>1, <1>2, <1>7, FromFrom DEF s
  <2> QED
    BY <1>8, <2>1
<1>10. r \in Bytes
  BY <1>2, <1>7, <1>9, FromFacts
<1> HIDE DEF r
<1>11. ASSUME ~DropsMarker(r, protocol, b) PROVE ~DropsMarker(r, protocol, s)
  <2> SUFFICES ASSUME DropsMarker(r, protocol, s) PROVE DropsMarker(r, protocol, b)
    BY <1>11
  <2>1. s[Len(s)] = 36 /\ Len(s) > 1 /\ protocol = "meitrack" /\ r = <<>>
    BY DEF DropsMarker, Last
  <2>2. Len(s) \in 1 .. Len(b) - x.n /\ x.n + Len(s) = Len(b) /\ Len(b) > 1
    BY <1>1, <1>2, <2>1
  <2>3. b[Len(b)] = 36
    BY <1>2, <2>1, <2>2
  <2> QED
    BY <2>1, <2>2, <2>3 DEF DropsMarker, Last
<1>12. ASSUME d.go = "stop" PROVE decode(protocol, r, d.imei) = Stop(0, d.imei)
  BY <1>4, <1>8, <1>9, <1>12 DEF Resumes
<1>13. ASSUME d.go = "stop", ~DropsMarker(r, protocol, b), NEW y \in Bytes
       PROVE  Alike(protocol, decode(protocol, b \o y, i), After(d, decode(protocol, r \o y, d.imei)))
  <2> DEFINE w == decode(protocol, s \o y, x.imei)
             v == decode(protocol, r \o y, e.imei)
  <2>1. Alike(protocol, w, After(e, v))
    BY <1>4, <1>8, <1>9, <1>11, <1>13 DEF Resumes
  <2>2. decode(protocol, b \o y, i) = After(x, w)
    <3>1. b \o y \in Bytes
      BY Joined
    <3>2. Iteration(protocol, b \o y, i) = x /\ From(b \o y, x.n + 1) = s \o y
      BY <1>5, <1>6
    <3> DEFINE c == b \o y
    <3> HIDE DEF c
    <3>3. c \in Bytes /\ x = Iteration(protocol, c, i) /\ From(c, x.n + 1) = s \o y
      BY <3>1, <3>2 DEF c
    <3>4. decode(protocol, c, i) = After(x, decode(protocol, From(c, x.n + 1), x.imei))
      BY <3>3, DecodeUnrolls
    <3> QED
      BY <3>3, <3>4 DEF c
  <2>3. s \o y \in Bytes /\ r \o y \in Bytes
    BY <1>2, <1>10, Joined
  <2>4. w \in Outcomes /\ v \in Outcomes
    BY <1>1, <1>7, <2>3, DecodeOutcome
  <2> HIDE DEF e, v, w
  <2>5. After(e, v) \in Outcomes
    BY <1>7, <2>4, AfterIsOutcome
  <2>6. Alike(protocol, After(x, w), After(x, After(e, v)))
    BY <1>1, <2>1, <2>4, <2>5, AlikeAfter
  <2>7. After(x, After(e, v)) = After(After(x, e), v)
    BY <1>1, <1>7, <2>4, AfterAssociative
  <2> QED
    BY <1>3, <1>8, <2>2, <2>6, <2>7 DEF v
<1> QED
  BY <1>12, <1>13 DEF Resumes, d, r

\* However a stream is cut, reading the first part and then what it left with the
\* second is reading it in one: the same messages, IMEI and end, and the same bytes
\* left (processChunk, server.ts).
THEOREM CutsResume ==
  ASSUME NEW protocol \in Protocol
  PROVE  \A b \in Bytes, i \in Nat : Resumes(protocol, b, i)
<1> DEFINE X == {n \in Nat : \A b \in Bytes, i \in Nat : Len(b) <= n => Resumes(protocol, b, i)}
<1>1. ASSUME NEW n \in Nat, \A b \in Bytes, i \in Nat : Len(b) < n => Resumes(protocol, b, i)
      PROVE  n \in X
  <2> SUFFICES ASSUME NEW b \in Bytes, NEW i \in Nat, Len(b) <= n
               PROVE  Resumes(protocol, b, i)
    OBVIOUS
  <2> DEFINE x == Iteration(protocol, b, i)
  <2>1. CASE x.go # "next"
    BY <2>1, ResumesAtOnce
  <2>2. CASE x.go = "next"
    <3> DEFINE s == From(b, x.n + 1)
    <3>1. x.n \in 0 .. Len(b) /\ x.n >= 1 /\ x.imei \in Nat /\ Len(b) \in Nat
      BY <2>2, IterationParts
    <3> HIDE DEF x
    <3>2. s \in Bytes /\ Len(s) = Len(b) - x.n
      BY <3>1, FromFacts
    <3>3. Len(s) < n
      BY <3>1, <3>2
    <3>4. Resumes(protocol, s, x.imei)
      BY <1>1, <3>1, <3>2, <3>3
    <3> QED
      BY <2>2, <3>4, ResumesLater DEF x
  <2> QED
    BY <2>1, <2>2
<1>2. 0 \in X
  <2>1. \A b \in Bytes, i \in Nat : Len(b) < 0 => Resumes(protocol, b, i)
    BY ByteOf
  <2> HIDE DEF X
  <2> QED
    BY <1>1, <2>1
<1>3. ASSUME NEW n \in Nat, n \in X PROVE n + 1 \in X
  <2>1. \A b \in Bytes, i \in Nat : Len(b) < n + 1 => Resumes(protocol, b, i)
    BY <1>3, ByteOf
  <2> HIDE DEF X
  <2> QED
    BY <1>1, <2>1
<1> HIDE DEF X
<1>4. Nat \subseteq X
  BY <1>2, <1>3, Climb
<1>5. \A b \in Bytes : Len(b) \in Nat /\ Len(b) <= Len(b)
  BY ByteOf
<1> QED
  BY <1>4, <1>5 DEF X

-----------------------------------------------------------------------------
(* Checksums. *)

\* A total is the last of the running sums.
LEMMA TotalIs ==
  ASSUME NEW b \in Bytes
  PROVE  \E sum \in [0 .. Len(b) -> Nat] :
           sum[0] = 0 /\ (\A k \in 1 .. Len(b) : sum[k] = sum[k - 1] + b[k]) /\ Total(b) = sum[Len(b)]
<1> DEFINE n == Len(b)
           step == [u \in (1 .. n) \X Nat |-> u[2] + b[u[1]]]
           Made(g) == [k \in 0 .. n |-> IF k = 0 THEN 0 ELSE g[k - 1] + b[k]]
           f == CHOOSE g : g = Made(g)
<1>1. n \in Nat /\ \A k \in 1 .. n : b[k] \in Nat
  BY ByteOf
<1>2. Total(b) = f[n]
  BY DEF Total
<1> HIDE DEF n
<1>3. step \in [(1 .. n) \X Nat -> Nat]
  <2>1. ASSUME NEW u \in (1 .. n) \X Nat PROVE u[2] + b[u[1]] \in Nat
    BY <1>1
  <2> QED
    BY <2>1
<1>4. \A k \in 1 .. n, d \in Nat : step[<<k, d>>] = d + b[k]
  OBVIOUS
<1> HIDE DEF step
<1>5. PICK g : Solution(g, n, Nat, 0, step)
  BY <1>1, <1>3, Recursion
<1> USE <1>5 DEF Solution
<1>6. \A k \in 1 .. n : g[k] = g[k - 1] + b[k]
  <2> SUFFICES ASSUME NEW k \in 1 .. n PROVE g[k] = g[k - 1] + b[k]
    OBVIOUS
  <2>1. k - 1 \in 0 .. n /\ g[k - 1] \in Nat
    BY <1>1
  <2> QED
    BY <1>4, <1>5, <2>1
<1>7. g = Made(g)
  <2>1. \A k \in 0 .. n : g[k] = IF k = 0 THEN 0 ELSE g[k - 1] + b[k]
    BY <1>1, <1>5, <1>6
  <2> QED
    BY <2>1
<1>8. f = Made(f)
  <2> HIDE DEF Made
  <2> QED
    BY <1>7
<1> HIDE DEF f
<1>9. \A k \in 0 .. n : f[k] = IF k = 0 THEN 0 ELSE f[k - 1] + b[k]
  BY <1>8
<1>10. f = [k \in 0 .. n |-> f[k]]
  BY <1>8
<1> DEFINE Y == {k \in 0 .. n : f[k] \in Nat}
<1>11. 0 \in Y
  BY <1>1, <1>9
<1>12. ASSUME NEW k \in 0 .. n - 1, k \in Y PROVE k + 1 \in Y
  <2> DEFINE m == k + 1
  <2>1. m \in 0 .. n /\ m \in 1 .. n /\ m # 0 /\ m - 1 = k /\ f[k] \in Nat
    BY <1>1, <1>12
  <2> HIDE DEF m
  <2>2. f[m] = f[k] + b[m]
    BY <1>9, <2>1
  <2>3. f[m] \in Nat
    BY <1>1, <2>1, <2>2
  <2> QED
    BY <2>1, <2>3 DEF m
<1> HIDE DEF Y
<1>13. \A k \in 0 .. n : k \in Y
  BY <1>1, <1>11, <1>12, Along
<1>14. f \in [0 .. n -> Nat]
  BY <1>10, <1>13 DEF Y
<1>15. f[0] = 0 /\ \A k \in 1 .. n : f[k] = f[k - 1] + b[k]
  BY <1>1, <1>9
<1> QED
  BY <1>2, <1>14, <1>15 DEF n

LEMMA ChecksumsAreNumbers ==
  ASSUME NEW b \in Bytes
  PROVE  /\ Total(b) \in Nat
         /\ crc16(b) \in Nat /\ crc16(b) < 65536
         /\ xorChecksum(b) \in Nat /\ xorChecksum(b) >= 128 /\ xorChecksum(b) < 192
<1>1. Total(b) \in Nat
  BY TotalIs, ByteOf
<1> QED
  BY <1>1 DEF crc16, xorChecksum

-----------------------------------------------------------------------------
(* What devices send, and the decoders of each frame alone. *)

LEMMA ConcatAt ==
  ASSUME NEW b \in Bytes, NEW y \in Bytes
  PROVE  /\ b \o y \in Bytes /\ Len(b \o y) = Len(b) + Len(y)
         /\ \A j \in 1 .. Len(b) + Len(y) : (b \o y)[j] = IF j <= Len(b) THEN b[j] ELSE y[j - Len(b)]
BY ConcatProperties DEF Bytes

LEMMA Halves ==
  ASSUME NEW c \in Nat
  PROVE  c \div 256 \in Nat /\ c % 256 \in Nat /\ (c \div 256) * 256 + (c % 256) = c
OBVIOUS

LEMMA SliceFacts ==
  ASSUME NEW b \in Bytes, NEW m \in 1 .. Len(b), NEW n \in 0 .. Len(b), m <= n + 1
  PROVE  /\ SubSeq(b, m, n) \in Bytes /\ Len(SubSeq(b, m, n)) = n + 1 - m
         /\ \A j \in 1 .. n + 1 - m : SubSeq(b, m, n)[j] = b[m + j - 1]
<1>1. Len(b) \in Nat /\ \A j \in m .. n : b[j] \in Nat
  BY ByteOf
<1>2. /\ SubSeq(b, m, n) \in Bytes /\ Len(SubSeq(b, m, n)) = IF m <= n THEN n - m + 1 ELSE 0
      /\ \A j \in 1 .. n - m + 1 : SubSeq(b, m, n)[j] = b[m + j - 1]
  BY <1>1, SubSeqProperties DEF Bytes
<1>3. (IF m <= n THEN n - m + 1 ELSE 0) = n + 1 - m /\ n - m + 1 = n + 1 - m
  BY <1>1
<1> QED
  BY <1>2, <1>3

\* The layout of a GT06 frame.
Gt06Layout(f, protocol, info, n) ==
  /\ n \in Nat /\ f \in Bytes /\ Len(f) = n + 10
  /\ f[1] = 120 /\ f[2] = 120 /\ f[3] = n + 5 /\ f[4] = protocol
  /\ \A j \in 1 .. n : f[4 + j] = info[j]
  /\ f[n + 5] = 0 /\ f[n + 6] = 1
  /\ f[n + 7] * 256 + f[n + 8] = crc16(SubSeq(f, 3, n + 6))
  /\ f[n + 7] = crc16(SubSeq(f, 3, n + 6)) \div 256 /\ f[n + 8] = crc16(SubSeq(f, 3, n + 6)) % 256
  /\ f[n + 9] = 13 /\ f[n + 10] = 10

\* The encoder's GT06 frame, byte by byte (encode.ts).
LEMMA Gt06FrameIs ==
  ASSUME NEW protocol \in Nat, NEW info \in Bytes, NEW f, f = Gt06Frame(protocol, info), NEW n, n = Len(info)
  PROVE  Gt06Layout(f, protocol, info, n)
<1> DEFINE h == <<Len(info) + 5, protocol>>
           t == <<0, 1>>
           m == h \o info
           body == m \o t
           c == crc16(body)
           q == <<120, 120>>
           e == <<c \div 256, c % 256, 13, 10>>
           g == q \o body
<1>1. n \in Nat /\ \A j \in 1 .. n : info[j] \in Nat
  BY ByteOf
<1>2. f = g \o e
  BY Zenon DEF Gt06Frame
<1>3. h \in Bytes /\ Len(h) = 2 /\ h[1] = n + 5 /\ h[2] = protocol
  BY <1>1 DEF Bytes
<1>4. t \in Bytes /\ Len(t) = 2 /\ t[1] = 0 /\ t[2] = 1
  BY DEF Bytes
<1>5. q \in Bytes /\ Len(q) = 2 /\ q[1] = 120 /\ q[2] = 120
  BY DEF Bytes
<1> HIDE DEF h, t, q
<1>6. m \in Bytes /\ Len(m) = 2 + n /\ \A j \in 1 .. 2 + n : m[j] = IF j <= 2 THEN h[j] ELSE info[j - 2]
  <2>1. m \in Bytes /\ Len(m) = Len(h) + Len(info)
        /\ \A j \in 1 .. Len(h) + Len(info) : m[j] = IF j <= Len(h) THEN h[j] ELSE info[j - Len(h)]
    BY <1>3, ConcatAt
  <2> HIDE DEF m
  <2> QED
    BY <1>3, <2>1
<1> HIDE DEF m
<1>7. body \in Bytes /\ Len(body) = n + 4 /\ \A j \in 1 .. n + 4 : body[j] = IF j <= n + 2 THEN m[j] ELSE t[j - (n + 2)]
  <2>1. body \in Bytes /\ Len(body) = Len(m) + Len(t)
        /\ \A j \in 1 .. Len(m) + Len(t) : body[j] = IF j <= Len(m) THEN m[j] ELSE t[j - Len(m)]
    BY <1>4, <1>6, ConcatAt
  <2>2. Len(m) = n + 2 /\ Len(m) + Len(t) = n + 4
    BY <1>1, <1>4, <1>6
  <2> HIDE DEF body
  <2> QED
    BY <2>1, <2>2
<1> HIDE DEF body
<1>8. c \in Nat
  BY <1>7, ChecksumsAreNumbers
<1> HIDE DEF c
<1>9. /\ e \in Bytes /\ Len(e) = 4 /\ e[1] = c \div 256 /\ e[2] = c % 256 /\ e[3] = 13 /\ e[4] = 10
      /\ e[1] * 256 + e[2] = c
  <2>1. c \div 256 \in Nat /\ c % 256 \in Nat /\ (c \div 256) * 256 + (c % 256) = c
    BY <1>8, Halves
  <2> DEFINE u == c \div 256
             v == c % 256
  <2>2. u \in Nat /\ v \in Nat /\ u * 256 + v = c
    BY <2>1
  <2> HIDE DEF u, v
  <2>3. <<u, v, 13, 10>> \in Bytes
    BY <2>2 DEF Bytes
  <2> QED
    BY <2>2, <2>3 DEF u, v
<1> HIDE DEF e
<1>10. g \in Bytes /\ Len(g) = n + 6 /\ \A j \in 1 .. n + 6 : g[j] = IF j <= 2 THEN q[j] ELSE body[j - 2]
  <2>1. g \in Bytes /\ Len(g) = Len(q) + Len(body)
        /\ \A j \in 1 .. Len(q) + Len(body) : g[j] = IF j <= Len(q) THEN q[j] ELSE body[j - Len(q)]
    BY <1>5, <1>7, ConcatAt
  <2>2. Len(q) = 2 /\ Len(q) + Len(body) = n + 6
    BY <1>1, <1>5, <1>7
  <2> HIDE DEF g
  <2> QED
    BY <2>1, <2>2
<1> HIDE DEF g
<1>11. f \in Bytes /\ Len(f) = n + 10 /\ \A j \in 1 .. n + 10 : f[j] = IF j <= n + 6 THEN g[j] ELSE e[j - (n + 6)]
  <2> DEFINE x == g \o e
  <2>1. x \in Bytes /\ Len(x) = Len(g) + Len(e)
        /\ \A j \in 1 .. Len(g) + Len(e) : x[j] = IF j <= Len(g) THEN g[j] ELSE e[j - Len(g)]
    BY <1>9, <1>10, ConcatAt
  <2>2. Len(g) = n + 6 /\ Len(g) + Len(e) = n + 10
    BY <1>1, <1>9, <1>10
  <2>3. f = x
    BY <1>2
  <2> HIDE DEF x
  <2> QED
    BY <2>1, <2>2, <2>3
<1>12. f[1] = 120 /\ f[2] = 120
  BY <1>1, <1>5, <1>10, <1>11
<1>13. \A j \in 1 .. n + 4 : f[2 + j] = body[j]
  BY <1>1, <1>10, <1>11
<1>14. f[3] = n + 5 /\ f[4] = protocol
  <2>1. body[1] = n + 5 /\ body[2] = protocol
    BY <1>1, <1>3, <1>6, <1>7
  <2>2. f[2 + 1] = body[1] /\ f[2 + 2] = body[2]
    BY <1>1, <1>13
  <2> QED
    BY <2>1, <2>2
<1>15. \A j \in 1 .. n : f[4 + j] = info[j]
  <2> SUFFICES ASSUME NEW j \in 1 .. n PROVE f[4 + j] = info[j]
    OBVIOUS
  <2>1. 2 + j \in 1 .. n + 4 /\ 2 + j <= n + 2 /\ (2 + j) - 2 = j /\ 2 + (2 + j) = 4 + j /\ 2 + j \in 1 .. 2 + n /\ ~(2 + j <= 2)
    BY <1>1
  <2>2. f[2 + (2 + j)] = body[2 + j]
    BY <1>13, <2>1
  <2>3. body[2 + j] = m[2 + j]
    BY <1>7, <2>1
  <2>4. m[2 + j] = info[(2 + j) - 2]
    BY <1>6, <2>1
  <2> QED
    BY <2>1, <2>2, <2>3, <2>4
<1>16. f[n + 5] = 0 /\ f[n + 6] = 1
  <2>1. body[n + 3] = t[(n + 3) - (n + 2)] /\ body[n + 4] = t[(n + 4) - (n + 2)]
    BY <1>1, <1>7
  <2>2. (n + 3) - (n + 2) = 1 /\ (n + 4) - (n + 2) = 2 /\ 2 + (n + 3) = n + 5 /\ 2 + (n + 4) = n + 6
        /\ n + 3 \in 1 .. n + 4 /\ n + 4 \in 1 .. n + 4
    BY <1>1
  <2>3. f[2 + (n + 3)] = body[n + 3] /\ f[2 + (n + 4)] = body[n + 4]
    BY <1>13, <2>2
  <2> QED
    BY <1>4, <2>1, <2>2, <2>3
<1>17. f[n + 7] = e[1] /\ f[n + 8] = e[2] /\ f[n + 9] = e[3] /\ f[n + 10] = e[4]
  <2>1. \A j \in 1 .. 4 : (n + 6) + j \in 1 .. n + 10 /\ ~((n + 6) + j <= n + 6) /\ ((n + 6) + j) - (n + 6) = j
    BY <1>1
  <2>2. \A j \in 1 .. 4 : f[(n + 6) + j] = e[j]
    BY <1>11, <2>1
  <2>3. n + 7 = (n + 6) + 1 /\ n + 8 = (n + 6) + 2 /\ n + 9 = (n + 6) + 3 /\ n + 10 = (n + 6) + 4
    BY <1>1
  <2> QED
    BY <2>2, <2>3
<1>18. SubSeq(f, 3, n + 6) = body
  <2>1. 3 \in 1 .. Len(f) /\ n + 6 \in 0 .. Len(f) /\ 3 <= n + 6 + 1 /\ n + 6 + 1 - 3 = n + 4
    BY <1>1, <1>11
  <2> DEFINE s == SubSeq(f, 3, n + 6)
  <2>2. s \in Bytes /\ Len(s) = n + 4 /\ \A j \in 1 .. n + 4 : s[j] = f[3 + j - 1]
    BY <1>11, <2>1, SliceFacts
  <2> HIDE DEF s
  <2>3. \A j \in 1 .. n + 4 : s[j] = body[j]
    <3> SUFFICES ASSUME NEW j \in 1 .. n + 4 PROVE s[j] = body[j]
      OBVIOUS
    <3>1. 3 + j - 1 = 2 + j
      BY <1>1
    <3> QED
      BY <1>13, <2>2, <3>1
  <2> QED
    BY <1>7, <2>2, <2>3, SameBytes DEF s
<1> QED
  BY <1>1, <1>9, <1>11, <1>12, <1>14, <1>15, <1>16, <1>17, <1>18 DEF c, Gt06Layout

\* Two loops that end alike.
SameEnd(d, e) == d.go = e.go /\ d.imei = e.imei

\* What a read of some bytes does to any read that begins with them, and the reads
\* of the bytes that break off inside them.
Legibly(protocol, x, messages, i, j) ==
  /\ \A y \in Bytes :
       /\ decode(protocol, x \o y, i).messages = messages \o decode(protocol, y, j).messages
       /\ SameEnd(decode(protocol, x \o y, i), decode(protocol, y, j))
  /\ \A m \in 0 .. Len(x) - 1 : decode(protocol, SubSeq(x, 1, m), i).messages = <<>>

\* A prefix and what comes after it.
LEMMA PrefixFacts ==
  ASSUME NEW b \in Bytes, NEW m \in 0 .. Len(b)
  PROVE  /\ SubSeq(b, 1, m) \in Bytes /\ Len(SubSeq(b, 1, m)) = m /\ From(b, m + 1) \in Bytes
         /\ SubSeq(b, 1, m) \o From(b, m + 1) = b
         /\ \A j \in 1 .. m : SubSeq(b, 1, m)[j] = b[j]
<1> DEFINE x == SubSeq(b, 1, m)
           y == From(b, m + 1)
           c == x \o y
<1>1. Len(b) \in Nat /\ m \in Nat /\ \A j \in 1 .. m : b[j] \in Nat
  BY ByteOf
<1>2. x \in Bytes /\ Len(x) = m /\ \A j \in 1 .. m : x[j] = b[j]
  <2>1. x \in Bytes /\ Len(x) = (IF 1 <= m THEN m - 1 + 1 ELSE 0) /\ \A j \in 1 .. m - 1 + 1 : x[j] = b[1 + j - 1]
    BY <1>1, SubSeqProperties DEF Bytes
  <2> HIDE DEF x
  <2> QED
    BY <1>1, <2>1
<1>3. y \in Bytes /\ Len(y) = Len(b) - m /\ \A j \in 1 .. Len(b) - m : y[j] = b[m + j]
  BY FromFacts
<1> HIDE DEF x, y
<1>4. /\ c \in Bytes /\ Len(c) = Len(x) + Len(y)
      /\ \A j \in 1 .. Len(x) : c[j] = x[j]
      /\ \A j \in 1 .. Len(y) : c[Len(x) + j] = y[j]
  BY <1>2, <1>3, Joined
<1> HIDE DEF c
<1>5. Len(c) = Len(b)
  BY <1>1, <1>2, <1>3, <1>4
<1>6. ASSUME NEW k \in 1 .. Len(c) PROVE c[k] = b[k]
  <2>1. CASE k <= m
    BY <1>1, <1>2, <1>4, <2>1
  <2>2. CASE k > m
    <3> DEFINE j == k - m
    <3>1. j \in 1 .. Len(y) /\ j \in 1 .. Len(b) - m /\ m + j = k
      BY <1>1, <1>3, <1>5, <2>2
    <3> HIDE DEF j
    <3>2. c[m + j] = y[j] /\ y[j] = b[m + j]
      BY <1>2, <1>3, <1>4, <3>1
    <3> QED
      BY <3>1, <3>2
  <2> QED
    BY <1>1, <2>1, <2>2
<1>7. c = b
  BY <1>4, <1>5, <1>6, SameBytes
<1> QED
  BY <1>2, <1>3, <1>7 DEF c, x, y

\* Nothing is read from nothing.
LEMMA DecodeNothing ==
  ASSUME NEW protocol \in Protocol, NEW i \in Nat
  PROVE  <<>> \in Bytes /\ decode(protocol, <<>>, i) = Stop(0, i)
<1> DEFINE b == <<>>
           e == Iteration(protocol, b, i)
<1>1. b \in Bytes /\ Len(b) = 0
  BY DEF Bytes
<1> HIDE DEF b
<1>2. /\ e \in Outcomes /\ e.n \in Nat /\ e.n \in 0 .. Len(b)
      /\ e.go = "next" => e.n >= 1
      /\ e.go # "next" => e.messages = <<>> /\ e.imei = i
      /\ e.go = "throw" => Len(b) >= 1
  BY <1>1, IterationParts
<1>3. e.go = "stop" /\ e.n = 0 /\ e.messages = <<>> /\ e.imei = i
  BY <1>1, <1>2 DEF Outcomes
<1>4. decode(protocol, b, i) = e
  BY <1>1, <1>3, DecodeUnrolls
<1>5. /\ Stop(0, i) \in Outcomes /\ Stop(0, i).go = "stop" /\ Stop(0, i).n = 0
      /\ Stop(0, i).messages = <<>> /\ Stop(0, i).imei = i
  BY PlainOutcomes
<1>6. e = Stop(0, i)
  <2> DEFINE d == Stop(0, i)
  <2> HIDE DEF d, e
  <2> QED
    BY <1>2, <1>3, <1>5, SameOutcome DEF d
<1> QED
  BY <1>1, <1>4, <1>6 DEF b

\* An iteration that goes on goes on with whatever follows.
LEMMA ThenTheRest ==
  ASSUME NEW protocol \in Protocol, NEW x \in Bytes, NEW i \in Nat, NEW e, e = Iteration(protocol, x, i), e.go = "next",
         NEW y \in Bytes
  PROVE  decode(protocol, x \o y, i) = After(e, decode(protocol, From(x, e.n + 1) \o y, e.imei))
<1> DEFINE c == x \o y
<1>1. e.n \in 0 .. Len(x)
  BY IterationParts
<1>2. c \in Bytes
  BY Joined
<1>3. Iteration(protocol, c, i) = e
  BY DecodersAreSteady DEF Steady
<1>4. From(c, e.n + 1) = From(x, e.n + 1) \o y
  BY <1>1, FromJoined
<1> HIDE DEF c
<1>5. decode(protocol, c, i) = After(e, decode(protocol, From(c, e.n + 1), e.imei))
  BY <1>2, <1>3, DecodeUnrolls
<1> QED
  BY <1>4, <1>5 DEF c

\* The messages of a prefix: none, or those after the same first iteration.
LEMMA PrefixReads ==
  ASSUME NEW protocol \in Protocol, NEW x \in Bytes, NEW i \in Nat, NEW e, e = Iteration(protocol, x, i), e.go = "next",
         NEW m \in 0 .. Len(x)
  PROVE  LET p == SubSeq(x, 1, m)
         IN  \/ decode(protocol, p, i).messages = <<>>
             \/ /\ e.n <= m
                /\ decode(protocol, p, i) = After(e, decode(protocol, From(p, e.n + 1), e.imei))
<1> DEFINE p == SubSeq(x, 1, m)
           y == From(x, m + 1)
           f == Iteration(protocol, p, i)
<1>1. p \in Bytes /\ Len(p) = m /\ y \in Bytes /\ p \o y = x
  BY PrefixFacts
<1> HIDE DEF p, y
<1>2. f.go # "stop" => Iteration(protocol, p \o y, i) = f
  BY <1>1, DecodersAreSteady DEF Steady
<1>3. f \in Outcomes /\ f.n \in 0 .. Len(p) /\ (f.go # "next" => f.messages = <<>>)
  BY <1>1, IterationParts
<1>4. f.go # "next" => decode(protocol, p, i) = f
  BY <1>1, DecodeUnrolls
<1>5. f.go = "next" => decode(protocol, p, i) = After(f, decode(protocol, From(p, f.n + 1), f.imei))
  BY <1>1, DecodeUnrolls
<1> HIDE DEF f
<1>6. CASE f.go = "next"
  <2>1. f = e
    BY <1>1, <1>2, <1>6
  <2>2. e.n <= m
    BY <1>1, <1>3, <2>1
  <2> QED
    BY <1>5, <1>6, <2>1, <2>2 DEF p
<1>7. CASE f.go # "next"
  BY <1>3, <1>4, <1>7 DEF p
<1> QED
  BY <1>6, <1>7

\* A whole frame, or noise consumed as a whole.
LEMMA TakenWhole ==
  ASSUME NEW protocol \in Protocol, NEW x \in Bytes, NEW i \in Nat, NEW e, e = Iteration(protocol, x, i), e.go = "next",
         e.n = Len(x)
  PROVE  Legibly(protocol, x, e.messages, i, e.imei)
<1>1. e \in Outcomes /\ e.imei \in Nat /\ Len(x) \in Nat
  BY IterationParts
<1>2. ASSUME NEW y \in Bytes
      PROVE  /\ decode(protocol, x \o y, i).messages = e.messages \o decode(protocol, y, e.imei).messages
             /\ SameEnd(decode(protocol, x \o y, i), decode(protocol, y, e.imei))
  <2> DEFINE d == decode(protocol, y, e.imei)
  <2>1. From(x, e.n + 1) \o y = y
    <3>1. From(x, e.n + 1) = <<>>
      BY FromEnds
    <3>2. <<>> \o y = y
      BY ConcatEmptySeq DEF Bytes
    <3> QED
      BY <3>1, <3>2
  <2>2. decode(protocol, x \o y, i) = After(e, d)
    <3>1. decode(protocol, x \o y, i) = After(e, decode(protocol, From(x, e.n + 1) \o y, e.imei))
      BY ThenTheRest
    <3> QED
      BY <2>1, <3>1
  <2>3. d \in Outcomes
    BY <1>1, DecodeParts
  <2> HIDE DEF d
  <2>4. After(e, d).messages = e.messages \o d.messages /\ SameEnd(After(e, d), d)
    BY <2>3, AfterIs DEF SameEnd
  <2> QED
    BY <2>2, <2>4 DEF d
<1>3. ASSUME NEW m \in 0 .. Len(x) - 1 PROVE decode(protocol, SubSeq(x, 1, m), i).messages = <<>>
  <2>1. m \in 0 .. Len(x) /\ ~(e.n <= m)
    BY <1>1
  <2> QED
    BY <2>1, PrefixReads
<1> QED
  BY <1>2, <1>3 DEF Legibly

\* A skipped piece of noise, and the noise after it.
LEMMA SkippedInto ==
  ASSUME NEW protocol \in Protocol, NEW x \in Bytes, NEW i \in Nat, NEW j \in Nat, NEW e, e = Iteration(protocol, x, i),
         e.go = "next", e.messages = <<>>, Legibly(protocol, From(x, e.n + 1), <<>>, e.imei, j)
  PROVE  Legibly(protocol, x, <<>>, i, j)
<1> DEFINE r == From(x, e.n + 1)
           none == <<>>
<1>1. e \in Outcomes /\ e.imei \in Nat /\ e.n \in 0 .. Len(x) /\ Len(x) \in Nat /\ e.n \in Nat
  BY IterationParts
<1>2. r \in Bytes /\ Len(r) = Len(x) - e.n
  BY <1>1, FromFacts
<1>3. /\ \A y \in Bytes :
           /\ decode(protocol, r \o y, e.imei).messages = none \o decode(protocol, y, j).messages
           /\ SameEnd(decode(protocol, r \o y, e.imei), decode(protocol, y, j))
      /\ \A m \in 0 .. Len(r) - 1 : decode(protocol, SubSeq(r, 1, m), e.imei).messages = none
  BY DEF Legibly
<1>4. \A m \in 1 .. Len(x) : e.n <= m => From(SubSeq(x, 1, m), e.n + 1) = SubSeq(r, 1, m - e.n)
  <2> SUFFICES ASSUME NEW m \in 1 .. Len(x), e.n <= m
               PROVE  From(SubSeq(x, 1, m), e.n + 1) = SubSeq(r, 1, m - e.n)
    OBVIOUS
  <2> DEFINE p == SubSeq(x, 1, m)
             y == From(x, m + 1)
             u == From(p, e.n + 1)
  <2>0. m \in 0 .. Len(x)
    BY <1>1
  <2>1. p \in Bytes /\ Len(p) = m /\ y \in Bytes /\ p \o y = x
    BY <2>0, PrefixFacts
  <2> HIDE DEF p, y
  <2>n. e.n \in 0 .. Len(p)
    BY <1>1, <2>1
  <2>2. u \in Bytes /\ Len(u) = m - e.n
    BY <2>1, <2>n, FromFacts
  <2>3. r = u \o y
    <3>1. From(p \o y, e.n + 1) = u \o y
      BY <2>1, <2>n, FromJoined
    <3> QED
      BY <2>1, <3>1
  <2> HIDE DEF u, r
  <2>4. SubSeq(u \o y, 1, m - e.n) = SubSeq(u, 1, m - e.n)
    <3>1. m - e.n \in Int /\ m - e.n <= Len(u) /\ 1 \in Nat \ {0}
      BY <1>1, <2>2
    <3> DEFINE k == m - e.n
    <3> HIDE DEF k
    <3>2. k \in Int /\ k <= Len(u)
      BY <3>1 DEF k
    <3>3. SubSeq(u \o y, 1, k) = SubSeq(u, 1, k)
      BY <2>1, <2>2, <3>1, <3>2, PartOfJoined
    <3> QED
      BY <3>3 DEF k
  <2>5. SubSeq(u, 1, m - e.n) = u
    BY <2>2, SubSeqFull DEF Bytes
  <2> QED
    BY <2>3, <2>4, <2>5 DEF u, p
<1>5. none \in Seq(Said) /\ e.messages = none
  BY NoMessages
<1> HIDE DEF r, none
<1>6. ASSUME NEW y \in Bytes
      PROVE  /\ decode(protocol, x \o y, i).messages = none \o decode(protocol, y, j).messages
             /\ SameEnd(decode(protocol, x \o y, i), decode(protocol, y, j))
  <2> DEFINE d == decode(protocol, r \o y, e.imei)
             f == decode(protocol, y, j)
  <2>1. decode(protocol, x \o y, i) = After(e, d)
    BY ThenTheRest DEF r
  <2>2. r \o y \in Bytes
    BY <1>2, Joined
  <2>3. d \in Outcomes /\ d.messages \in Seq(Said)
    BY <1>1, <2>2, DecodeParts
  <2>4. d.messages = none \o f.messages /\ SameEnd(d, f)
    BY <1>3
  <2> HIDE DEF d
  <2>5. After(e, d).messages = e.messages \o d.messages /\ SameEnd(After(e, d), d)
    BY <2>3, AfterIs DEF SameEnd
  <2>6. none \o d.messages = d.messages
    BY <2>3, ConcatEmptySeq DEF none
  <2> QED
    BY <1>5, <2>1, <2>4, <2>5, <2>6 DEF SameEnd
<1>7. ASSUME NEW m \in 0 .. Len(x) - 1 PROVE decode(protocol, SubSeq(x, 1, m), i).messages = none
  <2> DEFINE p == SubSeq(x, 1, m)
             d == decode(protocol, From(p, e.n + 1), e.imei)
  <2>1. m \in 0 .. Len(x)
    BY <1>1
  <2>2. CASE e.n <= m /\ decode(protocol, p, i) = After(e, d)
    <3>1. m \in 1 .. Len(x)
      <4>1. e.n >= 1
        BY IterationParts
      <4> QED
        BY <1>1, <2>1, <2>2, <4>1
    <3>2. p \in Bytes /\ Len(p) = m
      BY <2>1, PrefixFacts
    <3>3. From(p, e.n + 1) = SubSeq(r, 1, m - e.n)
      BY <1>4, <2>2, <3>1
    <3>4. m - e.n \in 0 .. Len(r) - 1
      <4> DEFINE k == e.n
                 n == Len(x)
                 u == Len(r)
      <4>1. k \in Nat /\ n \in Nat /\ m \in 0 .. n - 1 /\ k <= m /\ u = n - k
        BY <1>1, <1>2, <2>2
      <4> HIDE DEF k, n, u
      <4>2. m - k \in 0 .. u - 1
        BY <4>1
      <4> QED
        BY <4>2 DEF k, u
    <3>5. d.messages = none
      BY <1>3, <3>3, <3>4
    <3>6. d \in Outcomes
      <4>1. e.n \in 0 .. Len(p)
        BY <1>1, <2>2, <3>2
      <4>2. From(p, e.n + 1) \in Bytes
        BY <3>2, <4>1, FromFacts
      <4> HIDE DEF p
      <4> QED
        BY <1>1, <4>2, DecodeParts
    <3> HIDE DEF d
    <3>7. After(e, d).messages = e.messages \o d.messages
      BY <3>6, AfterIs
    <3>8. none \o none = none
      BY <1>5, ConcatEmptySeq DEF none
    <3> QED
      BY <1>5, <2>2, <3>5, <3>7, <3>8
  <2>3. CASE decode(protocol, p, i).messages = <<>>
    BY <2>3 DEF none
  <2>4. \/ decode(protocol, p, i).messages = <<>>
        \/ e.n <= m /\ decode(protocol, p, i) = After(e, d)
    BY <2>1, PrefixReads
  <2> QED
    BY <2>2, <2>3, <2>4
<1> QED
  BY <1>6, <1>7 DEF Legibly, none

\* Nothing at all.
LEMMA LegiblyNothing ==
  ASSUME NEW protocol \in Protocol, NEW i \in Nat
  PROVE  Legibly(protocol, <<>>, <<>>, i, i)
<1>1. <<>> \in Bytes /\ Len(<<>>) = 0
  BY DEF Bytes
<1>2. ASSUME NEW y \in Bytes PROVE <<>> \o y = y /\ <<>> \o decode(protocol, y, i).messages = decode(protocol, y, i).messages
  <2>1. decode(protocol, y, i).messages \in Seq(Said)
    BY DecodeParts
  <2> QED
    BY <2>1, ConcatEmptySeq DEF Bytes
<1>3. \A m \in 0 .. Len(<<>>) - 1 : FALSE
  BY <1>1
<1> QED
  BY <1>2, <1>3 DEF Legibly, SameEnd

-----------------------------------------------------------------------------
(* GT06 fragments. *)

\* The decoder reads the frames of the encoder, whatever they carry.
LEMMA Gt06RoundTrip ==
  ASSUME NEW protocol \in Nat, NEW info \in Bytes, NEW i \in Nat
  PROVE  Gt06Iteration(Gt06Frame(protocol, info), i) = Gt06ParseFrame(protocol, info, Len(info) + 10, i)
<1> DEFINE f == Gt06Frame(protocol, info)
           n == Len(info)
<1>1. /\ n \in Nat /\ f \in Bytes /\ Len(f) = n + 10
      /\ f[1] = 120 /\ f[2] = 120 /\ f[3] = n + 5 /\ f[4] = protocol
      /\ \A j \in 1 .. n : f[4 + j] = info[j]
      /\ f[n + 7] * 256 + f[n + 8] = crc16(SubSeq(f, 3, n + 6))
  <2>1. Gt06Layout(f, protocol, info, n)
    BY Gt06FrameIs
  <2> HIDE DEF f, n
  <2> QED
    BY <2>1 DEF Gt06Layout
<1> HIDE DEF f, n
<1>2. /\ (n + 5) + 2 = n + 7 /\ (n + 5) + 3 = n + 8 /\ (n + 5) + 1 = n + 6 /\ (n + 5) - 1 = n + 4 /\ (n + 5) + 5 = n + 10
      /\ n + 10 >= 5
  BY <1>1
<1>3. Gt06Iteration(f, i) = Gt06ParseFrame(f[4], SubSeq(f, 5, n + 4), n + 10, i)
  <2>1. Len(f) >= 5 /\ f[1] = 120 /\ f[2] = 120 /\ Len(f) >= f[3] + 5
    BY <1>1, <1>2
  <2>2. Gt06Iteration(f, i) =
          IF f[f[3] + 2] * 256 + f[f[3] + 3] # crc16(SubSeq(f, 3, f[3] + 1)) THEN Skip(1, i)
          ELSE Gt06ParseFrame(f[4], SubSeq(f, 5, f[3] - 1), f[3] + 5, i)
    BY <1>1, <2>1, Gt06Cases
  <2>3. f[3] + 2 = n + 7 /\ f[3] + 3 = n + 8 /\ f[3] + 1 = n + 6 /\ f[3] - 1 = n + 4 /\ f[3] + 5 = n + 10
    BY <1>1, <1>2
  <2> QED
    BY <1>1, <2>2, <2>3
<1>4. SubSeq(f, 5, n + 4) = info
  <2> DEFINE s == SubSeq(f, 5, n + 4)
  <2>1. 5 \in 1 .. Len(f) /\ n + 4 \in 0 .. Len(f) /\ 5 <= n + 4 + 1 /\ n + 4 + 1 - 5 = n
    BY <1>1
  <2>2. s \in Bytes /\ Len(s) = n + 4 + 1 - 5 /\ \A j \in 1 .. n + 4 + 1 - 5 : s[j] = f[5 + j - 1]
    BY <1>1, <2>1, SliceFacts
  <2> HIDE DEF s
  <2>3. \A j \in 1 .. n : s[j] = info[j]
    <3> SUFFICES ASSUME NEW j \in 1 .. n PROVE s[j] = info[j]
      OBVIOUS
    <3>1. 5 + j - 1 = 4 + j
      BY <1>1
    <3> QED
      BY <1>1, <2>1, <2>2, <3>1
  <2>4. Len(s) = n
    BY <2>1, <2>2
  <2> QED
    BY <2>2, <2>3, <2>4, SameBytes DEF s, n
<1> QED
  BY <1>1, <1>3, <1>4 DEF f, n

\* A byte that does not begin a frame.
LEMMA Gt06NoiseByte ==
  ASSUME NEW z \in Bytes, Len(z) >= 1, Len(z) >= 2 => ~(z[1] = 120 /\ z[2] = 120), NEW i \in Nat
  PROVE  /\ decode("gt06", z, i).messages = decode("gt06", From(z, 2), i).messages
         /\ SameEnd(decode("gt06", z, i), decode("gt06", From(z, 2), i))
<1> DEFINE r == From(z, 2)
<1>1. Len(z) \in Nat /\ "gt06" \in Protocol
  BY ByteOf DEF Protocol
<1>2. r \in Bytes /\ Len(r) = Len(z) - 1
  <2>1. 1 \in 0 .. Len(z) /\ 1 + 1 = 2
    BY <1>1
  <2>2. From(z, 1 + 1) \in Bytes /\ Len(From(z, 1 + 1)) = Len(z) - 1
    BY <2>1, FromFacts
  <2> QED
    BY <2>1, <2>2
<1>3. \A b \in Bytes : Iteration("gt06", b, i) = Gt06Iteration(b, i)
  BY DEF Iteration
<1> HIDE DEF r
<1>4. CASE Len(z) < 5
  <2>1. \A b \in Bytes : Len(b) < 5 => decode("gt06", b, i) = Stop(0, i)
    <3> SUFFICES ASSUME NEW b \in Bytes, Len(b) < 5 PROVE decode("gt06", b, i) = Stop(0, i)
      OBVIOUS
    <3>1. Gt06Iteration(b, i) = Stop(0, i)
      BY Gt06Cases
    <3>2. Stop(0, i).go # "next"
      BY PlainOutcomes
    <3> QED
      BY <1>1, <1>3, <3>1, <3>2, DecodeUnrolls
  <2>2. Len(r) < 5
    BY <1>1, <1>2, <1>4
  <2> QED
    BY <1>2, <1>4, <2>1, <2>2 DEF r, SameEnd
<1>5. CASE Len(z) >= 5
  <2> DEFINE e == Skip(1, i)
             d == decode("gt06", r, i)
  <2>1. Iteration("gt06", z, i) = e
    BY <1>1, <1>3, <1>5, Gt06Cases
  <2>2. e \in Outcomes /\ e.go = "next" /\ e.n = 1 /\ e.messages = <<>> /\ e.imei = i
    BY PlainOutcomes
  <2>3. d \in Outcomes /\ d.messages \in Seq(Said)
    BY <1>1, <1>2, DecodeParts
  <2> HIDE DEF e
  <2>4. decode("gt06", z, i) = After(e, d)
    <3>1. decode("gt06", z, i) = After(e, decode("gt06", From(z, e.n + 1), e.imei))
      BY <1>1, <2>1, <2>2, DecodeUnrolls
    <3>2. e.n + 1 = 2
      BY <2>2
    <3> QED
      BY <2>2, <3>1, <3>2 DEF r
  <2> HIDE DEF d
  <2>5. After(e, d).messages = e.messages \o d.messages /\ SameEnd(After(e, d), d)
    BY <2>3, AfterIs DEF SameEnd
  <2>6. <<>> \o d.messages = d.messages
    BY <2>3, ConcatEmptySeq
  <2> QED
    BY <2>2, <2>4, <2>5, <2>6 DEF d, r
<1> QED
  BY <1>1, <1>4, <1>5

\* Bytes without two 120 in a row, the last none.
Dull(x) == x \in Bytes /\ \A j \in 1 .. Len(x) : x[j] = 120 => j + 1 <= Len(x) /\ x[j + 1] # 120

LEMMA Gt06DullIsNoise ==
  ASSUME NEW i \in Nat
  PROVE  \A x : Dull(x) => Legibly("gt06", x, <<>>, i, i)
<1> DEFINE X == {n \in Nat : \A x : Dull(x) /\ Len(x) = n => Legibly("gt06", x, <<>>, i, i)}
<1>0. "gt06" \in Protocol
  BY DEF Protocol
<1>1. 0 \in X
  <2> SUFFICES ASSUME NEW x, Dull(x), Len(x) = 0 PROVE Legibly("gt06", x, <<>>, i, i)
    OBVIOUS
  <2>1. x = <<>>
    BY EmptySeq DEF Dull, Bytes
  <2> QED
    BY <1>0, <2>1, LegiblyNothing
<1>2. ASSUME NEW n \in Nat, n \in X PROVE n + 1 \in X
  <2> SUFFICES ASSUME NEW x, Dull(x), Len(x) = n + 1 PROVE Legibly("gt06", x, <<>>, i, i)
    OBVIOUS
  <2> DEFINE r == From(x, 2)
             none == <<>>
  <2>1. x \in Bytes /\ Len(x) \in Nat /\ Len(x) >= 1 /\ 1 \in 0 .. Len(x) /\ 1 + 1 = 2
    BY DEF Dull
  <2>2. r \in Bytes /\ Len(r) = n /\ \A j \in 1 .. n : r[j] = x[1 + j]
    <3>1. /\ From(x, 1 + 1) \in Bytes /\ Len(From(x, 1 + 1)) = Len(x) - 1
          /\ \A j \in 1 .. Len(x) - 1 : From(x, 1 + 1)[j] = x[1 + j]
      BY <2>1, FromFacts
    <3>2. Len(x) - 1 = n
      BY <2>1
    <3> QED
      BY <2>1, <3>1, <3>2
  <2> HIDE DEF r
  <2>3. Dull(r)
    <3> SUFFICES ASSUME NEW j \in 1 .. n, r[j] = 120 PROVE j + 1 <= n /\ r[j + 1] # 120
      BY <2>2 DEF Dull
    <3>1. 1 + j \in 1 .. Len(x) /\ (1 + j) + 1 = 1 + (j + 1)
      BY <2>1
    <3>2. (1 + j) + 1 <= Len(x) /\ x[(1 + j) + 1] # 120
      BY <2>2, <3>1 DEF Dull
    <3>3. j + 1 \in 1 .. n
      BY <2>1, <3>2
    <3> QED
      BY <2>2, <3>1, <3>2, <3>3
  <2>4. Legibly("gt06", r, none, i, i)
    BY <1>2, <2>2, <2>3
  <2>5. \A y \in Bytes : /\ decode("gt06", x \o y, i).messages = decode("gt06", r \o y, i).messages
                         /\ SameEnd(decode("gt06", x \o y, i), decode("gt06", r \o y, i))
    <3> SUFFICES ASSUME NEW y \in Bytes
                 PROVE  /\ decode("gt06", x \o y, i).messages = decode("gt06", r \o y, i).messages
                        /\ SameEnd(decode("gt06", x \o y, i), decode("gt06", r \o y, i))
      OBVIOUS
    <3> DEFINE z == x \o y
    <3>1. z \in Bytes /\ Len(z) = Len(x) + Len(y) /\ Len(y) \in Nat /\ \A j \in 1 .. Len(x) : z[j] = x[j]
      BY <2>1, Joined
    <3>2. From(z, 2) = r \o y
      <4>1. From(x \o y, 1 + 1) = From(x, 1 + 1) \o y
        BY <2>1, FromJoined
      <4> QED
        BY <2>1, <4>1 DEF r
    <3> HIDE DEF z
    <3>3. z[1] = x[1] /\ (x[1] = 120 => z[2] = x[2] /\ x[2] # 120)
      <4>1. 1 \in 1 .. Len(x)
        BY <2>1
      <4>2. x[1] = 120 => 2 \in 1 .. Len(x) /\ x[2] # 120
        BY <2>1, <4>1 DEF Dull
      <4> QED
        BY <3>1, <4>1, <4>2
    <3>4. Len(z) >= 1
      BY <2>1, <3>1
    <3>5. decode("gt06", z, i).messages = decode("gt06", From(z, 2), i).messages
          /\ SameEnd(decode("gt06", z, i), decode("gt06", From(z, 2), i))
      BY <3>1, <3>3, <3>4, Gt06NoiseByte
    <3> QED
      BY <3>2, <3>5 DEF z
  <2>6. ASSUME NEW m \in 0 .. Len(x) - 1 PROVE decode("gt06", SubSeq(x, 1, m), i).messages = none
    <3> DEFINE p == SubSeq(x, 1, m)
               q == SubSeq(r, 1, m - 1)
    <3>1. m \in 0 .. Len(x) /\ m \in Nat
      BY <2>1
    <3>2. p \in Bytes /\ Len(p) = m /\ \A j \in 1 .. m : p[j] = x[j]
      BY <2>1, <3>1, PrefixFacts
    <3>3. CASE m = 0
      <4>1. p = <<>>
        BY <3>2, <3>3, EmptySeq DEF Bytes
      <4>2. decode("gt06", <<>>, i) = Stop(0, i) /\ Stop(0, i).messages = <<>>
        BY <1>0, DecodeNothing, PlainOutcomes
      <4> QED
        BY <4>1, <4>2 DEF none
    <3>4. CASE m # 0
      <4>1. m - 1 \in 0 .. n - 1 /\ m - 1 \in 0 .. n /\ m \in 1 .. Len(x) /\ 1 \in 0 .. m /\ m >= 1
        BY <2>1, <3>1, <3>4
      <4>2. q \in Bytes /\ Len(q) = m - 1 /\ \A j \in 1 .. m - 1 : q[j] = r[j]
        BY <2>2, <4>1, PrefixFacts
      <4>3. decode("gt06", q, i).messages = none
        BY <2>2, <2>4, <4>1 DEF Legibly
      <4> HIDE DEF p, q
      <4>4. From(p, 2) = q
        <5>1. /\ From(p, 1 + 1) \in Bytes /\ Len(From(p, 1 + 1)) = Len(p) - 1
              /\ \A j \in 1 .. Len(p) - 1 : From(p, 1 + 1)[j] = p[1 + j]
          BY <3>2, <4>1, FromFacts
        <5> DEFINE u == From(p, 2)
        <5>2. u \in Bytes /\ Len(u) = m - 1 /\ \A j \in 1 .. m - 1 : u[j] = p[1 + j]
          BY <2>1, <3>2, <5>1
        <5> HIDE DEF u
        <5>3. ASSUME NEW j \in 1 .. m - 1 PROVE u[j] = q[j]
          <6>1. 1 + j \in 1 .. m /\ j \in 1 .. n
            BY <4>1
          <6> QED
            BY <2>2, <3>2, <4>2, <5>2, <6>1
        <5> QED
          BY <4>2, <5>2, <5>3, SameBytes DEF u
      <4>5. Len(p) >= 2 => ~(p[1] = 120 /\ p[2] = 120)
        <5> SUFFICES ASSUME Len(p) >= 2 PROVE ~(p[1] = 120 /\ p[2] = 120)
          OBVIOUS
        <5>1. 1 \in 1 .. m /\ 2 \in 1 .. m /\ 1 \in 1 .. Len(x)
          BY <2>1, <3>1, <3>2
        <5>2. p[1] = x[1] /\ p[2] = x[2]
          BY <3>2, <5>1
        <5>3. x[1] = 120 => x[1 + 1] # 120
          BY <5>1 DEF Dull
        <5> QED
          BY <5>2, <5>3
      <4>6. decode("gt06", p, i).messages = decode("gt06", From(p, 2), i).messages
        BY <3>2, <4>1, <4>5, Gt06NoiseByte
      <4> QED
        BY <4>3, <4>4, <4>6 DEF p
    <3> QED
      BY <3>3, <3>4
  <2> QED
    BY <2>4, <2>5, <2>6 DEF Legibly, SameEnd
<1> HIDE DEF X
<1>3. Nat \subseteq X
  BY <1>1, <1>2, Climb
<1>4. \A x : Dull(x) => Len(x) \in Nat
  BY ByteOf DEF Dull
<1> QED
  BY <1>3, <1>4 DEF X

-----------------------------------------------------------------------------
(* What one fragment stands for. *)

\* The device a fragment is about, and the messages it holds.
Named(f, i) == IF f.imei # 0 THEN f.imei ELSE i
MessagesOf(f, i) == [j \in DOMAIN f.kinds |-> Message(f.kinds[j], Named(f, i))]

\* A fragment read in a stream, and alone.
Readable(protocol, f, i) == Legibly(protocol, f.bytes, MessagesOf(f, i), i, Named(f, i))
Alone(protocol, f, i) ==
  LET d == decode(protocol, f.bytes, i)
  IN  d.imei = Named(f, i) /\ MessagesOf(f, i) = IF d.go = "throw" THEN <<>> ELSE d.messages

LEMMA NoKinds ==
  ASSUME NEW f, f.kinds = <<>>, f.imei = 0, NEW i
  PROVE  MessagesOf(f, i) = <<>> /\ Named(f, i) = i
BY DEF MessagesOf, Named

LEMMA OneKind ==
  ASSUME NEW f, NEW kind, f.kinds = <<kind>>, NEW i
  PROVE  MessagesOf(f, i) = <<Message(kind, Named(f, i))>>
BY DEF MessagesOf

\* What is read in a stream is read alone.
LEMMA ReadableAlone ==
  ASSUME NEW protocol \in Protocol, NEW f, f.bytes \in Bytes, NEW i \in Nat, Named(f, i) \in Nat,
         MessagesOf(f, i) \in Seq(Said), Readable(protocol, f, i)
  PROVE  Alone(protocol, f, i)
<1> DEFINE x == f.bytes
           j == Named(f, i)
           messages == MessagesOf(f, i)
           none == <<>>
           d == decode(protocol, none, j)
<1>1. none \in Bytes /\ d = Stop(0, j)
  BY DecodeNothing
<1>2. d.go = "stop" /\ d.imei = j /\ d.messages = <<>>
  <2> HIDE DEF d, none, j
  <2>1. j \in Nat
    BY DEF j
  <2>2. Stop(0, j).go = "stop" /\ Stop(0, j).imei = j /\ Stop(0, j).messages = <<>>
    BY <2>1, PlainOutcomes
  <2> QED
    BY <1>1, <2>2
<1>3. decode(protocol, x \o none, i).messages = messages \o d.messages /\ SameEnd(decode(protocol, x \o none, i), d)
  BY <1>1 DEF Readable, Legibly
<1>4. x \o none = x
  BY ConcatEmptySeq DEF Bytes
<1>5. messages \o <<>> = messages
  BY ConcatEmptySeq
<1> HIDE DEF d, none, j, messages
<1>6. decode(protocol, x, i).messages = messages /\ decode(protocol, x, i).imei = j /\ decode(protocol, x, i).go # "throw"
  BY <1>2, <1>3, <1>4, <1>5 DEF SameEnd
<1> QED
  BY <1>6 DEF Alone, j, messages

\* Totals of a few bytes.
LEMMA Totals ==
  ASSUME NEW s \in Bytes
  PROVE  /\ Len(s) = 3 => Total(s) = s[1] + s[2] + s[3]
         /\ Len(s) = 4 => Total(s) = s[1] + s[2] + s[3] + s[4]
         /\ Len(s) = 5 => Total(s) = s[1] + s[2] + s[3] + s[4] + s[5]
         /\ Len(s) = 6 => Total(s) = s[1] + s[2] + s[3] + s[4] + s[5] + s[6]
<1>1. PICK sum \in [0 .. Len(s) -> Nat] :
        sum[0] = 0 /\ (\A k \in 1 .. Len(s) : sum[k] = sum[k - 1] + s[k]) /\ Total(s) = sum[Len(s)]
  BY TotalIs
<1>2. \A k \in 1 .. Len(s) : s[k] \in Nat
  BY ByteOf
<1>3. Len(s) >= 3 => sum[3] = s[1] + s[2] + s[3] /\ s[1] \in Nat /\ s[2] \in Nat /\ s[3] \in Nat
  <2> SUFFICES ASSUME Len(s) >= 3 PROVE sum[3] = s[1] + s[2] + s[3] /\ s[1] \in Nat /\ s[2] \in Nat /\ s[3] \in Nat
    OBVIOUS
  <2>1. 1 \in 1 .. Len(s) /\ 2 \in 1 .. Len(s) /\ 3 \in 1 .. Len(s)
    BY ByteOf
  <2>2. sum[1] = sum[1 - 1] + s[1] /\ sum[2] = sum[2 - 1] + s[2] /\ sum[3] = sum[3 - 1] + s[3]
    BY <1>1, <2>1
  <2>3. s[1] \in Nat /\ s[2] \in Nat /\ s[3] \in Nat
    BY <1>2, <2>1
  <2> QED
    BY <1>1, <2>2, <2>3
<1>4. Len(s) >= 4 => sum[4] = sum[3] + s[4] /\ s[4] \in Nat
  <2> SUFFICES ASSUME Len(s) >= 4 PROVE sum[4] = sum[3] + s[4] /\ s[4] \in Nat
    OBVIOUS
  <2>1. 4 \in 1 .. Len(s)
    BY ByteOf
  <2>2. sum[4] = sum[4 - 1] + s[4]
    BY <1>1, <2>1
  <2> QED
    BY <1>2, <2>1, <2>2
<1>5. Len(s) >= 5 => sum[5] = sum[4] + s[5] /\ s[5] \in Nat
  <2> SUFFICES ASSUME Len(s) >= 5 PROVE sum[5] = sum[4] + s[5] /\ s[5] \in Nat
    OBVIOUS
  <2>1. 5 \in 1 .. Len(s)
    BY ByteOf
  <2>2. sum[5] = sum[5 - 1] + s[5]
    BY <1>1, <2>1
  <2> QED
    BY <1>2, <2>1, <2>2
<1>6. Len(s) >= 6 => sum[6] = sum[5] + s[6] /\ s[6] \in Nat
  <2> SUFFICES ASSUME Len(s) >= 6 PROVE sum[6] = sum[5] + s[6] /\ s[6] \in Nat
    OBVIOUS
  <2>1. 6 \in 1 .. Len(s)
    BY ByteOf
  <2>2. sum[6] = sum[6 - 1] + s[6]
    BY <1>1, <2>1
  <2> QED
    BY <1>2, <2>1, <2>2
<1> DEFINE n == Len(s)
           t == Total(s)
<1>7. n \in Nat /\ t = sum[n]
  BY <1>1, ByteOf
<1> HIDE DEF n, t
<1>8. n = 3 => t = s[1] + s[2] + s[3]
  <2>1. n = 3 => t = sum[3]
    BY <1>7
  <2> QED
    BY <1>3, <2>1 DEF n
<1>9. n = 4 => t = s[1] + s[2] + s[3] + s[4]
  <2>1. n = 4 => t = sum[4]
    BY <1>7
  <2>2. n = 4 => sum[4] = sum[3] + s[4] /\ sum[3] = s[1] + s[2] + s[3]
    BY <1>3, <1>4 DEF n
  <2> QED
    BY <2>1, <2>2
<1>10. n = 5 => t = s[1] + s[2] + s[3] + s[4] + s[5]
  <2>1. n = 5 => t = sum[5]
    BY <1>7
  <2>2. n = 5 => sum[5] = sum[4] + s[5] /\ sum[4] = sum[3] + s[4] /\ sum[3] = s[1] + s[2] + s[3]
    BY <1>3, <1>4, <1>5 DEF n
  <2> QED
    BY <2>1, <2>2
<1>11. n = 6 => t = s[1] + s[2] + s[3] + s[4] + s[5] + s[6]
  <2>1. n = 6 => t = sum[6]
    BY <1>7
  <2>2. n = 6 => /\ sum[6] = sum[5] + s[6] /\ sum[5] = sum[4] + s[5] /\ sum[4] = sum[3] + s[4]
                 /\ sum[3] = s[1] + s[2] + s[3]
    BY <1>3, <1>4, <1>5, <1>6 DEF n
  <2> QED
    BY <2>1, <2>2
<1> QED
  BY <1>8, <1>9, <1>10, <1>11 DEF n, t

LEMMA ChangedByte ==
  ASSUME NEW f \in Bytes, NEW k \in 1 .. Len(f), NEW v \in Nat
  PROVE  /\ [f EXCEPT ![k] = v] \in Bytes /\ Len([f EXCEPT ![k] = v]) = Len(f) /\ [f EXCEPT ![k] = v][k] = v
         /\ \A j \in 1 .. Len(f) : j # k => [f EXCEPT ![k] = v][j] = f[j]
BY ExceptSeq, LenProperties DEF Bytes

\* What the invariants need of a fragment.
Heard(protocol, f, i) ==
  f \in Frag /\ (f.is # "cut" => Readable(protocol, f, i)) /\ Alone(protocol, f, i)

LEMMA FragmentParts ==
  ASSUME NEW x, NEW kinds, NEW imei
  PROVE  /\ Whole(x, kinds, imei).bytes = x /\ Whole(x, kinds, imei).is = "frame"
         /\ Whole(x, kinds, imei).kinds = kinds /\ Whole(x, kinds, imei).imei = imei
         /\ Noise(x).bytes = x /\ Noise(x).is = "noise" /\ Noise(x).kinds = <<>> /\ Noise(x).imei = 0
         /\ Cut(x).bytes = x /\ Cut(x).is = "cut" /\ Cut(x).kinds = <<>> /\ Cut(x).imei = 0
         /\ x \in Bytes /\ kinds \in Seq(Kinds) /\ imei \in Nat => Whole(x, kinds, imei) \in Frag
         /\ x \in Bytes => Noise(x) \in Frag /\ Cut(x) \in Frag
<1> DEFINE none == <<>>
<1>1. none \in Seq(Kinds)
  OBVIOUS
<1>2. Noise(x) = [bytes |-> x, is |-> "noise", kinds |-> none, imei |-> 0]
      /\ Cut(x) = [bytes |-> x, is |-> "cut", kinds |-> none, imei |-> 0]
  BY DEF Noise, Cut
<1> HIDE DEF none
<1>3. Noise(x).kinds = none /\ Cut(x).kinds = none
  BY <1>2
<1> QED
  BY <1>1, <1>2, <1>3 DEF Whole, Noise, Cut, Frag, none

\* A frame of one message that the decoder takes as a whole.
LEMMA FrameIsHeard ==
  ASSUME NEW protocol \in Protocol, NEW x \in Bytes, NEW kind \in Kinds, NEW imei \in Nat, NEW i \in Nat,
         NEW f, f = Whole(x, <<kind>>, imei), NEW j, j = IF imei # 0 THEN imei ELSE i,
         Iteration(protocol, x, i) = Take(Len(x), <<Message(kind, j)>>, j)
  PROVE  Heard(protocol, f, i)
<1> DEFINE kinds == <<kind>>
           messages == <<Message(kind, j)>>
           e == Iteration(protocol, x, i)
<1>1. kinds \in Seq(Kinds) /\ j \in Nat
  OBVIOUS
<1>2. messages \in Seq(Said)
  BY <1>1, OneMessage
<1>3. f.bytes = x /\ f.is = "frame" /\ f.kinds = kinds /\ f.imei = imei /\ f \in Frag
  <2> HIDE DEF kinds
  <2>1. f = Whole(x, kinds, imei)
    BY DEF kinds
  <2> QED
    BY <1>1, <2>1, FragmentParts
<1>4. Named(f, i) = j
  BY <1>3 DEF Named
<1>5. MessagesOf(f, i) = messages
  BY <1>3, <1>4, OneKind
<1> HIDE DEF messages, kinds
<1>6. e.go = "next" /\ e.n = Len(x) /\ e.messages = messages /\ e.imei = j
  <2>1. e = Take(Len(x), messages, j)
    BY DEF messages
  <2> HIDE DEF e
  <2> QED
    BY <2>1, Fields
<1>7. Legibly(protocol, x, e.messages, i, e.imei)
  BY <1>6, TakenWhole
<1> HIDE DEF e
<1>8. Readable(protocol, f, i)
  BY <1>3, <1>4, <1>5, <1>6, <1>7 DEF Readable
<1>9. Alone(protocol, f, i)
  BY <1>1, <1>2, <1>3, <1>4, <1>5, <1>8, ReadableAlone
<1> QED
  BY <1>3, <1>8, <1>9 DEF Heard

LEMMA NoiseIsHeard ==
  ASSUME NEW protocol \in Protocol, NEW x \in Bytes, NEW i \in Nat, NEW f, f = Noise(x), Legibly(protocol, x, <<>>, i, i)
  PROVE  Heard(protocol, f, i)
<1> DEFINE none == <<>>
<1>1. f.bytes = x /\ f.is = "noise" /\ f.kinds = <<>> /\ f.imei = 0 /\ f \in Frag
  BY FragmentParts
<1>2. MessagesOf(f, i) = none /\ Named(f, i) = i
  BY <1>1, NoKinds
<1>3. none \in Seq(Said)
  BY NoMessages
<1> HIDE DEF none
<1>4. Readable(protocol, f, i)
  BY <1>1, <1>2 DEF Readable, none
<1>5. Alone(protocol, f, i)
  BY <1>1, <1>2, <1>3, <1>4, ReadableAlone
<1> QED
  BY <1>1, <1>4, <1>5 DEF Heard

\* Noise consumed at once.
LEMMA SkippedIsHeard ==
  ASSUME NEW protocol \in Protocol, NEW x \in Bytes, NEW i \in Nat, NEW f, f = Noise(x),
         Iteration(protocol, x, i) = Skip(Len(x), i)
  PROVE  Heard(protocol, f, i)
<1> DEFINE e == Iteration(protocol, x, i)
<1>1. Len(x) \in Nat
  BY ByteOf
<1>2. e.go = "next" /\ e.n = Len(x) /\ e.messages = <<>> /\ e.imei = i
  <2> HIDE DEF e
  <2>1. e = Skip(Len(x), i)
    BY DEF e
  <2> QED
    BY <1>1, <2>1, PlainOutcomes
<1>3. Legibly(protocol, x, e.messages, i, e.imei)
  BY <1>2, TakenWhole
<1> HIDE DEF e
<1> QED
  BY <1>2, <1>3, NoiseIsHeard

LEMMA CutIsHeard ==
  ASSUME NEW protocol \in Protocol, NEW x \in Bytes, NEW i \in Nat, NEW f, f = Cut(x), Iteration(protocol, x, i).go # "next"
  PROVE  Heard(protocol, f, i)
<1> DEFINE e == Iteration(protocol, x, i)
<1>1. f.bytes = x /\ f.is = "cut" /\ f.kinds = <<>> /\ f.imei = 0 /\ f \in Frag
  BY FragmentParts
<1>2. MessagesOf(f, i) = <<>> /\ Named(f, i) = i
  BY <1>1, NoKinds
<1>3. e.go # "next" => e.messages = <<>> /\ e.imei = i
  BY IterationParts
<1>4. decode(protocol, x, i) = e
  BY DecodeUnrolls
<1> HIDE DEF e
<1>5. e.messages = <<>> /\ e.imei = i
  BY <1>3 DEF e
<1>6. Alone(protocol, f, i)
  BY <1>1, <1>2, <1>4, <1>5 DEF Alone
<1> QED
  BY <1>1, <1>6 DEF Heard

LEMMA Gt06Damaged ==
  ASSUME NEW i \in Nat
  PROVE  LET b == [Gt06Frame(18, <<5, 5>>) EXCEPT ![5] = 6]
         IN  b \in Bytes /\ Legibly("gt06", b, <<>>, i, i)
<1> DEFINE info == <<5, 5>>
           f == Gt06Frame(18, info)
           b == [f EXCEPT ![5] = 6]
           r == From(b, 2)
           e == Skip(1, i)
<1>1. info \in Bytes /\ Len(info) = 2 /\ info[1] = 5 /\ info[2] = 5
  BY DEF Bytes
<1> HIDE DEF info
<1>2. Gt06Layout(f, 18, info, 2)
  BY <1>1, Gt06FrameIs
<1>3. b = [Gt06Frame(18, <<5, 5>>) EXCEPT ![5] = 6]
  BY DEF info
<1> HIDE DEF f
<1>4. f \in Bytes /\ Len(f) = 12 /\ f[1] = 120 /\ f[2] = 120 /\ f[3] = 7 /\ f[4] = 18 /\ f[5] = 5 /\ f[6] = 5
      /\ f[7] = 0 /\ f[8] = 1 /\ f[11] = 13 /\ f[12] = 10
  <2>1. f[4 + 1] = 5 /\ f[4 + 2] = 5
    BY <1>1, <1>2 DEF Gt06Layout
  <2> QED
    BY <1>2, <2>1 DEF Gt06Layout
<1>5. f[9] = crc16(SubSeq(f, 3, 8)) \div 256 /\ f[10] = crc16(SubSeq(f, 3, 8)) % 256
  BY <1>2 DEF Gt06Layout
<1>6. crc16(SubSeq(f, 3, 8)) = 36
  <2> DEFINE s == SubSeq(f, 3, 8)
  <2>0. 3 \in 1 .. Len(f) /\ 8 \in 0 .. Len(f) /\ 3 <= 8 + 1
    BY <1>4
  <2>1. s \in Bytes /\ Len(s) = 8 + 1 - 3 /\ \A j \in 1 .. 8 + 1 - 3 : s[j] = f[3 + j - 1]
    BY <1>4, <2>0, SliceFacts
  <2> HIDE DEF s
  <2>2. s[1] = f[3 + 1 - 1] /\ s[2] = f[3 + 2 - 1] /\ s[3] = f[3 + 3 - 1] /\ s[4] = f[3 + 4 - 1] /\ s[5] = f[3 + 5 - 1] /\ s[6] = f[3 + 6 - 1]
    BY <2>1
  <2>3. Total(s) = s[1] + s[2] + s[3] + s[4] + s[5] + s[6]
    BY <2>1, Totals
  <2>4. Total(s) = 36
    BY <1>4, <2>2, <2>3
  <2>5. 36 % 65536 = 36
    OBVIOUS
  <2> QED
    BY <2>4, <2>5 DEF crc16, s
<1>7. f[9] = 0 /\ f[10] = 36
  <2>1. 36 \div 256 = 0 /\ 36 % 256 = 36
    OBVIOUS
  <2> QED
    BY <1>5, <1>6, <2>1
<1>8. b \in Bytes /\ Len(b) = 12 /\ b[5] = 6 /\ \A j \in 1 .. 12 : j # 5 => b[j] = f[j]
  <2>1. 5 \in 1 .. Len(f) /\ 6 \in Nat
    BY <1>4
  <2>2. f \in Bytes
    BY <1>4
  <2>3. b \in Bytes /\ Len(b) = Len(f) /\ b[5] = 6 /\ \A j \in 1 .. Len(f) : j # 5 => b[j] = f[j]
    BY <2>1, <2>2, ChangedByte
  <2> HIDE DEF b
  <2> QED
    BY <1>4, <2>3
<1> HIDE DEF b
<1>9. b[1] = 120 /\ b[2] = 120 /\ b[3] = 7 /\ b[4] = 18 /\ b[6] = 5 /\ b[7] = 0 /\ b[8] = 1
      /\ b[9] = 0 /\ b[10] = 36 /\ b[11] = 13 /\ b[12] = 10
  BY <1>4, <1>7, <1>8
<1>10. crc16(SubSeq(b, 3, 8)) = 37
  <2> DEFINE s == SubSeq(b, 3, 8)
  <2>0. 3 \in 1 .. Len(b) /\ 8 \in 0 .. Len(b) /\ 3 <= 8 + 1
    BY <1>8
  <2>1. s \in Bytes /\ Len(s) = 8 + 1 - 3 /\ \A j \in 1 .. 8 + 1 - 3 : s[j] = b[3 + j - 1]
    BY <1>8, <2>0, SliceFacts
  <2> HIDE DEF s
  <2>2. s[1] = b[3 + 1 - 1] /\ s[2] = b[3 + 2 - 1] /\ s[3] = b[3 + 3 - 1] /\ s[4] = b[3 + 4 - 1] /\ s[5] = b[3 + 5 - 1] /\ s[6] = b[3 + 6 - 1]
    BY <2>1
  <2>3. Total(s) = s[1] + s[2] + s[3] + s[4] + s[5] + s[6]
    BY <2>1, Totals
  <2>4. Total(s) = 37
    BY <1>8, <1>9, <2>2, <2>3
  <2>5. 37 % 65536 = 37
    OBVIOUS
  <2> QED
    BY <2>4, <2>5 DEF crc16, s
<1>11. Iteration("gt06", b, i) = e
  <2>1. Gt06Iteration(b, i) =
          IF b[b[3] + 2] * 256 + b[b[3] + 3] # crc16(SubSeq(b, 3, b[3] + 1)) THEN Skip(1, i)
          ELSE Gt06ParseFrame(b[4], SubSeq(b, 5, b[3] - 1), b[3] + 5, i)
    <3>1. Len(b) >= 5 /\ b[1] = 120 /\ b[2] = 120 /\ Len(b) >= b[3] + 5
      <4>1. b[3] + 5 = 12
        BY <1>9
      <4> QED
        BY <1>8, <1>9, <4>1
    <3> QED
      BY <1>8, <3>1, Gt06Cases
  <2>2. b[3] + 2 = 9 /\ b[3] + 3 = 10 /\ b[3] + 1 = 8
    BY <1>9
  <2>3. b[9] * 256 + b[10] # crc16(SubSeq(b, 3, 8))
    BY <1>9, <1>10
  <2>4. Gt06Iteration(b, i) = Skip(1, i)
    BY <2>1, <2>2, <2>3
  <2> QED
    BY <2>4 DEF Iteration
<1>12. e.go = "next" /\ e.n = 1 /\ e.messages = <<>> /\ e.imei = i
  BY Fields
<1>13. Dull(r)
  <2>1. r \in Bytes /\ Len(r) = 11 /\ \A j \in 1 .. 11 : r[j] = b[1 + j]
    <3>1. 1 \in 0 .. Len(b) /\ 1 + 1 = 2 /\ Len(b) - 1 = 11
      BY <1>8
    <3>2. From(b, 1 + 1) \in Bytes /\ Len(From(b, 1 + 1)) = Len(b) - 1 /\ \A j \in 1 .. Len(b) - 1 : From(b, 1 + 1)[j] = b[1 + j]
      BY <1>8, <3>1, FromFacts
    <3> QED
      BY <3>1, <3>2
  <2> HIDE DEF r
  <2>2. r[1] = b[1 + 1] /\ r[2] = b[1 + 2] /\ r[3] = b[1 + 3] /\ r[4] = b[1 + 4] /\ r[5] = b[1 + 5] /\ r[6] = b[1 + 6]
        /\ r[7] = b[1 + 7] /\ r[8] = b[1 + 8] /\ r[9] = b[1 + 9] /\ r[10] = b[1 + 10] /\ r[11] = b[1 + 11]
    BY <2>1
  <2>3. r[2] = 7 /\ r[3] = 18 /\ r[4] = 6 /\ r[5] = 5 /\ r[6] = 0 /\ r[7] = 1 /\ r[8] = 0 /\ r[9] = 36 /\ r[10] = 13 /\ r[11] = 10
    BY <1>8, <1>9, <2>2
  <2>4. \A j \in 2 .. 11 : r[j] # 120
    BY <2>3
  <2>5. \A j \in 1 .. 11 : r[j] = 120 => j + 1 <= 11 /\ r[j + 1] # 120
    <3> SUFFICES ASSUME NEW j \in 1 .. 11, r[j] = 120 PROVE j + 1 <= 11 /\ r[j + 1] # 120
      OBVIOUS
    <3>1. j = 1
      BY <2>4
    <3> QED
      BY <2>3, <3>1
  <2> QED
    BY <2>1, <2>5 DEF Dull
<1>14. Legibly("gt06", From(b, e.n + 1), <<>>, e.imei, i)
  <2>1. e.n + 1 = 2
    BY <1>12
  <2> QED
    BY <1>12, <1>13, <2>1, Gt06DullIsNoise
<1> HIDE DEF e
<1>15. Legibly("gt06", b, <<>>, i, i)
  BY <1>8, <1>11, <1>12, <1>14, SkippedInto DEF Protocol
<1> QED
  BY <1>3, <1>8, <1>15 DEF b

LEMMA Gt06Fragments ==
  ASSUME NEW f \in Fragment["gt06"], NEW i \in Nat
  PROVE  Heard("gt06", f, i)
<1>0. "gt06" \in Protocol /\ \A b : Iteration("gt06", b, i) = Gt06Iteration(b, i)
  BY DEF Protocol, Iteration
<1>1. ASSUME NEW protocol \in Nat, NEW info \in Bytes
      PROVE  /\ Gt06Frame(protocol, info) \in Bytes /\ Len(Gt06Frame(protocol, info)) = Len(info) + 10
             /\ Iteration("gt06", Gt06Frame(protocol, info), i) = Gt06ParseFrame(protocol, info, Len(info) + 10, i)
  <2>1. Gt06Layout(Gt06Frame(protocol, info), protocol, info, Len(info))
    BY Gt06FrameIs
  <2> QED
    BY <1>0, <2>1, Gt06RoundTrip DEF Gt06Layout
<1>2. ASSUME NEW a \in {1, 3}, f = Whole(Gt06Frame(1, <<a>>), <<"login">>, a) PROVE Heard("gt06", f, i)
  <2> DEFINE info == <<a>>
             x == Gt06Frame(1, info)
  <2>1. info \in Bytes /\ Len(info) = 1 /\ info[1] = a /\ info # <<>> /\ a \in Nat /\ a # 0
    BY DEF Bytes
  <2> HIDE DEF info
  <2>2. x \in Bytes /\ Len(x) = 11 /\ Iteration("gt06", x, i) = Gt06ParseFrame(1, info, 11, i)
    <3>1. /\ x \in Bytes /\ Len(x) = Len(info) + 10
          /\ Iteration("gt06", x, i) = Gt06ParseFrame(1, info, Len(info) + 10, i)
      BY <1>1, <2>1
    <3>2. Len(info) + 10 = 11
      BY <2>1
    <3> QED
      BY <3>1, <3>2
  <2>3. Gt06ParseFrame(1, info, 11, i) = Take(11, <<Message("login", a)>>, a)
    BY <2>1 DEF Gt06ParseFrame
  <2>4. f = Whole(x, <<"login">>, a)
    BY <1>2 DEF info
  <2> HIDE DEF x
  <2>5. Iteration("gt06", x, i) = Take(Len(x), <<Message("login", a)>>, a)
    BY <2>2, <2>3
  <2> QED
    BY <1>0, <2>1, <2>2, <2>4, <2>5, FrameIsHeard DEF Kinds
<1>3. ASSUME f = Whole(Gt06Frame(18, <<5, 5>>), <<"location">>, 0) PROVE Heard("gt06", f, i)
  <2> DEFINE info == <<5, 5>>
             x == Gt06Frame(18, info)
  <2>1. info \in Bytes /\ Len(info) = 2
    BY DEF Bytes
  <2> HIDE DEF info
  <2>2. x \in Bytes /\ Len(x) = 12 /\ Iteration("gt06", x, i) = Gt06ParseFrame(18, info, 12, i)
    <3>1. /\ x \in Bytes /\ Len(x) = Len(info) + 10
          /\ Iteration("gt06", x, i) = Gt06ParseFrame(18, info, Len(info) + 10, i)
      BY <1>1, <2>1
    <3>2. Len(info) + 10 = 12
      BY <2>1
    <3> QED
      BY <3>1, <3>2
  <2>3. Gt06ParseFrame(18, info, 12, i) = Take(12, <<Message("location", i)>>, i)
    BY <2>1 DEF Gt06ParseFrame
  <2>4. f = Whole(x, <<"location">>, 0)
    BY <1>3 DEF info
  <2> HIDE DEF x
  <2>5. Iteration("gt06", x, i) = Take(Len(x), <<Message("location", i)>>, i)
    BY <2>2, <2>3
  <2> QED
    BY <1>0, <2>2, <2>4, <2>5, FrameIsHeard DEF Kinds
<1>4. ASSUME f = Whole(Gt06Frame(19, << 5 >>), <<"heartbeat">>, 0) PROVE Heard("gt06", f, i)
  <2> DEFINE info == <<5>>
             x == Gt06Frame(19, info)
  <2>1. info \in Bytes /\ Len(info) = 1
    BY DEF Bytes
  <2> HIDE DEF info
  <2>2. x \in Bytes /\ Len(x) = 11 /\ Iteration("gt06", x, i) = Gt06ParseFrame(19, info, 11, i)
    <3>1. /\ x \in Bytes /\ Len(x) = Len(info) + 10
          /\ Iteration("gt06", x, i) = Gt06ParseFrame(19, info, Len(info) + 10, i)
      BY <1>1, <2>1
    <3>2. Len(info) + 10 = 11
      BY <2>1
    <3> QED
      BY <3>1, <3>2
  <2>3. Gt06ParseFrame(19, info, 11, i) = Take(11, <<Message("heartbeat", i)>>, i)
    BY <2>1 DEF Gt06ParseFrame
  <2>4. f = Whole(x, <<"heartbeat">>, 0)
    BY <1>4 DEF info
  <2> HIDE DEF x
  <2>5. Iteration("gt06", x, i) = Take(Len(x), <<Message("heartbeat", i)>>, i)
    BY <2>2, <2>3
  <2> QED
    BY <1>0, <2>2, <2>4, <2>5, FrameIsHeard DEF Kinds
<1>5. ASSUME f = Noise(<< 5 >>) PROVE Heard("gt06", f, i)
  <2> DEFINE x == <<5>>
  <2>1. x \in Bytes /\ Len(x) = 1 /\ x[1] # 120
    BY DEF Bytes
  <2>2. f = Noise(x)
    BY <1>5
  <2> HIDE DEF x
  <2>3. Dull(x)
    BY <2>1 DEF Dull
  <2>4. Legibly("gt06", x, <<>>, i, i)
    BY <2>3, Gt06DullIsNoise
  <2> QED
    BY <1>0, <2>1, <2>2, <2>4, NoiseIsHeard
<1>6. ASSUME f = Noise([Gt06Frame(18, <<5, 5>>) EXCEPT ![5] = 6]) PROVE Heard("gt06", f, i)
  <2> DEFINE x == [Gt06Frame(18, <<5, 5>>) EXCEPT ![5] = 6]
  <2>1. x \in Bytes /\ Legibly("gt06", x, <<>>, i, i)
    BY Gt06Damaged
  <2>2. f = Noise(x)
    BY <1>6
  <2> HIDE DEF x
  <2> QED
    BY <1>0, <2>1, <2>2, NoiseIsHeard
<1>7. ASSUME f = Cut(<< 120 >>) PROVE Heard("gt06", f, i)
  <2> DEFINE x == <<120>>
  <2>1. x \in Bytes /\ Len(x) < 5
    BY DEF Bytes
  <2>2. f = Cut(x)
    BY <1>7
  <2> HIDE DEF x
  <2>3. Iteration("gt06", x, i) = Stop(0, i) /\ Stop(0, i).go # "next"
    <3>1. Gt06Iteration(x, i) = Stop(0, i)
      BY <2>1, Gt06Cases
    <3>2. Stop(0, i).go = "stop"
      BY Fields
    <3> QED
      BY <1>0, <3>1, <3>2
  <2>4. Iteration("gt06", x, i).go # "next"
    BY <2>3
  <2> QED
    BY <1>0, <2>1, <2>2, <2>4, CutIsHeard
<1>8. ASSUME f = Cut(Gt06Frame(18, << 5 >>)) PROVE Heard("gt06", f, i)
  <2> DEFINE info == <<5>>
             x == Gt06Frame(18, info)
  <2>1. info \in Bytes /\ Len(info) = 1
    BY DEF Bytes
  <2> HIDE DEF info
  <2>2. x \in Bytes /\ Iteration("gt06", x, i) = Gt06ParseFrame(18, info, 11, i)
    <3>1. /\ x \in Bytes /\ Len(x) = Len(info) + 10
          /\ Iteration("gt06", x, i) = Gt06ParseFrame(18, info, Len(info) + 10, i)
      BY <1>1, <2>1
    <3>2. Len(info) + 10 = 11
      BY <2>1
    <3> QED
      BY <3>1, <3>2
  <2>3. Gt06ParseFrame(18, info, 11, i) = Throw(i) /\ Throw(i).go # "next"
    BY <2>1, Fields DEF Gt06ParseFrame
  <2>4. f = Cut(x)
    BY <1>8 DEF info
  <2> HIDE DEF x
  <2>5. Iteration("gt06", x, i).go # "next"
    BY <2>2, <2>3
  <2> QED
    BY <1>0, <2>2, <2>4, <2>5, CutIsHeard
<1> QED
  BY <1>2, <1>3, <1>4, <1>5, <1>6, <1>7, <1>8, Zenon DEF Fragment

\* Noise that an iteration consumes while it waits.
LEMMA WaitedIsNoise ==
  ASSUME NEW protocol \in Protocol, NEW x \in Bytes, NEW i \in Nat, Iteration(protocol, x, i) = Stop(Len(x), i),
         ~DropsMarker(<<>>, protocol, x)
  PROVE  Legibly(protocol, x, <<>>, i, i)
<1> DEFINE e == Iteration(protocol, x, i)
           none == <<>>
<1>1. Len(x) \in Nat
  BY ByteOf
<1>2. e.go = "stop" /\ e.n = Len(x) /\ e.messages = none /\ e.imei = i /\ e \in Outcomes
  <2> HIDE DEF e
  <2>1. e = Stop(Len(x), i)
    BY DEF e
  <2> QED
    BY <1>1, <2>1, PlainOutcomes
<1>3. decode(protocol, x, i) = e
  BY <1>2, DecodeUnrolls
<1>4. From(x, e.n + 1) = none
  BY <1>2, FromEnds
<1>5. none \in Seq(Said)
  BY NoMessages
<1>6. ASSUME NEW y \in Bytes
      PROVE  /\ decode(protocol, x \o y, i).messages = none \o decode(protocol, y, i).messages
             /\ SameEnd(decode(protocol, x \o y, i), decode(protocol, y, i))
  <2> DEFINE d == decode(protocol, x \o y, i)
             f == decode(protocol, y, i)
  <2>1. Alike(protocol, d, After(e, decode(protocol, none \o y, i)))
    BY <1>2, <1>3, <1>4, CutsResume DEF Resumes
  <2>2. none \o y = y
    BY ConcatEmptySeq DEF Bytes
  <2>3. f \in Outcomes
    BY DecodeParts
  <2>4. Alike(protocol, d, After(e, f))
    BY <2>1, <2>2
  <2> HIDE DEF d, e, f
  <2>5. After(e, f).messages = e.messages \o f.messages /\ After(e, f).go = f.go /\ After(e, f).imei = f.imei
    BY <2>3, AfterIs
  <2>6. d.messages = e.messages \o f.messages /\ d.go = f.go /\ d.imei = f.imei
    BY <2>4, <2>5 DEF Alike
  <2> QED
    BY <1>2, <2>6 DEF SameEnd, d, f
<1>7. ASSUME NEW m \in 0 .. Len(x) - 1 PROVE decode(protocol, SubSeq(x, 1, m), i).messages = none
  <2> DEFINE p == SubSeq(x, 1, m)
             y == From(x, m + 1)
             f == Iteration(protocol, p, i)
  <2>1. m \in 0 .. Len(x)
    BY <1>1
  <2>2. p \in Bytes /\ y \in Bytes /\ p \o y = x
    BY <2>1, PrefixFacts
  <2> HIDE DEF p, y
  <2>3. f.go # "stop" => Iteration(protocol, p \o y, i) = f
    BY <2>2, DecodersAreSteady DEF Steady
  <2>4. f.go = "stop"
    BY <1>2, <2>2, <2>3
  <2>5. f.go # "next" => f.messages = none
    BY <2>2, IterationParts
  <2>6. decode(protocol, p, i) = f
    BY <2>2, <2>4, DecodeUnrolls
  <2> QED
    BY <2>4, <2>5, <2>6 DEF p
<1> QED
  BY <1>6, <1>7 DEF Legibly

LEMMA WaitedIsHeard ==
  ASSUME NEW protocol \in Protocol, NEW x \in Bytes, NEW i \in Nat, NEW f, f = Noise(x),
         Iteration(protocol, x, i) = Stop(Len(x), i), ~DropsMarker(<<>>, protocol, x)
  PROVE  Heard(protocol, f, i)
<1>1. Legibly(protocol, x, <<>>, i, i)
  BY WaitedIsNoise
<1> QED
  BY <1>1, NoiseIsHeard

LEMMA StoppedIsHeard ==
  ASSUME NEW protocol \in Protocol, NEW x \in Bytes, NEW i \in Nat, NEW n, NEW f, f = Cut(x),
         Iteration(protocol, x, i) = Stop(n, i)
  PROVE  Heard(protocol, f, i)
<1>1. Stop(n, i).go = "stop"
  BY Fields
<1>2. Iteration(protocol, x, i).go # "next"
  BY <1>1
<1> QED
  BY <1>2, CutIsHeard

-----------------------------------------------------------------------------
(* H02 and Queclink fragments. *)

\* A whole frame, half a frame, and noise.
LEMMA DelimitedWhole ==
  ASSUME NEW x \in Bytes, NEW first \in Nat, NEW last \in Nat, first # last, Len(x) >= 2,
         x[1] = first, x[Len(x)] = last, \A j \in 2 .. Len(x) - 1 : x[j] # last
  PROVE  /\ Delimited(x, first, last).whole /\ Delimited(x, first, last).n = Len(x)
         /\ Delimited(x, first, last).parts \in Bytes /\ Len(Delimited(x, first, last).parts) = Len(x) - 2
         /\ \A j \in 1 .. Len(x) - 2 : Delimited(x, first, last).parts[j] = x[1 + j]
<1> DEFINE n == Len(x)
           f == Delimited(x, first, last)
           s == SubSeq(x, 2, n - 1)
<1>0. n \in Nat /\ n >= 2 /\ x[n] = last /\ \A j \in 2 .. n - 1 : x[j] # last
  BY ByteOf
<1>1. indexOf(x, first, 1) = 1
  <2>1. 1 \in 1 .. Len(x) /\ 1 \in Nat \ {0} /\ \A j \in 1 .. 1 - 1 : x[j] # first
    BY <1>0
  <2> QED
    BY <2>1, IndexIs
<1>2. indexOf(x, last, 1 + 1) = n
  <2>1. n \in 2 .. Len(x) /\ 2 \in Nat \ {0} /\ 1 + 1 = 2
    BY <1>0
  <2>2. indexOf(x, last, 2) = n
    BY <2>1, IndexIs
  <2> QED
    BY <2>1, <2>2
<1>3. f = [whole |-> TRUE, n |-> n, parts |-> s]
  <2>1. n # 0 /\ 1 # 0 /\ 1 + 1 = 2
    BY <1>0
  <2> QED
    BY <1>1, <1>2, <2>1 DEF Delimited
<1>4. s \in Bytes /\ Len(s) = n - 1 + 1 - 2 /\ \A j \in 1 .. n - 1 + 1 - 2 : s[j] = x[2 + j - 1]
  <2>1. 2 \in 1 .. Len(x) /\ n - 1 \in 0 .. Len(x) /\ 2 <= n - 1 + 1
    BY <1>0
  <2> QED
    BY <2>1, SliceFacts
<1> HIDE DEF s, f, n
<1>5. Len(s) = n - 2 /\ \A j \in 1 .. n - 2 : s[j] = x[1 + j]
  <2>1. n - 1 + 1 - 2 = n - 2 /\ \A j \in 1 .. n - 2 : 2 + j - 1 = 1 + j
    BY <1>0
  <2> QED
    BY <1>4, <2>1
<1> QED
  BY <1>3, <1>4, <1>5 DEF f, n

LEMMA DelimitedHalf ==
  ASSUME NEW x \in Bytes, NEW first \in Nat, NEW last \in Nat, Len(x) >= 1, x[1] = first, \A j \in 2 .. Len(x) : x[j] # last
  PROVE  ~Delimited(x, first, last).whole /\ Delimited(x, first, last).n = 0
<1> DEFINE none == <<>>
           f == Delimited(x, first, last)
<1>0. Len(x) \in Nat
  BY ByteOf
<1>1. indexOf(x, first, 1) = 1
  <2>1. 1 \in 1 .. Len(x) /\ 1 \in Nat \ {0} /\ \A j \in 1 .. 1 - 1 : x[j] # first
    BY <1>0
  <2> QED
    BY <2>1, IndexIs
<1>2. indexOf(x, last, 1 + 1) = 0
  <2>1. 2 \in Nat \ {0} /\ 1 + 1 = 2
    BY <1>0
  <2>2. indexOf(x, last, 2) = 0
    BY <2>1, IndexIs
  <2> QED
    BY <2>1, <2>2
<1>3. f = [whole |-> FALSE, n |-> 1 - 1, parts |-> none]
  <2>1. 1 # 0
    OBVIOUS
  <2> QED
    BY <1>1, <1>2, <2>1 DEF Delimited
<1> HIDE DEF none, f
<1> QED
  BY <1>3 DEF f

LEMMA DelimitedNoise ==
  ASSUME NEW x \in Bytes, NEW first \in Nat, NEW last \in Nat, \A j \in 1 .. Len(x) : x[j] # first
  PROVE  ~Delimited(x, first, last).whole /\ Delimited(x, first, last).n = Len(x)
<1> DEFINE none == <<>>
           n == Len(x)
           f == Delimited(x, first, last)
<1>1. indexOf(x, first, 1) = 0
  BY IndexIs
<1>2. f = [whole |-> FALSE, n |-> n, parts |-> none]
  BY <1>1 DEF Delimited
<1> HIDE DEF none, f, n
<1> QED
  BY <1>2 DEF f, n

\* What the H02 and the Queclink frames' delimiters cut out.
LEMMA H02Delimits ==
  ASSUME NEW x \in Bytes
  PROVE  /\ Len(x) >= 2 /\ x[1] = 42 /\ x[Len(x)] = 35 /\ (\A j \in 2 .. Len(x) - 1 : x[j] # 35) =>
              /\ Delimited(x, 42, 35).whole /\ Delimited(x, 42, 35).n = Len(x)
              /\ Delimited(x, 42, 35).parts \in Bytes /\ Len(Delimited(x, 42, 35).parts) = Len(x) - 2
              /\ \A j \in 1 .. Len(x) - 2 : Delimited(x, 42, 35).parts[j] = x[1 + j]
         /\ (\A j \in 1 .. Len(x) : x[j] # 42) =>
              ~Delimited(x, 42, 35).whole /\ Delimited(x, 42, 35).n = Len(x)
         /\ Len(x) >= 1 /\ x[1] = 42 /\ (\A j \in 2 .. Len(x) : x[j] # 35) =>
              ~Delimited(x, 42, 35).whole /\ Delimited(x, 42, 35).n = 0
<1> DEFINE first == 42
           last == 35
<1>1. first \in Nat /\ last \in Nat /\ first # last
  OBVIOUS
<1> HIDE DEF first, last
<1>2. ASSUME Len(x) >= 2, x[1] = first, x[Len(x)] = last, \A j \in 2 .. Len(x) - 1 : x[j] # last
      PROVE  /\ Delimited(x, first, last).whole /\ Delimited(x, first, last).n = Len(x)
             /\ Delimited(x, first, last).parts \in Bytes /\ Len(Delimited(x, first, last).parts) = Len(x) - 2
             /\ \A j \in 1 .. Len(x) - 2 : Delimited(x, first, last).parts[j] = x[1 + j]
  BY <1>1, <1>2, DelimitedWhole
<1>3. ASSUME \A j \in 1 .. Len(x) : x[j] # first
      PROVE  ~Delimited(x, first, last).whole /\ Delimited(x, first, last).n = Len(x)
  BY <1>1, <1>3, DelimitedNoise
<1>4. ASSUME Len(x) >= 1, x[1] = first, \A j \in 2 .. Len(x) : x[j] # last
      PROVE  ~Delimited(x, first, last).whole /\ Delimited(x, first, last).n = 0
  BY <1>1, <1>4, DelimitedHalf
<1> QED
  BY <1>2, <1>3, <1>4 DEF first, last

LEMMA QueclinkDelimits ==
  ASSUME NEW x \in Bytes
  PROVE  /\ Len(x) >= 2 /\ x[1] = 43 /\ x[Len(x)] = 36 /\ (\A j \in 2 .. Len(x) - 1 : x[j] # 36) =>
              /\ Delimited(x, 43, 36).whole /\ Delimited(x, 43, 36).n = Len(x)
              /\ Delimited(x, 43, 36).parts \in Bytes /\ Len(Delimited(x, 43, 36).parts) = Len(x) - 2
              /\ \A j \in 1 .. Len(x) - 2 : Delimited(x, 43, 36).parts[j] = x[1 + j]
         /\ (\A j \in 1 .. Len(x) : x[j] # 43) =>
              ~Delimited(x, 43, 36).whole /\ Delimited(x, 43, 36).n = Len(x)
         /\ Len(x) >= 1 /\ x[1] = 43 /\ (\A j \in 2 .. Len(x) : x[j] # 36) =>
              ~Delimited(x, 43, 36).whole /\ Delimited(x, 43, 36).n = 0
<1> DEFINE first == 43
           last == 36
<1>1. first \in Nat /\ last \in Nat /\ first # last
  OBVIOUS
<1> HIDE DEF first, last
<1>2. ASSUME Len(x) >= 2, x[1] = first, x[Len(x)] = last, \A j \in 2 .. Len(x) - 1 : x[j] # last
      PROVE  /\ Delimited(x, first, last).whole /\ Delimited(x, first, last).n = Len(x)
             /\ Delimited(x, first, last).parts \in Bytes /\ Len(Delimited(x, first, last).parts) = Len(x) - 2
             /\ \A j \in 1 .. Len(x) - 2 : Delimited(x, first, last).parts[j] = x[1 + j]
  BY <1>1, <1>2, DelimitedWhole
<1>3. ASSUME \A j \in 1 .. Len(x) : x[j] # first
      PROVE  ~Delimited(x, first, last).whole /\ Delimited(x, first, last).n = Len(x)
  BY <1>1, <1>3, DelimitedNoise
<1>4. ASSUME Len(x) >= 1, x[1] = first, \A j \in 2 .. Len(x) : x[j] # last
      PROVE  ~Delimited(x, first, last).whole /\ Delimited(x, first, last).n = 0
  BY <1>1, <1>4, DelimitedHalf
<1> QED
  BY <1>2, <1>3, <1>4 DEF first, last

LEMMA H02Cases ==
  ASSUME NEW x \in Bytes, NEW i
  PROVE  LET f == Delimited(x, 42, 35) IN
         /\ ~f.whole => Iteration("h02", x, i) = Stop(f.n, i)
         /\ f.whole /\ Len(f.parts) >= 3 /\ f.parts[1] = HQ =>
              Iteration("h02", x, i) = Take(f.n, <<Message(KindOf(f.parts[3]), f.parts[2])>>, f.parts[2])
         /\ f.whole /\ ~(Len(f.parts) >= 3 /\ f.parts[1] = HQ) => Iteration("h02", x, i) = Skip(f.n, i)
<1> DEFINE f == Delimited(x, 42, 35)
<1>1. f.whole \in BOOLEAN
  BY DelimitedFacts
<1>2. Iteration("h02", x, i) = H02Iteration(x, i)
  BY DEF Iteration
<1> QED
  BY <1>1, <1>2 DEF H02Iteration

LEMMA H02Fragments ==
  ASSUME NEW f \in Fragment["h02"], NEW i \in Nat
  PROVE  Heard("h02", f, i)
<1>0. "h02" \in Protocol /\ 42 # 35 /\ 42 \in Nat /\ 35 \in Nat
  BY DEF Protocol
<1>2. ASSUME NEW a \in {1, 3}, f = Whole(encodeH02Location(a), <<"location">>, a) PROVE Heard("h02", f, i)
  <2> DEFINE x == <<42, HQ, a, LOC, 35>>
             d == Delimited(x, 42, 35)
             p == d.parts
             e == Iteration("h02", x, i)
  <2>1. x \in Bytes /\ Len(x) = 5 /\ x[1] = 42 /\ x[2] = HQ /\ x[3] = a /\ x[4] = LOC /\ x[5] = 35 /\ a \in Nat /\ a # 0
    BY DEF Bytes, HQ, LOC
  <2>2. f = Whole(x, <<"location">>, a)
    BY <1>2 DEF encodeH02Location
  <2> HIDE DEF x
  <2>3. \A j \in 2 .. 5 - 1 : x[j] # 35
    BY <2>1 DEF HQ, LOC
  <2>4. d.whole /\ d.n = Len(x) /\ p \in Bytes /\ Len(p) = Len(x) - 2 /\ \A j \in 1 .. Len(x) - 2 : p[j] = x[1 + j]
    <3>1. Len(x) >= 2 /\ x[1] = 42 /\ x[Len(x)] = 35 /\ \A j \in 2 .. Len(x) - 1 : x[j] # 35
      BY <2>1, <2>3
    <3>2. /\ Delimited(x, 42, 35).whole /\ Delimited(x, 42, 35).n = Len(x)
          /\ Delimited(x, 42, 35).parts \in Bytes /\ Len(Delimited(x, 42, 35).parts) = Len(x) - 2
          /\ \A j \in 1 .. Len(x) - 2 : Delimited(x, 42, 35).parts[j] = x[1 + j]
      <4>1. x \in Bytes
        BY <2>1
      <4> QED
        BY <4>1, <3>1, H02Delimits
    <3> QED
      BY <3>2
  <2> HIDE DEF p, d
  <2>5. p[1] = x[1 + 1] /\ p[2] = x[1 + 2] /\ p[3] = x[1 + 3]
    BY <2>1, <2>4
  <2>6. Len(p) >= 3 /\ p[1] = HQ /\ p[2] = a /\ p[3] = LOC
    BY <2>1, <2>4, <2>5
  <2>7. e = Take(Len(x), <<Message(KindOf(p[3]), p[2])>>, p[2])
    BY <2>1, <2>4, <2>6, H02Cases DEF p, d
  <2>8. KindOf(LOC) = "location"
    BY DEF KindOf, LOC, BEAT
  <2>9. e = Take(Len(x), <<Message("location", a)>>, a)
    BY <2>1, <2>6, <2>7, <2>8
  <2> QED
    BY <1>0, <2>1, <2>2, <2>9, FrameIsHeard DEF Kinds
<1>3. ASSUME f = Noise(<<88, 35>>) PROVE Heard("h02", f, i)
  <2> DEFINE x == <<88, 35>>
             d == Delimited(x, 42, 35)
  <2>1. x \in Bytes /\ Len(x) = 2 /\ x[1] = 88 /\ x[2] = 35
    BY DEF Bytes
  <2>2. f = Noise(x)
    BY <1>3
  <2> HIDE DEF x
  <2>3. ~d.whole /\ d.n = Len(x)
    <3>1. \A j \in 1 .. Len(x) : x[j] # 42
      BY <2>1
    <3>2. ~Delimited(x, 42, 35).whole /\ Delimited(x, 42, 35).n = Len(x)
      BY <2>1, <3>1, H02Delimits
    <3> QED
      BY <3>2
  <2>4. Iteration("h02", x, i) = Stop(Len(x), i)
    BY <2>1, <2>3, H02Cases
  <2>5. ~DropsMarker(<<>>, "h02", x)
    BY DEF DropsMarker
  <2> QED
    BY <1>0, <2>1, <2>2, <2>4, <2>5, WaitedIsHeard
<1>4. ASSUME f = Noise(<<42, 88, 35>>) PROVE Heard("h02", f, i)
  <2> DEFINE x == <<42, 88, 35>>
             d == Delimited(x, 42, 35)
             p == d.parts
  <2>1. x \in Bytes /\ Len(x) = 3 /\ x[1] = 42 /\ x[2] = 88 /\ x[3] = 35
    BY DEF Bytes
  <2>2. f = Noise(x)
    BY <1>4
  <2> HIDE DEF x
  <2>3. d.whole /\ d.n = Len(x) /\ Len(p) = Len(x) - 2
    <3>1. Len(x) >= 2 /\ x[1] = 42 /\ x[Len(x)] = 35 /\ \A j \in 2 .. Len(x) - 1 : x[j] # 35
      BY <2>1
    <3>2. /\ Delimited(x, 42, 35).whole /\ Delimited(x, 42, 35).n = Len(x)
          /\ Delimited(x, 42, 35).parts \in Bytes /\ Len(Delimited(x, 42, 35).parts) = Len(x) - 2
          /\ \A j \in 1 .. Len(x) - 2 : Delimited(x, 42, 35).parts[j] = x[1 + j]
      <4>1. x \in Bytes
        BY <2>1
      <4> QED
        BY <4>1, <3>1, H02Delimits
    <3> QED
      BY <3>2
  <2> HIDE DEF p, d
  <2>4. ~(Len(p) >= 3)
    BY <2>1, <2>3
  <2>5. Iteration("h02", x, i) = Skip(Len(x), i)
    BY <2>1, <2>3, <2>4, H02Cases DEF p, d
  <2> QED
    BY <1>0, <2>1, <2>2, <2>5, SkippedIsHeard
<1>5. ASSUME f = Cut(<<42, HQ, 2>>) PROVE Heard("h02", f, i)
  <2> DEFINE x == <<42, HQ, 2>>
             d == Delimited(x, 42, 35)
  <2>1. x \in Bytes /\ Len(x) = 3 /\ x[1] = 42 /\ x[2] = 72 /\ x[3] = 2
    BY DEF Bytes, HQ
  <2>2. f = Cut(x)
    BY <1>5
  <2> HIDE DEF x
  <2>3. ~d.whole /\ d.n = 0
    <3>1. Len(x) >= 1 /\ \A j \in 2 .. Len(x) : x[j] # 35
      BY <2>1
    <3> QED
      BY <2>1, <3>1, H02Delimits
  <2>4. Iteration("h02", x, i) = Stop(0, i)
    BY <2>1, <2>3, H02Cases
  <2> QED
    BY <1>0, <2>1, <2>2, <2>4, StoppedIsHeard
<1> QED
  BY <1>2, <1>3, <1>4, <1>5, Zenon DEF Fragment

LEMMA QueclinkCases ==
  ASSUME NEW x \in Bytes, NEW i
  PROVE  LET f == Delimited(x, 43, 36) IN
         /\ ~f.whole => Iteration("queclink", x, i) = Stop(f.n, i)
         /\ f.whole /\ Len(f.parts) >= 4 /\ f.parts[1] \in {RESP, ACK} /\ IsImei(f.parts[4]) =>
              Iteration("queclink", x, i) =
                Take(f.n, <<Message(QueclinkKind(f.parts[1], f.parts[2]), f.parts[4])>>, f.parts[4])
         /\ f.whole /\ ~(Len(f.parts) >= 4 /\ f.parts[1] \in {RESP, ACK} /\ IsImei(f.parts[4])) =>
              Iteration("queclink", x, i) = Skip(f.n, i)
<1> DEFINE f == Delimited(x, 43, 36)
<1>1. f.whole \in BOOLEAN
  BY DelimitedFacts
<1>2. Iteration("queclink", x, i) = QueclinkIteration(x, i)
  BY DEF Iteration
<1> QED
  BY <1>1, <1>2 DEF QueclinkIteration

LEMMA QueclinkReport ==
  ASSUME NEW prefix \in {RESP, ACK}, NEW type \in {LOC, BEAT}, NEW kind, kind = QueclinkKind(prefix, type),
         NEW f, f = Whole(encodeQueclink(prefix, type, 1), <<kind>>, 1), NEW i \in Nat
  PROVE  Heard("queclink", f, i)
<1>0. "queclink" \in Protocol /\ 43 # 36 /\ 43 \in Nat /\ 36 \in Nat /\ kind \in Kinds
  BY DEF Protocol, Kinds, QueclinkKind
<1> DEFINE x == <<43, prefix, type, 0, 1, 36>>
           d == Delimited(x, 43, 36)
           p == d.parts
           e == Iteration("queclink", x, i)
<1>1. x \in Bytes /\ Len(x) = 6 /\ x[1] = 43 /\ x[2] = prefix /\ x[3] = type /\ x[4] = 0 /\ x[5] = 1 /\ x[6] = 36
  BY DEF Bytes, RESP, ACK, LOC, BEAT
<1>2. f = Whole(x, <<kind>>, 1)
  BY DEF encodeQueclink
<1> HIDE DEF x
<1>3. Len(x) >= 2 /\ x[1] = 43 /\ x[Len(x)] = 36 /\ \A j \in 2 .. Len(x) - 1 : x[j] # 36
  <2>1. \A j \in 2 .. 6 - 1 : x[j] # 36
    BY <1>1 DEF RESP, ACK, LOC, BEAT
  <2> QED
    BY <1>1, <2>1
<1>4. d.whole /\ d.n = Len(x) /\ p \in Bytes /\ Len(p) = Len(x) - 2 /\ \A j \in 1 .. Len(x) - 2 : p[j] = x[1 + j]
  <2>1. /\ Delimited(x, 43, 36).whole /\ Delimited(x, 43, 36).n = Len(x)
        /\ Delimited(x, 43, 36).parts \in Bytes /\ Len(Delimited(x, 43, 36).parts) = Len(x) - 2
        /\ \A j \in 1 .. Len(x) - 2 : Delimited(x, 43, 36).parts[j] = x[1 + j]
    <3>1. x \in Bytes
      BY <1>1
    <3> QED
      BY <1>3, <3>1, QueclinkDelimits
  <2> QED
    BY <2>1
<1> HIDE DEF p, d
<1>5. p[1] = x[1 + 1] /\ p[2] = x[1 + 2] /\ p[4] = x[1 + 4]
  BY <1>1, <1>4
<1>6. Len(p) >= 4 /\ p[1] = prefix /\ p[2] = type /\ p[4] = 1
  BY <1>1, <1>4, <1>5
<1>7. e = Take(Len(x), <<Message(QueclinkKind(p[1], p[2]), p[4])>>, p[4])
  BY <1>1, <1>4, <1>6, QueclinkCases DEF p, d, IsImei
<1>8. e = Take(Len(x), <<Message(kind, 1)>>, 1)
  BY <1>6, <1>7
<1>9. 1 \in Nat /\ 1 = IF 1 # 0 THEN 1 ELSE i
  OBVIOUS
<1>10. x \in Bytes
  BY <1>1
<1> HIDE DEF e
<1> QED
  BY <1>0, <1>2, <1>8, <1>9, <1>10, FrameIsHeard, ZenonT(60) DEF e

LEMMA QueclinkFragments ==
  ASSUME NEW f \in Fragment["queclink"], NEW i \in Nat
  PROVE  Heard("queclink", f, i)
<1>0. "queclink" \in Protocol /\ 43 # 36 /\ 43 \in Nat /\ 36 \in Nat
  BY DEF Protocol
<1>1. ASSUME f = Whole(encodeQueclink(RESP, LOC, 1), <<"location">>, 1) PROVE Heard("queclink", f, i)
  <2>1. QueclinkKind(RESP, LOC) = "location"
    BY DEF QueclinkKind, RESP, ACK, LOC, BEAT
  <2> QED
    BY <1>1, <2>1, QueclinkReport
<1>2. ASSUME f = Whole(encodeQueclink(ACK, BEAT, 1), <<"heartbeat">>, 1) PROVE Heard("queclink", f, i)
  <2>1. QueclinkKind(ACK, BEAT) = "heartbeat"
    BY DEF QueclinkKind, RESP, ACK, LOC, BEAT
  <2> QED
    BY <1>2, <2>1, QueclinkReport
<1>3. ASSUME f = Noise(<<88, 36>>) PROVE Heard("queclink", f, i)
  <2> DEFINE x == <<88, 36>>
             d == Delimited(x, 43, 36)
  <2>1. x \in Bytes /\ Len(x) = 2 /\ x[1] = 88 /\ x[2] = 36
    BY DEF Bytes
  <2>2. f = Noise(x)
    BY <1>3
  <2> HIDE DEF x
  <2>3. ~d.whole /\ d.n = Len(x)
    <3>1. \A j \in 1 .. Len(x) : x[j] # 43
      BY <2>1
    <3>2. ~Delimited(x, 43, 36).whole /\ Delimited(x, 43, 36).n = Len(x)
      BY <2>1, <3>1, QueclinkDelimits
    <3> QED
      BY <3>2
  <2>4. Iteration("queclink", x, i) = Stop(Len(x), i)
    BY <2>1, <2>3, QueclinkCases
  <2>5. ~DropsMarker(<<>>, "queclink", x)
    BY DEF DropsMarker
  <2> QED
    BY <1>0, <2>1, <2>2, <2>4, <2>5, WaitedIsHeard, ZenonT(30)
<1>4. ASSUME f = Noise(<<43, 88, 36>>) PROVE Heard("queclink", f, i)
  <2> DEFINE x == <<43, 88, 36>>
             d == Delimited(x, 43, 36)
             p == d.parts
  <2>1. x \in Bytes /\ Len(x) = 3 /\ x[1] = 43 /\ x[2] = 88 /\ x[3] = 36
    BY DEF Bytes
  <2>2. f = Noise(x)
    BY <1>4
  <2> HIDE DEF x
  <2>3. d.whole /\ d.n = Len(x) /\ Len(p) = Len(x) - 2
    <3>1. Len(x) >= 2 /\ x[1] = 43 /\ x[Len(x)] = 36 /\ \A j \in 2 .. Len(x) - 1 : x[j] # 36
      BY <2>1
    <3>2. /\ Delimited(x, 43, 36).whole /\ Delimited(x, 43, 36).n = Len(x)
          /\ Delimited(x, 43, 36).parts \in Bytes /\ Len(Delimited(x, 43, 36).parts) = Len(x) - 2
          /\ \A j \in 1 .. Len(x) - 2 : Delimited(x, 43, 36).parts[j] = x[1 + j]
      <4>1. x \in Bytes
        BY <2>1
      <4> QED
        BY <4>1, <3>1, QueclinkDelimits
    <3> QED
      BY <3>2
  <2> HIDE DEF p, d
  <2>4. ~(Len(p) >= 4)
    BY <2>1, <2>3
  <2>5. Iteration("queclink", x, i) = Skip(Len(x), i)
    BY <2>1, <2>3, <2>4, QueclinkCases, ZenonT(30) DEF p, d
  <2> QED
    BY <1>0, <2>1, <2>2, <2>5, SkippedIsHeard
<1>5. ASSUME f = Cut(<<43, RESP, LOC>>) PROVE Heard("queclink", f, i)
  <2> DEFINE x == <<43, RESP, LOC>>
             d == Delimited(x, 43, 36)
  <2>1. x \in Bytes /\ Len(x) = 3 /\ x[1] = 43 /\ x[2] = 73 /\ x[3] = 70
    BY DEF Bytes, RESP, LOC
  <2>2. f = Cut(x)
    BY <1>5
  <2> HIDE DEF x
  <2>3. ~d.whole /\ d.n = 0
    <3>1. Len(x) >= 1 /\ x[1] = 43 /\ \A j \in 2 .. Len(x) : x[j] # 36
      BY <2>1
    <3>2. x \in Bytes
      BY <2>1
    <3>3. ~Delimited(x, 43, 36).whole /\ Delimited(x, 43, 36).n = 0
      BY <3>1, <3>2, QueclinkDelimits
    <3> QED
      BY <3>3
  <2>4. Iteration("queclink", x, i) = Stop(0, i)
    BY <2>1, <2>3, QueclinkCases
  <2> QED
    BY <1>0, <2>1, <2>2, <2>4, StoppedIsHeard
<1> QED
  BY <1>1, <1>2, <1>3, <1>4, <1>5, Zenon DEF Fragment

-----------------------------------------------------------------------------
(* NMEA fragments. *)

LineIn(x) == Len(x) >= 1 /\ x[Len(x)] = 10 /\ \A j \in 1 .. Len(x) - 1 : x[j] # 10
LineOf(x) == SubSeq(x, 1, Len(x) - 1)

\* A line, and half a line.
LEMMA NmeaReads ==
  ASSUME NEW x \in Bytes, NEW i
  PROVE  /\ LineIn(x) => /\ Iteration("nmea", x, i) = NmeaLine(LineOf(x), Len(x), i)
                         /\ LineOf(x) \in Bytes /\ Len(LineOf(x)) = Len(x) - 1
                         /\ \A j \in 1 .. Len(x) - 1 : LineOf(x)[j] = x[j]
         /\ (\A j \in 1 .. Len(x) : x[j] # 10) => Iteration("nmea", x, i) = Stop(0, i)
<1> DEFINE n == Len(x)
           nl == indexOf(x, 10, 1)
<1>1. n \in Nat /\ 1 \in Nat \ {0}
  BY ByteOf
<1>2. Iteration("nmea", x, i) = IF nl = 0 THEN Stop(0, i) ELSE NmeaLine(SubSeq(x, 1, nl - 1), nl, i)
  BY DEF Iteration, NmeaIteration
<1>3. ASSUME n >= 1, x[n] = 10, \A j \in 1 .. n - 1 : x[j] # 10
      PROVE  /\ Iteration("nmea", x, i) = NmeaLine(SubSeq(x, 1, n - 1), n, i)
             /\ SubSeq(x, 1, n - 1) \in Bytes /\ Len(SubSeq(x, 1, n - 1)) = n - 1
             /\ \A j \in 1 .. n - 1 : SubSeq(x, 1, n - 1)[j] = x[j]
  <2>1. nl = n
    <3>1. n \in 1 .. Len(x)
      BY <1>1, <1>3
    <3> QED
      BY <1>1, <1>3, <3>1, IndexIs
  <2> HIDE DEF nl
  <2>2. n - 1 \in 0 .. Len(x) /\ n # 0
    BY <1>1, <1>3
  <2>3. SubSeq(x, 1, n - 1) \in Bytes /\ Len(SubSeq(x, 1, n - 1)) = n - 1 /\ \A j \in 1 .. n - 1 : SubSeq(x, 1, n - 1)[j] = x[j]
    BY <2>2, PrefixFacts
  <2> QED
    BY <1>2, <2>1, <2>2, <2>3
<1>4. ASSUME \A j \in 1 .. n : x[j] # 10 PROVE Iteration("nmea", x, i) = Stop(0, i)
  <2>1. nl = 0
    BY <1>1, <1>4, IndexIs
  <2> QED
    BY <1>2, <2>1
<1> QED
  BY <1>3, <1>4 DEF LineIn, LineOf

\* A sentence of one field and its checksum, right or wrong.
LEMMA NmeaSentence ==
  ASSUME NEW x \in Bytes, Len(x) = 5, x[1] = 36, x[2] = LOC, x[3] = 42, x[4] # 10, x[5] = 10, NEW i
  PROVE  Iteration("nmea", x, i) =
           IF x[4] = xorChecksum(<<LOC>>) THEN Take(5, <<Message("location", i)>>, i) ELSE Skip(5, i)
<1> DEFINE c == x[4]
           line == SubSeq(x, 1, 4)
           star == indexOf(line, 42, 1)
           body == SubSeq(line, 2, 2)
           rest == From(line, 4)
           one == <<LOC>>
           sum == <<c>>
           said == <<Message("location", i)>>
<1>1. c \in Nat /\ LOC \in Nat /\ LOC # 10 /\ LOC # 42
  <2>1. 4 \in 1 .. Len(x)
    OBVIOUS
  <2>2. c \in Nat
    BY <2>1, ByteOf
  <2> HIDE DEF c
  <2> QED
    BY <2>2 DEF LOC
<1>2. Iteration("nmea", x, i) = NmeaLine(line, 5, i) /\ line \in Bytes /\ Len(line) = 4 /\ \A j \in 1 .. 4 : line[j] = x[j]
  <2>1. LineIn(x) /\ Len(x) - 1 = 4
    <3>1. \A j \in 1 .. 4 : x[j] # 10
      BY <1>1
    <3> QED
      BY <3>1 DEF LineIn
  <2>2. /\ Iteration("nmea", x, i) = NmeaLine(LineOf(x), Len(x), i)
        /\ LineOf(x) \in Bytes /\ Len(LineOf(x)) = Len(x) - 1 /\ \A j \in 1 .. Len(x) - 1 : LineOf(x)[j] = x[j]
    BY <2>1, NmeaReads
  <2>3. LineOf(x) = line
    BY <2>1 DEF LineOf
  <2> HIDE DEF line
  <2> QED
    BY <2>1, <2>2, <2>3
<1> HIDE DEF line
<1>3. line[1] = 36 /\ line[2] = LOC /\ line[3] = 42 /\ line[4] = c
  BY <1>2
<1>4. star = 3
  <2>1. 3 \in 1 .. Len(line) /\ 1 \in Nat \ {0} /\ line[3] = 42 /\ \A j \in 1 .. 3 - 1 : line[j] # 42
    BY <1>1, <1>2, <1>3
  <2> QED
    BY <1>2, <2>1, IndexIs
<1>5. body \in Bytes /\ Len(body) = 1 /\ body[1] = LOC
  <2>1. 2 \in 1 .. Len(line) /\ 2 \in 0 .. Len(line) /\ 2 <= 2 + 1
    BY <1>2
  <2>2. body \in Bytes /\ Len(body) = 2 + 1 - 2 /\ \A j \in 1 .. 2 + 1 - 2 : body[j] = line[2 + j - 1]
    BY <1>2, <2>1, SliceFacts
  <2> HIDE DEF body
  <2>3. body[1] = line[2 + 1 - 1]
    BY <2>2
  <2> QED
    BY <1>3, <2>2, <2>3
<1>6. one \in Bytes /\ Len(one) = 1 /\ one[1] = LOC /\ sum \in Bytes /\ Len(sum) = 1 /\ sum[1] = c
  BY <1>1 DEF Bytes
<1>7. rest \in Bytes /\ Len(rest) = 1 /\ rest[1] = c
  <2>1. 3 \in 0 .. Len(line) /\ 3 + 1 = 4
    BY <1>2
  <2>2. /\ From(line, 3 + 1) \in Bytes /\ Len(From(line, 3 + 1)) = Len(line) - 3
        /\ \A j \in 1 .. Len(line) - 3 : From(line, 3 + 1)[j] = line[3 + j]
    BY <1>2, <2>1, FromFacts
  <2>3. Len(line) - 3 = 1
    BY <1>2
  <2>4. From(line, 3 + 1)[1] = line[3 + 1]
    <3>1. 1 \in 1 .. Len(line) - 3
      BY <2>3
    <3> QED
      BY <2>2, <3>1
  <2> QED
    BY <1>3, <2>1, <2>2, <2>3, <2>4
<1>8. NmeaLine(line, 5, i) = IF rest = <<xorChecksum(body)>> THEN Take(5, said, i) ELSE Skip(5, i)
  <2> DEFINE end == IF star = 0 THEN Len(line) ELSE star - 1
  <2>1. end = 2 /\ star + 1 = 4 /\ star # 0
    BY <1>4
  <2>2. body # <<>>
    BY <1>5
  <2>3. NmeaLine(line, 5, i) =
          CASE Len(line) = 2 /\ line[1] = 35 /\ IsImei(line[2]) -> Take(5, <<Message("login", line[2])>>, line[2])
            [] Len(line) >= 2 /\ line[1] = 36 /\ SubSeq(line, 2, end) # <<>> /\ SubSeq(line, 2, end)[1] = LOC
                 /\ (star # 0 => From(line, star + 1) = <<xorChecksum(SubSeq(line, 2, end))>>) -> Take(5, said, i)
            [] OTHER -> Skip(5, i)
    BY DEF NmeaLine
  <2> HIDE DEF star, end, said
  <2>4. NmeaLine(line, 5, i) =
          CASE Len(line) = 2 /\ line[1] = 35 /\ IsImei(line[2]) -> Take(5, <<Message("login", line[2])>>, line[2])
            [] Len(line) >= 2 /\ line[1] = 36 /\ body # <<>> /\ body[1] = LOC
                 /\ (star # 0 => rest = <<xorChecksum(body)>>) -> Take(5, said, i)
            [] OTHER -> Skip(5, i)
    BY <2>1, <2>3
  <2> HIDE DEF body, rest
  <2> QED
    BY <1>2, <1>3, <1>5, <2>1, <2>2, <2>4
<1> HIDE DEF body, rest, one, sum, star
<1>9. body = one
  BY <1>5, <1>6, SameBytes
<1>10. rest = sum
  BY <1>6, <1>7, SameBytes
<1>11. (sum = <<xorChecksum(one)>>) <=> (c = xorChecksum(one))
  BY DEF sum
<1> HIDE DEF c, said
<1> QED
  BY <1>2, <1>8, <1>9, <1>10, <1>11 DEF one, said, c

LEMMA NmeaFragments ==
  ASSUME NEW f \in Fragment["nmea"], NEW i \in Nat
  PROVE  Heard("nmea", f, i)
<1>0. "nmea" \in Protocol
  BY DEF Protocol
<1>1. ASSUME NEW a \in {1, 3}, f = Whole(encodeNmeaIdentity(a), <<"login">>, a) PROVE Heard("nmea", f, i)
  <2> DEFINE x == <<35, a, 10>>
             line == SubSeq(x, 1, 2)
  <2>1. x \in Bytes /\ Len(x) = 3 /\ x[1] = 35 /\ x[2] = a /\ x[3] = 10 /\ a \in Nat /\ a # 0 /\ a # 10
    BY DEF Bytes
  <2>2. f = Whole(x, <<"login">>, a)
    BY <1>1 DEF encodeNmeaIdentity
  <2> HIDE DEF x
  <2>3. Iteration("nmea", x, i) = NmeaLine(line, 3, i) /\ line \in Bytes /\ Len(line) = 2 /\ line[1] = 35 /\ line[2] = a
    <3>1. LineIn(x) /\ Len(x) - 1 = 2
      BY <2>1 DEF LineIn
    <3>2. /\ Iteration("nmea", x, i) = NmeaLine(LineOf(x), Len(x), i)
          /\ LineOf(x) \in Bytes /\ Len(LineOf(x)) = Len(x) - 1 /\ \A j \in 1 .. Len(x) - 1 : LineOf(x)[j] = x[j]
      BY <2>1, <3>1, NmeaReads
    <3>3. LineOf(x) = line
      BY <3>1 DEF LineOf
    <3> HIDE DEF line
    <3> QED
      BY <2>1, <3>1, <3>2, <3>3
  <2> HIDE DEF line
  <2>4. NmeaLine(line, 3, i) = Take(3, <<Message("login", a)>>, a)
    BY <2>1, <2>3 DEF NmeaLine, IsImei
  <2> QED
    BY <1>0, <2>1, <2>2, <2>3, <2>4, FrameIsHeard DEF Kinds
<1>2. ASSUME f = Whole(encodeNmeaRmc, <<"location">>, 0) PROVE Heard("nmea", f, i)
  <2> DEFINE sum == xorChecksum(<<LOC>>)
             x == <<36, LOC, 42, sum, 10>>
  <2>1. sum \in Nat /\ sum >= 128
    <3>1. <<LOC>> \in Bytes
      BY DEF Bytes, LOC
    <3> QED
      BY <3>1, ChecksumsAreNumbers
  <2> HIDE DEF sum
  <2>2. x \in Bytes /\ Len(x) = 5 /\ x[1] = 36 /\ x[2] = LOC /\ x[3] = 42 /\ x[4] = sum /\ x[5] = 10
    BY <2>1 DEF Bytes, LOC
  <2>3. f = Whole(x, <<"location">>, 0)
    BY <1>2 DEF encodeNmeaRmc, sum
  <2> HIDE DEF x
  <2>4. Iteration("nmea", x, i) = Take(5, <<Message("location", i)>>, i)
    <3>1. x[4] # 10 /\ x[4] = xorChecksum(<<LOC>>)
      BY <2>1, <2>2 DEF sum
    <3> QED
      BY <2>2, <3>1, NmeaSentence
  <2>5. Iteration("nmea", x, i) = Take(Len(x), <<Message("location", i)>>, i) /\ i = IF 0 # 0 THEN 0 ELSE i
    BY <2>2, <2>4
  <2>6. x \in Bytes /\ "location" \in Kinds /\ 0 \in Nat
    BY <2>2 DEF Kinds
  <2> QED
    BY <1>0, <2>3, <2>5, <2>6, FrameIsHeard, ZenonT(60)
<1>3. ASSUME f = Noise(<<88, 10>>) PROVE Heard("nmea", f, i)
  <2> DEFINE x == <<88, 10>>
             line == SubSeq(x, 1, 1)
  <2>1. x \in Bytes /\ Len(x) = 2 /\ x[1] = 88 /\ x[2] = 10
    BY DEF Bytes
  <2>2. f = Noise(x)
    BY <1>3
  <2> HIDE DEF x
  <2>3. Iteration("nmea", x, i) = NmeaLine(line, 2, i) /\ Len(line) = 1
    <3>1. LineIn(x) /\ Len(x) - 1 = 1
      BY <2>1 DEF LineIn
    <3>2. Iteration("nmea", x, i) = NmeaLine(LineOf(x), Len(x), i) /\ Len(LineOf(x)) = Len(x) - 1
      BY <2>1, <3>1, NmeaReads
    <3>3. LineOf(x) = line
      BY <3>1 DEF LineOf
    <3> HIDE DEF line
    <3> QED
      BY <2>1, <3>1, <3>2, <3>3
  <2> HIDE DEF line
  <2>4. NmeaLine(line, 2, i) = Skip(2, i)
    BY <2>3 DEF NmeaLine
  <2> QED
    BY <1>0, <2>1, <2>2, <2>3, <2>4, SkippedIsHeard
<1>4. ASSUME f = Noise(<<36, LOC, 42, 1, 10>>) PROVE Heard("nmea", f, i)
  <2> DEFINE x == <<36, LOC, 42, 1, 10>>
  <2>1. x \in Bytes /\ Len(x) = 5 /\ x[1] = 36 /\ x[2] = LOC /\ x[3] = 42 /\ x[4] = 1 /\ x[5] = 10
    BY DEF Bytes, LOC
  <2>2. f = Noise(x)
    BY <1>4
  <2> HIDE DEF x
  <2>3. xorChecksum(<<LOC>>) \in Nat /\ xorChecksum(<<LOC>>) >= 128
    <3>1. <<LOC>> \in Bytes
      BY DEF Bytes, LOC
    <3> QED
      BY <3>1, ChecksumsAreNumbers
  <2>4. x[4] # 10 /\ x[4] # xorChecksum(<<LOC>>)
    BY <2>1, <2>3
  <2>5. Iteration("nmea", x, i) = Skip(5, i)
    BY <2>1, <2>4, NmeaSentence
  <2> QED
    BY <1>0, <2>1, <2>2, <2>5, SkippedIsHeard
<1>5. ASSUME f = Cut(<<36, LOC>>) PROVE Heard("nmea", f, i)
  <2> DEFINE x == <<36, LOC>>
  <2>1. x \in Bytes /\ Len(x) = 2 /\ x[1] = 36 /\ x[2] = 70
    BY DEF Bytes, LOC
  <2>2. f = Cut(x)
    BY <1>5
  <2> HIDE DEF x
  <2>3. \A j \in 1 .. Len(x) : x[j] # 10
    BY <2>1
  <2>4. Iteration("nmea", x, i) = Stop(0, i)
    BY <2>1, <2>3, NmeaReads
  <2> QED
    BY <1>0, <2>1, <2>2, <2>4, StoppedIsHeard
<1> QED
  BY <1>1, <1>2, <1>3, <1>4, <1>5, Zenon DEF Fragment

-----------------------------------------------------------------------------
(* Meitrack fragments. *)

FirstPairAt(b, c, d, i, k) ==
  k \in i .. Len(b) - 1 /\ b[k] = c /\ b[k + 1] = d /\ \A j \in i .. k - 1 : ~(b[j] = c /\ b[j + 1] = d)

LEMMA PairAt ==
  ASSUME NEW b \in Bytes, NEW c, NEW d, NEW i \in Nat \ {0}, NEW k, FirstPairAt(b, c, d, i, k)
  PROVE  Pair(b, c, d, i) = k
BY PairIs DEF FirstPairAt

LEMMA StarIs ==
  ASSUME NEW frame \in Bytes, Len(frame) = 9, frame[6] = 42, frame[7] # 42
  PROVE  Max({0} \cup {k \in 1 .. Len(frame) - 2 : frame[k] = 42}) = 6
<1> DEFINE S == {0} \cup {k \in 1 .. Len(frame) - 2 : frame[k] = 42}
<1>1. 6 \in S /\ \A k \in S : k \in Nat /\ 6 >= k
  <2>1. Len(frame) - 2 = 7
    OBVIOUS
  <2>2. \A k \in 1 .. 7 : k \in Nat /\ (frame[k] = 42 => 6 >= k)
    OBVIOUS
  <2> QED
    BY <2>1, <2>2
<1> HIDE DEF S
<1>2. Max(S) \in S /\ \A k \in S : Max(S) >= k
  BY <1>1 DEF Max
<1>3. Max(S) \in Nat /\ 6 >= Max(S) /\ Max(S) >= 6
  BY <1>1, <1>2
<1> QED
  BY <1>3 DEF S

\* A report and its checksum, right or wrong.
LEMMA MeitrackSentence ==
  ASSUME NEW x \in Bytes, Len(x) = 9, x[1] = 36, x[2] = 36, x[3] \in {65, 66}, NEW a \in {1, 3}, x[4] = a, x[5] = LOC,
         x[6] = 42, x[7] >= 128, x[8] = 13, x[9] = 10, NEW i \in Nat
  PROVE  Iteration("meitrack", x, i) =
           IF x[7] = xorChecksum(SubSeq(x, 1, 5)) THEN Take(9, <<Message("location", a)>>, a) ELSE Skip(9, i)
<1> DEFINE said == <<Message("location", a)>>
           body == SubSeq(x, 3, 5)
           head == SubSeq(x, 1, 5)
           d == IF x[7] = xorChecksum(head) THEN Take(9, said, a) ELSE Skip(9, i)
<1>0. 7 \in 1 .. Len(x)
  OBVIOUS
<1>1. x[7] \in Nat /\ x[7] # 42 /\ x[7] # 13 /\ x[7] # 36
  <2>1. x[7] \in Nat
    BY <1>0, ByteOf
  <2> QED
    BY <2>1
<1>2. MeitrackStart(x) = 1
  <2>1. 1 \in 1 .. Len(x) - 1 /\ x[1] = 36 /\ x[1 + 1] = 36 /\ 1 \in Nat \ {0}
        /\ \A j \in 1 .. 1 - 1 : ~(x[j] = 36 /\ x[j + 1] = 36)
    OBVIOUS
  <2>2. Pair(x, 36, 36, 1) = 1
    BY <2>1, PairIs
  <2> QED
    BY <2>2 DEF MeitrackStart
<1>3. MeitrackEnd(x) = 9
  <2>1. 8 \in 3 .. Len(x) - 1 /\ x[8] = 13 /\ x[8 + 1] = 10 /\ 3 \in Nat \ {0}
        /\ \A j \in 3 .. 8 - 1 : ~(x[j] = 13 /\ x[j + 1] = 10)
    <3>1. \A j \in 3 .. 7 : x[j] # 13
      BY <1>1 DEF LOC
    <3> QED
      BY <3>1
  <2>2. Pair(x, 13, 10, 3) = 8
    <3>1. FirstPairAt(x, 13, 10, 3, 8) /\ 3 \in Nat \ {0}
      BY <2>1 DEF FirstPairAt
    <3> QED
      BY <3>1, PairAt
  <2>3. MeitrackStart(x) + 2 = 3
    BY <1>2
  <2> QED
    BY <2>2, <2>3 DEF MeitrackEnd
<1>4. SubSeq(x, MeitrackStart(x), MeitrackEnd(x)) = x
  <2>1. SubSeq(x, 1, Len(x)) = x
    BY SubSeqFull DEF Bytes
  <2> QED
    BY <1>2, <1>3, <2>1
<1>5. Iteration("meitrack", x, i) = After(Skip(0, i), MeitrackFrame(x, i))
  <2>1. MeitrackIteration(x, i) =
          After(Skip(MeitrackStart(x) - 1, i), MeitrackFrame(SubSeq(x, MeitrackStart(x), MeitrackEnd(x)), i))
    <3>1. Len(x) >= 2 /\ MeitrackStart(x) # 0 /\ MeitrackEnd(x) # 1
      BY <1>2, <1>3
    <3> QED
      BY <3>1, MeitrackCases
  <2>2. MeitrackStart(x) - 1 = 0
    BY <1>2
  <2> QED
    BY <1>4, <2>1, <2>2 DEF Iteration
<1>6. Len(body) = 3 /\ body[2] = a /\ body[3] = LOC
  <2>1. 3 \in 1 .. Len(x) /\ 5 \in 0 .. Len(x) /\ 3 <= 5 + 1
    OBVIOUS
  <2>2. body \in Bytes /\ Len(body) = 5 + 1 - 3 /\ \A j \in 1 .. 5 + 1 - 3 : body[j] = x[3 + j - 1]
    BY <2>1, SliceFacts
  <2> HIDE DEF body
  <2>3. body[2] = x[3 + 2 - 1] /\ body[3] = x[3 + 3 - 1]
    BY <2>2
  <2> QED
    BY <2>2, <2>3
<1>7. MeitrackFrame(x, i) = d
  <2>1. MeitrackFrame(x, i) = MeitrackParsed(x, 6, body, i)
    <3>1. Max({0} \cup {k \in 1 .. Len(x) - 2 : x[k] = 42}) = 6
      BY <1>1, StarIs
    <3>2. 6 - 1 = 5
      OBVIOUS
    <3> QED
      BY <3>1, <3>2 DEF MeitrackFrame
  <2>2. MeitrackParsed(x, 6, body, i) =
          IF 6 # 0 /\ Len(x) - 6 >= 3 /\ x[6 + 1] = xorChecksum(SubSeq(x, 1, 6 - 1)) /\ Len(body) >= 3 /\ IsImei(body[2])
          THEN Take(Len(x), <<Message(IF body[3] = LOC THEN "location" ELSE "heartbeat", body[2])>>, body[2])
          ELSE Skip(Len(x), i)
    BY DEF MeitrackParsed
  <2>3. 6 - 1 = 5 /\ 6 + 1 = 7 /\ IsImei(a)
    BY DEF IsImei
  <2> HIDE DEF body
  <2>4. MeitrackParsed(x, 6, body, i) =
          IF x[7] = xorChecksum(SubSeq(x, 1, 5)) THEN Take(9, <<Message("location", a)>>, a) ELSE Skip(9, i)
    BY <1>6, <2>2, <2>3
  <2> QED
    BY <2>1, <2>4
<1>8. d \in Outcomes
  <2>1. said \in Seq(Said) /\ a \in Nat
    BY OneMessage DEF Kinds
  <2> HIDE DEF said
  <2>2. Take(9, said, a) \in Outcomes /\ Skip(9, i) \in Outcomes
    BY <2>1, ConstructorsAreOutcomes
  <2> QED
    BY <2>2
<1> HIDE DEF d
<1>9. After(Skip(0, i), d) = d
  <2> DEFINE none == Skip(0, i)
  <2>1. none.n = 0 /\ none.messages = <<>>
    BY Fields
  <2>3. none \in Outcomes
    <3> DEFINE zero == 0
    <3>1. zero \in Nat /\ none = Skip(zero, i)
      OBVIOUS
    <3> HIDE DEF zero, none
    <3>2. Skip(zero, i) \in Outcomes
      BY <3>1, PlainOutcomes
    <3> QED
      BY <3>1, <3>2
  <2> HIDE DEF none
  <2>2. After(none, d) = d
    BY <1>8, <2>1, <2>3, AfterNothing
  <2> QED
    BY <2>2 DEF none
<1> QED
  BY <1>5, <1>7, <1>9 DEF d

\* A byte of noise before anything.
LEMMA MeitrackNoiseByte ==
  ASSUME NEW z \in Bytes, Len(z) >= 1, z[1] # 36, NEW i \in Nat
  PROVE  /\ decode("meitrack", z, i).messages = decode("meitrack", From(z, 2), i).messages
         /\ SameEnd(decode("meitrack", z, i), decode("meitrack", From(z, 2), i))
<1> DEFINE r == From(z, 2)
           none == <<>>
<1>1. Len(z) \in Nat /\ "meitrack" \in Protocol
  BY ByteOf DEF Protocol
<1>2. r \in Bytes /\ Len(r) = Len(z) - 1 /\ From(z, 1 + 1) = r
  <2>1. 1 \in 0 .. Len(z) /\ 1 + 1 = 2
    BY <1>1
  <2>2. From(z, 1 + 1) \in Bytes /\ Len(From(z, 1 + 1)) = Len(z) - 1
    BY <2>1, FromFacts
  <2> QED
    BY <2>1, <2>2
<1>3. \A b \in Bytes : Iteration("meitrack", b, i) = MeitrackIteration(b, i)
  BY DEF Iteration
<1>n. none \in Seq(Said)
  BY NoMessages
<1> HIDE DEF r
<1>4. CASE Len(z) < 3
  <2>1. Len(r) < 2
    BY <1>1, <1>2, <1>4
  <2>2. MeitrackIteration(r, i) = Stop(0, i)
    BY <1>2, <2>1, MeitrackCases
  <2>3. MeitrackIteration(z, i) = Stop(0, i) \/ MeitrackIteration(z, i) = Stop(Len(z), i)
    <3>1. Len(z) < 2 => MeitrackIteration(z, i) = Stop(0, i)
      BY MeitrackCases
    <3>2. Len(z) >= 2 => MeitrackStart(z) = 0
      <4> HAVE Len(z) >= 2
      <4>1. 1 \in Nat \ {0} /\ \A j \in 1 .. Len(z) - 1 : ~(z[j] = 36 /\ z[j + 1] = 36)
        BY <1>1, <1>4
      <4>2. Pair(z, 36, 36, 1) = 0
        BY <4>1, PairIs
      <4> QED
        BY <4>2 DEF MeitrackStart
    <3>3. Len(z) >= 2 /\ MeitrackStart(z) = 0 => MeitrackIteration(z, i) = Stop(Len(z), i)
      BY MeitrackCases
    <3> QED
      BY <1>1, <3>1, <3>2, <3>3
  <2>4. ASSUME NEW b \in Bytes, NEW n, MeitrackIteration(b, i) = Stop(n, i)
        PROVE  decode("meitrack", b, i) = Stop(n, i)
    <3>1. Iteration("meitrack", b, i) = Stop(n, i)
      BY <1>3, <2>4
    <3>2. Stop(n, i).go # "next"
      BY Fields
    <3> QED
      BY <1>1, <3>1, <3>2, DecodeUnrolls
  <2>5. decode("meitrack", r, i) = Stop(0, i)
    BY <1>2, <2>2, <2>4
  <2>6. decode("meitrack", z, i) = Stop(0, i) \/ decode("meitrack", z, i) = Stop(Len(z), i)
    BY <2>3, <2>4
  <2>7. \A n : Stop(n, i).messages = Stop(0, i).messages /\ SameEnd(Stop(n, i), Stop(0, i))
    BY Fields DEF SameEnd
  <2> QED
    BY <2>5, <2>6, <2>7 DEF r
<1>5. CASE Len(z) >= 3
  <2> DEFINE s == Stop(1, i)
             e == Iteration("meitrack", r, i)
             g == Iteration("meitrack", z, i)
             d == decode("meitrack", r, i)
             c == decode("meitrack", z, i)
  <2>1. g = After(s, e)
    <3>1. 1 \in 0 .. Len(z) /\ Len(z) - 1 >= 2 /\ \A j \in 1 .. 1 : ~(z[j] = 36 /\ z[j + 1] = 36)
      BY <1>1, <1>5
    <3>2. MeitrackIteration(z, i) = After(Stop(1, i), MeitrackIteration(From(z, 1 + 1), i))
      BY <3>1, MeitrackMoves
    <3> QED
      BY <1>2, <1>3, <3>2
  <2>2. s \in Outcomes /\ s.n = 1 /\ s.messages = none
    BY PlainOutcomes
  <2>3. e \in Outcomes /\ e.messages \in Seq(Said) /\ e.n \in 0 .. Len(r) /\ e.n \in Nat /\ e.imei \in Nat
    <3>1. e \in Outcomes /\ e.n \in 0 .. Len(r) /\ e.n \in Nat /\ e.imei \in Nat
      BY <1>1, <1>2, IterationParts
    <3> HIDE DEF e
    <3> QED
      BY <3>1 DEF Outcomes
  <2>4. e.go # "next" => d = e
    BY <1>1, <1>2, DecodeUnrolls
  <2>5. e.go = "next" => d = After(e, decode("meitrack", From(r, e.n + 1), e.imei))
    BY <1>1, <1>2, DecodeUnrolls
  <2>6. g.go # "next" => c = g
    BY <1>1, DecodeUnrolls
  <2>7. g.go = "next" => c = After(g, decode("meitrack", From(z, g.n + 1), g.imei))
    BY <1>1, DecodeUnrolls
  <2> HIDE DEF s, e, g
  <2>8. g.go = e.go /\ g.n = 1 + e.n /\ g.messages = none \o e.messages /\ g.imei = e.imei
    BY <2>1, <2>2, <2>3, AfterIs
  <2>9. none \o e.messages = e.messages
    BY <2>3, ConcatEmptySeq
  <2>10. CASE e.go # "next"
    <3>1. c = g /\ d = e
      BY <2>4, <2>6, <2>8, <2>10
    <3> HIDE DEF c, d
    <3> QED
      BY <2>8, <2>9, <3>1 DEF SameEnd, c, d, r
  <2>11. CASE e.go = "next"
    <3> DEFINE u == From(r, e.n + 1)
               v == decode("meitrack", u, e.imei)
    <3>1. From(z, g.n + 1) = u
      <4>1. 1 \in 0 .. Len(z) /\ e.n \in 0 .. Len(z) - 1
        BY <1>1, <1>2, <1>5, <2>3
      <4>2. From(From(z, 1 + 1), e.n + 1) = From(z, 1 + e.n + 1)
        BY <4>1, FromFrom
      <4> QED
        BY <1>2, <2>8, <4>2
    <3>2. u \in Bytes
      BY <1>2, <2>3, FromFacts
    <3> HIDE DEF u
    <3>3. v \in Outcomes
      BY <1>1, <2>3, <3>2, DecodeParts
    <3>4. c = After(g, v) /\ d = After(e, v)
      BY <2>5, <2>7, <2>8, <2>11, <3>1 DEF u
    <3> HIDE DEF v, c, d
    <3>5. /\ After(g, v).messages = g.messages \o v.messages /\ After(g, v).go = v.go /\ After(g, v).imei = v.imei
          /\ After(e, v).messages = e.messages \o v.messages /\ After(e, v).go = v.go /\ After(e, v).imei = v.imei
      BY <3>3, AfterIs
    <3>6. c.messages = d.messages /\ SameEnd(c, d)
      BY <2>8, <2>9, <3>4, <3>5 DEF SameEnd
    <3> QED
      BY <3>6 DEF c, d, r
  <2> QED
    BY <2>10, <2>11
<1> QED
  BY <1>1, <1>4, <1>5

\* What the encoder writes.
LEMMA MeitrackEncoded ==
  ASSUME NEW a \in {1, 3}, NEW x, x = encodeMeitrackLocation(a)
  PROVE  /\ x \in Bytes /\ Len(x) = 9 /\ x[1] = 36 /\ x[2] = 36 /\ x[3] = 65 /\ x[4] = a /\ x[5] = LOC
         /\ x[6] = 42 /\ x[7] = 128 + ((36 + 36 + 65 + a + LOC) % 64) /\ x[8] = 13 /\ x[9] = 10
         /\ x[7] = xorChecksum(SubSeq(x, 1, 5))
<1> DEFINE body == <<36, 36, 65, a, LOC>>
           sum == xorChecksum(body)
           tail == <<42, sum, 13, 10>>
           head == SubSeq(x, 1, 5)
<1>1. body \in Bytes /\ Len(body) = 5 /\ body[1] = 36 /\ body[2] = 36 /\ body[3] = 65 /\ body[4] = a /\ body[5] = LOC
  BY DEF Bytes, LOC
<1>2. x = body \o tail
  BY DEF encodeMeitrackLocation
<1> HIDE DEF body
<1>3. sum \in Nat
  BY <1>1, ChecksumsAreNumbers
<1>4. sum = 128 + ((36 + 36 + 65 + a + LOC) % 64)
  <2>1. Total(body) = body[1] + body[2] + body[3] + body[4] + body[5]
    BY <1>1, Totals
  <2>2. Total(body) = 36 + 36 + 65 + a + LOC
    BY <1>1, <2>1
  <2> QED
    BY <2>2 DEF xorChecksum
<1> HIDE DEF sum
<1>5. tail \in Bytes /\ Len(tail) = 4 /\ tail[1] = 42 /\ tail[2] = sum /\ tail[3] = 13 /\ tail[4] = 10
  BY <1>3 DEF Bytes
<1> HIDE DEF tail
<1>6. /\ body \o tail \in Bytes /\ Len(body \o tail) = Len(body) + Len(tail)
      /\ \A j \in 1 .. Len(body) + Len(tail) : (body \o tail)[j] = IF j <= Len(body) THEN body[j] ELSE tail[j - Len(body)]
  BY <1>1, <1>5, ConcatAt
<1>7. x \in Bytes /\ Len(x) = 9 /\ \A j \in 1 .. 9 : x[j] = IF j <= 5 THEN body[j] ELSE tail[j - 5]
  <2>1. /\ x \in Bytes /\ Len(x) = Len(body) + Len(tail)
        /\ \A j \in 1 .. Len(body) + Len(tail) : x[j] = IF j <= Len(body) THEN body[j] ELSE tail[j - Len(body)]
    BY <1>2, <1>6, Zenon
  <2>2. Len(body) = 5 /\ Len(tail) = 4 /\ 5 + 4 = 9
    BY <1>1, <1>5
  <2>3. Len(body) + Len(tail) = 9
    BY <2>2
  <2> QED
    BY <2>1, <2>2, <2>3, Zenon
<1>8. /\ x[1] = body[1] /\ x[2] = body[2] /\ x[3] = body[3] /\ x[4] = body[4] /\ x[5] = body[5]
      /\ x[6] = tail[6 - 5] /\ x[7] = tail[7 - 5] /\ x[8] = tail[8 - 5] /\ x[9] = tail[9 - 5]
  BY <1>7
<1>9. head = body
  <2>1. 5 \in 0 .. Len(x)
    BY <1>7
  <2>2. head \in Bytes /\ Len(head) = 5 /\ \A j \in 1 .. 5 : head[j] = x[j]
    BY <1>7, <2>1, PrefixFacts
  <2> HIDE DEF head
  <2>3. \A j \in 1 .. 5 : head[j] = body[j]
    BY <1>7, <2>2
  <2> QED
    BY <1>1, <2>2, <2>3, SameBytes
<1>10. x[6] = 42 /\ x[7] = sum /\ x[8] = 13 /\ x[9] = 10
  BY <1>5, <1>8
<1> QED
  BY <1>1, <1>4, <1>7, <1>8, <1>9, <1>10 DEF sum

LEMMA MeitrackFragments ==
  ASSUME NEW f \in Fragment["meitrack"], NEW i \in Nat
  PROVE  Heard("meitrack", f, i)
<1>0. "meitrack" \in Protocol
  BY DEF Protocol
<1>1. ASSUME NEW a \in {1, 3}, f = Whole(encodeMeitrackLocation(a), <<"location">>, a) PROVE Heard("meitrack", f, i)
  <2> DEFINE x == encodeMeitrackLocation(a)
  <2>1. /\ x \in Bytes /\ Len(x) = 9 /\ x[1] = 36 /\ x[2] = 36 /\ x[3] = 65 /\ x[4] = a /\ x[5] = LOC
        /\ x[6] = 42 /\ x[8] = 13 /\ x[9] = 10 /\ x[7] = xorChecksum(SubSeq(x, 1, 5))
    BY MeitrackEncoded
  <2>2. x[7] >= 128
    <3>1. x[7] = 128 + ((36 + 36 + 65 + a + LOC) % 64)
      BY MeitrackEncoded
    <3> HIDE DEF x
    <3> QED
      BY <3>1 DEF LOC
  <2>3. f = Whole(x, <<"location">>, a) /\ a \in Nat /\ a # 0
    BY <1>1
  <2> HIDE DEF x
  <2>4. Iteration("meitrack", x, i) = Take(9, <<Message("location", a)>>, a)
    <3>1. x[3] \in {65, 66}
      BY <2>1
    <3> QED
      BY <2>1, <2>2, <3>1, MeitrackSentence
  <2> QED
    <3>1. x \in Bytes /\ "location" \in Kinds /\ a \in Nat /\ a = IF a # 0 THEN a ELSE i
      BY <2>1, <2>3 DEF Kinds
    <3>2. Iteration("meitrack", x, i) = Take(Len(x), <<Message("location", a)>>, a)
      BY <2>1, <2>4
    <3> QED
      BY <1>0, <2>3, <3>1, <3>2, FrameIsHeard, ZenonT(60)
<1>2. ASSUME f = Noise(<< 88 >>) PROVE Heard("meitrack", f, i)
  <2> DEFINE x == <<88>>
             none == <<>>
  <2>1. x \in Bytes /\ Len(x) = 1 /\ x[1] = 88
    BY DEF Bytes
  <2>2. f = Noise(x)
    BY <1>2
  <2> HIDE DEF x
  <2>3. ASSUME NEW y \in Bytes
        PROVE  /\ decode("meitrack", x \o y, i).messages = none \o decode("meitrack", y, i).messages
               /\ SameEnd(decode("meitrack", x \o y, i), decode("meitrack", y, i))
    <3> DEFINE z == x \o y
    <3>1. z \in Bytes /\ Len(z) = Len(x) + Len(y) /\ Len(y) \in Nat /\ \A j \in 1 .. Len(x) : z[j] = x[j]
      BY <2>1, Joined
    <3>2. From(z, 2) = y
      <4>1. 1 \in 0 .. Len(x) /\ 1 + 1 = 2 /\ 1 = Len(x)
        BY <2>1
      <4>2. From(x \o y, 1 + 1) = From(x, 1 + 1) \o y
        BY <2>1, <4>1, FromJoined
      <4>3. From(x, Len(x) + 1) = <<>>
        BY <2>1, FromEnds
      <4>4. <<>> \o y = y
        BY ConcatEmptySeq DEF Bytes
      <4> QED
        BY <4>1, <4>2, <4>3, <4>4
    <3> HIDE DEF z
    <3>3. Len(z) >= 1 /\ z[1] # 36
      BY <2>1, <3>1
    <3>4. /\ decode("meitrack", z, i).messages = decode("meitrack", From(z, 2), i).messages
          /\ SameEnd(decode("meitrack", z, i), decode("meitrack", From(z, 2), i))
      BY <3>1, <3>3, MeitrackNoiseByte
    <3>5. decode("meitrack", y, i).messages \in Seq(Said)
      BY <1>0, DecodeParts
    <3>6. none \o decode("meitrack", y, i).messages = decode("meitrack", y, i).messages
      BY <3>5, ConcatEmptySeq
    <3> QED
      BY <3>2, <3>4, <3>6 DEF z
  <2>4. ASSUME NEW m \in 0 .. Len(x) - 1 PROVE decode("meitrack", SubSeq(x, 1, m), i).messages = none
    <3>1. m = 0 /\ 0 \in 0 .. Len(x)
      BY <2>1
    <3>2. SubSeq(x, 1, m) \in Bytes /\ Len(SubSeq(x, 1, m)) = 0
      BY <2>1, <3>1, PrefixFacts
    <3>3. SubSeq(x, 1, m) = <<>>
      BY <3>2, EmptySeq DEF Bytes
    <3>4. decode("meitrack", <<>>, i) = Stop(0, i)
      BY <1>0, DecodeNothing
    <3>5. Stop(0, i).messages = <<>>
      BY Fields
    <3> QED
      BY <3>3, <3>4, <3>5
  <2>5. Legibly("meitrack", x, <<>>, i, i)
    BY <2>3, <2>4 DEF Legibly
  <2> QED
    BY <1>0, <2>1, <2>2, <2>5, NoiseIsHeard
<1>3. ASSUME f = Noise([encodeMeitrackLocation(1) EXCEPT ![3] = 66]) PROVE Heard("meitrack", f, i)
  <2> DEFINE g == encodeMeitrackLocation(1)
             x == [g EXCEPT ![3] = 66]
             head == SubSeq(x, 1, 5)
  <2>1. /\ g \in Bytes /\ Len(g) = 9 /\ g[1] = 36 /\ g[2] = 36 /\ g[4] = 1 /\ g[5] = LOC /\ g[6] = 42
        /\ g[7] = 128 + ((36 + 36 + 65 + 1 + LOC) % 64) /\ g[8] = 13 /\ g[9] = 10
    <3>1. 1 \in {1, 3}
      OBVIOUS
    <3> QED
      BY <3>1, MeitrackEncoded
  <2>2. f = Noise(x)
    BY <1>3
  <2> HIDE DEF g
  <2>3. g[7] = 144
    BY <2>1 DEF LOC
  <2>4. x \in Bytes /\ Len(x) = 9 /\ x[3] = 66 /\ \A j \in 1 .. 9 : j # 3 => x[j] = g[j]
    <3>1. 3 \in 1 .. Len(g) /\ 66 \in Nat
      BY <2>1
    <3>2. x \in Bytes /\ Len(x) = Len(g) /\ x[3] = 66 /\ \A j \in 1 .. Len(g) : j # 3 => x[j] = g[j]
      <4> DEFINE k == 3
                 v == 66
      <4>1. k \in 1 .. Len(g) /\ v \in Nat /\ g \in Bytes /\ x = [g EXCEPT ![k] = v]
        BY <2>1, <3>1
      <4> HIDE DEF k, v
      <4>2. x \in Bytes /\ Len(x) = Len(g) /\ x[k] = v /\ \A j \in 1 .. Len(g) : j # k => x[j] = g[j]
        BY <4>1, ChangedByte
      <4> QED
        BY <4>2 DEF k, v
    <3> HIDE DEF x
    <3> QED
      BY <2>1, <3>2
  <2> HIDE DEF x
  <2>5. x[1] = 36 /\ x[2] = 36 /\ x[4] = 1 /\ x[5] = LOC /\ x[6] = 42 /\ x[7] = 144 /\ x[8] = 13 /\ x[9] = 10
    BY <2>1, <2>3, <2>4
  <2>6. xorChecksum(head) = 145
    <3>1. 5 \in 0 .. Len(x)
      BY <2>4
    <3>2. head \in Bytes /\ Len(head) = 5 /\ \A j \in 1 .. 5 : head[j] = x[j]
      <4>1. x \in Bytes
        BY <2>4
      <4> QED
        BY <3>1, <4>1, PrefixFacts
    <3> HIDE DEF head
    <3>3. Total(head) = head[1] + head[2] + head[3] + head[4] + head[5]
      BY <3>2, Totals
    <3>4. Total(head) = 36 + 36 + 66 + 1 + 70
      BY <2>4, <2>5, <3>2, <3>3 DEF LOC
    <3> QED
      BY <3>4 DEF xorChecksum
  <2>7. Iteration("meitrack", x, i) = Skip(9, i)
    <3>1. x[3] \in {65, 66} /\ 1 \in {1, 3} /\ x[7] >= 128 /\ x[7] # xorChecksum(head)
      BY <2>4, <2>5, <2>6
    <3> HIDE DEF head
    <3>2. Iteration("meitrack", x, i) =
            IF x[7] = xorChecksum(SubSeq(x, 1, 5)) THEN Take(9, <<Message("location", 1)>>, 1) ELSE Skip(9, i)
      BY <2>4, <2>5, <3>1, MeitrackSentence
    <3> QED
      BY <3>1, <3>2 DEF head
  <2> QED
    BY <1>0, <2>2, <2>4, <2>7, SkippedIsHeard
<1>4. ASSUME f = Cut(<<88, 36>>) PROVE Heard("meitrack", f, i)
  <2> DEFINE x == <<88, 36>>
  <2>1. x \in Bytes /\ Len(x) = 2 /\ x[1] = 88 /\ x[2] = 36
    BY DEF Bytes
  <2>2. f = Cut(x)
    BY <1>4
  <2> HIDE DEF x
  <2>3. MeitrackStart(x) = 0
    <3>1. 1 \in Nat \ {0} /\ \A j \in 1 .. Len(x) - 1 : ~(x[j] = 36 /\ x[j + 1] = 36)
      BY <2>1
    <3>2. Pair(x, 36, 36, 1) = 0
      BY <2>1, <3>1, PairIs
    <3> QED
      BY <3>2 DEF MeitrackStart
  <2>4. Iteration("meitrack", x, i) = Stop(Len(x), i)
    <3>1. MeitrackIteration(x, i) = Stop(Len(x), i)
      <4>1. x \in Bytes /\ Len(x) >= 2
        BY <2>1
      <4> QED
        BY <2>3, <4>1, MeitrackCases, Zenon
    <3> QED
      BY <3>1 DEF Iteration
  <2> QED
    BY <1>0, <2>1, <2>2, <2>4, StoppedIsHeard
<1>5. ASSUME f = Cut(<<36, 36, 65>>) PROVE Heard("meitrack", f, i)
  <2> DEFINE x == <<36, 36, 65>>
  <2>1. x \in Bytes /\ Len(x) = 3 /\ x[1] = 36 /\ x[2] = 36 /\ x[3] = 65
    BY DEF Bytes
  <2>2. f = Cut(x)
    BY <1>5
  <2> HIDE DEF x
  <2>3. MeitrackStart(x) = 1
    <3>1. FirstPairAt(x, 36, 36, 1, 1) /\ 1 \in Nat \ {0}
      BY <2>1 DEF FirstPairAt
    <3>2. Pair(x, 36, 36, 1) = 1
      BY <2>1, <3>1, PairAt
    <3> QED
      BY <3>2 DEF MeitrackStart
  <2>4. MeitrackEnd(x) = 1
    <3>1. MeitrackStart(x) # 0
      BY <2>3
    <3>2. MeitrackEnd(x) = 1 \/ MeitrackEnd(x) \in MeitrackStart(x) + 3 .. Len(x)
      BY <2>1, <3>1, MeitrackPlaces
    <3> QED
      BY <2>1, <2>3, <3>2
  <2>5. Iteration("meitrack", x, i) = Stop(0, i)
    <3>1. MeitrackStart(x) - 1 = 0 /\ Len(x) >= 2 /\ MeitrackStart(x) # 0
      BY <2>1, <2>3
    <3>2. MeitrackIteration(x, i) = Stop(MeitrackStart(x) - 1, i)
      BY <2>1, <2>4, <3>1, MeitrackCases
    <3> QED
      BY <3>1, <3>2 DEF Iteration
  <2> QED
    BY <1>0, <2>1, <2>2, <2>5, StoppedIsHeard
<1> QED
  BY <1>1, <1>2, <1>3, <1>4, <1>5, Zenon DEF Fragment

-----------------------------------------------------------------------------
(* Teltonika fragments: a login at the beginning of the stream, then data. *)

AvlLayout(x, n, body) ==
  /\ x \in Bytes /\ Len(x) = n + 15 /\ \A j \in 1 .. 7 : x[j] = 0
  /\ x[8] = n + 3 /\ x[n + 12] = 0 /\ x[n + 13] = 0
  /\ x[n + 14] = crc16(body) \div 256 /\ x[n + 15] = crc16(body) % 256
  /\ body \in Bytes /\ Len(body) = n + 3 /\ body = SubSeq(x, 9, n + 11)
  /\ body[1] = 8 /\ body[2] = n /\ body[n + 3] = n /\ \A j \in 1 .. n : body[2 + j] = RECORD

\* The body of a data frame.
LEMMA AvlBody ==
  ASSUME NEW n \in Nat, NEW body, body = <<8, n>> \o [j \in 1 .. n |-> RECORD] \o <<n>>
  PROVE  /\ body \in Bytes /\ Len(body) = n + 3
         /\ body[1] = 8 /\ body[2] = n /\ body[n + 3] = n /\ \A j \in 1 .. n : body[2 + j] = RECORD
<1> DEFINE head == <<8, n>>
           records == [j \in 1 .. n |-> RECORD]
           last == <<n>>
           front == head \o records
<1>1. head \in Bytes /\ Len(head) = 2 /\ head[1] = 8 /\ head[2] = n
  BY DEF Bytes
<1>2. last \in Bytes /\ Len(last) = 1 /\ last[1] = n
  BY DEF Bytes
<1>3. records \in Bytes /\ Len(records) = n /\ \A j \in 1 .. n : records[j] = RECORD
  BY DEF Bytes, RECORD
<1>4. body = front \o last
  OBVIOUS
<1> HIDE DEF head, records, last
<1>5. /\ front \in Bytes /\ Len(front) = Len(head) + Len(records)
      /\ \A j \in 1 .. Len(head) + Len(records) : front[j] = IF j <= Len(head) THEN head[j] ELSE records[j - Len(head)]
  BY <1>1, <1>3, ConcatAt
<1> HIDE DEF front
<1>6. Len(front) = n + 2 /\ \A j \in 1 .. n + 2 : front[j] = IF j <= 2 THEN head[j] ELSE records[j - 2]
  <2>1. Len(head) + Len(records) = n + 2
    BY <1>1, <1>3
  <2> QED
    BY <1>1, <1>5, <2>1
<1>7. /\ front \o last \in Bytes /\ Len(front \o last) = Len(front) + Len(last)
      /\ \A j \in 1 .. Len(front) + Len(last) : (front \o last)[j] = IF j <= Len(front) THEN front[j] ELSE last[j - Len(front)]
  BY <1>2, <1>5, ConcatAt
<1>8. body \in Bytes /\ Len(body) = n + 3 /\ \A j \in 1 .. n + 3 : body[j] = IF j <= n + 2 THEN front[j] ELSE last[j - (n + 2)]
  <2>1. Len(front) + Len(last) = n + 3
    BY <1>2, <1>6
  <2> QED
    BY <1>4, <1>6, <1>7, <2>1
<1>9. body[1] = 8 /\ body[2] = n
  <2>1. body[1] = front[1] /\ body[2] = front[2]
    BY <1>8
  <2>2. front[1] = head[1] /\ front[2] = head[2]
    BY <1>6
  <2> QED
    BY <1>1, <2>1, <2>2
<1>10. body[n + 3] = n
  <2>1. n + 3 \in 1 .. n + 3 /\ ~(n + 3 <= n + 2) /\ (n + 3) - (n + 2) = 1
    OBVIOUS
  <2> QED
    BY <1>2, <1>8, <2>1
<1>11. ASSUME NEW j \in 1 .. n PROVE body[2 + j] = RECORD
  <2>1. 2 + j \in 1 .. n + 3 /\ 2 + j \in 1 .. n + 2 /\ 2 + j <= n + 2 /\ ~(2 + j <= 2) /\ (2 + j) - 2 = j
    OBVIOUS
  <2>2. body[2 + j] = front[2 + j]
    BY <1>8, <2>1
  <2>3. front[2 + j] = records[j]
    BY <1>6, <2>1
  <2> QED
    BY <1>3, <2>2, <2>3
<1> QED
  BY <1>8, <1>9, <1>10, <1>11

LEMMA AvlFrameIs ==
  ASSUME NEW n \in Nat
  PROVE  \E body : AvlLayout(encodeTeltonikaAvl(n), n, body)
<1> DEFINE body == <<8, n>> \o [j \in 1 .. n |-> RECORD] \o <<n>>
           head == <<0, 0, 0, 0, 0, 0, 0, Len(body)>>
           tail == <<0, 0, crc16(body) \div 256, crc16(body) % 256>>
           front == head \o body
           x == encodeTeltonikaAvl(n)
           s == SubSeq(x, 9, n + 11)
<1>1. /\ body \in Bytes /\ Len(body) = n + 3
      /\ body[1] = 8 /\ body[2] = n /\ body[n + 3] = n /\ \A j \in 1 .. n : body[2 + j] = RECORD
  BY AvlBody, ZenonT(30)
<1>2. x = front \o tail
  BY DEF encodeTeltonikaAvl
<1> HIDE DEF body, x
<1>3. crc16(body) \in Nat /\ crc16(body) \div 256 \in Nat /\ crc16(body) % 256 \in Nat
  BY <1>1, ChecksumsAreNumbers
<1>4. /\ head \in Bytes /\ Len(head) = 8 /\ head[1] = 0 /\ head[2] = 0 /\ head[3] = 0 /\ head[4] = 0 /\ head[5] = 0
      /\ head[6] = 0 /\ head[7] = 0 /\ head[8] = n + 3
  BY <1>1 DEF Bytes
<1>5. tail \in Bytes /\ Len(tail) = 4 /\ tail[1] = 0 /\ tail[2] = 0 /\ tail[3] = crc16(body) \div 256 /\ tail[4] = crc16(body) % 256
  BY <1>3 DEF Bytes
<1> HIDE DEF head, tail
<1>6. /\ front \in Bytes /\ Len(front) = Len(head) + Len(body)
      /\ \A j \in 1 .. Len(head) + Len(body) : front[j] = IF j <= Len(head) THEN head[j] ELSE body[j - Len(head)]
  BY <1>1, <1>4, ConcatAt
<1> HIDE DEF front
<1>7. Len(front) = n + 11 /\ \A j \in 1 .. n + 11 : front[j] = IF j <= 8 THEN head[j] ELSE body[j - 8]
  <2>1. Len(head) + Len(body) = n + 11
    BY <1>1, <1>4
  <2> QED
    BY <1>4, <1>6, <2>1
<1>8. /\ front \o tail \in Bytes /\ Len(front \o tail) = Len(front) + Len(tail)
      /\ \A j \in 1 .. Len(front) + Len(tail) : (front \o tail)[j] = IF j <= Len(front) THEN front[j] ELSE tail[j - Len(front)]
  BY <1>5, <1>6, ConcatAt
<1>9. x \in Bytes /\ Len(x) = n + 15 /\ \A j \in 1 .. n + 15 : x[j] = IF j <= n + 11 THEN front[j] ELSE tail[j - (n + 11)]
  <2>1. Len(front) + Len(tail) = n + 15
    BY <1>5, <1>7
  <2> QED
    BY <1>2, <1>7, <1>8, <2>1
<1>10. \A j \in 1 .. 8 : x[j] = head[j]
  <2> SUFFICES ASSUME NEW j \in 1 .. 8 PROVE x[j] = head[j]
    OBVIOUS
  <2>1. j \in 1 .. n + 15 /\ j \in 1 .. n + 11 /\ j <= n + 11 /\ j <= 8
    OBVIOUS
  <2>2. x[j] = front[j]
    BY <1>9, <2>1
  <2>3. front[j] = head[j]
    BY <1>7, <2>1
  <2> QED
    BY <2>2, <2>3
<1>11. (\A j \in 1 .. 7 : x[j] = 0) /\ x[8] = n + 3
  <2>1. \A j \in 1 .. 7 : head[j] = 0
    BY <1>4
  <2> QED
    BY <1>4, <1>10, <2>1
<1>12. \A j \in 1 .. n + 3 : x[8 + j] = body[j]
  <2> SUFFICES ASSUME NEW j \in 1 .. n + 3 PROVE x[8 + j] = body[j]
    OBVIOUS
  <2>1. 8 + j \in 1 .. n + 15 /\ 8 + j \in 1 .. n + 11 /\ 8 + j <= n + 11 /\ ~(8 + j <= 8) /\ (8 + j) - 8 = j
    OBVIOUS
  <2>2. x[8 + j] = front[8 + j]
    BY <1>9, <2>1
  <2>3. front[8 + j] = body[j]
    BY <1>7, <2>1
  <2> QED
    BY <2>2, <2>3
<1>13. \A j \in 1 .. 4 : x[(n + 11) + j] = tail[j]
  <2> SUFFICES ASSUME NEW j \in 1 .. 4 PROVE x[(n + 11) + j] = tail[j]
    OBVIOUS
  <2>1. (n + 11) + j \in 1 .. n + 15 /\ ~((n + 11) + j <= n + 11) /\ ((n + 11) + j) - (n + 11) = j
    OBVIOUS
  <2> QED
    BY <1>9, <2>1
<1>14. x[n + 12] = 0 /\ x[n + 13] = 0 /\ x[n + 14] = crc16(body) \div 256 /\ x[n + 15] = crc16(body) % 256
  <2>1. x[(n + 11) + 1] = tail[1] /\ x[(n + 11) + 2] = tail[2] /\ x[(n + 11) + 3] = tail[3] /\ x[(n + 11) + 4] = tail[4]
    BY <1>13
  <2>2. (n + 11) + 1 = n + 12 /\ (n + 11) + 2 = n + 13 /\ (n + 11) + 3 = n + 14 /\ (n + 11) + 4 = n + 15
    OBVIOUS
  <2> QED
    BY <1>5, <2>1, <2>2
<1>15. s = body
  <2>1. 9 \in 1 .. Len(x) /\ n + 11 \in 0 .. Len(x) /\ 9 <= n + 11 + 1 /\ n + 11 + 1 - 9 = n + 3
    BY <1>9
  <2>2. s \in Bytes /\ Len(s) = n + 11 + 1 - 9 /\ \A j \in 1 .. n + 11 + 1 - 9 : s[j] = x[9 + j - 1]
    BY <1>9, <2>1, SliceFacts
  <2> HIDE DEF s
  <2>3. \A j \in 1 .. n + 3 : s[j] = body[j]
    <3> SUFFICES ASSUME NEW j \in 1 .. n + 3 PROVE s[j] = body[j]
      OBVIOUS
    <3>1. 9 + j - 1 = 8 + j
      OBVIOUS
    <3> QED
      BY <1>12, <2>1, <2>2, <3>1
  <2>4. Len(s) = n + 3
    BY <2>1, <2>2
  <2> QED
    BY <1>1, <2>2, <2>3, <2>4, SameBytes
<1>16. AvlLayout(x, n, body)
  BY <1>1, <1>9, <1>11, <1>14, <1>15 DEF AvlLayout
<1> HIDE DEF s
<1> QED
  BY <1>16 DEF x

\* The message of a data frame of n records.
LEMMA AvlOfBody ==
  ASSUME NEW n \in {0, 1, 2}, NEW body \in Bytes, Len(body) = n + 3, body[1] = 8, body[2] = n, body[n + 3] = n,
         \A j \in 1 .. n : body[2 + j] = RECORD, NEW i \in Nat
  PROVE  AvlOf(body, i) = IF n = 0 THEN <<Message("heartbeat", i)>> ELSE [j \in 1 .. n |-> Message("location", i)]
<1> DEFINE records == SubSeq(body, 3, Len(body) - 1)
           count == body[2]
           locations == [j \in 1 .. n |-> Message("location", i)]
<1>1. Len(records) = n /\ \A j \in DOMAIN records : records[j] = RECORD
  <2> DEFINE s == SubSeq(body, 3, n + 2)
  <2>1. 3 \in 1 .. Len(body) /\ n + 2 \in 0 .. Len(body) /\ 3 <= n + 2 + 1 /\ n + 2 + 1 - 3 = n /\ Len(body) - 1 = n + 2
    OBVIOUS
  <2>2. s \in Bytes /\ Len(s) = n + 2 + 1 - 3 /\ \A j \in 1 .. n + 2 + 1 - 3 : s[j] = body[3 + j - 1]
    BY <2>1, SliceFacts
  <2>3. records = s
    BY <2>1
  <2> HIDE DEF s
  <2>4. DOMAIN s = 1 .. n
    BY <2>1, <2>2, LenProperties DEF Bytes
  <2>5. \A j \in 1 .. n : s[j] = RECORD
    <3> SUFFICES ASSUME NEW j \in 1 .. n PROVE s[j] = RECORD
      OBVIOUS
    <3>1. 3 + j - 1 = 2 + j
      OBVIOUS
    <3> QED
      BY <2>1, <2>2, <3>1
  <2> QED
    BY <2>1, <2>2, <2>3, <2>4, <2>5
<1>2. AvlOf(body, i) = AvlMessages(body, i)
  BY DEF AvlOf
<1>3. AvlMessages(body, i) =
        CASE Len(body) # count + 3 \/ body[Len(body)] # count \/ \E j \in DOMAIN records : records[j] # RECORD -> <<>>
          [] OTHER -> IF count = 0 THEN <<Message("heartbeat", i)>> ELSE [j \in 1 .. count |-> Message("location", i)]
  BY DEF AvlMessages
<1> HIDE DEF records
<1>4. count = n /\ body[Len(body)] = n
  OBVIOUS
<1> HIDE DEF count
<1>5. AvlMessages(body, i) = IF count = 0 THEN <<Message("heartbeat", i)>> ELSE [j \in 1 .. count |-> Message("location", i)]
  <2>1. ~(Len(body) # count + 3 \/ body[Len(body)] # count \/ \E j \in DOMAIN records : records[j] # RECORD)
    BY <1>1, <1>4
  <2> QED
    BY <1>3, <2>1, Zenon
<1> QED
  BY <1>2, <1>4, <1>5

\* The decoder reads the frames of the encoder.
LEMMA TeltonikaRoundTrip ==
  ASSUME NEW n \in {0, 1, 2}, NEW x, NEW body, AvlLayout(x, n, body), NEW i \in Nat \ {0}
  PROVE  Iteration("teltonika", x, i) = Take(Len(x), AvlOf(body, i), i)
<1>1. /\ x \in Bytes /\ Len(x) = n + 15 /\ \A j \in 1 .. 7 : x[j] = 0
      /\ x[8] = n + 3 /\ x[n + 14] = crc16(body) \div 256 /\ x[n + 15] = crc16(body) % 256
      /\ body \in Bytes /\ body = SubSeq(x, 9, n + 11)
  BY DEF AvlLayout
<1> DEFINE len == DataLength(x)
<1>2. len = n + 3
  <2>1. x[5] = 0 /\ x[6] = 0 /\ x[7] = 0
    BY <1>1
  <2>2. ((0 * 256 + 0) * 256 + 0) * 256 + (n + 3) = n + 3
    OBVIOUS
  <2> QED
    BY <1>1, <2>1, <2>2 DEF DataLength
<1>3. Framed(x)
  <2>1. (\A j \in 1 .. 4 : x[j] = 0) /\ x[5] = 0 /\ x[6] = 0
    BY <1>1
  <2> HIDE DEF len
  <2>2. ~(len < 3) /\ ~(len > 61440)
    BY <1>2
  <2> QED
    BY <2>1, <2>2 DEF Framed, len
<1>4. Len(x) >= 12 /\ Len(x) >= len + 12 /\ Len(x) = len + 12
  BY <1>1, <1>2
<1>5. TeltonikaIteration(x, i) =
        IF x[len + 11] * 256 + x[len + 12] # crc16(SubSeq(x, 9, 8 + len)) THEN Skip(1, i)
        ELSE Take(len + 12, AvlOf(SubSeq(x, 9, 8 + len), i), i)
  BY <1>1, <1>3, <1>4, TeltonikaCases
<1> HIDE DEF len
<1>6. len + 11 = n + 14 /\ len + 12 = n + 15 /\ 8 + len = n + 11
  BY <1>2
<1>7. x[n + 14] * 256 + x[n + 15] = crc16(body)
  <2>1. crc16(body) \in Nat
    BY <1>1, ChecksumsAreNumbers
  <2>2. (crc16(body) \div 256) * 256 + (crc16(body) % 256) = crc16(body)
    BY <2>1, Halves
  <2> QED
    BY <1>1, <2>2
<1>8. TeltonikaIteration(x, i) = Take(Len(x), AvlOf(body, i), i)
  BY <1>1, <1>4, <1>5, <1>6, <1>7
<1> QED
  BY <1>8 DEF Iteration

\* A damaged frame is passed over, and what is left of it waits for more.
LEMMA TeltonikaMisread ==
  ASSUME NEW n \in {0, 1}, NEW x \in Bytes, Len(x) = n + 15, \A j \in 1 .. 7 : x[j] = 0, x[8] = n + 3, x[9] \in {8, 9},
         x[n + 14] * 256 + x[n + 15] # crc16(SubSeq(x, 9, n + 11)), NEW i \in Nat \ {0}
  PROVE  decode("teltonika", x, i).messages = <<>> /\ decode("teltonika", x, i).imei = i
<1> DEFINE len == DataLength(x)
           r == From(x, 2)
           s == Skip(1, i)
           e == Stop(0, i)
<1>0. "teltonika" \in Protocol /\ i \in Nat
  BY DEF Protocol
<1>1. len = n + 3
  <2>1. x[5] = 0 /\ x[6] = 0 /\ x[7] = 0
    OBVIOUS
  <2>2. ((0 * 256 + 0) * 256 + 0) * 256 + (n + 3) = n + 3
    OBVIOUS
  <2> QED
    BY <2>1, <2>2 DEF DataLength
<1>2. Framed(x)
  <2>1. (\A j \in 1 .. 4 : x[j] = 0) /\ x[5] = 0 /\ x[6] = 0
    OBVIOUS
  <2> HIDE DEF len
  <2>2. ~(len < 3) /\ ~(len > 61440)
    BY <1>1
  <2> QED
    BY <2>1, <2>2 DEF Framed, len
<1>3. Len(x) >= 12 /\ Len(x) >= len + 12
  BY <1>1
<1>4. TeltonikaIteration(x, i) =
        IF x[len + 11] * 256 + x[len + 12] # crc16(SubSeq(x, 9, 8 + len)) THEN Skip(1, i)
        ELSE Take(len + 12, AvlOf(SubSeq(x, 9, 8 + len), i), i)
  BY <1>2, <1>3, TeltonikaCases
<1> HIDE DEF len
<1>5. len + 11 = n + 14 /\ len + 12 = n + 15 /\ 8 + len = n + 11
  BY <1>1
<1>6. Iteration("teltonika", x, i) = s
  <2>1. TeltonikaIteration(x, i) = s
    BY <1>4, <1>5
  <2> QED
    BY <2>1 DEF Iteration
<1>7. s.go = "next" /\ s.n = 1 /\ s.messages = <<>> /\ s.imei = i /\ e.go = "stop" /\ e.messages = <<>> /\ e.imei = i
  <2>1. s.go = "next" /\ s.n = 1 /\ s.messages = <<>> /\ s.imei = i
    BY Fields
  <2>2. e.go = "stop" /\ e.messages = <<>> /\ e.imei = i
    BY Fields
  <2> QED
    BY <2>1, <2>2
<1>8. r \in Bytes /\ Len(r) = n + 14 /\ \A j \in 1 .. n + 14 : r[j] = x[1 + j]
  <2>1. 1 \in 0 .. Len(x) /\ 1 + 1 = 2 /\ Len(x) - 1 = n + 14
    OBVIOUS
  <2>2. From(x, 1 + 1) \in Bytes /\ Len(From(x, 1 + 1)) = Len(x) - 1 /\ \A j \in 1 .. Len(x) - 1 : From(x, 1 + 1)[j] = x[1 + j]
    BY <2>1, FromFacts
  <2> QED
    BY <2>1, <2>2
<1> HIDE DEF r
<1>9. Iteration("teltonika", r, i) = e
  <2> DEFINE more == DataLength(r)
  <2>1. r[1] = 0 /\ r[2] = 0 /\ r[3] = 0 /\ r[4] = 0 /\ r[5] = 0 /\ r[6] = 0 /\ r[7] = x[8] /\ r[8] = x[9]
    <3>1. /\ r[1] = x[1 + 1] /\ r[2] = x[1 + 2] /\ r[3] = x[1 + 3] /\ r[4] = x[1 + 4] /\ r[5] = x[1 + 5] /\ r[6] = x[1 + 6]
          /\ r[7] = x[1 + 7] /\ r[8] = x[1 + 8]
      BY <1>8
    <3> QED
      BY <3>1
  <2>2. more = ((0 * 256 + 0) * 256 + (n + 3)) * 256 + x[9]
    BY <2>1 DEF DataLength
  <2> HIDE DEF more
  <2>3. more \in Nat /\ more >= 768 /\ more <= 1033
    <3>1. more = (n + 3) * 256 + x[9]
      BY <2>2
    <3> QED
      BY <3>1, SMTT(30)
  <2>4. Framed(r)
    <3>1. (\A j \in 1 .. 4 : r[j] = 0) /\ ~(r[5] > 0) /\ ~(r[6] > 0)
      BY <2>1
    <3>2. ~(more < 3) /\ ~(more > 61440)
      BY <2>3
    <3> QED
      BY <3>1, <3>2 DEF Framed, more
  <2>5. Len(r) >= 12 /\ Len(r) < more + 12
    BY <1>8, <2>3
  <2>6. TeltonikaIteration(r, i) = Stop(0, i)
    BY <1>8, <2>4, <2>5, TeltonikaCases DEF more
  <2> QED
    BY <2>6 DEF Iteration
<1>10. decode("teltonika", r, i) = e
  BY <1>0, <1>7, <1>8, <1>9, DecodeUnrolls
<1>11. decode("teltonika", x, i) = After(s, e)
  <2>1. decode("teltonika", x, i) = After(s, decode("teltonika", From(x, s.n + 1), s.imei))
    BY <1>0, <1>6, <1>7, DecodeUnrolls
  <2>2. s.n + 1 = 2
    BY <1>7
  <2> QED
    BY <1>7, <1>10, <2>1, <2>2 DEF r
<1>12. e \in Outcomes
  <2> DEFINE zero == 0
  <2>1. zero \in Nat /\ e = Stop(zero, i)
    OBVIOUS
  <2> HIDE DEF zero, e
  <2>2. Stop(zero, i) \in Outcomes
    BY <1>0, <2>1, PlainOutcomes
  <2> QED
    BY <2>1, <2>2
<1> HIDE DEF s, e
<1>13. After(s, e).messages = s.messages \o e.messages /\ After(s, e).imei = e.imei
  BY <1>12, AfterIs
<1>14. <<>> \o <<>> = <<>>
  OBVIOUS
<1> QED
  BY <1>7, <1>11, <1>13, <1>14

LEMMA SilentAlone ==
  ASSUME NEW protocol \in Protocol, NEW x \in Bytes, NEW i \in Nat, NEW f, f = Noise(x) \/ f = Cut(x),
         decode(protocol, x, i).messages = <<>>, decode(protocol, x, i).imei = i
  PROVE  f \in Frag /\ f.is # "frame" /\ Alone(protocol, f, i)
<1>1. f.bytes = x /\ f.kinds = <<>> /\ f.imei = 0 /\ f \in Frag /\ f.is # "frame"
  <2>1. CASE f = Noise(x)
    BY <2>1, FragmentParts
  <2>2. CASE f = Cut(x)
    BY <2>2, FragmentParts
  <2> QED
    BY <2>1, <2>2
<1>2. MessagesOf(f, i) = <<>> /\ Named(f, i) = i
  BY <1>1, NoKinds
<1> QED
  BY <1>1, <1>2 DEF Alone

\* A login begins a stream; after it, and in a topic, there are frames without an IMEI.
LEMMA TeltonikaFragments ==
  ASSUME NEW f \in Fragment["teltonika"], NEW i \in Nat
  PROVE  /\ f \in Frag
         /\ f.is = "frame" /\ (i = 0 <=> f.imei # 0) => Heard("teltonika", f, i)
         /\ i # 0 /\ f.imei = 0 => Alone("teltonika", f, i)
<1> DEFINE Told == /\ f \in Frag
                   /\ f.is = "frame" /\ (i = 0 <=> f.imei # 0) => Heard("teltonika", f, i)
                   /\ i # 0 /\ f.imei = 0 => Alone("teltonika", f, i)
<1>0. "teltonika" \in Protocol
  BY DEF Protocol
<1>1. ASSUME f \in Frag, f.imei = 0, f.is # "frame", i # 0 => Alone("teltonika", f, i) PROVE Told
  BY <1>1
<1>2. ASSUME f \in Frag, f.imei = 0, i # 0 => Heard("teltonika", f, i) PROVE Told
  BY <1>2 DEF Heard
<1>3. ASSUME f = Whole(encodeTeltonikaImei(1), <<"login">>, 1) PROVE Told
  <2> DEFINE x == <<0, 1, 1>>
             kinds == <<"login">>
  <2>1. x \in Bytes /\ Len(x) = 3 /\ x[1] = 0 /\ x[2] = 1 /\ x[3] = 1 /\ x # <<>>
    BY DEF Bytes
  <2>2. f = Whole(x, kinds, 1)
    BY <1>3 DEF encodeTeltonikaImei
  <2>3. kinds \in Seq(Kinds) /\ 1 \in Nat
    BY DEF Kinds
  <2> HIDE DEF x
  <2>4. f \in Frag /\ f.imei = 1 /\ f.is = "frame"
    <3> HIDE DEF kinds
    <3> DEFINE one == 1
    <3>1. f = Whole(x, kinds, one) /\ one \in Nat /\ one = 1
      BY <2>2
    <3> HIDE DEF one
    <3> QED
      BY <2>1, <2>3, <3>1, FragmentParts
  <2>5. ASSUME i = 0 PROVE Heard("teltonika", f, i)
    <3>1. TeltonikaHandshake(x) = Take(3, <<Message("login", 1)>>, 1)
      <4>1. x[1] * 256 + x[2] = 1 /\ 2 + 1 = 3
        BY <2>1
      <4>2. ~(Len(x) < 2 \/ 1 < 1 \/ 1 > 20 \/ Len(x) < 3 \/ \E j \in 3 .. 3 : ~IsImei(x[j]))
        BY <2>1 DEF IsImei
      <4>3. TeltonikaHandshake(x) =
              IF Len(x) < 2 \/ 1 < 1 \/ 1 > 20 \/ Len(x) < 2 + 1 \/ \E j \in 3 .. 2 + 1 : ~IsImei(x[j])
              THEN Stop(0, 0) ELSE Take(2 + 1, <<Message("login", x[3])>>, x[3])
        BY <4>1 DEF TeltonikaHandshake
      <4> QED
        BY <2>1, <4>1, <4>2, <4>3
    <3>2. TeltonikaIteration(x, 0) = TeltonikaHandshake(x)
      BY <2>1 DEF TeltonikaIteration
    <3>3. Iteration("teltonika", x, i) = Take(Len(x), <<Message("login", 1)>>, 1)
      BY <2>1, <2>5, <3>1, <3>2 DEF Iteration
    <3>4. x \in Bytes /\ "login" \in Kinds /\ 1 \in Nat /\ 1 = IF 1 # 0 THEN 1 ELSE i
      BY <2>1 DEF Kinds
    <3>5. f = Whole(x, <<"login">>, 1)
      BY <2>2
    <3> QED
      BY <1>0, <3>3, <3>4, <3>5, FrameIsHeard, ZenonT(60)
  <2> QED
    BY <2>4, <2>5
<1>4. ASSUME f = Whole(encodeTeltonikaAvl(2), <<"location", "location">>, 0) PROVE Told
  <2> DEFINE x == encodeTeltonikaAvl(2)
             kinds == <<"location", "location">>
             messages == [j \in 1 .. 2 |-> Message("location", i)]
             e == Take(Len(x), messages, i)
  <2>0. kinds \in Seq(Kinds) /\ DOMAIN kinds = 1 .. 2 /\ \A j \in 1 .. 2 : kinds[j] = "location"
    BY DEF Kinds
  <2>1. PICK body : AvlLayout(x, 2, body)
    BY AvlFrameIs
  <2> HIDE DEF x
  <2>2. x \in Bytes /\ body \in Bytes
    BY <2>1 DEF AvlLayout
  <2>3. f.bytes = x /\ f.is = "frame" /\ f.kinds = kinds /\ f.imei = 0 /\ f \in Frag
    <3> DEFINE zero == 0
    <3>1. f = Whole(x, kinds, zero) /\ zero \in Nat /\ zero = 0
      BY <1>4 DEF x
    <3> HIDE DEF kinds, zero
    <3> QED
      BY <2>0, <2>2, <3>1, FragmentParts
  <2>4. Named(f, i) = i
    BY <2>3 DEF Named
  <2>5. MessagesOf(f, i) = messages
    BY <2>0, <2>3, <2>4 DEF MessagesOf
  <2>6. messages \in Seq(Said)
    <3>1. \A j \in 1 .. 2 : Message("location", i) \in Said
      BY DEF Message, Said, Kinds
    <3> QED
      BY <3>1
  <2>7. ASSUME i # 0 PROVE Heard("teltonika", f, i)
    <3>1. AvlOf(body, i) = messages
      <4>1. /\ Len(body) = 2 + 3 /\ body[1] = 8 /\ body[2] = 2 /\ body[2 + 3] = 2 /\ \A j \in 1 .. 2 : body[2 + j] = RECORD
        BY <2>1 DEF AvlLayout
      <4>2. 2 \in {0, 1, 2} /\ 2 # 0
        OBVIOUS
      <4>3. AvlOf(body, i) = IF 2 = 0 THEN <<Message("heartbeat", i)>> ELSE [j \in 1 .. 2 |-> Message("location", i)]
        BY <2>2, <4>1, <4>2, AvlOfBody
      <4> QED
        BY <4>2, <4>3
    <3> HIDE DEF messages
    <3>2. Iteration("teltonika", x, i) = e
      <4>1. 2 \in {0, 1, 2} /\ i \in Nat \ {0}
        BY <2>7
      <4> QED
        BY <2>1, <3>1, <4>1, TeltonikaRoundTrip
    <3>3. e.go = "next" /\ e.n = Len(x) /\ e.messages = messages /\ e.imei = i
      BY Fields
    <3> HIDE DEF e
    <3>4. Legibly("teltonika", x, e.messages, i, e.imei)
      BY <1>0, <2>2, <3>2, <3>3, TakenWhole
    <3>5. Readable("teltonika", f, i)
      BY <2>3, <2>4, <2>5, <3>3, <3>4 DEF Readable
    <3>6. Alone("teltonika", f, i)
      BY <1>0, <2>2, <2>3, <2>4, <2>5, <2>6, <3>5, ReadableAlone
    <3> QED
      BY <2>3, <3>5, <3>6 DEF Heard
  <2> QED
    BY <1>2, <2>3, <2>7
<1>5. ASSUME f = Whole(encodeTeltonikaAvl(0), <<"heartbeat">>, 0) PROVE Told
  <2> DEFINE x == encodeTeltonikaAvl(0)
             kinds == <<"heartbeat">>
  <2>1. PICK body : AvlLayout(x, 0, body)
    BY AvlFrameIs
  <2> HIDE DEF x
  <2>2. x \in Bytes /\ body \in Bytes
    BY <2>1 DEF AvlLayout
  <2>3. f.imei = 0 /\ f \in Frag
    <3> DEFINE zero == 0
    <3>1. f = Whole(x, kinds, zero) /\ zero \in Nat /\ zero = 0 /\ kinds \in Seq(Kinds)
      BY <1>5 DEF x, Kinds
    <3> HIDE DEF kinds, zero
    <3> QED
      BY <2>2, <3>1, FragmentParts
  <2>4. ASSUME i # 0 PROVE Heard("teltonika", f, i)
    <3>1. AvlOf(body, i) = <<Message("heartbeat", i)>>
      <4>1. /\ Len(body) = 0 + 3 /\ body[1] = 8 /\ body[2] = 0 /\ body[0 + 3] = 0 /\ \A j \in 1 .. 0 : body[2 + j] = RECORD
        BY <2>1 DEF AvlLayout
      <4>2. 0 \in {0, 1, 2}
        OBVIOUS
      <4>3. AvlOf(body, i) = IF 0 = 0 THEN <<Message("heartbeat", i)>> ELSE [j \in 1 .. 0 |-> Message("location", i)]
        BY <2>2, <4>1, <4>2, AvlOfBody
      <4> QED
        BY <4>3
    <3>2. Iteration("teltonika", x, i) = Take(Len(x), <<Message("heartbeat", i)>>, i)
      <4>1. 0 \in {0, 1, 2} /\ i \in Nat \ {0}
        BY <2>4
      <4>2. Iteration("teltonika", x, i) = Take(Len(x), AvlOf(body, i), i)
        BY <2>1, <4>1, TeltonikaRoundTrip
      <4> QED
        BY <3>1, <4>2
    <3>3. x \in Bytes /\ "heartbeat" \in Kinds /\ 0 \in Nat /\ i = IF 0 # 0 THEN 0 ELSE i
      BY <2>2 DEF Kinds
    <3>4. f = Whole(x, <<"heartbeat">>, 0)
      BY <1>5 DEF x
    <3> QED
      BY <1>0, <3>2, <3>3, <3>4, FrameIsHeard, ZenonT(60)
  <2> QED
    BY <1>2, <2>3, <2>4
<1>6. ASSUME NEW x \in Bytes, f = Noise(x) \/ f = Cut(x),
             i # 0 => decode("teltonika", x, i).messages = <<>> /\ decode("teltonika", x, i).imei = i
      PROVE  Told
  <2>1. f.imei = 0 /\ f \in Frag /\ f.is # "frame"
    BY <1>6, FragmentParts
  <2>2. i # 0 => Alone("teltonika", f, i)
    <3> SUFFICES ASSUME i # 0 PROVE Alone("teltonika", f, i)
      OBVIOUS
    <3> QED
      BY <1>0, <1>6, SilentAlone
  <2> QED
    BY <1>1, <2>1, <2>2
<1>7. ASSUME f = Noise(<< 9 >>) PROVE Told
  <2> DEFINE x == <<9>>
  <2>1. x \in Bytes /\ Len(x) < 12
    BY DEF Bytes
  <2>2. f = Noise(x)
    BY <1>7
  <2> HIDE DEF x
  <2>3. ASSUME i # 0 PROVE decode("teltonika", x, i).messages = <<>> /\ decode("teltonika", x, i).imei = i
    <3>1. TeltonikaIteration(x, i) = Stop(0, i)
      BY <2>1, <2>3, TeltonikaCases
    <3>2. Iteration("teltonika", x, i) = Stop(0, i)
      BY <3>1 DEF Iteration
    <3>3. Stop(0, i).go = "stop" /\ Stop(0, i).messages = <<>> /\ Stop(0, i).imei = i
      BY Fields
    <3>4. decode("teltonika", x, i) = Stop(0, i)
      BY <1>0, <2>1, <3>2, <3>3, DecodeUnrolls
    <3> QED
      BY <3>3, <3>4
  <2> HIDE DEF Told
  <2> QED
    BY <1>6, <2>1, <2>2, <2>3
<1>8. ASSUME f = Noise([encodeTeltonikaAvl(1) EXCEPT ![11] = 7]) PROVE Told
  <2> DEFINE g == encodeTeltonikaAvl(1)
             k == 11
             v == 7
             x == [g EXCEPT ![k] = v]
  <2>1. PICK body : AvlLayout(g, 1, body)
    BY AvlFrameIs
  <2>2. f = Noise(x)
    BY <1>8
  <2> HIDE DEF g
  <2>3. /\ g \in Bytes /\ Len(g) = 16 /\ (\A j \in 1 .. 7 : g[j] = 0) /\ g[8] = 4 /\ g[13] = 0 /\ g[14] = 0
        /\ g[15] = crc16(body) \div 256 /\ g[16] = crc16(body) % 256
        /\ body \in Bytes /\ Len(body) = 4 /\ body[1] = 8 /\ body[2] = 1 /\ body[3] = RECORD /\ body[4] = 1
        /\ body = SubSeq(g, 9, 12)
    <3>1. /\ g \in Bytes /\ Len(g) = 1 + 15 /\ (\A j \in 1 .. 7 : g[j] = 0) /\ g[8] = 1 + 3
          /\ g[1 + 12] = 0 /\ g[1 + 13] = 0
          /\ g[1 + 14] = crc16(body) \div 256 /\ g[1 + 15] = crc16(body) % 256
          /\ body \in Bytes /\ Len(body) = 1 + 3 /\ body[1] = 8 /\ body[2] = 1 /\ body[1 + 3] = 1
          /\ body = SubSeq(g, 9, 1 + 11) /\ \A j \in 1 .. 1 : body[2 + j] = RECORD
      BY <2>1 DEF AvlLayout
    <3>2. body[2 + 1] = RECORD
      BY <3>1
    <3> QED
      BY <3>1, <3>2
  <2>4. g[9] = 8 /\ g[10] = 1 /\ g[11] = RECORD /\ g[12] = 1
    <3>1. 9 \in 1 .. Len(g) /\ 12 \in 0 .. Len(g) /\ 9 <= 12 + 1
      BY <2>3
    <3>2. \A j \in 1 .. 12 + 1 - 9 : SubSeq(g, 9, 12)[j] = g[9 + j - 1]
      BY <2>3, <3>1, SliceFacts
    <3>3. \A j \in 1 .. 4 : body[j] = g[8 + j]
      BY <2>3, <3>2
    <3>4. body[1] = g[8 + 1] /\ body[2] = g[8 + 2] /\ body[3] = g[8 + 3] /\ body[4] = g[8 + 4]
      BY <3>3
    <3> QED
      BY <2>3, <3>4
  <2>5. crc16(body) = 85
    <3>1. Total(body) = body[1] + body[2] + body[3] + body[4]
      BY <2>3, Totals
    <3> QED
      BY <2>3, <3>1 DEF crc16, RECORD
  <2>6. g[15] = 0 /\ g[16] = 85
    <3>1. 85 \div 256 = 0 /\ 85 % 256 = 85
      OBVIOUS
    <3> QED
      BY <2>3, <2>5, <3>1
  <2>7. k \in 1 .. Len(g) /\ v \in Nat /\ k = 11 /\ v = 7
    BY <2>3
  <2> HIDE DEF k, v
  <2>8. x \in Bytes /\ Len(x) = Len(g) /\ x[k] = v /\ \A j \in 1 .. Len(g) : j # k => x[j] = g[j]
    <3>1. g \in Bytes /\ x = [g EXCEPT ![k] = v]
      BY <2>3
    <3> QED
      BY <2>7, <3>1, ChangedByte
  <2> HIDE DEF x
  <2>9. /\ Len(x) = 1 + 15 /\ (\A j \in 1 .. 7 : x[j] = 0) /\ x[8] = 1 + 3 /\ x[9] = 8 /\ x[10] = 1 /\ x[11] = 7 /\ x[12] = 1
        /\ x[1 + 14] = 0 /\ x[1 + 15] = 85
    BY <2>3, <2>4, <2>6, <2>7, <2>8
  <2>10. crc16(SubSeq(x, 9, 1 + 11)) = 17
    <3> DEFINE s == SubSeq(x, 9, 12)
    <3>1. 9 \in 1 .. Len(x) /\ 12 \in 0 .. Len(x) /\ 9 <= 12 + 1 /\ 1 + 11 = 12
      BY <2>9
    <3>2. s \in Bytes /\ Len(s) = 12 + 1 - 9 /\ \A j \in 1 .. 12 + 1 - 9 : s[j] = x[9 + j - 1]
      BY <2>8, <3>1, SliceFacts
    <3> HIDE DEF s
    <3>3. s[1] = x[9 + 1 - 1] /\ s[2] = x[9 + 2 - 1] /\ s[3] = x[9 + 3 - 1] /\ s[4] = x[9 + 4 - 1]
      BY <3>2
    <3>4. Total(s) = s[1] + s[2] + s[3] + s[4]
      BY <3>2, Totals
    <3>5. Total(s) = 17
      BY <2>9, <3>3, <3>4
    <3> QED
      BY <3>1, <3>5 DEF crc16, s
  <2>11. ASSUME i # 0 PROVE decode("teltonika", x, i).messages = <<>> /\ decode("teltonika", x, i).imei = i
    <3>1. 1 \in {0, 1} /\ x[9] \in {8, 9} /\ i \in Nat \ {0} /\ x[1 + 14] * 256 + x[1 + 15] # crc16(SubSeq(x, 9, 1 + 11))
      BY <2>9, <2>10, <2>11
    <3> QED
      BY <2>8, <2>9, <3>1, TeltonikaMisread
  <2> HIDE DEF Told
  <2> QED
    BY <1>6, <2>2, <2>8, <2>11
<1>9. ASSUME f = Cut([encodeTeltonikaAvl(0) EXCEPT ![9] = 9]) PROVE Told
  <2> DEFINE g == encodeTeltonikaAvl(0)
             k == 9
             v == 9
             x == [g EXCEPT ![k] = v]
  <2>1. PICK body : AvlLayout(g, 0, body)
    BY AvlFrameIs
  <2>2. f = Cut(x)
    BY <1>9
  <2> HIDE DEF g
  <2>3. /\ g \in Bytes /\ Len(g) = 15 /\ (\A j \in 1 .. 7 : g[j] = 0) /\ g[8] = 3 /\ g[12] = 0 /\ g[13] = 0
        /\ g[14] = crc16(body) \div 256 /\ g[15] = crc16(body) % 256
        /\ body \in Bytes /\ Len(body) = 3 /\ body[1] = 8 /\ body[2] = 0 /\ body[3] = 0
        /\ body = SubSeq(g, 9, 11)
    <3>1. /\ g \in Bytes /\ Len(g) = 0 + 15 /\ (\A j \in 1 .. 7 : g[j] = 0) /\ g[8] = 0 + 3
          /\ g[0 + 12] = 0 /\ g[0 + 13] = 0
          /\ g[0 + 14] = crc16(body) \div 256 /\ g[0 + 15] = crc16(body) % 256
          /\ body \in Bytes /\ Len(body) = 0 + 3 /\ body[1] = 8 /\ body[2] = 0 /\ body[0 + 3] = 0
          /\ body = SubSeq(g, 9, 0 + 11)
      BY <2>1 DEF AvlLayout
    <3> QED
      BY <3>1
  <2>4. g[10] = 0 /\ g[11] = 0
    <3>1. 9 \in 1 .. Len(g) /\ 11 \in 0 .. Len(g) /\ 9 <= 11 + 1
      BY <2>3
    <3>2. \A j \in 1 .. 11 + 1 - 9 : SubSeq(g, 9, 11)[j] = g[9 + j - 1]
      BY <2>3, <3>1, SliceFacts
    <3>3. \A j \in 1 .. 3 : body[j] = g[8 + j]
      BY <2>3, <3>2
    <3>4. body[2] = g[8 + 2] /\ body[3] = g[8 + 3]
      BY <3>3
    <3> QED
      BY <2>3, <3>4
  <2>5. crc16(body) = 8
    <3>1. Total(body) = body[1] + body[2] + body[3]
      BY <2>3, Totals
    <3> QED
      BY <2>3, <3>1 DEF crc16
  <2>6. g[14] = 0 /\ g[15] = 8
    <3>1. 8 \div 256 = 0 /\ 8 % 256 = 8
      OBVIOUS
    <3> QED
      BY <2>3, <2>5, <3>1
  <2>7. k \in 1 .. Len(g) /\ v \in Nat /\ k = 9 /\ v = 9
    BY <2>3
  <2> HIDE DEF k, v
  <2>8. x \in Bytes /\ Len(x) = Len(g) /\ x[k] = v /\ \A j \in 1 .. Len(g) : j # k => x[j] = g[j]
    <3>1. g \in Bytes /\ x = [g EXCEPT ![k] = v]
      BY <2>3
    <3> QED
      BY <2>7, <3>1, ChangedByte
  <2> HIDE DEF x
  <2>9. /\ Len(x) = 0 + 15 /\ (\A j \in 1 .. 7 : x[j] = 0) /\ x[8] = 0 + 3 /\ x[9] = 9 /\ x[10] = 0 /\ x[11] = 0
        /\ x[0 + 14] = 0 /\ x[0 + 15] = 8
    BY <2>3, <2>4, <2>6, <2>7, <2>8
  <2>10. crc16(SubSeq(x, 9, 0 + 11)) = 9
    <3> DEFINE s == SubSeq(x, 9, 11)
    <3>1. 9 \in 1 .. Len(x) /\ 11 \in 0 .. Len(x) /\ 9 <= 11 + 1 /\ 0 + 11 = 11
      BY <2>9
    <3>2. s \in Bytes /\ Len(s) = 11 + 1 - 9 /\ \A j \in 1 .. 11 + 1 - 9 : s[j] = x[9 + j - 1]
      BY <2>8, <3>1, SliceFacts
    <3> HIDE DEF s
    <3>3. s[1] = x[9 + 1 - 1] /\ s[2] = x[9 + 2 - 1] /\ s[3] = x[9 + 3 - 1]
      BY <3>2
    <3>4. Total(s) = s[1] + s[2] + s[3]
      BY <3>2, Totals
    <3>5. Total(s) = 9
      BY <2>9, <3>3, <3>4
    <3> QED
      BY <3>1, <3>5 DEF crc16, s
  <2>11. ASSUME i # 0 PROVE decode("teltonika", x, i).messages = <<>> /\ decode("teltonika", x, i).imei = i
    <3>1. 0 \in {0, 1} /\ x[9] \in {8, 9} /\ i \in Nat \ {0} /\ x[0 + 14] * 256 + x[0 + 15] # crc16(SubSeq(x, 9, 0 + 11))
      BY <2>9, <2>10, <2>11
    <3> QED
      BY <2>8, <2>9, <3>1, TeltonikaMisread
  <2> HIDE DEF Told
  <2> QED
    BY <1>6, <2>2, <2>8, <2>11
<1>10. Told
  <2> HIDE DEF Told
  <2> QED
    BY <1>3, <1>4, <1>5, <1>7, <1>8, <1>9, Zenon DEF Fragment
<1> QED
  BY <1>10

-----------------------------------------------------------------------------
(* Every fragment of every protocol. *)

LEMMA FragmentsAreHeard ==
  ASSUME NEW protocol \in Protocol, protocol # "teltonika", NEW f \in Fragment[protocol], NEW i \in Nat
  PROVE  Heard(protocol, f, i)
<1>1. protocol \in {"gt06", "h02", "nmea", "queclink", "meitrack"}
  BY DEF Protocol
<1> QED
  BY <1>1, Gt06Fragments, H02Fragments, NmeaFragments, QueclinkFragments, MeitrackFragments

LEMMA FragmentsAreTyped ==
  ASSUME NEW protocol \in Protocol
  PROVE  Fragment[protocol] \subseteq Frag
<1> SUFFICES ASSUME NEW f \in Fragment[protocol] PROVE f \in Frag
  OBVIOUS
<1>1. 1 \in Nat
  OBVIOUS
<1>2. CASE protocol = "teltonika"
  BY <1>1, <1>2, TeltonikaFragments
<1>3. CASE protocol # "teltonika"
  BY <1>1, <1>3, FragmentsAreHeard DEF Heard
<1> QED
  BY <1>2, <1>3

\* The fragments of one stream, and their bytes.
LEMMA SentIsTyped ==
  ASSUME NEW protocol \in Protocol, NEW max, NEW sent \in SeqOf(Fragment[protocol], max)
  PROVE  sent \in Seq(Fragment[protocol]) /\ sent \in Seq(Frag)
<1>1. PICK m \in 0 .. max : sent \in [1 .. m -> Fragment[protocol]]
  BY DEF SeqOf
<1>2. m \in Nat
  OBVIOUS
<1>3. sent \in Seq(Fragment[protocol])
  BY <1>1, <1>2, SeqDef
<1>4. Fragment[protocol] \subseteq Frag
  BY FragmentsAreTyped
<1> HIDE DEF Frag
<1>5. sent \in [1 .. m -> Frag]
  BY <1>1, <1>4
<1> QED
  BY <1>2, <1>3, <1>5, SeqDef

LEMMA BytesAreDefined ==
  ASSUME NEW sent \in Seq(Frag)
  PROVE  /\ Len(sent) \in Nat /\ BytesOf(sent) \in [0 .. Len(sent) -> Bytes] /\ BytesOf(sent)[0] = <<>>
         /\ \A k \in 1 .. Len(sent) : sent[k] \in Frag /\ sent[k].bytes \in Bytes
                                      /\ BytesOf(sent)[k] = BytesOf(sent)[k - 1] \o sent[k].bytes
<1> DEFINE n == Len(sent)
           none == <<>>
           step == [u \in (1 .. n) \X Bytes |-> u[2] \o sent[u[1]].bytes]
           Made(g) == [k \in 0 .. n |-> IF k = 0 THEN none ELSE g[k - 1] \o sent[k].bytes]
           f == BytesOf(sent)
<1>1. n \in Nat /\ \A k \in 1 .. n : sent[k] \in Frag /\ sent[k].bytes \in Bytes
  <2>1. n \in Nat /\ \A k \in 1 .. n : sent[k] \in Frag
    BY LenProperties, ElementOfSeq
  <2> QED
    BY <2>1 DEF Frag
<1>2. none \in Bytes
  BY DEF Bytes
<1>3. f = CHOOSE g : g = Made(g)
  BY DEF BytesOf
<1> HIDE DEF n, none
<1>4. step \in [(1 .. n) \X Bytes -> Bytes]
  <2>1. ASSUME NEW u \in (1 .. n) \X Bytes PROVE u[2] \o sent[u[1]].bytes \in Bytes
    <3>1. u[2] \in Bytes /\ sent[u[1]].bytes \in Bytes
      BY <1>1
    <3> QED
      BY <3>1, ConcatAt
  <2> QED
    BY <2>1
<1>5. \A k \in 1 .. n, d \in Bytes : step[<<k, d>>] = d \o sent[k].bytes
  OBVIOUS
<1> HIDE DEF step
<1>6. PICK g : Solution(g, n, Bytes, none, step)
  BY <1>1, <1>2, <1>4, Recursion
<1> USE <1>6 DEF Solution
<1>7. \A k \in 1 .. n : g[k] = g[k - 1] \o sent[k].bytes
  <2> SUFFICES ASSUME NEW k \in 1 .. n PROVE g[k] = g[k - 1] \o sent[k].bytes
    OBVIOUS
  <2>1. k - 1 \in 0 .. n /\ g[k - 1] \in Bytes
    BY <1>1
  <2> QED
    BY <1>5, <1>6, <2>1
<1>8. g = Made(g)
  <2>1. ASSUME NEW k \in 0 .. n PROVE g[k] = IF k = 0 THEN none ELSE g[k - 1] \o sent[k].bytes
    <3>1. CASE k = 0
      BY <1>6, <3>1
    <3>2. CASE k # 0
      <4>1. k \in 1 .. n
        BY <1>1, <3>2
      <4>2. g[k] = g[k - 1] \o sent[k].bytes
        BY <1>7, <4>1
      <4> QED
        BY <3>2, <4>2
    <3> QED
      BY <3>1, <3>2
  <2>2. g = [k \in 0 .. n |-> g[k]]
    BY <1>6
  <2> QED
    BY <2>1, <2>2
<1>9. f = Made(f)
  <2> HIDE DEF Made
  <2> QED
    BY <1>3, <1>8
<1> HIDE DEF f
<1>10. \A k \in 0 .. n : f[k] = IF k = 0 THEN none ELSE f[k - 1] \o sent[k].bytes
  BY <1>9
<1>11. f = [k \in 0 .. n |-> f[k]]
  BY <1>9
<1> DEFINE Y == {k \in 0 .. n : f[k] \in Bytes}
<1>12. 0 \in Y
  BY <1>1, <1>2, <1>10
<1>13. ASSUME NEW k \in 0 .. n - 1, k \in Y PROVE k + 1 \in Y
  <2> DEFINE m == k + 1
  <2>1. m \in 0 .. n /\ m \in 1 .. n /\ m # 0 /\ m - 1 = k /\ f[k] \in Bytes
    BY <1>1, <1>13
  <2> HIDE DEF m
  <2>2. f[m] = f[k] \o sent[m].bytes /\ sent[m].bytes \in Bytes
    BY <1>1, <1>10, <2>1
  <2>3. f[m] \in Bytes
    BY <2>1, <2>2, ConcatAt
  <2> QED
    BY <2>1, <2>3 DEF m
<1> HIDE DEF Y
<1>14. \A k \in 0 .. n : k \in Y
  BY <1>1, <1>12, <1>13, Along
<1>15. f \in [0 .. n -> Bytes]
  BY <1>11, <1>14 DEF Y
<1>16. f[0] = none /\ \A k \in 1 .. n : f[k] = f[k - 1] \o sent[k].bytes
  BY <1>1, <1>10
<1> QED
  BY <1>1, <1>15, <1>16 DEF f, n, none

-----------------------------------------------------------------------------
(* What the context's IMEI has to do with a read. *)

\* It changes with a message only.
Silent(d, i) == d.messages = <<>> => d.imei = i
\* Where a read ends.
SamePlace(d, e) == d.go = e.go /\ d.n = e.n

\* Iterations from the contexts i and j.
Fair(protocol, b, i, j) ==
  LET d == Iteration(protocol, b, i)
      e == Iteration(protocol, b, j)
  IN  Silent(d, i) /\ (protocol # "teltonika" => SamePlace(d, e))

LEMMA SpokenIsFair ==
  ASSUME NEW n, NEW m, NEW k, NEW i
  PROVE  Silent(Take(n, <<m>>, k), i) /\ Take(n, <<m>>, k).go = "next" /\ Take(n, <<m>>, k).n = n
<1> DEFINE said == <<m>>
<1>1. said # <<>>
  OBVIOUS
<1> HIDE DEF said
<1>2. Take(n, said, k).messages = said /\ Take(n, said, k).go = "next" /\ Take(n, said, k).n = n
  BY Fields
<1> QED
  BY <1>1, <1>2 DEF Silent, said

LEMMA QuietIsFair ==
  ASSUME NEW n, NEW i
  PROVE  /\ Silent(Stop(n, i), i) /\ Stop(n, i).go = "stop" /\ Stop(n, i).n = n
         /\ Silent(Skip(n, i), i) /\ Skip(n, i).go = "next" /\ Skip(n, i).n = n
         /\ Silent(Throw(i), i) /\ Throw(i).go = "throw" /\ Throw(i).n = 0
BY Fields DEF Silent

LEMMA Gt06ParseFrameIsFair ==
  ASSUME NEW protocol, NEW info, NEW n, NEW i, NEW j
  PROVE  /\ Silent(Gt06ParseFrame(protocol, info, n, i), i)
         /\ SamePlace(Gt06ParseFrame(protocol, info, n, i), Gt06ParseFrame(protocol, info, n, j))
<1> DEFINE d(k) == Gt06ParseFrame(protocol, info, n, k)
           short == protocol # 1 /\ protocol \in {18, 34, 22, 38} /\ Len(info) < 2
<1>1. ASSUME NEW k, short PROVE d(k) = Throw(k)
  BY <1>1 DEF Gt06ParseFrame
<1>2. ASSUME NEW k, ~short PROVE \E m, l : d(k) = Take(n, <<m>>, l)
  <2>1. CASE protocol = 1
    <3> DEFINE own == IF info = <<>> THEN 0 ELSE info[1]
    <3>1. d(k) = Take(n, <<Message("login", own)>>, own)
      BY <2>1 DEF Gt06ParseFrame
    <3> HIDE DEF own, d
    <3> QED
      BY <3>1
  <2>2. CASE protocol # 1 /\ protocol \in {18, 34, 22, 38} /\ ~(Len(info) < 2)
    <3> DEFINE kind == IF protocol \in {18, 34} THEN "location" ELSE "alarm"
    <3>1. d(k) = Take(n, <<Message(kind, k)>>, k)
      BY <2>2 DEF Gt06ParseFrame
    <3> HIDE DEF kind, d
    <3> QED
      BY <3>1
  <2>3. CASE protocol # 1 /\ protocol \notin {18, 34, 22, 38} /\ protocol = 19
    <3>1. d(k) = Take(n, <<Message("heartbeat", k)>>, k)
      BY <2>3 DEF Gt06ParseFrame
    <3> HIDE DEF d
    <3> QED
      BY <3>1
  <2>4. CASE protocol # 1 /\ protocol \notin {18, 34, 22, 38} /\ protocol # 19
    <3>1. d(k) = Take(n, <<Message("unknown", k)>>, k)
      BY <2>4 DEF Gt06ParseFrame
    <3> HIDE DEF d
    <3> QED
      BY <3>1
  <2> QED
    BY <1>2, <2>1, <2>2, <2>3, <2>4
<1> HIDE DEF d, short
<1>3. CASE short
  BY <1>1, <1>3, QuietIsFair DEF SamePlace, d
<1>4. CASE ~short
  <2>1. PICK m, l : d(i) = Take(n, <<m>>, l)
    BY <1>2, <1>4
  <2>2. PICK p, q : d(j) = Take(n, <<p>>, q)
    BY <1>2, <1>4
  <2>3. Silent(d(i), i) /\ d(i).go = "next" /\ d(i).n = n
    BY <2>1, SpokenIsFair
  <2>4. d(j).go = "next" /\ d(j).n = n
    BY <2>2, SpokenIsFair
  <2> QED
    BY <2>3, <2>4 DEF SamePlace, d
<1> QED
  BY <1>3, <1>4

LEMMA Gt06IsFair ==
  ASSUME NEW b \in Bytes, NEW i \in Nat, NEW j \in Nat
  PROVE  Fair("gt06", b, i, j)
<1> DEFINE n == b[3] + 5
           wrong == b[b[3] + 2] * 256 + b[b[3] + 3] # crc16(SubSeq(b, 3, b[3] + 1))
           part == SubSeq(b, 5, b[3] - 1)
           waits == Len(b) < 5 \/ (Len(b) >= 5 /\ b[1] = 120 /\ b[2] = 120 /\ Len(b) < n)
           skips == (Len(b) >= 5 /\ ~(b[1] = 120 /\ b[2] = 120))
                    \/ (Len(b) >= 5 /\ b[1] = 120 /\ b[2] = 120 /\ Len(b) >= n /\ wrong)
           d(k) == Gt06Iteration(b, k)
<1>1. Len(b) \in Nat /\ \A k \in 1 .. Len(b) : b[k] \in Nat
  BY ByteOf
<1>2. ASSUME NEW k \in Nat
      PROVE  /\ waits => d(k) = Stop(0, k)
             /\ ~waits /\ skips => d(k) = Skip(1, k)
             /\ ~waits /\ ~skips => d(k) = Gt06ParseFrame(b[4], part, n, k)
  <2>1. /\ Len(b) < 5 => d(k) = Stop(0, k)
        /\ Len(b) >= 5 /\ ~(b[1] = 120 /\ b[2] = 120) => d(k) = Skip(1, k)
        /\ Len(b) >= 5 /\ b[1] = 120 /\ b[2] = 120 /\ Len(b) < n => d(k) = Stop(0, k)
        /\ Len(b) >= 5 /\ b[1] = 120 /\ b[2] = 120 /\ Len(b) >= n =>
             d(k) = IF wrong THEN Skip(1, k) ELSE Gt06ParseFrame(b[4], part, n, k)
    BY Gt06Cases
  <2>2. Len(b) >= 5 => n \in Nat
    BY <1>1
  <2> HIDE DEF n, wrong, part, d
  <2> QED
    BY <1>1, <2>1, <2>2
<1>3. \A k : Iteration("gt06", b, k) = d(k)
  BY DEF Iteration
<1> HIDE DEF waits, skips, d, part, n
<1>4. Silent(d(i), i) /\ SamePlace(d(i), d(j))
  <2>1. CASE waits
    BY <1>2, <2>1, QuietIsFair DEF SamePlace
  <2>2. CASE ~waits /\ skips
    BY <1>2, <2>2, QuietIsFair DEF SamePlace
  <2>3. CASE ~waits /\ ~skips
    BY <1>2, <2>3, Gt06ParseFrameIsFair
  <2> QED
    BY <2>1, <2>2, <2>3
<1> QED
  BY <1>3, <1>4 DEF Fair

LEMMA H02IsFair ==
  ASSUME NEW b \in Bytes, NEW i \in Nat, NEW j \in Nat
  PROVE  Fair("h02", b, i, j)
<1> DEFINE f == Delimited(b, 42, 35)
           good == Len(f.parts) >= 3 /\ f.parts[1] = HQ
           d(k) == Iteration("h02", b, k)
<1>1. ASSUME NEW k
      PROVE  /\ ~f.whole => d(k) = Stop(f.n, k)
             /\ f.whole /\ good => \E m, l : d(k) = Take(f.n, <<m>>, l)
             /\ f.whole /\ ~good => d(k) = Skip(f.n, k)
  <2>1. /\ ~f.whole => d(k) = Stop(f.n, k)
        /\ f.whole /\ good => d(k) = Take(f.n, <<Message(KindOf(f.parts[3]), f.parts[2])>>, f.parts[2])
        /\ f.whole /\ ~good => d(k) = Skip(f.n, k)
    BY H02Cases
  <2> HIDE DEF f, good, d
  <2> QED
    BY <2>1
<1> HIDE DEF f, good, d
<1>2. Silent(d(i), i) /\ SamePlace(d(i), d(j))
  <2>1. CASE ~f.whole
    BY <1>1, <2>1, QuietIsFair DEF SamePlace
  <2>2. CASE f.whole /\ ~good
    BY <1>1, <2>2, QuietIsFair DEF SamePlace
  <2>3. CASE f.whole /\ good
    <3>1. PICK m, l : d(i) = Take(f.n, <<m>>, l)
      BY <1>1, <2>3
    <3>2. PICK p, q : d(j) = Take(f.n, <<p>>, q)
      BY <1>1, <2>3
    <3>3. Silent(d(i), i) /\ d(i).go = "next" /\ d(i).n = f.n
      BY <3>1, SpokenIsFair
    <3>4. d(j).go = "next" /\ d(j).n = f.n
      BY <3>2, SpokenIsFair
    <3> QED
      BY <3>3, <3>4 DEF SamePlace
  <2> QED
    BY <2>1, <2>2, <2>3
<1> QED
  BY <1>2 DEF Fair, d

LEMMA QueclinkIsFair ==
  ASSUME NEW b \in Bytes, NEW i \in Nat, NEW j \in Nat
  PROVE  Fair("queclink", b, i, j)
<1> DEFINE f == Delimited(b, 43, 36)
           good == Len(f.parts) >= 4 /\ f.parts[1] \in {RESP, ACK} /\ IsImei(f.parts[4])
           d(k) == Iteration("queclink", b, k)
<1>1. ASSUME NEW k
      PROVE  /\ ~f.whole => d(k) = Stop(f.n, k)
             /\ f.whole /\ good => \E m, l : d(k) = Take(f.n, <<m>>, l)
             /\ f.whole /\ ~good => d(k) = Skip(f.n, k)
  <2>1. /\ ~f.whole => d(k) = Stop(f.n, k)
        /\ f.whole /\ good => d(k) = Take(f.n, <<Message(QueclinkKind(f.parts[1], f.parts[2]), f.parts[4])>>, f.parts[4])
        /\ f.whole /\ ~good => d(k) = Skip(f.n, k)
    BY QueclinkCases
  <2> HIDE DEF f, good, d
  <2> QED
    BY <2>1
<1> HIDE DEF f, good, d
<1>2. Silent(d(i), i) /\ SamePlace(d(i), d(j))
  <2>1. CASE ~f.whole
    BY <1>1, <2>1, QuietIsFair DEF SamePlace
  <2>2. CASE f.whole /\ ~good
    BY <1>1, <2>2, QuietIsFair DEF SamePlace
  <2>3. CASE f.whole /\ good
    <3>1. PICK m, l : d(i) = Take(f.n, <<m>>, l)
      BY <1>1, <2>3
    <3>2. PICK p, q : d(j) = Take(f.n, <<p>>, q)
      BY <1>1, <2>3
    <3>3. Silent(d(i), i) /\ d(i).go = "next" /\ d(i).n = f.n
      BY <3>1, SpokenIsFair
    <3>4. d(j).go = "next" /\ d(j).n = f.n
      BY <3>2, SpokenIsFair
    <3> QED
      BY <3>3, <3>4 DEF SamePlace
  <2> QED
    BY <2>1, <2>2, <2>3
<1> QED
  BY <1>2 DEF Fair, d

LEMMA NmeaIsFair ==
  ASSUME NEW b \in Bytes, NEW i \in Nat, NEW j \in Nat
  PROVE  Fair("nmea", b, i, j)
<1> DEFINE nl == indexOf(b, 10, 1)
           line == SubSeq(b, 1, nl - 1)
           d(k) == Iteration("nmea", b, k)
<1>1. ASSUME NEW k
      PROVE  nl # 0 => (\E m, l : d(k) = Take(nl, <<m>>, l)) \/ d(k) = Skip(nl, k)
  <2>1. nl # 0 => d(k) = NmeaLine(line, nl, k)
    BY DEF Iteration, NmeaIteration
  <2> HIDE DEF nl, line, d
  <2>2. \/ NmeaLine(line, nl, k) = Take(nl, <<Message("login", line[2])>>, line[2])
        \/ NmeaLine(line, nl, k) = Take(nl, <<Message("location", k)>>, k)
        \/ NmeaLine(line, nl, k) = Skip(nl, k)
    <3>1. CASE Len(line) = 2 /\ line[1] = 35 /\ IsImei(line[2])
      BY <3>1 DEF NmeaLine
    <3>2. CASE ~(Len(line) = 2 /\ line[1] = 35 /\ IsImei(line[2]))
      BY <3>2 DEF NmeaLine
    <3> QED
      BY <3>1, <3>2
  <2> QED
    BY <2>1, <2>2
<1>2. ASSUME NEW k PROVE nl = 0 => d(k) = Stop(0, k)
  BY DEF Iteration, NmeaIteration
<1> HIDE DEF nl, d
<1>3. ASSUME NEW k, nl # 0 PROVE Silent(d(k), k) /\ d(k).go = "next" /\ d(k).n = nl
  <2>1. CASE d(k) = Skip(nl, k)
    BY <2>1, QuietIsFair
  <2>2. CASE \E m, l : d(k) = Take(nl, <<m>>, l)
    BY <2>2, SpokenIsFair
  <2> QED
    BY <1>1, <1>3, <2>1, <2>2
<1>4. Silent(d(i), i) /\ SamePlace(d(i), d(j))
  <2>1. CASE nl = 0
    BY <1>2, <2>1, QuietIsFair DEF SamePlace
  <2>2. CASE nl # 0
    BY <1>3, <2>2 DEF SamePlace
  <2> QED
    BY <2>1, <2>2
<1> QED
  BY <1>4 DEF Fair, d

\* A Meitrack frame names its device, so what it says does not depend on the context.
LEMMA MeitrackFrameSays ==
  ASSUME NEW frame
  PROVE  \/ \A k : MeitrackFrame(frame, k) = Skip(Len(frame), k)
         \/ \E m \in Said, l \in Nat \ {0} : \A k : MeitrackFrame(frame, k) = Take(Len(frame), <<m>>, l)
<1> DEFINE star == Max({0} \cup {k \in 1 .. Len(frame) - 2 : frame[k] = 42})
           body == SubSeq(frame, 3, star - 1)
           kind == IF body[3] = LOC THEN "location" ELSE "heartbeat"
           good == star # 0 /\ Len(frame) - star >= 3 /\ frame[star + 1] = xorChecksum(SubSeq(frame, 1, star - 1))
                   /\ Len(body) >= 3 /\ IsImei(body[2])
<1>1. \A k : MeitrackFrame(frame, k) = MeitrackParsed(frame, star, body, k)
  BY DEF MeitrackFrame
<1> HIDE DEF star, body
<1>2. \A k : MeitrackParsed(frame, star, body, k) =
               IF good THEN Take(Len(frame), <<Message(kind, body[2])>>, body[2]) ELSE Skip(Len(frame), k)
  BY DEF MeitrackParsed
<1>3. good => IsImei(body[2])
  OBVIOUS
<1> HIDE DEF good
<1>4. CASE ~good
  BY <1>1, <1>2, <1>4
<1>5. CASE good
  <2>1. body[2] \in Nat \ {0}
    BY <1>3, <1>5 DEF IsImei
  <2>2. Message(kind, body[2]) \in Said
    BY <2>1 DEF Message, Said, Kinds
  <2> HIDE DEF kind
  <2>3. \A k : MeitrackFrame(frame, k) = Take(Len(frame), <<Message(kind, body[2])>>, body[2])
    BY <1>1, <1>2, <1>5
  <2> DEFINE m == Message(kind, body[2])
             l == body[2]
  <2> HIDE DEF m, l
  <2>4. m \in Said /\ l \in Nat \ {0} /\ \A k : MeitrackFrame(frame, k) = Take(Len(frame), <<m>>, l)
    BY <2>1, <2>2, <2>3 DEF m, l
  <2> QED
    BY <2>4
<1> QED
  BY <1>4, <1>5

\* Two iterations that say the same.
SameSaying(d, e) == d.messages = e.messages /\ (d.messages = <<>> \/ d.imei # 0)

LEMMA MeitrackIsFair ==
  ASSUME NEW b \in Bytes, NEW i \in Nat, NEW j \in Nat
  PROVE  Fair("meitrack", b, i, j) /\ SameSaying(Iteration("meitrack", b, i), Iteration("meitrack", b, j))
<1> DEFINE start == MeitrackStart(b)
           end == MeitrackEnd(b)
           frame == SubSeq(b, start, end)
           d(k) == Iteration("meitrack", b, k)
           n == start - 1
           stops == IF Len(b) < 2 THEN 0 ELSE IF start = 0 THEN Len(b) ELSE n
           ends == Len(b) >= 2 /\ start # 0 /\ end # 1
<1>1. Len(b) \in Nat
  BY ByteOf
<1>2. ASSUME NEW k \in Nat
      PROVE  /\ ~ends => d(k) = Stop(stops, k)
             /\ ends => d(k) = After(Skip(n, k), MeitrackFrame(frame, k))
  <2>1. /\ Len(b) < 2 => d(k) = Stop(0, k)
        /\ Len(b) >= 2 /\ start = 0 => d(k) = Stop(Len(b), k)
        /\ Len(b) >= 2 /\ start # 0 /\ end = 1 => d(k) = Stop(n, k)
        /\ Len(b) >= 2 /\ start # 0 /\ end # 1 => d(k) = After(Skip(n, k), MeitrackFrame(frame, k))
    BY MeitrackCases DEF Iteration
  <2> HIDE DEF start, end, frame, d, n
  <2> QED
    BY <1>1, <2>1
<1> HIDE DEF stops
<1>3. CASE ~ends
  <2>1. d(i) = Stop(stops, i) /\ d(j) = Stop(stops, j)
    BY <1>2, <1>3
  <2> HIDE DEF d, ends
  <2>2. Silent(d(i), i) /\ SamePlace(d(i), d(j))
    BY <2>1, QuietIsFair DEF SamePlace
  <2>3. SameSaying(d(i), d(j))
    BY <2>1, Fields DEF SameSaying
  <2> QED
    BY <2>2, <2>3 DEF Fair, d
<1>4. CASE ends
  <2>1. start # 0 /\ end # 1
    BY <1>4
  <2>2. start \in 1 .. Len(b) - 1 /\ end \in start + 3 .. Len(b)
    BY <2>1, MeitrackPlaces
  <2> HIDE DEF start, end
  <2>3. frame \in Bytes
    <3>1. \A k \in start .. end : b[k] \in Nat
      BY <1>1, <2>2, ByteOf
    <3> QED
      BY <1>1, <2>2, <3>1, SubSeqProperties DEF Bytes
  <2> DEFINE f(k) == MeitrackFrame(frame, k)
             l == Len(frame)
  <2>4. l \in Nat /\ n \in Nat
    BY <1>1, <2>2, <2>3, ByteOf
  <2>5. \A k \in Nat : d(k) = After(Skip(n, k), f(k))
    BY <1>2, <1>4
  <2>6. \/ \A k : f(k) = Skip(l, k)
        \/ \E m \in Said, p \in Nat \ {0} : \A k : f(k) = Take(l, <<m>>, p)
    BY MeitrackFrameSays
  <2> HIDE DEF frame, f, l, d, n, ends
  <2>7. ASSUME NEW k \in Nat, f(k) \in Outcomes
        PROVE  d(k).go = f(k).go /\ d(k).n = n + f(k).n /\ d(k).messages = f(k).messages /\ d(k).imei = f(k).imei
    <3> DEFINE e == f(k)
               s == Skip(n, k)
    <3>1. s.n = n /\ s.messages = <<>>
      BY Fields
    <3>2. d(k) = After(s, e) /\ e \in Outcomes
      BY <2>5, <2>7
    <3> HIDE DEF e, s
    <3>3. After(s, e).go = e.go /\ After(s, e).n = s.n + e.n /\ After(s, e).messages = s.messages \o e.messages
          /\ After(s, e).imei = e.imei
      BY <3>2, AfterIs
    <3>4. <<>> \o e.messages = e.messages
      <4>1. e.messages \in Seq(Said)
        BY <3>2 DEF Outcomes
      <4> QED
        BY <4>1, ConcatEmptySeq
    <3> QED
      BY <3>1, <3>2, <3>3, <3>4 DEF e
  <2>8. CASE \A k : f(k) = Skip(l, k)
    <3>1. ASSUME NEW k \in Nat
          PROVE  f(k) \in Outcomes /\ f(k).go = "next" /\ f(k).n = l /\ f(k).messages = <<>> /\ f(k).imei = k
      BY <2>4, <2>8, PlainOutcomes
    <3>2. ASSUME NEW k \in Nat
          PROVE  d(k).go = "next" /\ d(k).n = n + l /\ d(k).messages = <<>> /\ d(k).imei = k
      BY <2>7, <3>1
    <3>3. Silent(d(i), i) /\ SamePlace(d(i), d(j)) /\ SameSaying(d(i), d(j))
      BY <3>2 DEF Silent, SamePlace, SameSaying
    <3> QED
      BY <3>3 DEF Fair, d
  <2>9. CASE \E m \in Said, p \in Nat \ {0} : \A k : f(k) = Take(l, <<m>>, p)
    <3>1. PICK m \in Said, p \in Nat \ {0} : \A k : f(k) = Take(l, <<m>>, p)
      BY <2>9
    <3> DEFINE said == <<m>>
    <3>2. said \in Seq(Said) /\ said # <<>>
      OBVIOUS
    <3>3. \A k : f(k) = Take(l, said, p)
      BY <3>1
    <3> HIDE DEF said
    <3>4. Take(l, said, p) \in Outcomes
      BY <2>4, <3>2, ConstructorsAreOutcomes
    <3>5. ASSUME NEW k \in Nat
          PROVE  f(k) \in Outcomes /\ f(k).go = "next" /\ f(k).n = l /\ f(k).messages = said /\ f(k).imei = p
      BY <3>3, <3>4, Fields
    <3>6. ASSUME NEW k \in Nat
          PROVE  d(k).go = "next" /\ d(k).n = n + l /\ d(k).messages = said /\ d(k).imei = p
      BY <2>7, <3>5
    <3>7. Silent(d(i), i) /\ SamePlace(d(i), d(j)) /\ SameSaying(d(i), d(j))
      BY <3>2, <3>6 DEF Silent, SamePlace, SameSaying
    <3> QED
      BY <3>7 DEF Fair, d
  <2> QED
    BY <2>6, <2>8, <2>9
<1> QED
  BY <1>3, <1>4

\* A Teltonika login is read without a context only, and an IMEI stays.
LEMMA TeltonikaIsFair ==
  ASSUME NEW b \in Bytes, NEW i \in Nat, NEW j \in Nat
  PROVE  /\ Fair("teltonika", b, i, j)
         /\ i # 0 => Iteration("teltonika", b, i).imei = i
         /\ i = 0 => Iteration("teltonika", b, i) = Stop(0, 0)
                     \/ (Iteration("teltonika", b, i).go = "next" /\ Iteration("teltonika", b, i).imei # 0)
<1> DEFINE d == Iteration("teltonika", b, i)
<1>1. d = TeltonikaIteration(b, i)
  BY DEF Iteration
<1>2. CASE i = 0
  <2> DEFINE len == b[1] * 256 + b[2]
             bad == Len(b) < 2 \/ len < 1 \/ len > 20 \/ Len(b) < 2 + len \/ \E k \in 3 .. 2 + len : ~IsImei(b[k])
  <2>1. d = Stop(0, 0) \/ d = TeltonikaHandshake(b)
    BY <1>1, <1>2 DEF TeltonikaIteration
  <2>2. TeltonikaHandshake(b) = IF bad THEN Stop(0, 0) ELSE Take(2 + len, <<Message("login", b[3])>>, b[3])
    BY DEF TeltonikaHandshake
  <2>3. ~bad => b[3] # 0
    <3> SUFFICES ASSUME ~bad PROVE b[3] # 0
      OBVIOUS
    <3>1. Len(b) \in Nat /\ b[1] \in Nat /\ b[2] \in Nat
      BY ByteOf
    <3>2. len \in Nat /\ len >= 1
      BY <3>1
    <3> HIDE DEF len
    <3>3. 3 \in 3 .. 2 + len
      BY <3>2
    <3>4. IsImei(b[3])
      BY <3>3
    <3> QED
      BY <3>4 DEF IsImei
  <2> HIDE DEF bad, d
  <2>4. CASE d = Stop(0, 0)
    <3> DEFINE zero == 0
    <3>1. d = Stop(zero, i)
      BY <1>2, <2>4
    <3> HIDE DEF zero
    <3>2. Silent(d, i)
      BY <3>1, QuietIsFair
    <3> QED
      BY <1>2, <2>4, <3>2 DEF Fair, d
  <2>5. CASE d # Stop(0, 0)
    <3> DEFINE n == 2 + len
               m == Message("login", b[3])
    <3>1. d = Take(n, <<m>>, b[3]) /\ b[3] # 0
      BY <2>1, <2>2, <2>3, <2>5
    <3> HIDE DEF n, m
    <3>2. Silent(d, i) /\ d.go = "next"
      BY <3>1, SpokenIsFair
    <3>3. d.imei = b[3]
      <4> DEFINE said == <<m>>
      <4> HIDE DEF said
      <4>1. Take(n, said, b[3]).imei = b[3]
        BY Fields
      <4> QED
        BY <3>1, <4>1 DEF said
    <3> QED
      BY <1>2, <3>1, <3>2, <3>3 DEF Fair, d
  <2> QED
    BY <2>4, <2>5
<1>3. CASE i # 0
  <2>1. Len(b) \in Nat
    BY ByteOf
  <2> DEFINE n == DataLength(b) + 12
             said == AvlOf(SubSeq(b, 9, 8 + DataLength(b)), i)
  <2>2. d = Stop(0, i) \/ d = Skip(1, i) \/ d = Take(n, said, i)
    <3> DEFINE l == DataLength(b)
               wrong == b[l + 11] * 256 + b[l + 12] # crc16(SubSeq(b, 9, 8 + l))
    <3>1. i \in Nat \ {0}
      BY <1>3
    <3>2. /\ Len(b) < 12 => TeltonikaIteration(b, i) = Stop(0, i)
          /\ Len(b) >= 12 /\ ~Framed(b) => TeltonikaIteration(b, i) = Skip(1, i)
          /\ Len(b) >= 12 /\ Framed(b) /\ Len(b) < l + 12 => TeltonikaIteration(b, i) = Stop(0, i)
          /\ Len(b) >= 12 /\ Framed(b) /\ Len(b) >= l + 12 =>
               TeltonikaIteration(b, i) = IF wrong THEN Skip(1, i) ELSE Take(n, said, i)
      BY <3>1, TeltonikaCases
    <3>3. Len(b) >= 12 => l + 12 \in Nat
      BY DataLengthIs
    <3>4. Len(b) < 12 \/ Len(b) >= 12
      BY <2>1
    <3>5. Len(b) >= 12 => Len(b) < l + 12 \/ Len(b) >= l + 12
      BY <2>1, <3>3
    <3> HIDE DEF l, wrong, n, said, d
    <3> QED
      BY <1>1, <3>2, <3>4, <3>5
  <2> HIDE DEF n, said, d
  <2>3. d.imei = i
    BY <2>2, Fields
  <2> QED
    BY <1>3, <2>3 DEF Fair, Silent, d
<1> QED
  BY <1>2, <1>3

LEMMA DecodersAreFair ==
  ASSUME NEW protocol \in Protocol, NEW b \in Bytes, NEW i \in Nat, NEW j \in Nat
  PROVE  Fair(protocol, b, i, j)
<1>1. protocol \in {"gt06", "h02", "teltonika", "nmea", "queclink", "meitrack"}
  BY DEF Protocol
<1> QED
  BY <1>1, Gt06IsFair, H02IsFair, TeltonikaIsFair, NmeaIsFair, QueclinkIsFair, MeitrackIsFair

\* Nothing joined to nothing only is nothing.
LEMMA BothEmpty ==
  ASSUME NEW s \in Seq(Said), NEW t \in Seq(Said), s \o t = <<>>
  PROVE  s = <<>> /\ t = <<>>
<1>1. Len(s \o t) = Len(s) + Len(t) /\ Len(s) \in Nat /\ Len(t) \in Nat
  BY ConcatProperties, LenProperties
<1>2. Len(s \o t) = 0
  OBVIOUS
<1>3. Len(s) = 0 /\ Len(t) = 0
  <2> DEFINE m == Len(s)
             n == Len(t)
  <2>1. m + n = 0 /\ m \in Nat /\ n \in Nat
    BY <1>1, <1>2
  <2> HIDE DEF m, n
  <2>2. m = 0 /\ n = 0
    BY <2>1
  <2> QED
    BY <2>2 DEF m, n
<1> QED
  BY <1>3, EmptySeq

\* What holds of some bytes when it holds of all shorter ones, holds of all.
LEMMA ShorterFirst ==
  ASSUME NEW Y, \A b \in Bytes : (\A c \in Bytes : Len(c) < Len(b) => c \in Y) => b \in Y
  PROVE  Bytes \subseteq Y
<1> DEFINE X == {n \in Nat : \A b \in Bytes : Len(b) <= n => b \in Y}
<1>1. ASSUME NEW n \in Nat, \A b \in Bytes : Len(b) < n => b \in Y
      PROVE  n \in X
  <2> SUFFICES ASSUME NEW b \in Bytes, Len(b) <= n PROVE b \in Y
    OBVIOUS
  <2>1. \A c \in Bytes : Len(c) < Len(b) => Len(c) < n
    BY ByteOf
  <2> QED
    BY <1>1, <2>1
<1>2. 0 \in X
  <2>1. \A b \in Bytes : Len(b) < 0 => b \in Y
    BY ByteOf
  <2> HIDE DEF X
  <2> QED
    BY <1>1, <2>1
<1>3. ASSUME NEW n \in Nat, n \in X PROVE n + 1 \in X
  <2>1. \A b \in Bytes : Len(b) < n + 1 => b \in Y
    BY <1>3, ByteOf
  <2> HIDE DEF X
  <2> QED
    BY <1>1, <2>1
<1> HIDE DEF X
<1>4. Nat \subseteq X
  BY <1>2, <1>3, Climb
<1>5. \A b \in Bytes : Len(b) \in Nat /\ Len(b) <= Len(b)
  BY ByteOf
<1> QED
  BY <1>4, <1>5 DEF X

\* The rest of an iteration that goes on.
LEMMA RestIsShorter ==
  ASSUME NEW protocol \in Protocol, NEW b \in Bytes, NEW i \in Nat, NEW e, e = Iteration(protocol, b, i), e.go = "next"
  PROVE  /\ e \in Outcomes /\ e.imei \in Nat /\ e.n \in Nat /\ e.messages \in Seq(Said)
         /\ From(b, e.n + 1) \in Bytes /\ Len(From(b, e.n + 1)) < Len(b)
<1>1. e \in Outcomes /\ e.n \in 0 .. Len(b) /\ e.n >= 1 /\ e.imei \in Nat /\ e.n \in Nat /\ Len(b) \in Nat
  BY IterationParts
<1>2. From(b, e.n + 1) \in Bytes /\ Len(From(b, e.n + 1)) = Len(b) - e.n
  BY <1>1, FromFacts
<1>3. Len(From(b, e.n + 1)) < Len(b)
  BY <1>1, <1>2
<1>4. e.messages \in Seq(Said)
  BY <1>1 DEF Outcomes
<1> QED
  BY <1>1, <1>2, <1>3, <1>4

\* The IMEI changes with a message only.
LEMMA SilenceKeeps ==
  ASSUME NEW protocol \in Protocol, NEW b \in Bytes, NEW i \in Nat
  PROVE  Silent(decode(protocol, b, i), i)
<1> DEFINE Y == {c \in Bytes : \A k \in Nat : Silent(decode(protocol, c, k), k)}
<1>1. ASSUME NEW c \in Bytes, \A s \in Bytes : Len(s) < Len(c) => s \in Y
      PROVE  c \in Y
  <2> SUFFICES ASSUME NEW k \in Nat PROVE Silent(decode(protocol, c, k), k)
    OBVIOUS
  <2> DEFINE e == Iteration(protocol, c, k)
             r == From(c, e.n + 1)
             d == decode(protocol, r, e.imei)
  <2>1. Silent(e, k)
    BY DecodersAreFair DEF Fair
  <2>2. CASE e.go # "next"
    <3>1. decode(protocol, c, k) = e
      BY <2>2, DecodeUnrolls
    <3> QED
      BY <2>1, <3>1
  <2>3. CASE e.go = "next"
    <3>1. decode(protocol, c, k) = After(e, d)
      BY <2>3, DecodeUnrolls
    <3>2. e \in Outcomes /\ e.imei \in Nat /\ e.messages \in Seq(Said) /\ r \in Bytes /\ Len(r) < Len(c)
      BY <2>3, RestIsShorter
    <3> HIDE DEF e, r
    <3>3. Silent(d, e.imei)
      BY <1>1, <3>2
    <3>4. d \in Outcomes /\ d.messages \in Seq(Said)
      BY <3>2, DecodeParts
    <3> HIDE DEF d
    <3>5. After(e, d).messages = e.messages \o d.messages /\ After(e, d).imei = d.imei
      BY <3>4, AfterIs
    <3>6. ASSUME e.messages \o d.messages = <<>> PROVE e.messages = <<>> /\ d.messages = <<>>
      BY <3>2, <3>4, <3>6, BothEmpty
    <3> QED
      BY <2>1, <3>1, <3>3, <3>5, <3>6 DEF Silent
  <2> QED
    BY <2>2, <2>3
<1> HIDE DEF Y
<1>2. Bytes \subseteq Y
  BY <1>1, ShorterFirst
<1> QED
  BY <1>2 DEF Y

\* All but Teltonika's decoder end at the same place whatever the context.
LEMMA PlaceIsTheBytes ==
  ASSUME NEW protocol \in Protocol, protocol # "teltonika", NEW b \in Bytes, NEW i \in Nat, NEW j \in Nat
  PROVE  SamePlace(decode(protocol, b, i), decode(protocol, b, j))
<1> DEFINE Y == {c \in Bytes : \A k \in Nat, l \in Nat : SamePlace(decode(protocol, c, k), decode(protocol, c, l))}
<1>1. ASSUME NEW c \in Bytes, \A s \in Bytes : Len(s) < Len(c) => s \in Y
      PROVE  c \in Y
  <2> SUFFICES ASSUME NEW k \in Nat, NEW l \in Nat PROVE SamePlace(decode(protocol, c, k), decode(protocol, c, l))
    OBVIOUS
  <2> DEFINE e == Iteration(protocol, c, k)
             f == Iteration(protocol, c, l)
             r == From(c, e.n + 1)
             d == decode(protocol, r, e.imei)
             g == decode(protocol, r, f.imei)
  <2>1. e.go = f.go /\ e.n = f.n
    BY DecodersAreFair DEF Fair, SamePlace
  <2>2. CASE e.go # "next"
    <3>1. decode(protocol, c, k) = e /\ decode(protocol, c, l) = f
      BY <2>1, <2>2, DecodeUnrolls
    <3> QED
      BY <2>1, <3>1 DEF SamePlace
  <2>3. CASE e.go = "next"
    <3>1. decode(protocol, c, k) = After(e, d)
      BY <2>3, DecodeUnrolls
    <3>2. decode(protocol, c, l) = After(f, g)
      <4> HIDE DEF e
      <4>0. f.go = "next"
        BY <2>1, <2>3
      <4>1. decode(protocol, c, l) = After(f, decode(protocol, From(c, f.n + 1), f.imei))
        BY <4>0, DecodeUnrolls
      <4> HIDE DEF f
      <4> QED
        BY <2>1, <4>1
    <3>3. e.imei \in Nat /\ r \in Bytes /\ Len(r) < Len(c)
      BY <2>3, RestIsShorter
    <3>4. f.imei \in Nat
      BY <2>1, <2>3, RestIsShorter
    <3> HIDE DEF e, f, r
    <3>5. SamePlace(d, g)
      BY <1>1, <3>3, <3>4
    <3>6. d \in Outcomes /\ g \in Outcomes
      BY <3>3, <3>4, DecodeParts
    <3> HIDE DEF d, g
    <3>7. After(e, d).go = d.go /\ After(e, d).n = e.n + d.n
      BY <3>6, AfterIs
    <3>8. After(f, g).go = g.go /\ After(f, g).n = f.n + g.n
      BY <3>6, AfterIs
    <3> QED
      BY <2>1, <3>1, <3>2, <3>5, <3>7, <3>8 DEF SamePlace
  <2> QED
    BY <2>2, <2>3
<1> HIDE DEF Y
<1>2. Bytes \subseteq Y
  BY <1>1, ShorterFirst
<1> QED
  BY <1>2 DEF Y

\* Meitrack's messages do not depend on the context.
LEMMA MeitrackSpeaksForItself ==
  ASSUME NEW b \in Bytes, NEW i \in Nat, NEW j \in Nat
  PROVE  /\ decode("meitrack", b, i).messages = decode("meitrack", b, j).messages
         /\ decode("meitrack", b, i).imei = 0 => decode("meitrack", b, i).messages = <<>>
<1> DEFINE p == "meitrack"
           Told(d) == d.messages = <<>> \/ d.imei # 0
           Y == {c \in Bytes : \A k \in Nat, l \in Nat : /\ decode(p, c, k).messages = decode(p, c, l).messages
                                                         /\ Told(decode(p, c, k))}
<1>0. p \in Protocol
  BY DEF Protocol
<1>1. ASSUME NEW c \in Bytes, \A s \in Bytes : Len(s) < Len(c) => s \in Y
      PROVE  c \in Y
  <2> SUFFICES ASSUME NEW k \in Nat, NEW l \in Nat
               PROVE  decode(p, c, k).messages = decode(p, c, l).messages /\ Told(decode(p, c, k))
    OBVIOUS
  <2> DEFINE e == Iteration(p, c, k)
             f == Iteration(p, c, l)
             r == From(c, e.n + 1)
             d == decode(p, r, e.imei)
             g == decode(p, r, f.imei)
  <2>1. e.go = f.go /\ e.n = f.n /\ e.messages = f.messages /\ Told(e)
    BY MeitrackIsFair DEF Fair, SamePlace, SameSaying
  <2> HIDE DEF p
  <2>2. CASE e.go # "next"
    <3>1. decode(p, c, k) = e /\ decode(p, c, l) = f
      BY <1>0, <2>1, <2>2, DecodeUnrolls
    <3> QED
      BY <2>1, <3>1
  <2>3. CASE e.go = "next"
    <3>1. decode(p, c, k) = After(e, d)
      BY <1>0, <2>3, DecodeUnrolls
    <3>2. decode(p, c, l) = After(f, g)
      <4> HIDE DEF e
      <4>0. f.go = "next"
        BY <2>1, <2>3
      <4>1. decode(p, c, l) = After(f, decode(p, From(c, f.n + 1), f.imei))
        BY <1>0, <4>0, DecodeUnrolls
      <4> HIDE DEF f
      <4> QED
        BY <2>1, <4>1
    <3>3. e.imei \in Nat /\ r \in Bytes /\ Len(r) < Len(c) /\ e.messages \in Seq(Said)
      BY <1>0, <2>3, RestIsShorter
    <3>4. f.imei \in Nat
      BY <1>0, <2>1, <2>3, RestIsShorter
    <3> HIDE DEF e, f, r
    <3>5. d.messages = g.messages /\ Told(d)
      BY <1>1, <3>3, <3>4
    <3>6. d \in Outcomes /\ g \in Outcomes /\ d.messages \in Seq(Said)
      BY <1>0, <3>3, <3>4, DecodeParts
    <3>7. Silent(d, e.imei)
      BY <1>0, <3>3, SilenceKeeps
    <3> HIDE DEF d, g
    <3>8. After(e, d).messages = e.messages \o d.messages /\ After(e, d).imei = d.imei
      BY <3>6, AfterIs
    <3>9. After(f, g).messages = f.messages \o g.messages
      BY <3>6, AfterIs
    <3>10. <<>> \o <<>> = <<>>
      OBVIOUS
    <3>11. Told(After(e, d))
      <4>1. CASE d.messages = <<>>
        BY <2>1, <3>7, <3>8, <3>10, <4>1 DEF Silent
      <4>2. CASE d.messages # <<>>
        BY <3>5, <3>8, <4>2
      <4> QED
        BY <4>1, <4>2
    <3> QED
      BY <2>1, <3>1, <3>2, <3>5, <3>8, <3>9, <3>11
  <2> QED
    BY <2>2, <2>3
<1> HIDE DEF Y
<1>2. Bytes \subseteq Y
  BY <1>1, ShorterFirst
<1> QED
  BY <1>2 DEF Y

\* A Teltonika device that has an IMEI keeps it; one that has none has read nothing.
LEMMA TeltonikaKeepsItsImei ==
  ASSUME NEW b \in Bytes, NEW i \in Nat
  PROVE  /\ i # 0 => decode("teltonika", b, i).imei = i
         /\ decode("teltonika", b, i).imei = 0 => decode("teltonika", b, i) = Stop(0, 0)
<1> DEFINE p == "teltonika"
           Y == {c \in Bytes : \A k \in Nat \ {0} : decode(p, c, k).imei = k}
<1>0. p \in Protocol
  BY DEF Protocol
<1>1. ASSUME NEW c \in Bytes, \A s \in Bytes : Len(s) < Len(c) => s \in Y
      PROVE  c \in Y
  <2> SUFFICES ASSUME NEW k \in Nat \ {0} PROVE decode(p, c, k).imei = k
    OBVIOUS
  <2> DEFINE e == Iteration(p, c, k)
             r == From(c, e.n + 1)
             d == decode(p, r, e.imei)
  <2>1. e.imei = k
    BY TeltonikaIsFair
  <2> HIDE DEF p
  <2>2. CASE e.go # "next"
    <3>1. decode(p, c, k) = e
      BY <1>0, <2>2, DecodeUnrolls
    <3> QED
      BY <2>1, <3>1
  <2>3. CASE e.go = "next"
    <3>1. decode(p, c, k) = After(e, d)
      BY <1>0, <2>3, DecodeUnrolls
    <3>2. e.imei \in Nat \ {0} /\ r \in Bytes /\ Len(r) < Len(c)
      BY <1>0, <2>1, <2>3, RestIsShorter
    <3> HIDE DEF e, r
    <3>3. d.imei = e.imei
      BY <1>1, <3>2
    <3>4. d \in Outcomes
      BY <1>0, <3>2, DecodeParts
    <3> HIDE DEF d
    <3>5. After(e, d).imei = d.imei
      BY <3>4, AfterIs
    <3> QED
      BY <2>1, <3>1, <3>3, <3>5
  <2> QED
    BY <2>2, <2>3
<1> HIDE DEF Y
<1>2. Bytes \subseteq Y
  BY <1>1, ShorterFirst
<1>3. \A c \in Bytes, k \in Nat \ {0} : decode(p, c, k).imei = k
  BY <1>2 DEF Y
<1>4. ASSUME decode(p, b, i).imei = 0 PROVE decode(p, b, i) = Stop(0, 0)
  <2> DEFINE e == Iteration(p, b, i)
             r == From(b, e.n + 1)
             d == decode(p, r, e.imei)
  <2>1. i = 0
    BY <1>3, <1>4
  <2>2. e = Stop(0, 0) \/ (e.go = "next" /\ e.imei # 0)
    BY <2>1, TeltonikaIsFair
  <2> HIDE DEF p
  <2>3. CASE e = Stop(0, 0)
    <3>1. e.go # "next"
      BY <2>3, Fields
    <3> QED
      BY <1>0, <2>3, <3>1, DecodeUnrolls
  <2>4. CASE e.go = "next" /\ e.imei # 0
    <3>1. decode(p, b, i) = After(e, d)
      BY <1>0, <2>4, DecodeUnrolls
    <3>2. e.imei \in Nat \ {0} /\ r \in Bytes
      BY <1>0, <2>4, RestIsShorter
    <3> HIDE DEF e, r
    <3>3. d.imei = e.imei
      BY <1>3, <3>2
    <3>4. d \in Outcomes
      BY <1>0, <3>2, DecodeParts
    <3> HIDE DEF d
    <3>5. After(e, d).imei = d.imei
      BY <3>4, AfterIs
    <3> QED
      BY <1>4, <2>4, <3>1, <3>3, <3>5
  <2> QED
    BY <2>2, <2>3, <2>4
<1> QED
  BY <1>3, <1>4
=============================================================================
