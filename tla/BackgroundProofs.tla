-------------------------- MODULE BackgroundProofs --------------------------
(***************************************************************************)
(* Proofs about the parts of MCBackground, for any sizes and numbers of    *)
(* actors.  MobileQueue: a fix that is neither with the API nor stored nor *)
(* on its way was dropped at the cap, overwritten by a callback with an    *)
(* outdated copy, or caught by a restart.  Realtime: a stream has every    *)
(* event its replica emitted for it, in order, and sees the events of each *)
(* publisher in order.  Webhooks: an event is counted once, unless an      *)
(* update of the counter failed.  Deliveries: a notification its recipient *)
(* got is in the log as sent, unless its outcome was lost or overwritten.  *)
(* At the end, the run that explores these with a device's connection:     *)
(* what is proved of each part holds in it.                                *)
(***************************************************************************)
EXTENDS MCBackground, FramingProofs, FiniteSetTheorems, FunctionTheorems

-----------------------------------------------------------------------------
(* Queues. *)

LEMMA EmptyMembers == ToSet(<<>>) = {}
  BY DEF ToSet

\* Taking the oldest entry takes that one and no other.
LEMMA TailMembers ==
  ASSUME NEW S, NEW q \in Seq(S), q # <<>>
  PROVE  /\ Tail(q) \in Seq(S) /\ Len(Tail(q)) = Len(q) - 1 /\ Head(q) \in S
         /\ ToSet(q) = {Head(q)} \cup ToSet(Tail(q))
<1>1. /\ Tail(q) \in Seq(S) /\ Len(Tail(q)) = Len(q) - 1 /\ Head(q) = q[1] /\ Head(q) \in S
      /\ Len(q) \in Nat \ {0} /\ DOMAIN q = 1 .. Len(q) /\ DOMAIN Tail(q) = 1 .. Len(q) - 1
      /\ \A i \in 1 .. Len(q) - 1 : Tail(q)[i] = q[i + 1]
  BY HeadTailProperties, LenProperties, EmptySeq
<1>2. ASSUME NEW f \in ToSet(q) PROVE f \in {Head(q)} \cup ToSet(Tail(q))
  <2>1. PICK i \in 1 .. Len(q) : f = q[i]
    BY <1>1 DEF ToSet
  <2>2. CASE i # 1
    <3>1. i - 1 \in 1 .. Len(q) - 1 /\ Tail(q)[i - 1] = f
      BY <1>1, <2>1, <2>2
    <3> QED
      BY <1>1, <3>1 DEF ToSet
  <2> QED
    BY <1>1, <2>1, <2>2
<1>3. ASSUME NEW f \in ToSet(Tail(q)) PROVE f \in ToSet(q)
  <2>1. PICK i \in 1 .. Len(q) - 1 : f = q[i + 1]
    BY <1>1, <1>3 DEF ToSet
  <2>2. i + 1 \in DOMAIN q
    BY <1>1
  <2> QED
    BY <2>1, <2>2 DEF ToSet
<1>4. Head(q) \in ToSet(q)
  <2>1. 1 \in DOMAIN q
    BY <1>1
  <2> QED
    BY <1>1, <2>1 DEF ToSet
<1> QED
  BY <1>1, <1>2, <1>3, <1>4

LEMMA AppendMembers ==
  ASSUME NEW S, NEW q \in Seq(S), NEW f \in S
  PROVE  /\ Append(q, f) \in Seq(S) /\ Len(Append(q, f)) = Len(q) + 1
         /\ ToSet(Append(q, f)) = ToSet(q) \cup {f}
         /\ q # <<>> => Head(Append(q, f)) = Head(q) /\ f \in ToSet(Tail(Append(q, f)))
<1> DEFINE r == Append(q, f)
<1>1. /\ r \in Seq(S) /\ Len(r) = Len(q) + 1 /\ Len(q) \in Nat /\ DOMAIN q = 1 .. Len(q)
      /\ DOMAIN r = 1 .. Len(q) + 1 /\ r[Len(q) + 1] = f
      /\ \A i \in 1 .. Len(q) : r[i] = q[i]
  BY AppendProperties, LenProperties
<1> HIDE DEF r
<1>2. ToSet(r) = ToSet(q) \cup {f}
  <2>1. ASSUME NEW x \in ToSet(r) PROVE x \in ToSet(q) \cup {f}
    <3>1. PICK i \in 1 .. Len(q) + 1 : x = r[i]
      BY <1>1, <2>1 DEF ToSet
    <3>2. i = Len(q) + 1 \/ i \in 1 .. Len(q)
      BY <1>1
    <3> QED
      BY <1>1, <3>1, <3>2 DEF ToSet
  <2>2. ASSUME NEW x \in ToSet(q) PROVE x \in ToSet(r)
    <3>1. PICK i \in 1 .. Len(q) : x = q[i]
      BY <1>1, <2>2 DEF ToSet
    <3>2. i \in DOMAIN r /\ r[i] = x
      BY <1>1, <3>1
    <3> QED
      BY <3>2 DEF ToSet
  <2>3. f \in ToSet(r)
    <3>1. Len(q) + 1 \in DOMAIN r
      BY <1>1
    <3> QED
      BY <1>1, <3>1 DEF ToSet
  <2> QED
    BY <2>1, <2>2, <2>3
<1>3. ASSUME q # <<>> PROVE Head(r) = Head(q) /\ f \in ToSet(Tail(r))
  <2>1. Len(q) > 0 /\ r # <<>>
    BY <1>1, <1>3, EmptySeq
  <2>2. /\ Head(q) = q[1] /\ Head(r) = r[1] /\ DOMAIN Tail(r) = 1 .. Len(q)
        /\ Tail(r)[Len(q)] = r[Len(q) + 1]
    BY <1>1, <1>3, <2>1, HeadTailProperties, LenProperties
  <2>3. Len(q) \in DOMAIN Tail(r) /\ Tail(r)[Len(q)] = f /\ 1 \in 1 .. Len(q)
    BY <1>1, <2>1, <2>2
  <2>4. f \in ToSet(Tail(r))
    BY <2>3 DEF ToSet
  <2> QED
    BY <1>1, <2>2, <2>3, <2>4
<1> QED
  BY <1>1, <1>2, <1>3 DEF r

-----------------------------------------------------------------------------
(* MobileQueue. *)

Steps == {"waiting", "reporting", "append", "drain", "sending", "done"} \cup Writing

Queue == {q \in Seq(Fix) : Len(q) <= max}

Callback == [at : Steps, items : Queue, base : Queue]

MobileTyped ==
  /\ stored \in Queue
  /\ cb \in [Fix -> Callback]
  /\ reached \subseteq Fix /\ dropped \subseteq Fix
  /\ restarts \in 0 .. MaxRestarts

\* What a callback read is still in its copy, with the API, or dropped: writing the copy
\* takes from the store only what came after the read.
CopyAccounts ==
  \A g \in Fix : cb[g].at \in {"sending"} \cup Writing =>
    ToSet(cb[g].base) \subseteq ToSet(cb[g].items) \cup reached \cup dropped

\* The copy an enqueue writes ends with its own fix.
CopyHoldsOwn == \A g \in Fix : cb[g].at = "writeAppended" => g \in ToSet(cb[g].items)

MobileInv == MobileTyped /\ CopyAccounts /\ CopyHoldsOwn /\ FixLossIsExplained

LEMMA MobileBounds == max \in Nat \ {0} /\ MaxRestarts \in Nat
  BY MobileQueueAssumption

LEMMA EmptyQueue == <<>> \in Queue /\ ToSet(<<>>) = {}
  BY MobileBounds, EmptyMembers DEF Queue

LEMMA MembersAt ==
  ASSUME NEW q \in Queue
  PROVE  /\ q \in Seq(Fix) /\ Len(q) \in Nat /\ Len(q) <= max
         /\ ToSet(q) = {q[i] : i \in 1 .. Len(q)} /\ ToSet(q) \subseteq Fix
  BY LenProperties, ElementOfSeq DEF Queue, ToSet

\* enqueue (offline-queue.ts): the copy has the new fix, and all of the store but the
\* oldest entry of a full queue.
LEMMA CappedMembers ==
  ASSUME NEW q \in Queue, NEW f \in Fix
  PROVE  /\ Capped(Append(q, f)) \in Queue
         /\ f \in ToSet(Capped(Append(q, f)))
         /\ ToSet(q) \subseteq ToSet(Capped(Append(q, f))) \cup (IF Len(q) = max THEN {Head(q)} ELSE {})
         /\ Len(q) = max => Head(q) \in Fix
<1>1. /\ Append(q, f) \in Seq(Fix) /\ Len(Append(q, f)) = Len(q) + 1 /\ ToSet(Append(q, f)) = ToSet(q) \cup {f}
      /\ Len(q) \in Nat /\ Len(q) <= max /\ max \in Nat \ {0} /\ q \in Seq(Fix)
  BY AppendMembers, MembersAt, MobileBounds
<1>2. CASE Len(q) < max
  <2>1. Capped(Append(q, f)) = Append(q, f)
    BY <1>1, <1>2 DEF Capped
  <2> QED
    BY <1>1, <1>2, <2>1 DEF Queue
<1>3. CASE Len(q) = max
  <2>1. Capped(Append(q, f)) = Tail(Append(q, f)) /\ q # <<>> /\ Append(q, f) # <<>>
    BY <1>1, <1>3, EmptySeq DEF Capped
  <2>2. Head(Append(q, f)) = Head(q) /\ f \in ToSet(Tail(Append(q, f))) /\ Head(q) \in Fix
    BY <1>1, <2>1, AppendMembers, TailMembers
  <2>3. /\ Tail(Append(q, f)) \in Seq(Fix) /\ Len(Tail(Append(q, f))) = Len(Append(q, f)) - 1
        /\ ToSet(Append(q, f)) = {Head(Append(q, f))} \cup ToSet(Tail(Append(q, f)))
    BY <1>1, <2>1, TailMembers
  <2> QED
    BY <1>1, <1>3, <2>1, <2>2, <2>3 DEF Queue
<1> QED
  BY <1>1, <1>2, <1>3

-----------------------------------------------------------------------------
(* Steps. *)

LEMMA MobileStart == MobileInit => MobileInv
<1> SUFFICES ASSUME MobileInit PROVE MobileInv
  OBVIOUS
<1>1. NoCallback \in Callback /\ NoCallback.at = "waiting"
  BY EmptyQueue DEF NoCallback, Callback, Steps
<1>2. \A f \in Fix : cb[f] = NoCallback
  BY DEF MobileInit
<1>3. MobileTyped
  BY <1>1, EmptyQueue, MobileBounds DEF MobileInit, MobileTyped
<1>4. CopyAccounts /\ CopyHoldsOwn /\ FixLossIsExplained
  BY <1>1, <1>2 DEF CopyAccounts, CopyHoldsOwn, FixLossIsExplained, Writing
<1> QED
  BY <1>3, <1>4 DEF MobileInv

\* A callback that only moves on: nothing it copied is lost.
LEMMA MovesOn ==
  ASSUME MobileInv, NEW f \in Fix, NEW step \in {"reporting", "append", "drain"}, At(f, step)
  PROVE  /\ cb' \in [Fix -> Callback] /\ cb'[f].at = step
         /\ \A g \in Fix \ {f} : cb'[g] = cb[g]
<1>1. [cb[f] EXCEPT !.at = step] \in Callback
  BY DEF MobileInv, MobileTyped, Callback, Steps
<1> QED
  BY <1>1 DEF At, MobileInv, MobileTyped, Callback

LEMMA FixArrivesKeeps ==
  ASSUME MobileInv, NEW f \in Fix, FixArrives(f)
  PROVE  MobileInv'
<1>1. At(f, "reporting") /\ UNCHANGED <<stored, reached, dropped, clobbered, restarts>>
  BY DEF FixArrives
<1>2. cb' \in [Fix -> Callback] /\ cb'[f].at = "reporting" /\ \A g \in Fix \ {f} : cb'[g] = cb[g]
  BY <1>1, MovesOn
<1>3. MobileTyped'
  BY <1>1, <1>2 DEF MobileInv, MobileTyped
<1>4. CopyAccounts' /\ CopyHoldsOwn'
  BY <1>1, <1>2 DEF MobileInv, CopyAccounts, CopyHoldsOwn, Writing
<1>5. FixLossIsExplained'
  BY <1>1, <1>2 DEF MobileInv, FixLossIsExplained
<1> QED
  BY <1>3, <1>4, <1>5 DEF MobileInv

LEMMA ReportsKeeps ==
  ASSUME MobileInv, NEW f \in Fix, NEW arrives \in BOOLEAN, NEW ok \in BOOLEAN, Reports(f, arrives, ok)
  PROVE  MobileInv'
<1> DEFINE step == IF ok THEN "drain" ELSE "append"
<1>1. /\ At(f, step) /\ UNCHANGED <<stored, dropped, clobbered, restarts>>
      /\ reached \subseteq reached' /\ reached' \subseteq reached \cup {f} /\ (ok => f \in reached')
  BY DEF Reports
<1>2. cb' \in [Fix -> Callback] /\ cb'[f].at = step /\ \A g \in Fix \ {f} : cb'[g] = cb[g]
  <2>1. step \in {"reporting", "append", "drain"}
    OBVIOUS
  <2> QED
    BY <1>1, <2>1, MovesOn
<1>3. MobileTyped'
  BY <1>1, <1>2 DEF MobileInv, MobileTyped
<1>4. CopyAccounts' /\ CopyHoldsOwn'
  BY <1>1, <1>2 DEF MobileInv, CopyAccounts, CopyHoldsOwn, Writing
<1>5. FixLossIsExplained'
  <2> SUFFICES ASSUME NEW g \in Fix
               PROVE  \/ g \in reached' \cup ToSet(stored) \cup dropped \cup clobbered
                      \/ cb'[g].at \in {"waiting", "reporting", "append", "writeAppended"}
    BY <1>1 DEF FixLossIsExplained
  <2>1. CASE g = f
    BY <1>1, <1>2, <2>1
  <2>2. CASE g # f
    BY <1>1, <1>2, <2>2 DEF MobileInv, FixLossIsExplained
  <2> QED
    BY <2>1, <2>2
<1> QED
  BY <1>3, <1>4, <1>5 DEF MobileInv

\* A callback that reads, and its copy.
LEMMA EnqueueReadsKeeps ==
  ASSUME MobileInv, NEW f \in Fix, EnqueueReads(f)
  PROVE  MobileInv'
<1> DEFINE items == Capped(Append(stored, f))
           copy == [at |-> "writeAppended", items |-> items, base |-> stored]
<1>1. /\ cb[f].at = "append" /\ cb' = [cb EXCEPT ![f] = copy]
      /\ dropped' = IF Len(stored) = max THEN dropped \cup {Head(stored)} ELSE dropped
      /\ UNCHANGED <<stored, reached, clobbered, restarts>>
  BY DEF EnqueueReads
<1>2. /\ items \in Queue /\ f \in ToSet(items) /\ stored \in Queue
      /\ ToSet(stored) \subseteq ToSet(items) \cup (IF Len(stored) = max THEN {Head(stored)} ELSE {})
      /\ Len(stored) = max => Head(stored) \in Fix
  BY CappedMembers DEF MobileInv, MobileTyped
<1> HIDE DEF items
<1>3. copy \in Callback /\ copy.at = "writeAppended" /\ copy.items = items /\ copy.base = stored
  BY <1>2 DEF Callback, Steps, Writing
<1> HIDE DEF copy
<1>4. cb' \in [Fix -> Callback] /\ cb'[f] = copy /\ \A g \in Fix \ {f} : cb'[g] = cb[g]
  BY <1>1, <1>3 DEF MobileInv, MobileTyped
<1>5. dropped \subseteq dropped' /\ dropped' \subseteq Fix /\ ToSet(stored) \subseteq ToSet(items) \cup dropped'
  BY <1>1, <1>2 DEF MobileInv, MobileTyped
<1>6. MobileTyped'
  BY <1>1, <1>4, <1>5 DEF MobileInv, MobileTyped
<1>7. CopyAccounts'
  BY <1>1, <1>3, <1>4, <1>5 DEF MobileInv, CopyAccounts
<1>8. CopyHoldsOwn'
  BY <1>2, <1>3, <1>4 DEF MobileInv, CopyHoldsOwn
<1>9. FixLossIsExplained'
  BY <1>1, <1>3, <1>4, <1>5 DEF MobileInv, FixLossIsExplained
<1> QED
  BY <1>6, <1>7, <1>8, <1>9 DEF MobileInv

LEMMA FlushReadsKeeps ==
  ASSUME MobileInv, NEW f \in Fix, FlushReads(f)
  PROVE  MobileInv'
<1> DEFINE step == IF stored = <<>> THEN "done" ELSE "sending"
           copy == [at |-> step, items |-> stored, base |-> stored]
<1>1. /\ cb[f].at = "drain" /\ cb' = [cb EXCEPT ![f] = copy]
      /\ UNCHANGED <<stored, reached, dropped, clobbered, restarts>>
  BY DEF FlushReads
<1>2. /\ copy \in Callback /\ copy.at \in {"done", "sending"} /\ copy.items = stored /\ copy.base = stored
  BY DEF Callback, Steps, MobileInv, MobileTyped
<1> HIDE DEF copy
<1>3. cb' \in [Fix -> Callback] /\ cb'[f] = copy /\ \A g \in Fix \ {f} : cb'[g] = cb[g]
  BY <1>1, <1>2 DEF MobileInv, MobileTyped
<1>4. MobileTyped'
  BY <1>1, <1>3 DEF MobileInv, MobileTyped
<1>5. CopyAccounts' /\ CopyHoldsOwn'
  BY <1>1, <1>2, <1>3 DEF MobileInv, CopyAccounts, CopyHoldsOwn
<1>6. FixLossIsExplained'
  BY <1>1, <1>3 DEF MobileInv, FixLossIsExplained
<1> QED
  BY <1>4, <1>5, <1>6 DEF MobileInv

\* flush takes an entry out of its copy only when the API has it.
LEMMA FlushSendsKeeps ==
  ASSUME MobileInv, NEW f \in Fix, NEW arrives \in BOOLEAN, NEW ok \in BOOLEAN, FlushSends(f, arrives, ok)
  PROVE  MobileInv'
<1> DEFINE items == cb[f].items
           rest == IF ok THEN Tail(items) ELSE items
           step == IF ok /\ Len(items) > 1 THEN "sending" ELSE "writeRest"
           sent == [cb[f] EXCEPT !.items = rest, !.at = step]
<1>1. /\ cb[f].at = "sending" /\ items # <<>> /\ (ok => arrives)
      /\ reached' = IF arrives THEN reached \cup {Head(items)} ELSE reached
      /\ cb' = [cb EXCEPT ![f] = sent]
      /\ UNCHANGED <<stored, dropped, clobbered, restarts>>
  BY DEF FlushSends
<1>2. /\ cb[f] \in Callback /\ items \in Queue /\ items \in Seq(Fix)
  BY DEF MobileInv, MobileTyped, Callback, Queue
<1>3. /\ Tail(items) \in Seq(Fix) /\ Len(Tail(items)) = Len(items) - 1 /\ Head(items) \in Fix
      /\ ToSet(items) = {Head(items)} \cup ToSet(Tail(items))
  BY <1>1, <1>2, TailMembers
<1>4. rest \in Queue
  <2>1. Len(items) \in Nat /\ Len(items) <= max /\ max \in Nat
    BY <1>2, MembersAt, MobileBounds
  <2>2. Tail(items) \in Queue
    BY <1>3, <2>1 DEF Queue
  <2> QED
    BY <1>2, <2>2
<1>5. ToSet(items) \subseteq ToSet(rest) \cup reached' /\ reached \subseteq reached' /\ reached' \subseteq Fix
  BY <1>1, <1>3 DEF MobileInv, MobileTyped
<1> HIDE DEF rest
<1>6. sent \in Callback /\ sent.at \in {"sending", "writeRest"} /\ sent.items = rest /\ sent.base = cb[f].base
  BY <1>2, <1>4 DEF Callback, Steps, Writing
<1> HIDE DEF sent
<1>7. cb' \in [Fix -> Callback] /\ cb'[f] = sent /\ \A g \in Fix \ {f} : cb'[g] = cb[g]
  BY <1>1, <1>6 DEF MobileInv, MobileTyped
<1>8. MobileTyped'
  BY <1>1, <1>5, <1>7 DEF MobileInv, MobileTyped
<1>9. CopyAccounts'
  <2>1. ToSet(cb[f].base) \subseteq ToSet(items) \cup reached \cup dropped
    BY <1>1 DEF MobileInv, CopyAccounts
  <2>2. ToSet(cb'[f].base) \subseteq ToSet(cb'[f].items) \cup reached' \cup dropped
    BY <1>5, <1>6, <1>7, <2>1
  <2> QED
    BY <1>1, <1>5, <1>7, <2>2 DEF MobileInv, CopyAccounts
<1>10. CopyHoldsOwn'
  BY <1>6, <1>7 DEF MobileInv, CopyHoldsOwn
<1>11. FixLossIsExplained'
  BY <1>1, <1>5, <1>7 DEF MobileInv, FixLossIsExplained
<1> QED
  BY <1>8, <1>9, <1>10, <1>11 DEF MobileInv

\* write: what the copy does not have came after its read, or is accounted for.
LEMMA WritesKeeps ==
  ASSUME MobileInv, NEW f \in Fix, Writes(f)
  PROVE  MobileInv'
<1> DEFINE ended == [NoCallback EXCEPT !.at = "done"]
<1>1. /\ cb[f].at \in Writing /\ stored' = cb[f].items
      /\ clobbered' = clobbered \cup (ToSet(stored) \ ToSet(cb[f].base))
      /\ cb' = [cb EXCEPT ![f] = ended]
      /\ UNCHANGED <<reached, dropped, restarts>>
  BY DEF Writes
<1>2. ended \in Callback /\ ended.at = "done"
  BY EmptyQueue DEF NoCallback, Callback, Steps
<1> HIDE DEF ended
<1>3. cb' \in [Fix -> Callback] /\ cb'[f] = ended /\ \A g \in Fix \ {f} : cb'[g] = cb[g]
  BY <1>1, <1>2 DEF MobileInv, MobileTyped
<1>4. MobileTyped'
  BY <1>1, <1>3 DEF MobileInv, MobileTyped, Callback
<1>5. CopyAccounts' /\ CopyHoldsOwn'
  BY <1>1, <1>2, <1>3 DEF MobileInv, CopyAccounts, CopyHoldsOwn, Writing
<1>6. FixLossIsExplained'
  <2> SUFFICES ASSUME NEW g \in Fix
               PROVE  \/ g \in reached \cup ToSet(stored') \cup dropped \cup clobbered'
                      \/ cb'[g].at \in {"waiting", "reporting", "append", "writeAppended"}
    BY <1>1 DEF FixLossIsExplained
  <2>1. ToSet(cb[f].base) \subseteq ToSet(stored') \cup reached \cup dropped
    BY <1>1 DEF MobileInv, CopyAccounts
  <2>2. g \in ToSet(stored) => g \in reached \cup ToSet(stored') \cup dropped \cup clobbered'
    BY <1>1, <2>1
  <2>3. g = f /\ cb[f].at = "writeAppended" => g \in ToSet(stored')
    BY <1>1 DEF MobileInv, CopyHoldsOwn
  <2>4. \/ g \in reached \cup ToSet(stored) \cup dropped \cup clobbered
        \/ cb[g].at \in {"waiting", "reporting", "append", "writeAppended"}
    BY DEF MobileInv, FixLossIsExplained
  <2>5. CASE g = f
    BY <1>1, <2>2, <2>3, <2>4, <2>5 DEF Writing
  <2>6. CASE g # f
    BY <1>1, <1>3, <2>2, <2>4, <2>6
  <2> QED
    BY <2>5, <2>6
<1> QED
  BY <1>4, <1>5, <1>6 DEF MobileInv

\* The store outlives the app; fixes on their way to it do not.
LEMMA KilledKeeps ==
  ASSUME MobileInv, Killed
  PROVE  MobileInv'
<1> DEFINE ended == [NoCallback EXCEPT !.at = "done"]
<1>1. /\ restarts < MaxRestarts /\ restarts' = restarts + 1
      /\ cb' = [f \in Fix |-> IF cb[f].at = "waiting" THEN cb[f] ELSE ended]
      /\ clobbered' = clobbered \cup {f \in Fix : cb[f].at \in {"reporting", "append", "writeAppended"}}
      /\ UNCHANGED <<stored, reached, dropped>>
  BY DEF Killed
<1>2. ended \in Callback /\ ended.at = "done"
  BY EmptyQueue DEF NoCallback, Callback, Steps
<1> HIDE DEF ended
<1>3. cb' \in [Fix -> Callback] /\ \A g \in Fix : cb'[g] = IF cb[g].at = "waiting" THEN cb[g] ELSE ended
  BY <1>1, <1>2 DEF MobileInv, MobileTyped
<1>4. MobileTyped'
  <2>1. restarts' \in 0 .. MaxRestarts
    BY <1>1, MobileBounds DEF MobileInv, MobileTyped
  <2> QED
    BY <1>1, <1>3, <2>1 DEF MobileInv, MobileTyped
<1>5. CopyAccounts' /\ CopyHoldsOwn'
  BY <1>2, <1>3 DEF CopyAccounts, CopyHoldsOwn, Writing
<1>6. FixLossIsExplained'
  BY <1>1, <1>2, <1>3 DEF MobileInv, FixLossIsExplained
<1> QED
  BY <1>4, <1>5, <1>6 DEF MobileInv

LEMMA MobileStep == MobileInv /\ [MobileNext]_mobileVars => MobileInv'
<1> SUFFICES ASSUME MobileInv, [MobileNext]_mobileVars PROVE MobileInv'
  OBVIOUS
<1>1. CASE UNCHANGED mobileVars
  BY <1>1 DEF mobileVars, MobileInv, MobileTyped, CopyAccounts, CopyHoldsOwn, FixLossIsExplained
<1>2. ASSUME NEW f \in Fix, FixArrives(f) \/ EnqueueReads(f) \/ FlushReads(f) \/ Writes(f) PROVE MobileInv'
  BY <1>2, FixArrivesKeeps, EnqueueReadsKeeps, FlushReadsKeeps, WritesKeeps
<1>3. ASSUME NEW f \in Fix, NEW arrives \in BOOLEAN, NEW ok \in BOOLEAN,
             Reports(f, arrives, ok) \/ FlushSends(f, arrives, ok)
      PROVE  MobileInv'
  BY <1>3, ReportsKeeps, FlushSendsKeeps
<1> QED
  BY <1>1, <1>2, <1>3, KilledKeeps DEF MobileNext

\* The store and every copy of it stay within the cap and hold fixes of the session.
THEOREM MobileIsTyped == MobileSpec => []MobileTypeOK
<1>1. MobileInv => MobileTypeOK
  BY DEF MobileInv, MobileTyped, MobileTypeOK, Callback, Queue, Steps
<1> QED
  BY <1>1, MobileStart, MobileStep, PTL DEF MobileSpec

\* However callbacks overlap and whenever the app dies: no fix disappears for a reason
\* other than the cap, an outdated copy or the restart.
THEOREM FixLossHasReason == MobileSpec => []FixLossIsExplained
<1>1. MobileInv => FixLossIsExplained
  BY DEF MobileInv
<1> QED
  BY <1>1, MobileStart, MobileStep, PTL DEF MobileSpec

-----------------------------------------------------------------------------
(* Realtime: orders of events. *)

\* The events of each publisher come in the order of their publication.
Ordered(q) == \A i, j \in DOMAIN q : i < j /\ q[i].source = q[j].source => q[i].n < q[j].n

Older(S, T) == \A d \in S, e \in T : d.source = e.source => d.n < e.n

LEMMA OrderedEmpty == Ordered(<<>>)
  BY DEF Ordered

LEMMA OrderedTail ==
  ASSUME NEW q \in Seq(Event), q # <<>>, Ordered(q)
  PROVE  Ordered(Tail(q)) /\ Older({Head(q)}, ToSet(Tail(q)))
<1>1. /\ Len(q) \in Nat \ {0} /\ Head(q) = q[1] /\ DOMAIN q = 1 .. Len(q) /\ DOMAIN Tail(q) = 1 .. Len(q) - 1
      /\ \A i \in 1 .. Len(q) - 1 : Tail(q)[i] = q[i + 1] /\ i + 1 \in DOMAIN q
  BY HeadTailProperties, LenProperties, EmptySeq
<1>2. ASSUME NEW i \in DOMAIN Tail(q), NEW j \in DOMAIN Tail(q), i < j, Tail(q)[i].source = Tail(q)[j].source
      PROVE  Tail(q)[i].n < Tail(q)[j].n
  <2>1. /\ Tail(q)[i] = q[i + 1] /\ Tail(q)[j] = q[j + 1] /\ i + 1 < j + 1
        /\ i + 1 \in DOMAIN q /\ j + 1 \in DOMAIN q
    BY <1>1, <1>2
  <2> QED
    BY <1>2, <2>1 DEF Ordered
<1>3. ASSUME NEW e \in ToSet(Tail(q)), Head(q).source = e.source PROVE Head(q).n < e.n
  <2>1. PICK i \in DOMAIN Tail(q) : e = Tail(q)[i]
    BY DEF ToSet
  <2>2. e = q[i + 1] /\ i + 1 \in DOMAIN q /\ 1 \in DOMAIN q /\ 1 < i + 1
    BY <1>1, <2>1
  <2> QED
    BY <1>1, <1>3, <2>2 DEF Ordered
<1> QED
  BY <1>2, <1>3 DEF Ordered, Older

LEMMA OrderedAppend ==
  ASSUME NEW q \in Seq(Event), NEW e \in Event, Ordered(q), Older(ToSet(q), {e})
  PROVE  Ordered(Append(q, e))
<1> DEFINE r == Append(q, e)
<1>1. /\ Len(q) \in Nat /\ DOMAIN q = 1 .. Len(q) /\ DOMAIN r = 1 .. Len(q) + 1 /\ r[Len(q) + 1] = e
      /\ \A i \in 1 .. Len(q) : r[i] = q[i]
  BY AppendProperties, LenProperties
<1> HIDE DEF r
<1>2. ASSUME NEW i \in DOMAIN r, NEW j \in DOMAIN r, i < j, r[i].source = r[j].source
      PROVE  r[i].n < r[j].n
  <2>1. i \in DOMAIN q /\ r[i] = q[i]
    BY <1>1, <1>2
  <2>2. CASE j = Len(q) + 1
    <3>1. q[i] \in ToSet(q) /\ r[j] = e
      BY <1>1, <2>1, <2>2 DEF ToSet
    <3> QED
      BY <1>2, <2>1, <3>1 DEF Older
  <2>3. CASE j # Len(q) + 1
    <3>1. j \in DOMAIN q /\ r[j] = q[j]
      BY <1>1, <2>3
    <3> QED
      BY <1>2, <2>1, <3>1 DEF Ordered
  <2> QED
    BY <2>2, <2>3
<1>3. Ordered(r)
  BY <1>2 DEF Ordered
<1> QED
  BY <1>3 DEF r

-----------------------------------------------------------------------------
(* Prefixes. *)

LEMMA PrefixAt ==
  ASSUME NEW s \in Seq(Event), NEW t \in Seq(Event)
  PROVE  IsPrefix(s, t) <=> Len(s) <= Len(t) /\ \A i \in 1 .. Len(s) : s[i] = t[i]
<1>1. Len(s) \in Nat /\ Len(t) \in Nat
  BY LenProperties
<1>2. ASSUME Len(s) <= Len(t)
      PROVE  /\ SubSeq(s, 1, Len(s)) \in Seq(Event) /\ SubSeq(t, 1, Len(s)) \in Seq(Event)
             /\ Len(SubSeq(s, 1, Len(s))) = Len(s) /\ Len(SubSeq(t, 1, Len(s))) = Len(s)
             /\ \A i \in 1 .. Len(s) : SubSeq(s, 1, Len(s))[i] = s[i] /\ SubSeq(t, 1, Len(s))[i] = t[i]
  BY <1>1, <1>2, SubSeqProperties
<1>3. ASSUME IsPrefix(s, t) PROVE Len(s) <= Len(t) /\ \A i \in 1 .. Len(s) : s[i] = t[i]
  BY <1>2, <1>3 DEF IsPrefix
<1>4. ASSUME Len(s) <= Len(t), \A i \in 1 .. Len(s) : s[i] = t[i] PROVE IsPrefix(s, t)
  <2>1. SubSeq(s, 1, Len(s)) = SubSeq(t, 1, Len(s))
    BY <1>2, <1>4, SeqEqual
  <2> QED
    BY <1>4, <2>1 DEF IsPrefix
<1> QED
  BY <1>3, <1>4

LEMMA PrefixOfConcat ==
  ASSUME NEW s \in Seq(Event), NEW t \in Seq(Event)
  PROVE  IsPrefix(s, s \o t)
<1>1. Len(s) \in Nat /\ Len(t) \in Nat
  BY LenProperties
<1>2. /\ s \o t \in Seq(Event) /\ Len(s \o t) = Len(s) + Len(t)
      /\ \A i \in 1 .. Len(s) : (s \o t)[i] = s[i]
  BY <1>1, ConcatProperties
<1>3. Len(s) <= Len(s \o t) /\ \A i \in 1 .. Len(s) : s[i] = (s \o t)[i]
  BY <1>1, <1>2
<1> QED
  BY <1>2, <1>3, PrefixAt

LEMMA PrefixOfAppend ==
  ASSUME NEW s \in Seq(Event), NEW t \in Seq(Event), NEW e \in Event, IsPrefix(s, t)
  PROVE  IsPrefix(s, Append(t, e))
<1>1. /\ Len(s) \in Nat /\ Len(t) \in Nat /\ Len(s) <= Len(t) /\ \A i \in 1 .. Len(s) : s[i] = t[i]
  BY LenProperties, PrefixAt
<1>2. /\ Append(t, e) \in Seq(Event) /\ Len(Append(t, e)) = Len(t) + 1
      /\ \A i \in 1 .. Len(t) : Append(t, e)[i] = t[i]
  BY AppendProperties
<1>3. Len(s) <= Len(Append(t, e)) /\ \A i \in 1 .. Len(s) : s[i] = Append(t, e)[i]
  BY <1>1, <1>2
<1> QED
  BY <1>2, <1>3, PrefixAt

-----------------------------------------------------------------------------
(* Realtime: the streams. *)

StreamRecord == [at : {"closed", "next", "awaiting", "writing", "aborted"}, items : Seq(Event),
                 waiter : BOOLEAN, hand : Seq(Event)]

\* What holds of a mailbox and its loop between two steps (bounded-event-queue.ts): a
\* consumer waits on an empty mailbox only, and an item is in hand only to be written.
Sound(q) ==
  /\ Len(q.items) <= capacity /\ Len(q.hand) <= 1
  /\ q.waiter <=> q.at = "awaiting"
  /\ q.waiter => q.items = <<>>
  /\ q.at # "writing" => q.hand = <<>>

StreamsTyped ==
  /\ stream \in [Stream -> StreamRecord]
  /\ written \in [Stream -> Seq(Event)] /\ heard \in [Stream -> Seq(Event)]

StreamsSound ==
  \A s \in Stream :
    Sound(stream[s]) /\ (stream[s].at = "closed" => stream[s].items = <<>> /\ written[s] = <<>> /\ heard[s] = <<>>)

\* Every event a stream heard is written, in hand or in its mailbox, in order.
Accounted == \A s \in Stream : Listening(s) => written[s] \o stream[s].hand \o stream[s].items = heard[s]

WrittenWasHeard == \A s \in Stream : IsPrefix(written[s], heard[s])

StreamsInv == StreamsTyped /\ StreamsSound /\ Accounted /\ WrittenWasHeard

LEMMA BusBounds ==
  /\ capacity \in Nat \ {0} /\ MaxEvents \in Nat /\ MaxBusFaults \in Nat
  /\ Home \in [Stream -> Replica] /\ Viewer \in [Stream -> Tenant]
  BY RealtimeAssumption

LEMMA AbortedType ==
  /\ Aborted \in StreamRecord /\ Sound(Aborted) /\ Aborted.at = "aborted"
  /\ NoStream \in StreamRecord /\ Sound(NoStream) /\ NoStream.at = "closed" /\ NoStream.items = <<>>
  /\ NoStream.hand = <<>>
<1>1. <<>> \in Seq(Event) /\ Len(<<>>) = 0 /\ 0 <= capacity
  BY EmptySeq, BusBounds
<1>2. NoStream \in StreamRecord /\ NoStream.at = "closed" /\ NoStream.items = <<>> /\ NoStream.hand = <<>> /\ ~NoStream.waiter
  BY <1>1 DEF NoStream, StreamRecord
<1>3. Aborted \in StreamRecord /\ Aborted.at = "aborted" /\ Aborted.items = <<>> /\ Aborted.hand = <<>> /\ ~Aborted.waiter
  BY <1>1 DEF Aborted, NoStream, StreamRecord
<1>4. Sound(NoStream) /\ Sound(Aborted)
  BY <1>1, <1>2, <1>3 DEF Sound
<1> QED
  BY <1>2, <1>3, <1>4

LEMMA HeadTailConcat ==
  ASSUME NEW q \in Seq(Event), q # <<>>
  PROVE  <<Head(q)>> \o Tail(q) = q
<1>1. /\ Head(q) \in Event /\ Tail(q) \in Seq(Event) /\ Len(Tail(q)) = Len(q) - 1 /\ <<Head(q)>> \in Seq(Event)
      /\ Len(<<Head(q)>>) = 1 /\ Len(q) \in Nat \ {0} /\ Head(q) = q[1]
      /\ \A i \in 1 .. Len(q) - 1 : Tail(q)[i] = q[i + 1]
  BY HeadTailProperties, LenProperties, EmptySeq
<1>2. /\ <<Head(q)>> \o Tail(q) \in Seq(Event) /\ Len(<<Head(q)>> \o Tail(q)) = Len(q)
      /\ \A i \in 1 .. Len(q) : (<<Head(q)>> \o Tail(q))[i] = IF i <= 1 THEN Head(q) ELSE Tail(q)[i - 1]
  BY <1>1, ConcatProperties
<1>3. \A i \in 1 .. Len(q) : (<<Head(q)>> \o Tail(q))[i] = q[i]
  BY <1>1, <1>2
<1> QED
  BY <1>2, <1>3, SeqEqual

LEMMA ConcatenationsAgree ==
  ASSUME NEW t \in Seq(Event), NEW u \in Seq(Event), NEW v \in Seq(Event)
  PROVE  (t \o u) \o v = t \o (u \o v)
  BY ConcatAssociative

\* push: the event comes last of what the stream has, or the stream is aborted.
LEMMA PushedLast ==
  ASSUME NEW q \in StreamRecord, Sound(q), q.at \in {"next", "awaiting", "writing"},
         NEW e \in Event, NEW w \in Seq(Event)
  PROVE  /\ Pushed(q, e) \in StreamRecord /\ Sound(Pushed(q, e))
         /\ \/ Pushed(q, e) = Aborted
            \/ /\ Pushed(q, e).at \in {"next", "awaiting", "writing"}
               /\ w \o Pushed(q, e).hand \o Pushed(q, e).items = Append(w \o q.hand \o q.items, e)
<1>1. q.items \in Seq(Event) /\ q.hand \in Seq(Event) /\ <<e>> \in Seq(Event) /\ <<>> \in Seq(Event) /\ Len(<<e>>) = 1
  BY EmptySeq DEF StreamRecord
<1>2. CASE q.waiter
  <2>1. q.at = "awaiting" /\ q.items = <<>> /\ q.hand = <<>>
    BY <1>2 DEF Sound
  <2>2. Pushed(q, e) = [q EXCEPT !.at = "writing", !.waiter = FALSE, !.hand = <<e>>]
    BY <1>2, <2>1 DEF Pushed
  <2>3. /\ Pushed(q, e) \in StreamRecord /\ Pushed(q, e).at = "writing" /\ Pushed(q, e).waiter = FALSE
        /\ Pushed(q, e).hand = <<e>> /\ Pushed(q, e).items = <<>>
    BY <1>1, <2>1, <2>2 DEF StreamRecord
  <2>4. w \o <<e>> \o <<>> = Append(w \o <<>> \o <<>>, e)
    <3>1. w \o <<e>> \in Seq(Event)
      BY <1>1, ConcatProperties
    <3>2. w \o <<e>> \o <<>> = w \o <<e>>
      BY <3>1, ConcatEmptySeq
    <3>3. w \o <<>> \o <<>> = w
      BY ConcatEmptySeq
    <3>4. Append(w, e) = w \o <<e>>
      BY AppendIsConcat
    <3> QED
      BY <3>2, <3>3, <3>4
  <2>5. Sound(Pushed(q, e))
    BY <1>1, <2>3, BusBounds, EmptySeq DEF Sound
  <2> QED
    BY <2>1, <2>3, <2>4, <2>5
<1>3. CASE ~q.waiter /\ Len(q.items) < capacity
  <2>1. Pushed(q, e) = [q EXCEPT !.items = Append(q.items, e)] /\ q.at \in {"next", "writing"}
    BY <1>3 DEF Pushed, Sound
  <2>2. Append(q.items, e) \in Seq(Event) /\ Len(Append(q.items, e)) = Len(q.items) + 1 /\ Len(q.items) \in Nat
    BY <1>1, AppendProperties, LenProperties
  <2>3. /\ Pushed(q, e) \in StreamRecord /\ Pushed(q, e).at = q.at /\ Pushed(q, e).waiter = FALSE
        /\ Pushed(q, e).hand = q.hand /\ Pushed(q, e).items = Append(q.items, e)
    BY <1>3, <2>1, <2>2 DEF StreamRecord
  <2>4. Sound(Pushed(q, e))
    BY <1>3, <2>1, <2>2, <2>3, BusBounds DEF Sound
  <2>5. w \o q.hand \o Append(q.items, e) = Append(w \o q.hand \o q.items, e)
    <3> DEFINE done == w \o q.hand
               last == <<e>>
    <3>1. done \in Seq(Event) /\ last \in Seq(Event)
      BY <1>1, ConcatProperties
    <3> HIDE DEF done
    <3>2. done \o q.items \in Seq(Event)
      BY <1>1, <3>1, ConcatProperties
    <3>3. Append(q.items, e) = q.items \o last /\ Append(done \o q.items, e) = (done \o q.items) \o last
      BY <1>1, <3>2, AppendIsConcat
    <3> HIDE DEF last
    <3> DEFINE kept == q.items
    <3>4. kept \in Seq(Event)
      BY <1>1
    <3> HIDE DEF kept
    <3>6. (done \o kept) \o last = done \o (kept \o last)
      BY <3>1, <3>4, ConcatenationsAgree
    <3>5. done \o Append(q.items, e) = Append(done \o q.items, e)
      BY <3>3, <3>6 DEF kept
    <3> QED
      BY <3>5 DEF done
  <2> QED
    BY <2>1, <2>3, <2>4, <2>5
<1>4. CASE ~q.waiter /\ ~(Len(q.items) < capacity)
  <2>1. Pushed(q, e) = Aborted
    BY <1>4 DEF Pushed
  <2> QED
    BY <2>1, AbortedType
<1> QED
  BY <1>2, <1>3, <1>4

\* One stream's own step: it is enough to look at that stream.
LEMMA OneStream ==
  ASSUME StreamsInv, NEW s \in Stream, NEW q \in StreamRecord, NEW w \in Seq(Event),
         Sound(q), q.at # "closed",
         stream' = [stream EXCEPT ![s] = q], written' = [written EXCEPT ![s] = w], heard' = heard,
         q.at \in {"next", "awaiting", "writing"} => w \o q.hand \o q.items = heard[s],
         IsPrefix(w, heard[s])
  PROVE  StreamsInv'
<1>1. /\ stream' \in [Stream -> StreamRecord] /\ stream'[s] = q /\ \A t \in Stream \ {s} : stream'[t] = stream[t]
      /\ written' \in [Stream -> Seq(Event)] /\ written'[s] = w /\ \A t \in Stream \ {s} : written'[t] = written[t]
  BY DEF StreamsInv, StreamsTyped
<1>2. StreamsTyped'
  BY <1>1 DEF StreamsInv, StreamsTyped
<1>3. StreamsSound'
  BY <1>1 DEF StreamsInv, StreamsSound
<1>4. Accounted'
  BY <1>1 DEF StreamsInv, Accounted, Listening
<1>5. WrittenWasHeard'
  BY <1>1 DEF StreamsInv, WrittenWasHeard
<1> QED
  BY <1>2, <1>3, <1>4, <1>5 DEF StreamsInv

\* What a stream has written is a prefix of what it has heard, also when it then aborts.
LEMMA StreamFacts ==
  ASSUME StreamsInv, NEW s \in Stream
  PROVE  /\ stream[s] \in StreamRecord /\ stream[s].items \in Seq(Event) /\ stream[s].hand \in Seq(Event)
         /\ Sound(stream[s]) /\ written[s] \in Seq(Event) /\ heard[s] \in Seq(Event)
         /\ written = [written EXCEPT ![s] = written[s]] /\ IsPrefix(written[s], heard[s])
         /\ Listening(s) => written[s] \o stream[s].hand \o stream[s].items = heard[s]
  BY DEF StreamsInv, StreamsTyped, StreamsSound, Accounted, WrittenWasHeard, StreamRecord

LEMMA OpensStreams ==
  ASSUME StreamsInv, NEW s \in Stream, Opens(s)
  PROVE  StreamsInv'
<1> DEFINE q == [stream[s] EXCEPT !.at = "next"]
<1>1. /\ stream[s].at = "closed" /\ stream' = [stream EXCEPT ![s] = q] /\ written' = written /\ heard' = heard
  BY DEF Opens
<1>2. stream[s].items = <<>> /\ stream[s].hand = <<>> /\ written[s] = <<>> /\ heard[s] = <<>> /\ ~stream[s].waiter
  BY <1>1 DEF StreamsInv, StreamsSound, Sound, StreamsTyped, StreamRecord
<1>3. /\ q \in StreamRecord /\ q.at = "next" /\ q.items = <<>> /\ q.hand = <<>> /\ ~q.waiter
  BY <1>2, StreamFacts DEF StreamRecord
<1>4. Sound(q)
  BY <1>1, <1>2, <1>3, StreamFacts DEF Sound
<1>5. <<>> \o <<>> \o <<>> = <<>>
  BY EmptySeq, ConcatEmptySeq
<1> HIDE DEF q
<1> QED
  BY <1>1, <1>2, <1>3, <1>4, <1>5, StreamFacts, OneStream

\* next: the oldest item passes into the hand.
LEMMA NextsStreams ==
  ASSUME StreamsInv, NEW s \in Stream, Nexts(s)
  PROVE  StreamsInv'
<1>1. stream[s].at = "next" /\ stream[s].hand = <<>> /\ ~stream[s].waiter /\ written' = written /\ heard' = heard
  BY StreamFacts DEF Nexts, Sound
<1>2. written[s] \o stream[s].hand \o stream[s].items = heard[s]
  BY <1>1, StreamFacts DEF Listening
<1>3. CASE stream[s].items = <<>>
  <2> DEFINE q == [stream[s] EXCEPT !.at = "awaiting", !.waiter = TRUE]
  <2>1. stream' = [stream EXCEPT ![s] = q]
    <3>1. stream' = [stream EXCEPT ![s].at = "awaiting", ![s].waiter = TRUE]
      BY <1>3 DEF Nexts
    <3> QED
      BY <3>1 DEF StreamsInv, StreamsTyped
  <2>2. /\ q \in StreamRecord /\ q.at = "awaiting" /\ q.items = stream[s].items /\ q.hand = stream[s].hand /\ q.waiter
    BY StreamFacts DEF StreamRecord
  <2>3. Sound(q)
    BY <1>1, <1>3, <2>2, StreamFacts DEF Sound
  <2> HIDE DEF q
  <2> QED
    BY <1>1, <1>2, <2>1, <2>2, <2>3, StreamFacts, OneStream
<1>4. CASE stream[s].items # <<>>
  <2> DEFINE items == stream[s].items
             first == <<Head(items)>>
             q == [stream[s] EXCEPT !.at = "writing", !.hand = first, !.items = Tail(items)]
  <2>1. stream' = [stream EXCEPT ![s] = q]
    <3>1. stream' = [stream EXCEPT ![s].at = "writing", ![s].hand = first, ![s].items = Tail(items)]
      BY <1>4 DEF Nexts
    <3> QED
      BY <3>1 DEF StreamsInv, StreamsTyped
  <2>2. /\ items \in Seq(Event) /\ Head(items) \in Event /\ Tail(items) \in Seq(Event) /\ Len(Tail(items)) = Len(items) - 1
        /\ Len(items) \in Nat /\ first \in Seq(Event) /\ Len(first) = 1
    <3>1. items \in Seq(Event) /\ items # <<>>
      BY <1>4, StreamFacts
    <3>2. Head(items) \in Event /\ Tail(items) \in Seq(Event) /\ Len(Tail(items)) = Len(items) - 1 /\ Len(items) \in Nat
      BY <3>1, HeadTailProperties, LenProperties
    <3>3. first \in Seq(Event) /\ Len(first) = 1
      BY <3>2
    <3> QED
      BY <3>1, <3>2, <3>3
  <2>3. /\ q \in StreamRecord /\ q.at = "writing" /\ q.items = Tail(items) /\ q.hand = first /\ ~q.waiter
    BY <1>1, <2>2, StreamFacts DEF StreamRecord
  <2>4. Sound(q)
    <3>1. Len(items) <= capacity
      BY StreamFacts DEF Sound
    <3>2. Len(q.items) <= capacity
      BY <2>2, <2>3, <3>1, BusBounds
    <3>3. Len(q.hand) <= 1
      BY <2>2, <2>3
    <3> QED
      BY <2>3, <3>2, <3>3 DEF Sound
  <2>5. first \o Tail(items) = items
    BY <1>4, <2>2, HeadTailConcat
  <2>6. written[s] \o first \o Tail(items) = written[s] \o (first \o Tail(items))
    <3> DEFINE rest == Tail(items)
    <3>1. rest \in Seq(Event) /\ first \in Seq(Event) /\ written[s] \in Seq(Event)
      BY <2>2, StreamFacts
    <3> HIDE DEF first, rest
    <3>2. (written[s] \o first) \o rest = written[s] \o (first \o rest)
      BY <3>1, ConcatenationsAgree
    <3> QED
      BY <3>2 DEF rest
  <2>7. written[s] \o <<>> = written[s]
    BY StreamFacts, ConcatEmptySeq
  <2>8. written[s] \o q.hand \o q.items = heard[s]
    BY <1>1, <1>2, <2>3, <2>5, <2>6, <2>7
  <2> HIDE DEF q
  <2> QED
    BY <1>1, <2>1, <2>3, <2>4, <2>8, StreamFacts, OneStream
<1> QED
  BY <1>3, <1>4

LEMMA TimesOutStreams ==
  ASSUME StreamsInv, NEW s \in Stream, TimesOut(s)
  PROVE  StreamsInv'
<1> DEFINE q == [stream[s] EXCEPT !.at = "writing", !.waiter = FALSE]
<1>1. /\ stream[s].at = "awaiting" /\ stream' = [stream EXCEPT ![s] = q] /\ written' = written /\ heard' = heard
  BY DEF TimesOut, TimedOut
<1>2. /\ q \in StreamRecord /\ q.at = "writing" /\ q.items = stream[s].items /\ q.hand = stream[s].hand /\ ~q.waiter
  BY StreamFacts DEF StreamRecord
<1>3. Sound(q)
  BY <1>1, <1>2, StreamFacts DEF Sound
<1>4. written[s] \o stream[s].hand \o stream[s].items = heard[s]
  BY <1>1, StreamFacts DEF Listening
<1> HIDE DEF q
<1> QED
  BY <1>1, <1>2, <1>3, <1>4, StreamFacts, OneStream

\* writeSSE: what was in hand is written.
LEMMA WriteReturnsStreams ==
  ASSUME StreamsInv, NEW s \in Stream, WriteReturns(s)
  PROVE  StreamsInv'
<1> DEFINE q == [stream[s] EXCEPT !.at = "next", !.hand = <<>>]
           w == written[s] \o stream[s].hand
<1>1. stream[s].at = "writing" /\ written' = [written EXCEPT ![s] = w] /\ heard' = heard
  BY DEF WriteReturns
<1>2. stream' = [stream EXCEPT ![s] = q]
  <2>1. stream' = [stream EXCEPT ![s].at = "next", ![s].hand = <<>>]
    BY DEF WriteReturns
  <2> QED
    BY <2>1 DEF StreamsInv, StreamsTyped
<1>3. /\ q \in StreamRecord /\ q.at = "next" /\ q.items = stream[s].items /\ q.hand = <<>> /\ q.waiter = stream[s].waiter
  <2>1. <<>> \in Seq(Event)
    BY EmptySeq
  <2> QED
    BY <2>1, StreamFacts DEF StreamRecord
<1>4. Sound(q)
  <2>1. Len(<<>>) <= 1
    BY EmptySeq
  <2> QED
    BY <1>1, <1>3, <2>1, StreamFacts DEF Sound
<1>5. w \in Seq(Event)
  BY StreamFacts, ConcatProperties
<1>6. w \o stream[s].items = heard[s]
  BY <1>1, StreamFacts DEF Listening
<1> HIDE DEF w, q
<1>7. w \o <<>> = w
  BY <1>5, ConcatEmptySeq
<1>8. w \o q.hand \o q.items = heard[s]
  BY <1>3, <1>6, <1>7
<1>9. IsPrefix(w, heard[s])
  <2>1. IsPrefix(w, w \o stream[s].items)
    BY <1>5, StreamFacts, PrefixOfConcat
  <2> QED
    BY <1>6, <2>1
<1> QED
  BY <1>1, <1>2, <1>3, <1>4, <1>5, <1>8, <1>9, OneStream

LEMMA ClientAbortsStreams ==
  ASSUME StreamsInv, NEW s \in Stream, ClientAborts(s)
  PROVE  StreamsInv'
<1>1. stream' = [stream EXCEPT ![s] = Aborted] /\ written' = written /\ heard' = heard
  BY DEF ClientAborts
<1> QED
  BY <1>1, AbortedType, StreamFacts, OneStream

\* emit (bus.ts) reaches the listening streams of the tenant on this replica, each of
\* which has the event last or aborts.
LEMMA EmitStreams ==
  ASSUME StreamsInv, NEW r \in Replica, NEW e \in Event, Emit(r, e), written' = written
  PROVE  /\ StreamsInv'
         /\ \A s \in Stream : heard'[s] = heard[s] \/ (Home[s] = r /\ heard'[s] = Append(heard[s], e))
<1>1. ASSUME NEW s \in Stream
      PROVE  /\ s \in Addressed(r, e) => stream'[s] = Pushed(stream[s], e) /\ heard'[s] = Append(heard[s], e)
             /\ s \notin Addressed(r, e) => stream'[s] = stream[s] /\ heard'[s] = heard[s]
  BY DEF Emit
<1>2. ASSUME NEW s \in Stream, s \in Addressed(r, e)
      PROVE  /\ stream'[s] \in StreamRecord /\ Sound(stream'[s]) /\ heard'[s] \in Seq(Event)
             /\ stream'[s].at # "closed"
             /\ Listening(s)' => written[s] \o stream'[s].hand \o stream'[s].items = heard'[s]
             /\ IsPrefix(written[s], heard'[s]) /\ Home[s] = r
  <2>1. stream[s].at \in {"next", "awaiting", "writing"} /\ Listening(s) /\ Home[s] = r
    BY <1>2 DEF Addressed, Listening
  <2>2. /\ Pushed(stream[s], e) \in StreamRecord /\ Sound(Pushed(stream[s], e))
        /\ \/ Pushed(stream[s], e) = Aborted
           \/ /\ Pushed(stream[s], e).at \in {"next", "awaiting", "writing"}
              /\ written[s] \o Pushed(stream[s], e).hand \o Pushed(stream[s], e).items
                   = Append(written[s] \o stream[s].hand \o stream[s].items, e)
    BY <2>1, StreamFacts, PushedLast
  <2>3. written[s] \o stream[s].hand \o stream[s].items = heard[s]
    BY <2>1, StreamFacts
  <2>4. stream'[s] = Pushed(stream[s], e) /\ heard'[s] = Append(heard[s], e)
    BY <1>1, <1>2
  <2>5. heard'[s] \in Seq(Event) /\ IsPrefix(written[s], heard'[s])
    <3>1. heard[s] \in Seq(Event) /\ written[s] \in Seq(Event) /\ IsPrefix(written[s], heard[s])
      BY StreamFacts
    <3>2. Append(heard[s], e) \in Seq(Event)
      BY <3>1, AppendProperties
    <3>3. IsPrefix(written[s], Append(heard[s], e))
      BY <3>1, PrefixOfAppend
    <3> QED
      BY <2>4, <3>2, <3>3
  <2>6. stream'[s].at # "closed"
    BY <2>2, <2>4, AbortedType
  <2>7. Listening(s)' => written[s] \o stream'[s].hand \o stream'[s].items = heard'[s]
    BY <2>2, <2>3, <2>4, AbortedType DEF Listening
  <2> QED
    BY <2>1, <2>2, <2>4, <2>5, <2>6, <2>7
<1>3. StreamsTyped'
  <2>1. \A s \in Stream : stream'[s] \in StreamRecord /\ heard'[s] \in Seq(Event)
    BY <1>1, <1>2, StreamFacts
  <2>2. stream' = [s \in Stream |-> stream'[s]] /\ heard' = [s \in Stream |-> heard'[s]]
    BY DEF Emit
  <2>3. stream' \in [Stream -> StreamRecord] /\ heard' \in [Stream -> Seq(Event)]
    BY <2>1, <2>2
  <2> QED
    BY <2>3 DEF StreamsInv, StreamsTyped
<1>4. StreamsSound'
  BY <1>1, <1>2 DEF StreamsInv, StreamsSound
<1>5. Accounted'
  <2>1. \A s \in Stream : s \notin Addressed(r, e) /\ Listening(s)' => Listening(s)
    BY <1>1 DEF Listening
  <2> QED
    BY <1>1, <1>2, <2>1 DEF StreamsInv, Accounted
<1>6. WrittenWasHeard'
  BY <1>1, <1>2 DEF StreamsInv, WrittenWasHeard
<1> QED
  BY <1>1, <1>2, <1>3, <1>4, <1>5, <1>6 DEF StreamsInv

-----------------------------------------------------------------------------
(* Realtime: from a publisher to a stream. *)

Foreign(s) == {e \in ToSet(heard[s]) : e.source # Home[s]}

BusTyped ==
  /\ brokerReady \in [Replica -> {"none", "pending", "ready", "rejected"}]
  /\ outbox \in [Replica -> Seq(Event)] /\ channel \in [Replica -> Seq(Event)]
  /\ published \in 0 .. MaxEvents /\ busFaults \in 0 .. MaxBusFaults

NoneNewer ==
  /\ \A r \in Replica : \A e \in ToSet(outbox[r]) \cup ToSet(channel[r]) : e.n <= published
  /\ \A s \in Stream : \A e \in ToSet(heard[s]) : e.n <= published

OutboxInOrder == \A r \in Replica : Ordered(outbox[r]) /\ \A e \in ToSet(outbox[r]) : e.source = r

\* What is on its way to a replica was published before what its publisher still holds.
ChannelInOrder ==
  \A q \in Replica : Ordered(channel[q]) /\ \A r \in Replica : Older(ToSet(channel[q]), ToSet(outbox[r]))

\* What a stream has of other replicas was published before what is on its way to it.
HeardInOrder ==
  \A s \in Stream :
    /\ Ordered(heard[s]) /\ Older(Foreign(s), ToSet(channel[Home[s]]))
    /\ \A r \in Replica : Older(Foreign(s), ToSet(outbox[r]))

BusInv == BusTyped /\ NoneNewer /\ OutboxInOrder /\ ChannelInOrder /\ HeardInOrder

RealtimeInv == StreamsInv /\ BusInv

LEMMA EventsOf ==
  ASSUME NEW q \in Seq(Event)
  PROVE  ToSet(q) \subseteq Event
<1>1. \A i \in DOMAIN q : q[i] \in Event
  BY ElementOfSeq, LenProperties
<1> QED
  BY <1>1 DEF ToSet

LEMMA BusFacts ==
  ASSUME BusInv, NEW r \in Replica
  PROVE  /\ outbox[r] \in Seq(Event) /\ channel[r] \in Seq(Event)
         /\ ToSet(outbox[r]) \subseteq Event /\ ToSet(channel[r]) \subseteq Event
         /\ published \in Nat /\ busFaults \in Nat
<1>1. outbox[r] \in Seq(Event) /\ channel[r] \in Seq(Event)
  BY DEF BusInv, BusTyped
<1>2. published \in Nat /\ busFaults \in Nat
  BY DEF BusInv, BusTyped
<1> QED
  BY <1>1, <1>2, EventsOf

\* Steps that touch neither a queue of the bus nor what a stream heard.
LEMMA SameOrder ==
  ASSUME BusInv, outbox' = outbox, channel' = channel, heard' = heard, published' = published,
         brokerReady' \in [Replica -> {"none", "pending", "ready", "rejected"}], busFaults' \in 0 .. MaxBusFaults
  PROVE  BusInv'
<1>1. BusTyped'
  BY DEF BusInv, BusTyped
<1>2. NoneNewer'
  BY DEF BusInv, NoneNewer
<1>3. OutboxInOrder'
  BY DEF BusInv, OutboxInOrder
<1>4. ChannelInOrder'
  BY DEF BusInv, ChannelInOrder
<1>5. HeardInOrder'
  BY DEF BusInv, HeardInOrder, Foreign
<1> QED
  BY <1>1, <1>2, <1>3, <1>4, <1>5 DEF BusInv

\* A publish that is refused, or a message that is lost, leaves the rest in order.
LEMMA BrokerRefusesBus ==
  ASSUME BusInv, NEW r \in Replica, BrokerRefuses(r)
  PROVE  BusInv'
<1>1. /\ outbox[r] # <<>> /\ outbox' = [outbox EXCEPT ![r] = Tail(outbox[r])] /\ busFaults' = busFaults + 1
      /\ busFaults < MaxBusFaults
      /\ brokerReady' = brokerReady /\ channel' = channel /\ heard' = heard /\ published' = published
  BY DEF BrokerRefuses
<1>2. /\ Tail(outbox[r]) \in Seq(Event) /\ ToSet(Tail(outbox[r])) \subseteq ToSet(outbox[r]) /\ Ordered(Tail(outbox[r]))
  <2>1. outbox[r] \in Seq(Event) /\ Ordered(outbox[r])
    BY BusFacts DEF BusInv, OutboxInOrder
  <2> QED
    BY <1>1, <2>1, TailMembers, OrderedTail
<1> DEFINE rest == Tail(outbox[r])
<1>3. /\ outbox' \in [Replica -> Seq(Event)] /\ outbox'[r] = rest /\ \A q \in Replica \ {r} : outbox'[q] = outbox[q]
  BY <1>1, <1>2 DEF BusInv, BusTyped
<1> HIDE DEF rest
<1>4. \A q \in Replica : ToSet(outbox'[q]) \subseteq ToSet(outbox[q]) /\ Ordered(outbox'[q])
  BY <1>2, <1>3 DEF BusInv, OutboxInOrder, rest
<1>5. BusTyped'
  <2>1. busFaults' \in 0 .. MaxBusFaults
    BY <1>1, BusBounds DEF BusInv, BusTyped
  <2> QED
    BY <1>1, <1>3, <2>1 DEF BusInv, BusTyped
<1>6. NoneNewer'
  BY <1>1, <1>4 DEF BusInv, NoneNewer
<1>7. OutboxInOrder'
  BY <1>4 DEF BusInv, OutboxInOrder
<1>8. ChannelInOrder'
  BY <1>1, <1>4 DEF BusInv, ChannelInOrder, Older
<1>9. HeardInOrder'
  BY <1>1, <1>4 DEF BusInv, HeardInOrder, Foreign, Older
<1> QED
  BY <1>5, <1>6, <1>7, <1>8, <1>9 DEF BusInv

\* Taking the oldest message of a channel.
LEMMA ChannelTaken ==
  ASSUME BusInv, NEW r \in Replica, channel[r] # <<>>, channel' = [channel EXCEPT ![r] = Tail(channel[r])]
  PROVE  /\ channel' \in [Replica -> Seq(Event)]
         /\ \A q \in Replica : ToSet(channel'[q]) \subseteq ToSet(channel[q]) /\ Ordered(channel'[q])
         /\ Head(channel[r]) \in ToSet(channel[r]) /\ Older({Head(channel[r])}, ToSet(channel'[r]))
<1>1. channel[r] \in Seq(Event) /\ Ordered(channel[r])
  BY BusFacts DEF BusInv, ChannelInOrder
<1> DEFINE rest == Tail(channel[r])
<1>2. /\ rest \in Seq(Event) /\ ToSet(rest) \subseteq ToSet(channel[r]) /\ Ordered(rest)
      /\ Head(channel[r]) \in ToSet(channel[r]) /\ Older({Head(channel[r])}, ToSet(rest))
  BY <1>1, TailMembers, OrderedTail
<1> HIDE DEF rest
<1>3. /\ channel' \in [Replica -> Seq(Event)] /\ channel'[r] = rest /\ \A q \in Replica \ {r} : channel'[q] = channel[q]
  BY <1>2 DEF BusInv, BusTyped, rest
<1> QED
  BY <1>2, <1>3 DEF BusInv, ChannelInOrder

LEMMA MessageLostBus ==
  ASSUME BusInv, NEW r \in Replica, MessageLost(r)
  PROVE  BusInv'
<1>1. /\ channel[r] # <<>> /\ channel' = [channel EXCEPT ![r] = Tail(channel[r])] /\ busFaults' = busFaults + 1
      /\ busFaults < MaxBusFaults
      /\ brokerReady' = brokerReady /\ outbox' = outbox /\ heard' = heard /\ published' = published
  BY DEF MessageLost
<1>2. \A q \in Replica : ToSet(channel'[q]) \subseteq ToSet(channel[q]) /\ Ordered(channel'[q])
  BY <1>1, ChannelTaken
<1>3. channel' \in [Replica -> Seq(Event)]
  BY <1>1, ChannelTaken
<1>4. BusTyped'
  <2>1. busFaults' \in 0 .. MaxBusFaults
    BY <1>1, BusBounds DEF BusInv, BusTyped
  <2> QED
    BY <1>1, <1>3, <2>1 DEF BusInv, BusTyped
<1>5. NoneNewer'
  BY <1>1, <1>2 DEF BusInv, NoneNewer
<1>6. OutboxInOrder'
  BY <1>1 DEF BusInv, OutboxInOrder
<1>7. ChannelInOrder'
  BY <1>1, <1>2 DEF BusInv, ChannelInOrder, Older
<1>8. HeardInOrder'
  <2>1. \A s \in Stream : Home[s] \in Replica /\ Foreign(s)' = Foreign(s)
    BY <1>1, BusBounds DEF Foreign
  <2> QED
    BY <1>1, <1>2, <2>1 DEF BusInv, HeardInOrder, Older
<1> QED
  BY <1>4, <1>5, <1>6, <1>7, <1>8 DEF BusInv

\* emit: a stream of that replica may have one more event, the others have none.
LEMMA EmitOrder ==
  ASSUME StreamsInv, BusInv, NEW r \in Replica, NEW e \in Event, Emit(r, e), written' = written,
         \A s \in Stream : Home[s] = r => Older(ToSet(heard[s]), {e})
  PROVE  /\ StreamsInv'
         /\ \A s \in Stream : Ordered(heard'[s]) /\ ToSet(heard'[s]) \subseteq ToSet(heard[s]) \cup {e}
         /\ \A s \in Stream : Home[s] # r => heard'[s] = heard[s]
<1>1. /\ StreamsInv'
      /\ \A s \in Stream : heard'[s] = heard[s] \/ (Home[s] = r /\ heard'[s] = Append(heard[s], e))
  BY EmitStreams
<1>2. ASSUME NEW s \in Stream PROVE Ordered(heard'[s]) /\ ToSet(heard'[s]) \subseteq ToSet(heard[s]) \cup {e}
  <2>1. heard[s] \in Seq(Event) /\ Ordered(heard[s])
    BY StreamFacts DEF BusInv, HeardInOrder
  <2>2. CASE heard'[s] = heard[s]
    BY <2>1, <2>2
  <2>3. CASE Home[s] = r /\ heard'[s] = Append(heard[s], e)
    <3>1. Ordered(Append(heard[s], e))
      BY <2>1, <2>3, OrderedAppend
    <3>2. ToSet(Append(heard[s], e)) = ToSet(heard[s]) \cup {e}
      BY <2>1, AppendMembers
    <3> QED
      BY <2>3, <3>1, <3>2
  <2> QED
    BY <1>1, <2>2, <2>3
<1> QED
  BY <1>1, <1>2

\* publish: the new event is the last of its publisher wherever it goes.
LEMMA PublishesBus ==
  ASSUME StreamsInv, BusInv, NEW r \in Replica, NEW t \in Tenant, Publishes(r, t)
  PROVE  StreamsInv' /\ BusInv'
<1> DEFINE e == [source |-> r, tenant |-> t, n |-> published + 1]
<1>1. /\ published < MaxEvents /\ Emit(r, e) /\ outbox' = [outbox EXCEPT ![r] = Append(outbox[r], e)]
      /\ published' = published + 1
      /\ brokerReady' = brokerReady /\ channel' = channel /\ written' = written /\ busFaults' = busFaults
  BY DEF Publishes
<1>2. published \in Nat /\ published' \in 0 .. MaxEvents
  BY <1>1, BusFacts, BusBounds
<1>3. e \in Event /\ e.source = r /\ e.n = published + 1
  BY <1>1, <1>2, BusBounds DEF Event
<1> HIDE DEF e
<1>4. \A s \in Stream : ToSet(heard[s]) \subseteq Event /\ Older(ToSet(heard[s]), {e})
  <2>1. \A s \in Stream : ToSet(heard[s]) \subseteq Event
    BY StreamFacts, EventsOf
  <2>2. ASSUME NEW s \in Stream, NEW d \in ToSet(heard[s]) PROVE d.n < e.n
    <3>1. d.n \in Nat /\ d.n <= published
      BY <2>1, BusBounds DEF Event, BusInv, NoneNewer
    <3> QED
      BY <1>2, <1>3, <3>1
  <2> QED
    BY <2>1, <2>2 DEF Older
<1>5. /\ StreamsInv'
      /\ \A s \in Stream : Ordered(heard'[s]) /\ ToSet(heard'[s]) \subseteq ToSet(heard[s]) \cup {e}
      /\ \A s \in Stream : Home[s] # r => heard'[s] = heard[s]
  BY <1>1, <1>3, <1>4, EmitOrder
<1>6. ASSUME NEW q \in Replica PROVE Older(ToSet(outbox[q]), {e}) /\ Older(ToSet(channel[q]), {e})
  <2>1. ASSUME NEW d \in ToSet(outbox[q]) \cup ToSet(channel[q]) PROVE d.n < e.n
    <3>1. d \in Event /\ d.n <= published
      BY <2>1, BusFacts DEF BusInv, NoneNewer
    <3>2. d.n \in Nat
      BY <3>1, BusBounds DEF Event
    <3> QED
      BY <1>2, <1>3, <3>1, <3>2
  <2> QED
    BY <2>1 DEF Older
<1>7. /\ outbox' \in [Replica -> Seq(Event)] /\ Ordered(outbox'[r]) /\ ToSet(outbox'[r]) = ToSet(outbox[r]) \cup {e}
      /\ \A q \in Replica \ {r} : outbox'[q] = outbox[q]
  <2> DEFINE more == Append(outbox[r], e)
  <2>1. outbox[r] \in Seq(Event) /\ Ordered(outbox[r])
    BY BusFacts DEF BusInv, OutboxInOrder
  <2>2. more \in Seq(Event) /\ Ordered(more) /\ ToSet(more) = ToSet(outbox[r]) \cup {e}
    BY <1>3, <1>6, <2>1, OrderedAppend, AppendMembers
  <2>3. outbox' = [outbox EXCEPT ![r] = more]
    BY <1>1
  <2> HIDE DEF more
  <2> QED
    BY <2>2, <2>3 DEF BusInv, BusTyped
<1>8. BusTyped'
  BY <1>1, <1>2, <1>7 DEF BusInv, BusTyped
<1>9. NoneNewer'
  <2>1. ASSUME NEW d, d.n <= published, d \in Event PROVE d.n <= published'
    BY <1>1, <1>2, <2>1, BusBounds DEF Event
  <2>2. e.n <= published'
    BY <1>1, <1>2, <1>3
  <2>3. ASSUME NEW q \in Replica, NEW d \in ToSet(outbox'[q]) \cup ToSet(channel'[q]) PROVE d.n <= published'
    <3>1. d = e \/ d \in ToSet(outbox[q]) \cup ToSet(channel[q])
      BY <1>1, <1>7, <2>3
    <3> QED
      BY <2>1, <2>2, <3>1, BusFacts DEF BusInv, NoneNewer
  <2>4. ASSUME NEW s \in Stream, NEW d \in ToSet(heard'[s]) PROVE d.n <= published'
    <3>1. d = e \/ d \in ToSet(heard[s])
      BY <1>5, <2>4
    <3> QED
      BY <1>4, <2>1, <2>2, <3>1 DEF BusInv, NoneNewer
  <2> QED
    BY <2>3, <2>4 DEF NoneNewer
<1>10. OutboxInOrder'
  BY <1>3, <1>7 DEF BusInv, OutboxInOrder
<1>11. ChannelInOrder'
  BY <1>1, <1>6, <1>7 DEF BusInv, ChannelInOrder, Older
<1>12. ASSUME NEW s \in Stream PROVE Foreign(s)' \subseteq Foreign(s)
  BY <1>3, <1>5 DEF Foreign
<1>13. HeardInOrder'
  <2>1. ASSUME NEW s \in Stream PROVE Older(Foreign(s)', ToSet(channel'[Home[s]]))
    BY <1>1, <1>12 DEF BusInv, HeardInOrder, Older
  <2>2. ASSUME NEW s \in Stream, NEW q \in Replica PROVE Older(Foreign(s)', ToSet(outbox'[q]))
    <3>1. Older(Foreign(s), ToSet(outbox[q])) /\ Older(Foreign(s), {e})
      BY <1>4 DEF BusInv, HeardInOrder, Foreign, Older
    <3>2. ToSet(outbox'[q]) \subseteq ToSet(outbox[q]) \cup {e}
      BY <1>7
    <3> QED
      BY <1>12, <3>1, <3>2 DEF Older
  <2> QED
    BY <1>5, <2>1, <2>2 DEF HeardInOrder
<1> QED
  BY <1>5, <1>8, <1>9, <1>10, <1>11, <1>13 DEF BusInv

\* The broker takes the oldest event of a publisher and hands it to the subscribed replicas.
LEMMA BrokerTakesBus ==
  ASSUME StreamsInv, BusInv, NEW r \in Replica, BrokerTakes(r)
  PROVE  BusInv'
<1> DEFINE e == Head(outbox[r])
           rest == Tail(outbox[r])
<1>1. /\ outbox[r] # <<>> /\ outbox' = [outbox EXCEPT ![r] = rest]
      /\ channel' = [q \in Replica |-> IF brokerReady[q] = "ready" THEN Append(channel[q], e) ELSE channel[q]]
      /\ brokerReady' = brokerReady /\ heard' = heard /\ published' = published /\ busFaults' = busFaults
  BY DEF BrokerTakes
<1>2. outbox[r] \in Seq(Event) /\ Ordered(outbox[r]) /\ \A d \in ToSet(outbox[r]) : d.source = r
  BY BusFacts DEF BusInv, OutboxInOrder
<1>3. /\ rest \in Seq(Event) /\ e \in Event /\ ToSet(outbox[r]) = {e} \cup ToSet(rest)
      /\ Ordered(rest) /\ Older({e}, ToSet(rest))
  BY <1>1, <1>2, TailMembers, OrderedTail
<1> HIDE DEF e, rest
<1>4. e.source = r /\ e.n <= published
  BY <1>2, <1>3 DEF BusInv, NoneNewer
<1>5. /\ outbox' \in [Replica -> Seq(Event)] /\ outbox'[r] = rest /\ \A q \in Replica \ {r} : outbox'[q] = outbox[q]
  BY <1>1, <1>3 DEF BusInv, BusTyped
<1>6. ASSUME NEW q \in Replica
      PROVE  channel'[q] \in Seq(Event) /\ Ordered(channel'[q]) /\ ToSet(channel'[q]) \subseteq ToSet(channel[q]) \cup {e}
  <2>1. channel[q] \in Seq(Event) /\ Ordered(channel[q]) /\ Older(ToSet(channel[q]), ToSet(outbox[r]))
    BY BusFacts DEF BusInv, ChannelInOrder
  <2>2. Older(ToSet(channel[q]), {e})
    BY <1>3, <2>1 DEF Older
  <2>3. /\ Append(channel[q], e) \in Seq(Event) /\ Ordered(Append(channel[q], e))
        /\ ToSet(Append(channel[q], e)) = ToSet(channel[q]) \cup {e}
    BY <1>3, <2>1, <2>2, OrderedAppend, AppendMembers
  <2> QED
    BY <1>1, <2>1, <2>3
<1>7. BusTyped'
  <2>1. channel' \in [Replica -> Seq(Event)]
    <3>1. channel' = [q \in Replica |-> channel'[q]]
      BY <1>1
    <3> QED
      BY <1>6, <3>1
  <2> QED
    BY <1>1, <1>5, <2>1 DEF BusInv, BusTyped
<1>8. \A q \in Replica : ToSet(outbox'[q]) \subseteq ToSet(outbox[q])
  BY <1>3, <1>5
<1>9. NoneNewer'
  BY <1>1, <1>4, <1>6, <1>8 DEF BusInv, NoneNewer
<1>10. OutboxInOrder'
  BY <1>3, <1>5, <1>8 DEF BusInv, OutboxInOrder
<1>11. ASSUME NEW q \in Replica PROVE Older({e}, ToSet(outbox'[q]))
  <2>1. CASE q = r
    BY <1>3, <1>5, <2>1
  <2>2. CASE q # r
    BY <1>4, <1>5, <2>2 DEF BusInv, OutboxInOrder, Older
  <2> QED
    BY <2>1, <2>2
<1>12. ChannelInOrder'
  <2>1. ASSUME NEW q \in Replica, NEW p \in Replica PROVE Older(ToSet(channel'[q]), ToSet(outbox'[p]))
    <3>1. Older(ToSet(channel[q]), ToSet(outbox[p]))
      BY DEF BusInv, ChannelInOrder
    <3>2. Older({e}, ToSet(outbox'[p]))
      BY <1>11
    <3> QED
      BY <1>6, <1>8, <3>1, <3>2 DEF Older
  <2> QED
    BY <1>6, <2>1 DEF ChannelInOrder
<1>13. HeardInOrder'
  <2>1. ASSUME NEW s \in Stream PROVE Older(Foreign(s), ToSet(channel'[Home[s]]))
    <3>1. Home[s] \in Replica /\ Older(Foreign(s), ToSet(channel[Home[s]])) /\ Older(Foreign(s), ToSet(outbox[r]))
      BY BusBounds DEF BusInv, HeardInOrder
    <3>2. ToSet(channel'[Home[s]]) \subseteq ToSet(channel[Home[s]]) \cup {e} /\ e \in ToSet(outbox[r])
      BY <1>3, <1>6, <3>1
    <3> QED
      BY <3>1, <3>2 DEF Older
  <2>2. ASSUME NEW s \in Stream, NEW q \in Replica PROVE Older(Foreign(s), ToSet(outbox'[q]))
    BY <1>8 DEF BusInv, HeardInOrder, Older
  <2>3. \A s \in Stream : Foreign(s)' = Foreign(s) /\ Ordered(heard'[s])
    BY <1>1 DEF Foreign, BusInv, HeardInOrder
  <2> QED
    BY <2>1, <2>2, <2>3 DEF HeardInOrder
<1> QED
  BY <1>7, <1>9, <1>10, <1>12, <1>13 DEF BusInv

\* A message from another replica is newer than all its publisher's that were received.
LEMMA ReceivesBus ==
  ASSUME StreamsInv, BusInv, NEW r \in Replica, Receives(r)
  PROVE  StreamsInv' /\ BusInv'
<1> DEFINE e == Head(channel[r])
<1>1. /\ channel[r] # <<>> /\ channel' = [channel EXCEPT ![r] = Tail(channel[r])]
      /\ IF e.source = r THEN stream' = stream /\ heard' = heard ELSE Emit(r, e)
      /\ brokerReady' = brokerReady /\ outbox' = outbox /\ written' = written
      /\ published' = published /\ busFaults' = busFaults
  BY DEF Receives
<1>2. /\ channel' \in [Replica -> Seq(Event)]
      /\ \A q \in Replica : ToSet(channel'[q]) \subseteq ToSet(channel[q]) /\ Ordered(channel'[q])
      /\ e \in ToSet(channel[r]) /\ Older({e}, ToSet(channel'[r]))
  BY <1>1, ChannelTaken
<1> HIDE DEF e
<1>3. e \in Event /\ e.n <= published
  BY <1>2, BusFacts DEF BusInv, NoneNewer
<1>4. BusTyped'
  BY <1>1, <1>2 DEF BusInv, BusTyped
<1>5. OutboxInOrder'
  BY <1>1 DEF BusInv, OutboxInOrder
<1>6. ChannelInOrder'
  BY <1>1, <1>2 DEF BusInv, ChannelInOrder, Older
<1>7. CASE e.source = r
  <2>1. stream' = stream /\ heard' = heard
    BY <1>1, <1>7
  <2>2. StreamsInv'
    BY <1>1, <2>1
       DEF StreamsInv, StreamsTyped, StreamsSound, Accounted, WrittenWasHeard, Listening
  <2>3. NoneNewer'
    BY <1>1, <1>2, <2>1 DEF BusInv, NoneNewer
  <2>4. HeardInOrder'
    <3>1. \A s \in Stream : Home[s] \in Replica /\ Foreign(s)' = Foreign(s)
      BY <2>1, BusBounds DEF Foreign
    <3> QED
      BY <1>1, <1>2, <2>1, <3>1 DEF BusInv, HeardInOrder, Older
  <2> QED
    BY <1>4, <1>5, <1>6, <2>2, <2>3, <2>4 DEF BusInv
<1>8. CASE e.source # r
  <2>1. Emit(r, e)
    BY <1>1, <1>8
  <2>2. ASSUME NEW s \in Stream, Home[s] = r PROVE Older(ToSet(heard[s]), {e})
    <3>1. Older(Foreign(s), ToSet(channel[r]))
      BY <2>2 DEF BusInv, HeardInOrder
    <3>2. \A d \in ToSet(heard[s]) : d.source = e.source => d \in Foreign(s)
      BY <1>8, <2>2 DEF Foreign
    <3> QED
      BY <1>2, <3>1, <3>2 DEF Older
  <2>3. /\ StreamsInv'
        /\ \A s \in Stream : Ordered(heard'[s]) /\ ToSet(heard'[s]) \subseteq ToSet(heard[s]) \cup {e}
        /\ \A s \in Stream : Home[s] # r => heard'[s] = heard[s]
    BY <1>1, <1>3, <2>1, <2>2, EmitOrder
  <2>4. NoneNewer'
    BY <1>1, <1>2, <1>3, <2>3 DEF BusInv, NoneNewer
  <2>5. ASSUME NEW s \in Stream
        PROVE  Foreign(s)' \subseteq Foreign(s) \cup {e} /\ (Home[s] # r => Foreign(s)' = Foreign(s))
    BY <2>3 DEF Foreign
  <2>6. ASSUME NEW s \in Stream PROVE Older(Foreign(s)', ToSet(channel'[Home[s]]))
    <3>1. Home[s] \in Replica /\ Older(Foreign(s), ToSet(channel[Home[s]]))
      BY BusBounds DEF BusInv, HeardInOrder
    <3>2. CASE Home[s] = r
      BY <1>2, <2>5, <3>1, <3>2 DEF Older
    <3>3. CASE Home[s] # r
      BY <1>2, <2>5, <3>1, <3>3 DEF Older
    <3> QED
      BY <3>2, <3>3
  <2>7. ASSUME NEW s \in Stream, NEW q \in Replica PROVE Older(Foreign(s)', ToSet(outbox'[q]))
    <3>1. Older(Foreign(s), ToSet(outbox[q]))
      BY DEF BusInv, HeardInOrder
    <3>2. Older(ToSet(channel[r]), ToSet(outbox[q]))
      BY DEF BusInv, ChannelInOrder
    <3> QED
      BY <1>1, <1>2, <2>5, <3>1, <3>2 DEF Older
  <2>8. HeardInOrder'
    BY <2>3, <2>6, <2>7 DEF HeardInOrder
  <2> QED
    BY <1>4, <1>5, <1>6, <2>3, <2>4, <2>8 DEF BusInv
<1> QED
  BY <1>7, <1>8

-----------------------------------------------------------------------------
(* Realtime: the theorems. *)

LEMMA RealtimeStart == RealtimeInit => RealtimeInv
<1> SUFFICES ASSUME RealtimeInit PROVE RealtimeInv
  OBVIOUS
<1>1. /\ brokerReady = [r \in Replica |-> "none"] /\ outbox = [r \in Replica |-> <<>>] /\ channel = [r \in Replica |-> <<>>]
      /\ stream = [s \in Stream |-> NoStream] /\ written = [s \in Stream |-> <<>>] /\ heard = [s \in Stream |-> <<>>]
      /\ published = 0 /\ busFaults = 0
  BY DEF RealtimeInit
<1>2. <<>> \in Seq(Event)
  BY EmptySeq
<1>3. StreamsTyped
  BY <1>1, <1>2, AbortedType DEF StreamsTyped
<1>4. StreamsSound
  BY <1>1, AbortedType DEF StreamsSound
<1>5. Accounted
  BY <1>1, AbortedType DEF Accounted, Listening
<1>6. WrittenWasHeard
  <2>1. <<>> \o <<>> = <<>>
    BY <1>2, ConcatEmptySeq
  <2>2. IsPrefix(<<>>, <<>>)
    BY <1>2, <2>1, PrefixOfConcat
  <2> QED
    BY <1>1, <2>2 DEF WrittenWasHeard
<1>7. BusTyped
  BY <1>1, <1>2, BusBounds DEF BusTyped
<1>8. NoneNewer /\ OutboxInOrder
  BY <1>1, EmptyMembers, OrderedEmpty DEF NoneNewer, OutboxInOrder
<1>9. ChannelInOrder
  BY <1>1, EmptyMembers, OrderedEmpty DEF ChannelInOrder, Older
<1>10. HeardInOrder
  <2>1. \A s \in Stream : Foreign(s) = {}
    BY <1>1, EmptyMembers DEF Foreign
  <2> QED
    BY <1>1, <2>1, OrderedEmpty DEF HeardInOrder, Older
<1> QED
  BY <1>3, <1>4, <1>5, <1>6, <1>7, <1>8, <1>9, <1>10 DEF RealtimeInv, StreamsInv, BusInv

\* The streams stay as they are when neither they nor what they heard or wrote changes.
LEMMA SameStreams ==
  ASSUME StreamsInv, stream' = stream, written' = written, heard' = heard
  PROVE  StreamsInv'
  BY DEF StreamsInv, StreamsTyped, StreamsSound, Accounted, WrittenWasHeard, Listening

LEMMA RealtimeStep == RealtimeInv /\ [RealtimeNext]_busVars => RealtimeInv'
<1> SUFFICES ASSUME RealtimeInv, [RealtimeNext]_busVars PROVE RealtimeInv'
  OBVIOUS
<1>1. StreamsInv /\ BusInv
  BY DEF RealtimeInv
<1>2. CASE UNCHANGED busVars
  <2>1. /\ stream' = stream /\ written' = written /\ heard' = heard /\ outbox' = outbox /\ channel' = channel
        /\ published' = published /\ brokerReady' = brokerReady /\ busFaults' = busFaults
    BY <1>2 DEF busVars
  <2> QED
    BY <1>1, <2>1, SameStreams, SameOrder DEF RealtimeInv, BusInv, BusTyped
<1>3. ASSUME NEW s \in Stream, Nexts(s) \/ TimesOut(s) \/ WriteReturns(s) \/ ClientAborts(s) PROVE RealtimeInv'
  <2>1. StreamsInv'
    BY <1>1, <1>3, NextsStreams, TimesOutStreams, WriteReturnsStreams, ClientAbortsStreams
  <2>2. /\ outbox' = outbox /\ channel' = channel /\ heard' = heard
        /\ published' = published /\ brokerReady' = brokerReady /\ busFaults' = busFaults
    BY <1>3 DEF Nexts, TimesOut, WriteReturns, ClientAborts
  <2> QED
    BY <1>1, <2>1, <2>2, SameOrder DEF RealtimeInv, BusInv, BusTyped
<1>4. ASSUME NEW s \in Stream, Opens(s) PROVE RealtimeInv'
  <2>1. /\ outbox' = outbox /\ channel' = channel /\ heard' = heard
        /\ published' = published /\ busFaults' = busFaults
        /\ brokerReady' = [brokerReady EXCEPT ![Home[s]] = IF @ = "none" THEN "pending" ELSE @]
    BY <1>4 DEF Opens
  <2>2. brokerReady' \in [Replica -> {"none", "pending", "ready", "rejected"}]
    BY <1>1, <2>1, BusBounds DEF BusInv, BusTyped
  <2> QED
    BY <1>1, <1>4, <2>1, <2>2, OpensStreams, SameOrder DEF RealtimeInv, BusInv, BusTyped
<1>5. ASSUME NEW r \in Replica, Subscribed(r) \/ SubscribeFails(r) PROVE RealtimeInv'
  <2>1. /\ stream' = stream /\ written' = written /\ heard' = heard /\ outbox' = outbox /\ channel' = channel
        /\ published' = published
    BY <1>5 DEF Subscribed, SubscribeFails
  <2>2. brokerReady \in [Replica -> {"none", "pending", "ready", "rejected"}] /\ busFaults \in 0 .. MaxBusFaults
    BY <1>1 DEF BusInv, BusTyped
  <2>3. brokerReady' \in [Replica -> {"none", "pending", "ready", "rejected"}] /\ busFaults' \in 0 .. MaxBusFaults
    <3>1. CASE Subscribed(r)
      <4>1. brokerReady' = [brokerReady EXCEPT ![r] = "ready"] /\ busFaults' = busFaults
        BY <3>1 DEF Subscribed
      <4> QED
        BY <2>2, <4>1
    <3>2. CASE SubscribeFails(r)
      <4>1. brokerReady' = [brokerReady EXCEPT ![r] = "rejected"] /\ busFaults' = busFaults + 1 /\ busFaults < MaxBusFaults
        BY <3>2 DEF SubscribeFails
      <4> QED
        BY <2>2, <4>1, BusBounds
    <3> QED
      BY <1>5, <3>1, <3>2
  <2> QED
    BY <1>1, <2>1, <2>3, SameStreams, SameOrder DEF RealtimeInv
<1>6. ASSUME NEW r \in Replica, BrokerTakes(r) \/ BrokerRefuses(r) \/ MessageLost(r) PROVE RealtimeInv'
  <2>1. stream' = stream /\ written' = written /\ heard' = heard
    BY <1>6 DEF BrokerTakes, BrokerRefuses, MessageLost
  <2> QED
    BY <1>1, <1>6, <2>1, SameStreams, BrokerTakesBus, BrokerRefusesBus, MessageLostBus DEF RealtimeInv
<1>7. ASSUME NEW r \in Replica, Receives(r) PROVE RealtimeInv'
  BY <1>1, <1>7, ReceivesBus DEF RealtimeInv
<1>8. ASSUME NEW r \in Replica, NEW t \in Tenant, Publishes(r, t) PROVE RealtimeInv'
  BY <1>1, <1>8, PublishesBus DEF RealtimeInv
<1> QED
  BY <1>2, <1>3, <1>4, <1>5, <1>6, <1>7, <1>8 DEF RealtimeNext

\* Mailboxes never exceed their capacity, a waiter is on an empty mailbox and is always
\* a consumer in next, and the bus holds events only.
THEOREM RealtimeIsTyped == RealtimeSpec => []RealtimeTypeOK
<1>1. RealtimeInv => RealtimeTypeOK
  <2> SUFFICES ASSUME RealtimeInv PROVE RealtimeTypeOK
    OBVIOUS
  <2>1. StreamsInv /\ BusInv
    BY DEF RealtimeInv
  <2>2. \A s \in Stream :
          /\ stream[s].at \in {"closed", "next", "awaiting", "writing", "aborted"} /\ stream[s].items \in Seq(Event)
          /\ Sound(stream[s])
    BY <2>1, StreamFacts DEF StreamRecord
  <2> QED
    BY <2>1, <2>2 DEF RealtimeTypeOK, BusInv, BusTyped, Sound
<1> QED
  BY <1>1, RealtimeStart, RealtimeStep, PTL DEF RealtimeSpec

\* However pushes, timeouts, writes and the broker interleave: a stream that is not
\* aborted has everything its replica emitted for it, once and in order, and no client
\* is written an event of a publisher after a later one of the same.
THEOREM StreamIsFaithful == RealtimeSpec => []StreamFaithful
<1>1. RealtimeInv => StreamFaithful
  BY DEF RealtimeInv, StreamsInv, BusInv, StreamFaithful, Accounted, WrittenWasHeard, HeardInOrder, Ordered
<1> QED
  BY <1>1, RealtimeStart, RealtimeStep, PTL DEF RealtimeSpec

-----------------------------------------------------------------------------
(* Webhooks: what holds of one hook at each of its steps. *)

WebhooksTyped ==
  /\ call \in [Hook -> [at : {"validate", "post", "log", "count", "giveUp", "done"},
                        attempt : 1 .. 3, ok : BOOLEAN]]
  /\ counters \in [Hook -> [success : 0 .. 1, failure : 0 .. 1]]
  /\ logged \in [Hook -> Nat] /\ answered \in [Hook -> Nat] /\ uncounted \in [Hook -> Nat]
  /\ hookFaults \in 0 .. MaxHookFaults

\* The counters move with the last step only.
NotCountedYet ==
  \A h \in Hook : call[h].at # "done" => counters[h].success = 0 /\ counters[h].failure = 0

\* An attempt writes one row, and the counter of a success that fails another one.
RowsPerAttempt ==
  \A h \in Hook :
    /\ logged[h] <= 2 * call[h].attempt /\ answered[h] <= call[h].attempt
    /\ call[h].at \in {"validate", "post", "log"} => logged[h] <= 2 * (call[h].attempt - 1)
    /\ call[h].at = "count" => logged[h] < 2 * call[h].attempt
    /\ call[h].at \in {"validate", "post"} => answered[h] < call[h].attempt

\* The last answer is a success that is counted, or still to be.
Answering(h) == call[h].at \in {"log", "count"} /\ call[h].ok

\* Every success before has cost an update that failed.
CountsTheAnswer ==
  \A h \in Hook :
    /\ call[h].at = "count" => call[h].ok
    /\ call[h].at # "done" /\ ~Answering(h) => answered[h] <= uncounted[h]
    /\ Answering(h) => answered[h] <= uncounted[h] + 1 /\ answered[h] >= 1

WebhooksInv == WebhooksTyped /\ NotCountedYet /\ RowsPerAttempt /\ CountsTheAnswer /\ OutcomeCounted

\* Everything a step says of the hook it is about.
HookStep(h) ==
  \/ Validates(h) \/ Logs(h) \/ Counts(h) \/ CountFails(h)
  \/ \E ok \in BOOLEAN : Posts(h, ok)

LEMMA WebhooksStart == WebhooksInit => WebhooksInv
  BY WebhooksAssumption DEF WebhooksInit, WebhooksInv, WebhooksTyped, NotCountedYet, RowsPerAttempt,
                            CountsTheAnswer, Answering, OutcomeCounted

\* The loop of deliverOne (webhook-service.ts): a failed attempt leads to the next one
\* or to the end, with the answer it had.
LEMMA FailedType ==
  ASSUME WebhooksTyped, NEW h \in Hook
  PROVE  /\ Failed(h) \in [at : {"validate", "post", "log", "count", "giveUp", "done"},
                           attempt : 1 .. 3, ok : BOOLEAN]
         /\ Failed(h).ok = call[h].ok
         /\ \/ call[h].attempt < 3 /\ Failed(h).at = "post" /\ Failed(h).attempt = call[h].attempt + 1
            \/ call[h].attempt = 3 /\ Failed(h).at = "giveUp" /\ Failed(h).attempt = 3
<1>1. call[h] \in [at : {"validate", "post", "log", "count", "giveUp", "done"}, attempt : 1 .. 3, ok : BOOLEAN]
  BY DEF WebhooksTyped
<1>2. CASE call[h].attempt < 3
  <2>1. Failed(h) = [call[h] EXCEPT !.at = "post", !.attempt = @ + 1] /\ call[h].attempt + 1 \in 1 .. 3
    BY <1>1, <1>2 DEF Failed
  <2> QED
    BY <1>1, <1>2, <2>1
<1>3. CASE call[h].attempt = 3
  <2>1. Failed(h) = [call[h] EXCEPT !.at = "giveUp"]
    BY <1>1, <1>3 DEF Failed
  <2> QED
    BY <1>1, <1>3, <2>1
<1> QED
  BY <1>1, <1>2, <1>3

\* A log row is one more or none.
LEMMA LoggedType ==
  ASSUME WebhooksTyped, NEW h \in Hook, Logged(h)
  PROVE  /\ logged' \in [Hook -> Nat]
         /\ logged'[h] \in {logged[h], logged[h] + 1}
         /\ \A g \in Hook \ {h} : logged'[g] = logged[g]
  BY DEF WebhooksTyped, Logged

\* A step of one hook keeps the types and leaves the other hooks alone.
OthersKept(h) ==
  \A g \in Hook \ {h} :
    /\ call'[g] = call[g] /\ counters'[g] = counters[g] /\ logged'[g] = logged[g]
    /\ answered'[g] = answered[g] /\ uncounted'[g] = uncounted[g]

\* What the step does to the hook it is about.
OwnStep(h) ==
  LET c == call[h]  d == call'[h]
  IN  \/ /\ c.at = "validate" /\ d.attempt = c.attempt /\ d.ok = c.ok
         /\ counters'[h] = counters[h] /\ answered'[h] = answered[h]
         /\ \/ h \in Unsafe /\ d.at = "done" /\ logged'[h] \in {logged[h], logged[h] + 1}
            \/ d.at = "post" /\ logged'[h] = logged[h]
         /\ uncounted'[h] = uncounted[h]
      \/ /\ c.at = "post" /\ d.at = "log" /\ d.attempt = c.attempt
         /\ counters'[h] = counters[h] /\ answered'[h] = answered[h] + (IF d.ok THEN 1 ELSE 0)
         /\ logged'[h] = logged[h] /\ uncounted'[h] = uncounted[h]
      \/ /\ c.at = "log" /\ counters'[h] = counters[h] /\ answered'[h] = answered[h]
         /\ logged'[h] \in {logged[h], logged[h] + 1} /\ d.ok = c.ok
         /\ \/ c.ok /\ d.at = "count" /\ d.attempt = c.attempt
            \/ ~c.ok /\ c.attempt < 3 /\ d.at = "post" /\ d.attempt = c.attempt + 1
            \/ ~c.ok /\ c.attempt = 3 /\ d.at = "giveUp" /\ d.attempt = 3
         /\ uncounted'[h] = uncounted[h]
      \/ /\ c.at \in {"count", "giveUp"} /\ d.at = "done" /\ d.attempt = c.attempt /\ d.ok = c.ok
         /\ answered'[h] = answered[h] /\ logged'[h] = logged[h]
         /\ uncounted'[h] = uncounted[h]
         /\ counters'[h].success = counters[h].success + (IF c.at = "count" THEN 1 ELSE 0)
         /\ counters'[h].failure = counters[h].failure + (IF c.at = "count" THEN 0 ELSE 1)
      \/ /\ c.at \in {"count", "giveUp"} /\ uncounted'[h] = uncounted[h] + 1
         /\ counters'[h] = counters[h] /\ answered'[h] = answered[h] /\ d.ok = c.ok
         /\ \/ /\ c.at = "count" /\ logged'[h] \in {logged[h], logged[h] + 1}
               /\ \/ c.attempt < 3 /\ d.at = "post" /\ d.attempt = c.attempt + 1
                  \/ c.attempt = 3 /\ d.at = "giveUp" /\ d.attempt = 3
            \/ /\ c.at = "giveUp" /\ d.at = "done" /\ d.attempt = c.attempt /\ logged'[h] = logged[h]

\* Every step of deliverOne (webhook-service.ts) is one of these.
LEMMA HookStepEffect ==
  ASSUME WebhooksInv, NEW h \in Hook, HookStep(h)
  PROVE  WebhooksTyped' /\ OthersKept(h) /\ OwnStep(h)
<1> DEFINE Call == [at : {"validate", "post", "log", "count", "giveUp", "done"}, attempt : 1 .. 3, ok : BOOLEAN]
<1>0. /\ call \in [Hook -> Call] /\ counters \in [Hook -> [success : 0 .. 1, failure : 0 .. 1]]
      /\ logged \in [Hook -> Nat] /\ answered \in [Hook -> Nat] /\ uncounted \in [Hook -> Nat]
      /\ hookFaults \in 0 .. MaxHookFaults
      /\ MaxHookFaults \in Nat /\ Unsafe \subseteq Hook
      /\ call[h] \in Call /\ logged[h] \in Nat /\ answered[h] \in Nat /\ uncounted[h] \in Nat
      /\ counters[h] \in [success : 0 .. 1, failure : 0 .. 1]
  BY WebhooksAssumption DEF WebhooksInv, WebhooksTyped
<1> HIDE DEF Call
<1>1. CASE Validates(h)
  <2>1. PICK d \in {"done", "post"} : call' = [call EXCEPT ![h].at = d] /\ (d = "done" <=> h \in Unsafe)
    BY <1>1 DEF Validates
  <2>2. [call[h] EXCEPT !.at = d] \in Call
    BY <1>0 DEF Call
  <2>3. call' \in [Hook -> Call] /\ call'[h] = [call[h] EXCEPT !.at = d]
    BY <1>0, <2>1, <2>2
  <2>4. logged' \in [Hook -> Nat] /\ logged'[h] \in {logged[h], logged[h] + 1}
        /\ (d = "post" => logged' = logged) /\ \A g \in Hook \ {h} : logged'[g] = logged[g]
    BY <1>0, <1>1, <2>1, LoggedType DEF Validates, WebhooksInv
  <2>5. UNCHANGED <<counters, answered, uncounted, hookFaults>> /\ call[h].at = "validate"
    BY <1>1 DEF Validates
  <2>6. WebhooksTyped'
    BY <1>0, <2>3, <2>4, <2>5 DEF WebhooksTyped, Call
  <2>7. OthersKept(h)
    BY <1>0, <2>1, <2>4, <2>5 DEF OthersKept
  <2>8. call'[h].at = d /\ call'[h].attempt = call[h].attempt /\ call'[h].ok = call[h].ok
    BY <1>0, <2>3 DEF Call
  <2>9. OwnStep(h)
    BY <2>1, <2>4, <2>5, <2>8 DEF OwnStep
  <2> QED
    BY <2>6, <2>7, <2>9
<1>2. CASE Logs(h)
  <2>1. AfterLog(h) \in Call
    BY <1>0, FailedType DEF AfterLog, WebhooksInv, Call
  <2>2. call' \in [Hook -> Call] /\ call'[h] = AfterLog(h) /\ \A g \in Hook \ {h} : call'[g] = call[g]
    BY <1>0, <1>2, <2>1 DEF Logs
  <2>3. logged' \in [Hook -> Nat] /\ logged'[h] \in {logged[h], logged[h] + 1}
        /\ \A g \in Hook \ {h} : logged'[g] = logged[g]
    BY <1>2, LoggedType DEF Logs, WebhooksInv
  <2>4. UNCHANGED <<counters, answered, uncounted, hookFaults>> /\ call[h].at = "log"
    BY <1>2 DEF Logs
  <2>5. /\ AfterLog(h).ok = call[h].ok
        /\ \/ call[h].ok /\ AfterLog(h).at = "count" /\ AfterLog(h).attempt = call[h].attempt
           \/ ~call[h].ok /\ call[h].attempt < 3 /\ AfterLog(h).at = "post" /\ AfterLog(h).attempt = call[h].attempt + 1
           \/ ~call[h].ok /\ call[h].attempt = 3 /\ AfterLog(h).at = "giveUp" /\ AfterLog(h).attempt = 3
    <3>1. CASE call[h].ok
      BY <1>0, <3>1 DEF AfterLog, Call
    <3>2. CASE ~call[h].ok
      BY <3>2, FailedType DEF AfterLog, WebhooksInv
    <3> QED
      BY <3>1, <3>2
  <2>6. WebhooksTyped'
    BY <1>0, <2>2, <2>3, <2>4 DEF WebhooksTyped, Call
  <2>7. OthersKept(h)
    BY <2>2, <2>3, <2>4 DEF OthersKept
  <2>8. OwnStep(h)
    BY <2>2, <2>3, <2>4, <2>5 DEF OwnStep
  <2> QED
    BY <2>6, <2>7, <2>8
<1>3. CASE Counts(h)
  <2>1. [call[h] EXCEPT !.at = "done"] \in Call
    BY <1>0 DEF Call
  <2>2. call' \in [Hook -> Call] /\ call'[h] = [call[h] EXCEPT !.at = "done"]
        /\ \A g \in Hook \ {h} : call'[g] = call[g]
    BY <1>0, <1>3, <2>1 DEF Counts
  <2>3. counters[h].success = 0 /\ counters[h].failure = 0 /\ call[h].at \in {"count", "giveUp"}
    BY <1>3 DEF Counts, WebhooksInv, NotCountedYet
  <2>4. /\ counters' \in [Hook -> [success : 0 .. 1, failure : 0 .. 1]]
        /\ \A g \in Hook \ {h} : counters'[g] = counters[g]
        /\ counters'[h].success = counters[h].success + (IF call[h].at = "count" THEN 1 ELSE 0)
        /\ counters'[h].failure = counters[h].failure + (IF call[h].at = "count" THEN 0 ELSE 1)
    <3>1. CASE call[h].at = "count"
      BY <1>0, <1>3, <2>3, <3>1 DEF Counts
    <3>2. CASE call[h].at = "giveUp"
      BY <1>0, <1>3, <2>3, <3>2 DEF Counts
    <3> QED
      BY <2>3, <3>1, <3>2
  <2>5. UNCHANGED <<logged, answered, uncounted, hookFaults>>
    BY <1>3 DEF Counts
  <2>6. WebhooksTyped'
    BY <1>0, <2>2, <2>4, <2>5 DEF WebhooksTyped, Call
  <2>7. OthersKept(h)
    BY <2>2, <2>4, <2>5 DEF OthersKept
  <2>8. call'[h].at = "done" /\ call'[h].attempt = call[h].attempt /\ call'[h].ok = call[h].ok
    BY <1>0, <2>2 DEF Call
  <2>9. OwnStep(h)
    BY <2>3, <2>4, <2>5, <2>8 DEF OwnStep
  <2> QED
    BY <2>6, <2>7, <2>9
<1>4. CASE CountFails(h)
  <2>0. call[h].at \in {"count", "giveUp"} /\ uncounted' = [uncounted EXCEPT ![h] = @ + 1]
        /\ hookFaults' = hookFaults + 1 /\ hookFaults < MaxHookFaults
        /\ UNCHANGED <<counters, answered>>
    BY <1>4 DEF CountFails
  <2>1. /\ call[h].at \in {"count", "giveUp"} /\ uncounted' \in [Hook -> Nat] /\ uncounted'[h] = uncounted[h] + 1
        /\ \A g \in Hook \ {h} : uncounted'[g] = uncounted[g]
        /\ hookFaults' = hookFaults + 1 /\ hookFaults < MaxHookFaults
        /\ UNCHANGED <<counters, answered>>
    BY <1>0, <2>0
  <2>2. hookFaults' \in 0 .. MaxHookFaults
    BY <1>0, <2>1
  <2>3. CASE call[h].at = "count"
    <3>1. call' = [call EXCEPT ![h] = Failed(h)] /\ Logged(h)
      BY <1>4, <2>3 DEF CountFails
    <3>2. /\ Failed(h) \in Call /\ Failed(h).ok = call[h].ok
          /\ \/ call[h].attempt < 3 /\ Failed(h).at = "post" /\ Failed(h).attempt = call[h].attempt + 1
             \/ call[h].attempt = 3 /\ Failed(h).at = "giveUp" /\ Failed(h).attempt = 3
      BY FailedType DEF WebhooksInv, Call
    <3>3. call' \in [Hook -> Call] /\ call'[h] = Failed(h) /\ \A g \in Hook \ {h} : call'[g] = call[g]
      BY <1>0, <3>1, <3>2
    <3>4. logged' \in [Hook -> Nat] /\ logged'[h] \in {logged[h], logged[h] + 1}
          /\ \A g \in Hook \ {h} : logged'[g] = logged[g]
      BY <3>1, LoggedType DEF WebhooksInv
    <3>5. WebhooksTyped'
      BY <1>0, <2>1, <2>2, <3>3, <3>4 DEF WebhooksTyped, Call
    <3>6. OthersKept(h)
      BY <2>1, <3>3, <3>4 DEF OthersKept
    <3>7. OwnStep(h)
      BY <2>1, <2>3, <3>2, <3>3, <3>4 DEF OwnStep
    <3> QED
      BY <3>5, <3>6, <3>7
  <2>4. CASE call[h].at = "giveUp"
    <3>1. call' = [call EXCEPT ![h].at = "done"] /\ logged' = logged
      BY <1>4, <2>4 DEF CountFails
    <3>2. [call[h] EXCEPT !.at = "done"] \in Call
      BY <1>0 DEF Call
    <3>3. call' \in [Hook -> Call] /\ call'[h] = [call[h] EXCEPT !.at = "done"]
          /\ \A g \in Hook \ {h} : call'[g] = call[g]
      BY <1>0, <3>1, <3>2
    <3>4. call'[h].at = "done" /\ call'[h].attempt = call[h].attempt /\ call'[h].ok = call[h].ok
      BY <1>0, <3>3 DEF Call
    <3>5. WebhooksTyped'
      BY <1>0, <2>1, <2>2, <3>1, <3>3 DEF WebhooksTyped, Call
    <3>6. OthersKept(h)
      BY <2>1, <3>1, <3>3 DEF OthersKept
    <3>7. OwnStep(h)
      BY <2>1, <2>4, <3>1, <3>4 DEF OwnStep
    <3> QED
      BY <3>5, <3>6, <3>7
  <2> QED
    BY <2>1, <2>3, <2>4
<1>5. ASSUME NEW ok \in BOOLEAN, Posts(h, ok)
      PROVE  WebhooksTyped' /\ OthersKept(h) /\ OwnStep(h)
  <2> DEFINE posted == [call[h] EXCEPT !.at = "log", !.ok = ok]
  <2>1. posted \in Call /\ posted.at = "log" /\ posted.attempt = call[h].attempt /\ posted.ok = ok
    BY <1>0 DEF Call
  <2>2. call' = [call EXCEPT ![h] = posted]
    BY <1>5 DEF Posts
  <2> HIDE DEF posted
  <2>3. call' \in [Hook -> Call] /\ call'[h] = posted /\ \A g \in Hook \ {h} : call'[g] = call[g]
    BY <1>0, <2>1, <2>2
  <2>4. /\ answered' \in [Hook -> Nat] /\ answered'[h] = answered[h] + (IF ok THEN 1 ELSE 0)
        /\ \A g \in Hook \ {h} : answered'[g] = answered[g]
    BY <1>0, <1>5 DEF Posts
  <2>5. UNCHANGED <<counters, logged, uncounted, hookFaults>> /\ call[h].at = "post"
    BY <1>5 DEF Posts
  <2>6. WebhooksTyped'
    BY <1>0, <2>3, <2>4, <2>5 DEF WebhooksTyped, Call
  <2>7. OthersKept(h)
    BY <2>3, <2>4, <2>5 DEF OthersKept
  <2>8. OwnStep(h)
    BY <2>1, <2>3, <2>4, <2>5 DEF OwnStep
  <2> QED
    BY <2>6, <2>7, <2>8
<1> QED
  BY <1>1, <1>2, <1>3, <1>4, <1>5 DEF HookStep

LEMMA WebhooksStep == WebhooksInv /\ [WebhooksNext]_hookVars => WebhooksInv'
<1> SUFFICES ASSUME WebhooksInv, [WebhooksNext]_hookVars PROVE WebhooksInv'
  OBVIOUS
<1>1. CASE UNCHANGED hookVars
  BY <1>1 DEF hookVars, WebhooksInv, WebhooksTyped, NotCountedYet, RowsPerAttempt, CountsTheAnswer, Answering, OutcomeCounted
<1>2. ASSUME NEW h \in Hook, HookStep(h) PROVE WebhooksInv'
  <2>1. WebhooksTyped' /\ OthersKept(h) /\ OwnStep(h)
    BY <1>2, HookStepEffect
  <2>2. /\ call[h].attempt \in 1 .. 3 /\ call'[h].attempt \in 1 .. 3 /\ logged[h] \in Nat /\ answered[h] \in Nat
        /\ uncounted[h] \in Nat /\ call[h].ok \in BOOLEAN /\ call'[h].ok \in BOOLEAN
    BY <2>1 DEF WebhooksInv, WebhooksTyped
  <2>3. NotCountedYet'
    <3>1. call'[h].at # "done" => counters'[h].success = 0 /\ counters'[h].failure = 0
      BY <2>1 DEF OwnStep, WebhooksInv, NotCountedYet
    <3> QED
      BY <2>1, <3>1 DEF OthersKept, WebhooksInv, NotCountedYet
  <2>4. RowsPerAttempt'
    <3>1. /\ logged'[h] <= 2 * call'[h].attempt /\ answered'[h] <= call'[h].attempt
          /\ call'[h].at \in {"validate", "post", "log"} => logged'[h] <= 2 * (call'[h].attempt - 1)
          /\ call'[h].at = "count" => logged'[h] < 2 * call'[h].attempt
          /\ call'[h].at \in {"validate", "post"} => answered'[h] < call'[h].attempt
      BY <2>1, <2>2 DEF OwnStep, WebhooksInv, RowsPerAttempt
    <3> QED
      BY <2>1, <3>1 DEF OthersKept, WebhooksInv, RowsPerAttempt
  <2>5. CountsTheAnswer'
    <3>1. /\ call'[h].at = "count" => call'[h].ok
          /\ call'[h].at # "done" /\ ~Answering(h)' => answered'[h] <= uncounted'[h]
          /\ Answering(h)' => answered'[h] <= uncounted'[h] + 1 /\ answered'[h] >= 1
      BY <2>1, <2>2 DEF OwnStep, WebhooksInv, CountsTheAnswer, Answering
    <3> QED
      BY <2>1, <3>1 DEF OthersKept, WebhooksInv, CountsTheAnswer, Answering
  <2>6. OutcomeCounted'
    <3>1. ASSUME h \notin Unsafe
          PROVE  /\ answered'[h] <= uncounted'[h] + 1
                 /\ counters'[h].success + counters'[h].failure <= 1
                 /\ call'[h].at = "done" /\ uncounted'[h] = 0 =>
                      counters'[h].success = answered'[h] /\ counters'[h].failure = 1 - answered'[h]
      <4>1. /\ call[h].at # "done" => counters[h].success = 0 /\ counters[h].failure = 0
            /\ call[h].at = "count" => call[h].ok
            /\ call[h].at # "done" /\ ~Answering(h) => answered[h] <= uncounted[h]
            /\ Answering(h) => answered[h] <= uncounted[h] + 1 /\ answered[h] >= 1
            /\ answered[h] <= uncounted[h] + 1
        BY <3>1 DEF WebhooksInv, NotCountedYet, CountsTheAnswer, OutcomeCounted
      <4>2. counters'[h].success + counters'[h].failure <= 1
        BY <2>1, <2>2, <3>1, <4>1 DEF OwnStep
      <4>3. answered'[h] <= uncounted'[h] + 1
        BY <2>1, <2>2, <3>1, <4>1 DEF OwnStep, Answering
      <4>4. call'[h].at = "done" /\ uncounted'[h] = 0 =>
              counters'[h].success = answered'[h] /\ counters'[h].failure = 1 - answered'[h]
        BY <2>1, <2>2, <3>1, <4>1 DEF OwnStep, Answering
      <4> QED
        BY <4>2, <4>3, <4>4
    <3> QED
      BY <2>1, <3>1 DEF OthersKept, WebhooksInv, OutcomeCounted
  <2> QED
    BY <2>1, <2>3, <2>4, <2>5, <2>6 DEF WebhooksInv
<1> QED
  BY <1>1, <1>2 DEF WebhooksNext, HookStep

\* deliverOne keeps to its types, and to at most two log rows and one request an
\* attempt.
THEOREM WebhooksAreTyped == WebhooksSpec => []WebhooksTypeOK
<1>1. WebhooksInv => WebhooksTypeOK
  BY DEF WebhooksInv, WebhooksTyped, RowsPerAttempt, WebhooksTypeOK
<1> QED
  BY <1>1, WebhooksStart, WebhooksStep, PTL DEF WebhooksSpec

\* For any hooks, however their deliveries interleave: an event that was answered is
\* posted again only when a counter could not be updated, once for each time, and a
\* delivery whose updates did not fail ends counted once, as what it was (deliverOne,
\* webhook-service.ts).
THEOREM OutcomeCountedOnce == WebhooksSpec => []OutcomeCounted
<1>1. WebhooksInv => OutcomeCounted
  BY DEF WebhooksInv
<1> QED
  BY <1>1, WebhooksStart, WebhooksStep, PTL DEF WebhooksSpec

-----------------------------------------------------------------------------
(* Deliveries: what the dispatch loop has not reached, and what the runs of the *)
(* retry job have read.                                                          *)

Copied == UNION {[S -> Nat] : S \in SUBSET Alert}
Row == [status : {"none", "sent", "failed", "skipped", "abandoned"}, attempt : 0 .. MAX_ATTEMPTS,
        retryAt : {"never", "later", "due"}]
RunRecord == [at : {"idle", "loop", "update"}, todo : SUBSET Alert, seen : Copied,
              now : Alert \cup {"none"}, ok : BOOLEAN]

DeliveriesTyped ==
  /\ dispatcher \in [at : {"decide", "send", "record", "done"}, i : Nat, allowed : BOOLEAN,
                     outcome : {"none", "sent", "failed", "skipped"}]
  /\ dispatcher.at # "done" => dispatcher.i \in DOMAIN Batch
  /\ dispatcher.at = "record" => dispatcher.outcome # "none"
  /\ hits \in Nat
  /\ delivery \in [Alert -> Row]
  /\ run \in [Run -> RunRecord]
  /\ copies \in [Alert -> Nat]
  /\ excused \subseteq Alert
  /\ dbFaults \in 0 .. MaxDbFaults

\* A row to be retried has an attempt left, and only such a row has a retry time.
RowsMayRetry ==
  \A a \in Alert : /\ delivery[a].retryAt # "never" => delivery[a].status = "failed"
                   /\ delivery[a].status = "failed" => delivery[a].attempt < MAX_ATTEMPTS

\* A run works on rows it has read, at most a batch, and on one at a time.
RunsHoldRows ==
  \A r \in Run : /\ run[r].todo \subseteq DOMAIN run[r].seen
                 /\ Cardinality(run[r].todo) <= BATCH
                 /\ run[r].at = "update" <=> run[r].now # "none"
                 /\ run[r].at = "update" => run[r].now \in run[r].todo
                 /\ run[r].at # "update" => ~run[r].ok
                 /\ \A a \in run[r].todo : /\ delivery[a].status # "none"
                                           /\ run[r].seen[a] < MAX_ATTEMPTS

\* Alerts the loop has not come to have no row, and no message.
NotReached ==
  dispatcher.at # "done" =>
    \A i \in DOMAIN Batch :
      i >= dispatcher.i =>
        /\ delivery[Batch[i]].status = "none"
        /\ i # dispatcher.i \/ dispatcher.at # "record" \/ dispatcher.outcome # "sent" => copies[Batch[i]] = 0

\* While no outcome was overwritten, the attempts of a row only grow: a run that still
\* sees the current attempt sees a row that has failed.
SeenIsOlder ==
  \A r \in Run : \A a \in run[r].todo \ excused :
    \/ run[r].seen[a] < delivery[a].attempt
    \/ run[r].seen[a] = delivery[a].attempt /\ delivery[a].status = "failed"

DeliveriesInv == DeliveriesTyped /\ RowsMayRetry /\ RunsHoldRows /\ NotReached /\ SeenIsOlder /\ DeliveredIsLogged

LEMMA AlertsFinite == IsFiniteSet(Alert)
<1>1. IsFiniteSet(DOMAIN Batch)
  BY DeliveriesAssumption, LenProperties, FS_Interval
<1>2. Batch \in Surjection(DOMAIN Batch, Alert)
  BY DeliveriesAssumption DEF Surjection, Alert
<1> QED
  BY <1>1, <1>2, FS_Surjection

LEMMA AlertsByPosition ==
  /\ DOMAIN Batch = 1 .. Len(Batch) /\ Len(Batch) \in Nat \ {0}
  /\ \A i \in DOMAIN Batch : Batch[i] \in Alert
  /\ \A i, j \in DOMAIN Batch : Batch[i] = Batch[j] => i = j
  BY DeliveriesAssumption, LenProperties DEF Alert

LEMMA SeenType ==
  ASSUME NEW seen \in Copied, NEW a \in DOMAIN seen
  PROVE  a \in Alert /\ seen[a] \in Nat
  BY DEF Copied

LEMMA RestingType == Resting \in RunRecord /\ Resting.todo = {} /\ Resting.now = "none" /\ Resting.at = "idle" /\ ~Resting.ok
<1>1. [a \in {} |-> 0] \in Copied
  BY DEF Copied
<1> QED
  BY <1>1 DEF Resting, RunRecord

LEMMA DeliveriesStart == DeliveriesInit => DeliveriesInv
<1> SUFFICES ASSUME DeliveriesInit PROVE DeliveriesInv
  OBVIOUS
<1>1. \A r \in Run : run[r] = Resting
  BY DEF DeliveriesInit
<1>2. \A a \in Alert : delivery[a] = NoRow /\ NoRow \in Row /\ copies[a] = 0
  BY DeliveriesAssumption DEF DeliveriesInit, NoRow, Row
<1>3. DeliveriesTyped
  BY <1>2, RestingType, AlertsByPosition, DeliveriesAssumption DEF DeliveriesInit, DeliveriesTyped
<1>4. RowsMayRetry /\ SeenIsOlder /\ DeliveredIsLogged
  BY <1>1, <1>2, RestingType DEF RowsMayRetry, SeenIsOlder, DeliveredIsLogged, NoRow
<1>5. RunsHoldRows
  <2>1. Cardinality({}) <= BATCH
    BY FS_EmptySet, DeliveriesAssumption
  <2>2. \A r \in Run : run[r].todo = {} /\ run[r].now = "none" /\ run[r].at = "idle" /\ ~run[r].ok
    BY <1>1, RestingType
  <2> QED
    BY <2>1, <2>2 DEF RunsHoldRows
<1>6. NotReached
  BY <1>2, AlertsByPosition DEF NotReached, NoRow, DeliveriesInit
<1> QED
  BY <1>3, <1>4, <1>5, <1>6 DEF DeliveriesInv

-----------------------------------------------------------------------------
(* The dispatch loop (alert-dispatch.ts). *)

\* A step of the loop that writes no row leaves the retry job's part as it is.
LEMMA RetrySideKept ==
  ASSUME DeliveriesInv, UNCHANGED <<delivery, run>>, excused \subseteq excused'
  PROVE  RowsMayRetry' /\ RunsHoldRows' /\ SeenIsOlder'
<1>1. RowsMayRetry'
  BY DEF DeliveriesInv, RowsMayRetry
<1>2. RunsHoldRows'
  BY DEF DeliveriesInv, RunsHoldRows
<1>3. SeenIsOlder'
  BY DEF DeliveriesInv, SeenIsOlder
<1> QED
  BY <1>1, <1>2, <1>3

\* The loop goes to the next alert or ends.
LEMMA NextAlertType ==
  ASSUME DeliveriesTyped, dispatcher.at = "record"
  PROVE  /\ NextAlert \in [at : {"decide", "send", "record", "done"}, i : Nat, allowed : BOOLEAN,
                           outcome : {"none", "sent", "failed", "skipped"}]
         /\ NextAlert.at # "done" => NextAlert.i \in DOMAIN Batch
         /\ NextAlert.at \in {"decide", "done"} /\ NextAlert.i = dispatcher.i + 1
  BY AlertsByPosition DEF DeliveriesTyped, NextAlert

LEMMA DecidesKeeps ==
  ASSUME DeliveriesInv, NEW quiet \in BOOLEAN, Decides(quiet)
  PROVE  DeliveriesInv'
<1>1. /\ dispatcher.at = "decide" /\ UNCHANGED <<delivery, run, copies, excused, dbFaults>>
      /\ dispatcher' = [dispatcher EXCEPT !.at = "send", !.allowed = ~quiet /\ hits' <= ThrottlePerHour]
      /\ hits' \in Nat
  BY DEF Decides, DeliveriesInv, DeliveriesTyped
<1>2. /\ dispatcher'.at = "send" /\ dispatcher'.i = dispatcher.i
      /\ dispatcher' \in [at : {"decide", "send", "record", "done"}, i : Nat, allowed : BOOLEAN,
                          outcome : {"none", "sent", "failed", "skipped"}]
  <2> DEFINE allow == ~quiet /\ hits' <= ThrottlePerHour
  <2>1. allow \in BOOLEAN /\ dispatcher' = [dispatcher EXCEPT !.at = "send", !.allowed = allow]
    BY <1>1
  <2> HIDE DEF allow
  <2> QED
    BY <2>1 DEF DeliveriesInv, DeliveriesTyped
<1>3. DeliveriesTyped'
  BY <1>1, <1>2 DEF DeliveriesInv, DeliveriesTyped
<1>4. NotReached'
  BY <1>1, <1>2 DEF DeliveriesInv, NotReached
<1>5. DeliveredIsLogged'
  BY <1>1, <1>2 DEF DeliveriesInv, DeliveredIsLogged, OutcomeUnderWay, Current
<1> QED
  BY <1>1, <1>3, <1>4, <1>5, RetrySideKept DEF DeliveriesInv

LEMMA WindowEndsKeeps ==
  ASSUME DeliveriesInv, WindowEnds
  PROVE  DeliveriesInv'
<1>1. hits' = 0 /\ UNCHANGED <<dispatcher, delivery, run, copies, excused, dbFaults>>
  BY DEF WindowEnds
<1>2. DeliveriesTyped'
  BY <1>1 DEF DeliveriesInv, DeliveriesTyped
<1>3. NotReached' /\ DeliveredIsLogged'
  BY <1>1 DEF DeliveriesInv, NotReached, DeliveredIsLogged, OutcomeUnderWay, Current
<1> QED
  BY <1>1, <1>2, <1>3, RetrySideKept DEF DeliveriesInv

LEMMA DispatchesKeeps ==
  ASSUME DeliveriesInv, NEW outcome \in {"sent", "failed", "skipped"}, Dispatches(outcome)
  PROVE  DeliveriesInv'
<1>1. /\ dispatcher.at = "send" /\ UNCHANGED <<hits, delivery, run, excused, dbFaults>>
      /\ dispatcher' = [dispatcher EXCEPT !.at = "record", !.outcome = outcome]
      /\ copies' = IF outcome = "sent" THEN [copies EXCEPT ![Current] = @ + 1] ELSE copies
  BY DEF Dispatches
<1>2. /\ dispatcher'.at = "record" /\ dispatcher'.i = dispatcher.i /\ dispatcher'.outcome = outcome
      /\ dispatcher' \in [at : {"decide", "send", "record", "done"}, i : Nat, allowed : BOOLEAN,
                          outcome : {"none", "sent", "failed", "skipped"}]
  BY <1>1 DEF DeliveriesInv, DeliveriesTyped
<1>3. dispatcher.i \in DOMAIN Batch /\ Current \in Alert /\ Current' = Current
  BY <1>1, <1>2, AlertsByPosition DEF DeliveriesInv, DeliveriesTyped, Current
<1>4. /\ copies' \in [Alert -> Nat]
      /\ \A a \in Alert \ {Current} : copies'[a] = copies[a]
      /\ outcome # "sent" => copies' = copies
  BY <1>1, <1>3 DEF DeliveriesInv, DeliveriesTyped
<1>5. DeliveriesTyped'
  BY <1>1, <1>2, <1>3, <1>4 DEF DeliveriesInv, DeliveriesTyped
<1>6. NotReached'
  <2> SUFFICES ASSUME NEW i \in DOMAIN Batch, i >= dispatcher.i
               PROVE  /\ delivery[Batch[i]].status = "none"
                      /\ i # dispatcher.i \/ outcome # "sent" => copies'[Batch[i]] = 0
    BY <1>1, <1>2 DEF NotReached
  <2>1. delivery[Batch[i]].status = "none" /\ copies[Batch[i]] = 0
    BY <1>1 DEF DeliveriesInv, NotReached
  <2>2. ASSUME i # dispatcher.i PROVE copies'[Batch[i]] = copies[Batch[i]]
    BY <1>3, <1>4, <2>2, AlertsByPosition DEF Current
  <2> QED
    BY <1>4, <2>1, <2>2
<1>7. DeliveredIsLogged'
  <2> SUFFICES ASSUME NEW a \in Alert, copies'[a] > 0
               PROVE  delivery[a].status = "sent" \/ OutcomeUnderWay(a)' \/ a \in excused
    BY <1>1 DEF DeliveredIsLogged
  <2>1. CASE a = Current
    BY <1>2, <1>3, <2>1 DEF OutcomeUnderWay
  <2>2. CASE a # Current
    <3>1. delivery[a].status = "sent" \/ OutcomeUnderWay(a) \/ a \in excused
      BY <1>4, <2>2 DEF DeliveriesInv, DeliveredIsLogged
    <3>2. OutcomeUnderWay(a) => OutcomeUnderWay(a)'
      BY <1>1 DEF OutcomeUnderWay
    <3> QED
      BY <3>1, <3>2
  <2> QED
    BY <2>1, <2>2
<1> QED
  BY <1>1, <1>5, <1>6, <1>7, RetrySideKept DEF DeliveriesInv

\* The row of the alert the loop is at: no run has it, for it was not there.
LEMMA RecordsDeliveryKeeps ==
  ASSUME DeliveriesInv, RecordsDelivery
  PROVE  DeliveriesInv'
<1> DEFINE row == [status |-> dispatcher.outcome, attempt |-> 1,
                   retryAt |-> IF dispatcher.outcome = "failed" THEN "later" ELSE "never"]
<1>1. /\ dispatcher.at = "record" /\ dispatcher' = NextAlert /\ delivery' = [delivery EXCEPT ![Current] = row]
      /\ UNCHANGED <<hits, run, copies, excused, dbFaults>>
  BY DEF RecordsDelivery
<1>2. /\ dispatcher.i \in DOMAIN Batch /\ Current \in Alert /\ Current = Batch[dispatcher.i]
      /\ delivery[Current].status = "none" /\ (dispatcher.outcome # "sent" => copies[Current] = 0)
  BY <1>1, AlertsByPosition DEF DeliveriesInv, DeliveriesTyped, Current, NotReached
<1>3. /\ row \in Row /\ row.status = dispatcher.outcome /\ row.status # "none" /\ row.attempt = 1
      /\ (row.retryAt # "never" => row.status = "failed")
  BY <1>1, DeliveriesAssumption DEF DeliveriesInv, DeliveriesTyped, Row
<1> HIDE DEF row
<1>4. /\ delivery' \in [Alert -> Row] /\ delivery'[Current] = row
      /\ \A a \in Alert \ {Current} : delivery'[a] = delivery[a]
  BY <1>1, <1>2, <1>3 DEF DeliveriesInv, DeliveriesTyped
<1>5. DeliveriesTyped'
  BY <1>1, <1>4, NextAlertType DEF DeliveriesInv, DeliveriesTyped
<1>6. RowsMayRetry'
  BY <1>3, <1>4, DeliveriesAssumption DEF DeliveriesInv, RowsMayRetry
<1>7. \A r \in Run : \A a \in run[r].todo : a # Current /\ a \in Alert
  BY <1>2 DEF DeliveriesInv, RunsHoldRows, DeliveriesTyped, RunRecord
<1>8. RunsHoldRows'
  BY <1>1, <1>4, <1>7 DEF DeliveriesInv, RunsHoldRows
<1>9. SeenIsOlder'
  BY <1>1, <1>4, <1>7 DEF DeliveriesInv, SeenIsOlder
<1>10. NotReached'
  <2> SUFFICES ASSUME NEW i \in DOMAIN Batch, i >= dispatcher'.i
               PROVE  delivery'[Batch[i]].status = "none" /\ copies[Batch[i]] = 0
    BY <1>1 DEF NotReached
  <2>1. i >= dispatcher.i /\ i # dispatcher.i /\ Batch[i] # Current /\ Batch[i] \in Alert
    BY <1>1, <1>2, NextAlertType, AlertsByPosition DEF DeliveriesInv, DeliveriesTyped
  <2> QED
    BY <1>1, <1>4, <2>1 DEF DeliveriesInv, NotReached
<1>11. DeliveredIsLogged'
  <2> SUFFICES ASSUME NEW a \in Alert, copies[a] > 0
               PROVE  delivery'[a].status = "sent" \/ OutcomeUnderWay(a)' \/ a \in excused
    BY <1>1 DEF DeliveredIsLogged
  <2>1. CASE a = Current
    BY <1>2, <1>3, <1>4, <2>1 DEF DeliveriesInv, DeliveriesTyped
  <2>2. CASE a # Current
    BY <1>1, <1>4, <2>2 DEF DeliveriesInv, DeliveredIsLogged, OutcomeUnderWay
  <2> QED
    BY <2>1, <2>2
<1> QED
  BY <1>5, <1>6, <1>8, <1>9, <1>10, <1>11 DEF DeliveriesInv

\* A failed insert and the end of the process excuse the alert the loop is at, and no
\* other.
LEMMA RecordFailsKeeps ==
  ASSUME DeliveriesInv, RecordFails
  PROVE  DeliveriesInv'
<1>1. /\ dispatcher.at = "record" /\ dispatcher' = NextAlert /\ excused' = excused \cup {Current}
      /\ dbFaults' = dbFaults + 1 /\ dbFaults < MaxDbFaults
      /\ UNCHANGED <<hits, delivery, run, copies>>
  BY DEF RecordFails
<1>2. dispatcher.i \in DOMAIN Batch /\ Current \in Alert /\ Current = Batch[dispatcher.i]
  BY <1>1, AlertsByPosition DEF DeliveriesInv, DeliveriesTyped, Current
<1>3. DeliveriesTyped'
  <2>1. dbFaults' \in 0 .. MaxDbFaults
    BY <1>1, DeliveriesAssumption DEF DeliveriesInv, DeliveriesTyped
  <2> QED
    BY <1>1, <1>2, <2>1, NextAlertType DEF DeliveriesInv, DeliveriesTyped
<1>4. NotReached'
  <2> SUFFICES ASSUME NEW i \in DOMAIN Batch, i >= dispatcher'.i
               PROVE  delivery[Batch[i]].status = "none" /\ copies[Batch[i]] = 0
    BY <1>1 DEF NotReached
  <2>1. i >= dispatcher.i /\ i # dispatcher.i
    BY <1>1, NextAlertType, AlertsByPosition DEF DeliveriesInv, DeliveriesTyped
  <2> QED
    BY <1>1, <2>1 DEF DeliveriesInv, NotReached
<1>5. DeliveredIsLogged'
  BY <1>1, <1>2 DEF DeliveriesInv, DeliveredIsLogged, OutcomeUnderWay
<1> QED
  BY <1>1, <1>3, <1>4, <1>5, RetrySideKept DEF DeliveriesInv

LEMMA DispatchDiesKeeps ==
  ASSUME DeliveriesInv, DispatchDies
  PROVE  DeliveriesInv'
<1>1. /\ dispatcher.at # "done" /\ dispatcher' = [dispatcher EXCEPT !.at = "done"]
      /\ excused' = excused \cup {Current}
      /\ dbFaults' = dbFaults + 1 /\ dbFaults < MaxDbFaults
      /\ UNCHANGED <<hits, delivery, run, copies>>
  BY DEF DispatchDies
<1>2. dispatcher.i \in DOMAIN Batch /\ Current \in Alert /\ dispatcher'.at = "done"
  BY <1>1, AlertsByPosition DEF DeliveriesInv, DeliveriesTyped, Current
<1>3. DeliveriesTyped'
  <2>1. dbFaults' \in 0 .. MaxDbFaults
    BY <1>1, DeliveriesAssumption DEF DeliveriesInv, DeliveriesTyped
  <2> QED
    BY <1>1, <1>2, <2>1 DEF DeliveriesInv, DeliveriesTyped
<1>4. NotReached'
  BY <1>2 DEF NotReached
<1>5. DeliveredIsLogged'
  BY <1>1, <1>2 DEF DeliveriesInv, DeliveredIsLogged, OutcomeUnderWay
<1> QED
  BY <1>1, <1>3, <1>4, <1>5, RetrySideKept DEF DeliveriesInv

-----------------------------------------------------------------------------
(* The retry job (notify-retry.ts). *)

LEMMA BackoffEndsKeeps ==
  ASSUME DeliveriesInv, NEW a \in Alert, BackoffEnds(a)
  PROVE  DeliveriesInv'
<1> DEFINE row == [delivery[a] EXCEPT !.retryAt = "due"]
<1>1. /\ delivery[a].retryAt = "later" /\ delivery' = [delivery EXCEPT ![a] = row]
      /\ UNCHANGED <<dispatcher, hits, run, copies, excused, dbFaults>>
  BY DEF BackoffEnds
<1>2. /\ row \in Row /\ row.status = delivery[a].status /\ row.attempt = delivery[a].attempt
      /\ delivery[a].status = "failed"
  BY <1>1 DEF DeliveriesInv, DeliveriesTyped, Row, RowsMayRetry
<1> HIDE DEF row
<1>3. /\ delivery' \in [Alert -> Row] /\ delivery'[a] = row
      /\ \A b \in Alert : /\ delivery'[b].status = delivery[b].status
                          /\ delivery'[b].attempt = delivery[b].attempt
                          /\ b # a => delivery'[b] = delivery[b]
  BY <1>1, <1>2 DEF DeliveriesInv, DeliveriesTyped
<1>4. DeliveriesTyped'
  BY <1>1, <1>3 DEF DeliveriesInv, DeliveriesTyped
<1>5. RowsMayRetry'
  BY <1>2, <1>3 DEF DeliveriesInv, RowsMayRetry
<1>6. \A r \in Run : run[r].todo \subseteq Alert
  BY DEF DeliveriesInv, DeliveriesTyped, RunRecord
<1>7. RunsHoldRows'
  BY <1>1, <1>3, <1>6 DEF DeliveriesInv, RunsHoldRows
<1>8. SeenIsOlder'
  BY <1>1, <1>3, <1>6 DEF DeliveriesInv, SeenIsOlder
<1>9. NotReached'
  BY <1>1, <1>3, AlertsByPosition DEF DeliveriesInv, NotReached
<1>10. DeliveredIsLogged'
  BY <1>1, <1>3 DEF DeliveriesInv, DeliveredIsLogged, OutcomeUnderWay, Current
<1> QED
  BY <1>4, <1>5, <1>7, <1>8, <1>9, <1>10 DEF DeliveriesInv

\* A run selects rows that failed, with the attempts they have.
LEMMA RetrySelectsKeeps ==
  ASSUME DeliveriesInv, NEW r \in Run, RetrySelects(r)
  PROVE  DeliveriesInv'
<1>1. PICK todo \in SUBSET Due \ {{}} :
        /\ Cardinality(todo) = IF Cardinality(Due) < BATCH THEN Cardinality(Due) ELSE BATCH
        /\ run' = [run EXCEPT ![r] = [Resting EXCEPT !.at = "loop", !.todo = todo,
                                                    !.seen = [a \in todo |-> delivery[a].attempt]]]
  BY DEF RetrySelects
<1> DEFINE selected == [Resting EXCEPT !.at = "loop", !.todo = todo, !.seen = [a \in todo |-> delivery[a].attempt]]
<1>2. run[r].at = "idle" /\ UNCHANGED <<dispatcher, hits, delivery, copies, excused, dbFaults>>
  BY DEF RetrySelects
<1>3. todo \subseteq Alert /\ \A a \in todo : delivery[a].status = "failed" /\ delivery[a].attempt \in Nat
  BY DEF Due, DeliveriesInv, DeliveriesTyped, Row
<1>4. Cardinality(todo) <= BATCH
  <2>1. IsFiniteSet(Due) /\ Cardinality(Due) \in Nat
    BY AlertsFinite, FS_Subset, FS_CardinalityType DEF Due
  <2> QED
    BY <1>1, <2>1, DeliveriesAssumption
<1>5. /\ selected \in RunRecord /\ selected.at = "loop" /\ selected.todo = todo /\ selected.now = "none"
      /\ ~selected.ok /\ selected.seen = [a \in todo |-> delivery[a].attempt]
  <2>1. [a \in todo |-> delivery[a].attempt] \in Copied
    BY <1>3 DEF Copied
  <2> QED
    BY <1>3, <2>1, RestingType DEF Resting, RunRecord
<1>6. run' = [run EXCEPT ![r] = selected]
  BY <1>1
<1> HIDE DEF selected
<1>7. run' \in [Run -> RunRecord] /\ run'[r] = selected /\ \A other \in Run \ {r} : run'[other] = run[other]
  BY <1>5, <1>6 DEF DeliveriesInv, DeliveriesTyped
<1>8. DeliveriesTyped'
  BY <1>2, <1>7 DEF DeliveriesInv, DeliveriesTyped
<1>9. RowsMayRetry' /\ NotReached'
  BY <1>2 DEF DeliveriesInv, RowsMayRetry, NotReached
<1>10. RunsHoldRows'
  <2>1. /\ run'[r].todo \subseteq DOMAIN run'[r].seen
        /\ Cardinality(run'[r].todo) <= BATCH
        /\ run'[r].at = "update" <=> run'[r].now # "none"
        /\ run'[r].at = "update" => run'[r].now \in run'[r].todo
        /\ run'[r].at # "update" => ~run'[r].ok
    BY <1>4, <1>5, <1>7
  <2>2. \A a \in run'[r].todo : delivery[a].status # "none" /\ run'[r].seen[a] < MAX_ATTEMPTS
    BY <1>3, <1>5, <1>7 DEF DeliveriesInv, RowsMayRetry
  <2> QED
    BY <1>2, <1>7, <2>1, <2>2 DEF DeliveriesInv, RunsHoldRows
<1>11. SeenIsOlder'
  <2>1. \A a \in run'[r].todo : run'[r].seen[a] = delivery[a].attempt /\ delivery[a].status = "failed"
    BY <1>3, <1>5, <1>7
  <2> QED
    BY <1>2, <1>7, <2>1 DEF DeliveriesInv, SeenIsOlder
<1>12. DeliveredIsLogged'
  <2>1. ~run[r].ok
    BY <1>2 DEF DeliveriesInv, RunsHoldRows
  <2>2. \A a \in Alert : OutcomeUnderWay(a) => OutcomeUnderWay(a)'
    BY <1>2, <1>7, <2>1 DEF OutcomeUnderWay, Current
  <2> QED
    BY <1>2, <2>2 DEF DeliveriesInv, DeliveredIsLogged
<1> QED
  BY <1>8, <1>9, <1>10, <1>11, <1>12 DEF DeliveriesInv

\* A message that goes out is an outcome under way.
LEMMA RetrySendsKeeps ==
  ASSUME DeliveriesInv, NEW r \in Run, NEW a \in Alert, NEW ok \in BOOLEAN, RetrySends(r, a, ok)
  PROVE  DeliveriesInv'
<1> DEFINE sending == [run[r] EXCEPT !.at = "update", !.now = a, !.ok = ok]
<1>1. /\ run[r].at = "loop" /\ a \in run[r].todo /\ run' = [run EXCEPT ![r] = sending]
      /\ copies' = IF ok THEN [copies EXCEPT ![a] = @ + 1] ELSE copies
      /\ UNCHANGED <<dispatcher, hits, delivery, excused, dbFaults>>
  BY DEF RetrySends
<1>2. /\ sending \in RunRecord /\ sending.at = "update" /\ sending.now = a /\ sending.ok = ok
      /\ sending.todo = run[r].todo /\ sending.seen = run[r].seen
  BY DEF DeliveriesInv, DeliveriesTyped, RunRecord
<1> HIDE DEF sending
<1>3. run' \in [Run -> RunRecord] /\ run'[r] = sending /\ \A other \in Run \ {r} : run'[other] = run[other]
  BY <1>1, <1>2 DEF DeliveriesInv, DeliveriesTyped
<1>4. /\ copies' \in [Alert -> Nat]
      /\ \A b \in Alert \ {a} : copies'[b] = copies[b]
      /\ ~ok => copies' = copies
  BY <1>1 DEF DeliveriesInv, DeliveriesTyped
<1>5. DeliveriesTyped'
  BY <1>1, <1>3, <1>4 DEF DeliveriesInv, DeliveriesTyped
<1>6. RowsMayRetry'
  BY <1>1 DEF DeliveriesInv, RowsMayRetry
<1>7. RunsHoldRows'
  <2>1. a # "none"
    BY DeliveriesAssumption
  <2>2. /\ run'[r].todo \subseteq DOMAIN run'[r].seen
        /\ Cardinality(run'[r].todo) <= BATCH
        /\ run'[r].at = "update" <=> run'[r].now # "none"
        /\ run'[r].at = "update" => run'[r].now \in run'[r].todo
        /\ run'[r].at # "update" => ~run'[r].ok
        /\ \A b \in run'[r].todo : delivery[b].status # "none" /\ run'[r].seen[b] < MAX_ATTEMPTS
    BY <1>1, <1>2, <1>3, <2>1 DEF DeliveriesInv, RunsHoldRows
  <2> QED
    BY <1>1, <1>3, <2>2 DEF DeliveriesInv, RunsHoldRows
<1>8. SeenIsOlder'
  BY <1>1, <1>2, <1>3 DEF DeliveriesInv, SeenIsOlder
<1>9. NotReached'
  <2>1. delivery[a].status # "none"
    BY <1>1 DEF DeliveriesInv, RunsHoldRows
  <2>2. \A i \in DOMAIN Batch : delivery[Batch[i]].status = "none" => copies'[Batch[i]] = copies[Batch[i]]
    BY <1>4, <2>1, AlertsByPosition
  <2> QED
    BY <1>1, <2>2 DEF DeliveriesInv, NotReached
<1>10. DeliveredIsLogged'
  <2> SUFFICES ASSUME NEW b \in Alert, copies'[b] > 0
               PROVE  delivery[b].status = "sent" \/ OutcomeUnderWay(b)' \/ b \in excused
    BY <1>1 DEF DeliveredIsLogged
  <2>1. ~run[r].ok
    BY <1>1 DEF DeliveriesInv, RunsHoldRows
  <2>2. OutcomeUnderWay(b) => OutcomeUnderWay(b)'
    BY <1>1, <1>3, <2>1 DEF OutcomeUnderWay, Current
  <2>3. CASE b = a /\ ok
    BY <1>2, <1>3, <2>3 DEF OutcomeUnderWay
  <2>4. CASE ~(b = a /\ ok)
    BY <1>4, <2>2, <2>4 DEF DeliveriesInv, DeliveredIsLogged
  <2> QED
    BY <2>3, <2>4
<1> QED
  BY <1>5, <1>6, <1>7, <1>8, <1>9, <1>10 DEF DeliveriesInv

\* The row after a retry is no longer due, and has an attempt left if it failed.
LEMMA RetriedType ==
  ASSUME NEW attempt \in Nat, attempt <= MAX_ATTEMPTS, NEW ok \in BOOLEAN
  PROVE  /\ Retried(attempt, ok) \in Row /\ Retried(attempt, ok).attempt = attempt
         /\ Retried(attempt, ok).status \in {"sent", "abandoned", "failed"}
         /\ ok => Retried(attempt, ok).status = "sent"
         /\ Retried(attempt, ok).retryAt # "never" => Retried(attempt, ok).status = "failed"
         /\ Retried(attempt, ok).status = "failed" => attempt < MAX_ATTEMPTS
<1>0. MAX_ATTEMPTS \in Nat
  BY DeliveriesAssumption
<1>1. CASE ok
  BY <1>0, <1>1 DEF Retried, Row
<1>2. CASE ~ok /\ attempt >= MAX_ATTEMPTS
  BY <1>0, <1>2 DEF Retried, Row
<1>3. CASE ~ok /\ attempt < MAX_ATTEMPTS
  BY <1>0, <1>3 DEF Retried, Row
<1> QED
  BY <1>0, <1>1, <1>2, <1>3

\* The update is excused when it overwrites another run's; otherwise the row had failed
\* at the attempt this run saw, and no run saw a later one.
LEMMA RetryUpdatesKeeps ==
  ASSUME DeliveriesInv, NEW r \in Run, RetryUpdates(r)
  PROVE  DeliveriesInv'
<1> DEFINE a == run[r].now
           left == run[r].todo \ {a}
           row == Retried(Attempt(r), run[r].ok)
           next == IF left = {} THEN Resting
                   ELSE [run[r] EXCEPT !.at = "loop", !.todo = left, !.now = "none", !.ok = FALSE]
<1>1. /\ run[r].at = "update"
      /\ delivery' = [delivery EXCEPT ![a] = row]
      /\ excused' = IF delivery[a].attempt = run[r].seen[a] THEN excused ELSE excused \cup {a}
      /\ run' = [run EXCEPT ![r] = next]
      /\ UNCHANGED <<dispatcher, hits, copies, dbFaults>>
  BY DEF RetryUpdates
<1>2. /\ run[r] \in RunRecord /\ a \in run[r].todo /\ run[r].todo \subseteq Alert /\ a \in Alert
      /\ run[r].todo \subseteq DOMAIN run[r].seen /\ Cardinality(run[r].todo) <= BATCH
      /\ delivery[a].status # "none" /\ delivery[a] \in Row /\ run[r].ok \in BOOLEAN
  BY <1>1 DEF DeliveriesInv, DeliveriesTyped, RunsHoldRows, RunRecord
<1>3. run[r].seen[a] \in Nat /\ run[r].seen[a] < MAX_ATTEMPTS /\ Attempt(r) = run[r].seen[a] + 1
  BY <1>2, SeenType DEF DeliveriesInv, RunsHoldRows, RunRecord, Attempt
<1>4. /\ row \in Row /\ row.attempt = run[r].seen[a] + 1 /\ row.status # "none"
      /\ run[r].ok => row.status = "sent"
      /\ row.retryAt # "never" => row.status = "failed"
      /\ row.status = "failed" => row.attempt < MAX_ATTEMPTS
  <2>1. Attempt(r) \in Nat /\ Attempt(r) <= MAX_ATTEMPTS
    BY <1>3, DeliveriesAssumption
  <2> QED
    BY <1>2, <1>3, <2>1, RetriedType
<1>5. /\ next \in RunRecord /\ next.todo = left /\ next.now = "none" /\ ~next.ok /\ next.at # "update"
      /\ left # {} => next.seen = run[r].seen
  BY <1>2, RestingType DEF RunRecord
<1> HIDE DEF row, next
<1>6. /\ delivery' \in [Alert -> Row] /\ delivery'[a] = row
      /\ \A b \in Alert \ {a} : delivery'[b] = delivery[b]
      /\ run' \in [Run -> RunRecord] /\ run'[r] = next /\ \A other \in Run \ {r} : run'[other] = run[other]
  BY <1>1, <1>2, <1>4, <1>5 DEF DeliveriesInv, DeliveriesTyped
<1>7. excused \subseteq excused' /\ excused' \subseteq excused \cup {a}
      /\ (a \notin excused' => delivery[a].attempt = run[r].seen[a])
  BY <1>1
<1>8. DeliveriesTyped'
  BY <1>1, <1>2, <1>6, <1>7 DEF DeliveriesInv, DeliveriesTyped
<1>9. RowsMayRetry'
  BY <1>4, <1>6 DEF DeliveriesInv, RowsMayRetry
<1>10. \A other \in Run : run[other].todo \subseteq Alert /\ run[other].todo \subseteq DOMAIN run[other].seen /\ run[other] \in RunRecord
  BY DEF DeliveriesInv, DeliveriesTyped, RunsHoldRows, RunRecord
<1>11. \A b \in Alert : delivery[b].status # "none" => delivery'[b].status # "none"
  BY <1>4, <1>6
<1>12. RunsHoldRows'
  <2>1. Cardinality(left) <= BATCH
    <3>1. IsFiniteSet(run[r].todo) /\ Cardinality(run[r].todo) \in Nat
      BY <1>2, AlertsFinite, FS_Subset, FS_CardinalityType
    <3>2. Cardinality(left) = Cardinality(run[r].todo) - 1
      BY <1>2, <3>1, FS_RemoveElement
    <3> QED
      BY <1>2, <3>1, <3>2, DeliveriesAssumption
  <2>2. /\ run'[r].todo \subseteq DOMAIN run'[r].seen
        /\ \A b \in run'[r].todo : delivery'[b].status # "none" /\ run'[r].seen[b] < MAX_ATTEMPTS
    <3>1. CASE left = {}
      BY <1>5, <1>6, <3>1
    <3>2. CASE left # {}
      BY <1>2, <1>5, <1>6, <1>11, <3>2 DEF DeliveriesInv, RunsHoldRows
    <3> QED
      BY <3>1, <3>2
  <2>3. /\ Cardinality(run'[r].todo) <= BATCH
        /\ run'[r].at = "update" <=> run'[r].now # "none"
        /\ run'[r].at = "update" => run'[r].now \in run'[r].todo
        /\ run'[r].at # "update" => ~run'[r].ok
    BY <1>5, <1>6, <2>1
  <2>4. ASSUME NEW other \in Run \ {r}
        PROVE  /\ run'[other].todo \subseteq DOMAIN run'[other].seen
               /\ Cardinality(run'[other].todo) <= BATCH
               /\ run'[other].at = "update" <=> run'[other].now # "none"
               /\ run'[other].at = "update" => run'[other].now \in run'[other].todo
               /\ run'[other].at # "update" => ~run'[other].ok
               /\ \A b \in run'[other].todo : delivery'[b].status # "none" /\ run'[other].seen[b] < MAX_ATTEMPTS
    BY <1>6, <1>10, <1>11 DEF DeliveriesInv, RunsHoldRows
  <2> QED
    BY <2>2, <2>3, <2>4 DEF RunsHoldRows
<1>13. SeenIsOlder'
  <2> SUFFICES ASSUME NEW other \in Run, NEW b \in run'[other].todo, b \notin excused'
               PROVE  \/ run'[other].seen[b] < delivery'[b].attempt
                      \/ run'[other].seen[b] = delivery'[b].attempt /\ delivery'[b].status = "failed"
    BY DEF SeenIsOlder
  <2>1. run'[other].seen = run[other].seen /\ b \in run[other].todo /\ b \in Alert /\ b \notin excused
        /\ (other = r => b # a)
    <3>1. CASE other = r
      BY <1>2, <1>5, <1>6, <1>7, <3>1
    <3>2. CASE other # r
      BY <1>6, <1>7, <1>10, <3>2
    <3> QED
      BY <3>1, <3>2
  <2>2. \/ run[other].seen[b] < delivery[b].attempt
        \/ run[other].seen[b] = delivery[b].attempt /\ delivery[b].status = "failed"
    BY <2>1 DEF DeliveriesInv, SeenIsOlder
  <2>3. CASE b # a
    BY <1>6, <2>1, <2>2, <2>3
  <2>4. CASE b = a
    <3>0. run[other].seen \in Copied /\ b \in DOMAIN run[other].seen /\ delivery[a].attempt \in Nat
      BY <1>2, <1>10, <2>1, DeliveriesAssumption DEF RunRecord, Row
    <3>1. run[other].seen[b] \in Nat /\ run[other].seen[b] <= delivery[a].attempt /\ delivery[a].attempt = run[r].seen[a]
      BY <1>7, <2>2, <2>4, <3>0, SeenType
    <3>2. run[other].seen[b] < delivery'[b].attempt
      BY <1>3, <1>4, <1>6, <2>4, <3>1
    <3> QED
      BY <2>1, <3>2
  <2> QED
    BY <2>3, <2>4
<1>14. NotReached'
  <2>1. \A i \in DOMAIN Batch : delivery[Batch[i]].status = "none" => delivery'[Batch[i]] = delivery[Batch[i]]
    BY <1>2, <1>6, AlertsByPosition
  <2> QED
    BY <1>1, <2>1 DEF DeliveriesInv, NotReached
<1>15. DeliveredIsLogged'
  <2> SUFFICES ASSUME NEW b \in Alert, copies[b] > 0, b \notin excused'
               PROVE  delivery'[b].status = "sent" \/ OutcomeUnderWay(b)'
    BY <1>1 DEF DeliveredIsLogged
  <2>1. delivery[b].status = "sent" \/ OutcomeUnderWay(b)
    BY <1>7 DEF DeliveriesInv, DeliveredIsLogged
  <2>2. CASE b # a
    <3>1. OutcomeUnderWay(b) => OutcomeUnderWay(b)'
      BY <1>1, <1>6, <2>2 DEF OutcomeUnderWay, Current
    <3> QED
      BY <1>6, <2>1, <2>2, <3>1
  <2>3. CASE b = a
    \* The row had failed, so the message is under way: by this run or by another.
    <3>1. delivery[a].status = "failed"
      BY <1>2, <1>3, <1>7, <2>3 DEF DeliveriesInv, SeenIsOlder
    <3>2. ~(dispatcher.at = "record" /\ Current = a)
      BY <1>2, AlertsByPosition DEF DeliveriesInv, DeliveriesTyped, NotReached, Current
    <3>3. PICK other \in Run : run[other].now = a /\ run[other].ok
      BY <2>1, <2>3, <3>1, <3>2 DEF OutcomeUnderWay
    <3>4. CASE other = r
      BY <1>4, <1>6, <2>3, <3>3, <3>4
    <3>5. CASE other # r
      BY <1>6, <2>3, <3>3, <3>5 DEF OutcomeUnderWay
    <3> QED
      BY <3>4, <3>5
  <2> QED
    BY <2>2, <2>3
<1> QED
  BY <1>8, <1>9, <1>12, <1>13, <1>14, <1>15 DEF DeliveriesInv

LEMMA RetryDiesKeeps ==
  ASSUME DeliveriesInv, NEW r \in Run, RetryDies(r)
  PROVE  DeliveriesInv'
<1>1. /\ dbFaults < MaxDbFaults /\ dbFaults' = dbFaults + 1
      /\ excused' = excused \cup ({run[r].now} \cap Alert)
      /\ run' = [run EXCEPT ![r] = Resting]
      /\ UNCHANGED <<dispatcher, hits, delivery, copies>>
  BY DEF RetryDies
<1>2. run' \in [Run -> RunRecord] /\ run'[r] = Resting /\ \A other \in Run \ {r} : run'[other] = run[other]
  BY <1>1, RestingType DEF DeliveriesInv, DeliveriesTyped
<1>3. DeliveriesTyped'
  <2>1. dbFaults' \in 0 .. MaxDbFaults
    BY <1>1, DeliveriesAssumption DEF DeliveriesInv, DeliveriesTyped
  <2> QED
    BY <1>1, <1>2, <2>1 DEF DeliveriesInv, DeliveriesTyped
<1>4. RowsMayRetry' /\ NotReached'
  BY <1>1 DEF DeliveriesInv, RowsMayRetry, NotReached
<1>5. RunsHoldRows'
  <2>1. Cardinality({}) <= BATCH
    BY FS_EmptySet, DeliveriesAssumption
  <2> QED
    BY <1>1, <1>2, <2>1, RestingType DEF DeliveriesInv, RunsHoldRows
<1>6. SeenIsOlder'
  BY <1>1, <1>2, RestingType DEF DeliveriesInv, SeenIsOlder
<1>7. DeliveredIsLogged'
  BY <1>1, <1>2 DEF DeliveriesInv, DeliveredIsLogged, OutcomeUnderWay, Current
<1> QED
  BY <1>3, <1>4, <1>5, <1>6, <1>7 DEF DeliveriesInv

LEMMA DeliveriesStep == DeliveriesInv /\ [DeliveriesNext]_deliveryVars => DeliveriesInv'
<1> SUFFICES ASSUME DeliveriesInv, [DeliveriesNext]_deliveryVars PROVE DeliveriesInv'
  OBVIOUS
<1>1. CASE UNCHANGED deliveryVars
  BY <1>1 DEF deliveryVars, DeliveriesInv, DeliveriesTyped, RowsMayRetry, RunsHoldRows, NotReached, SeenIsOlder,
              DeliveredIsLogged, OutcomeUnderWay, Current
<1>2. CASE Dispatch
  BY <1>2, DecidesKeeps, DispatchesKeeps, WindowEndsKeeps, RecordsDeliveryKeeps, RecordFailsKeeps, DispatchDiesKeeps
     DEF Dispatch
<1>3. ASSUME NEW a \in Alert, BackoffEnds(a) PROVE DeliveriesInv'
  BY <1>3, BackoffEndsKeeps
<1>4. ASSUME NEW r \in Run, Retry(r) \/ RetryDies(r) PROVE DeliveriesInv'
  BY <1>4, RetrySelectsKeeps, RetrySendsKeeps, RetryUpdatesKeeps, RetryDiesKeeps DEF Retry
<1> QED
  BY <1>1, <1>2, <1>3, <1>4 DEF DeliveriesNext

\* The loop and the job keep to their types: no more attempts than MAX_ATTEMPTS, no more
\* rows a run than BATCH, and a retry time on failed rows only.
THEOREM DeliveriesAreTyped == DeliveriesSpec => []DeliveriesTypeOK
<1>1. DeliveriesInv => DeliveriesTypeOK
  <2> SUFFICES ASSUME DeliveriesInv PROVE DeliveriesTypeOK
    OBVIOUS
  <2>1. \A a \in Alert : delivery[a] \in Row
    BY DEF DeliveriesInv, DeliveriesTyped
  <2> QED
    BY <2>1 DEF DeliveriesInv, DeliveriesTyped, RowsMayRetry, RunsHoldRows, DeliveriesTypeOK, Row
<1> QED
  BY <1>1, DeliveriesStart, DeliveriesStep, PTL DEF DeliveriesSpec

\* For any batch, any overlapping runs and any faults: a message its recipient got is
\* logged as sent or about to be, unless a fault lost the outcome or an overlapping run
\* overwrote it.
THEOREM DeliveredIsInTheLog == DeliveriesSpec => []DeliveredIsLogged
<1>1. DeliveriesInv => DeliveredIsLogged
  BY DEF DeliveriesInv
<1> QED
  BY <1>1, DeliveriesStart, DeliveriesStep, PTL DEF DeliveriesSpec

-----------------------------------------------------------------------------
(* The run on deliveries, webhooks, phone, bus and wire protocols together. *)

\* Whichever part moves in the run, each part sees a step of its own or a stutter: what
\* is proved of the retry job, the webhooks, the phone's queue, the bus and a device's
\* connection holds in the run.
THEOREM BackgroundKeepsItsSpecs ==
  Spec => DeliveriesSpec /\ WebhooksSpec /\ MobileSpec /\ RealtimeSpec /\ FramingSpec
<1>1. Init => DeliveriesInit /\ WebhooksInit /\ MobileInit /\ RealtimeInit /\ FramingInit
  BY DEF Init
<1>2. [Next]_vars => /\ [DeliveriesNext]_deliveryVars /\ [WebhooksNext]_hookVars
                     /\ [MobileNext]_mobileVars /\ [RealtimeNext]_busVars /\ [FramingNext]_conn
  BY DEF Next, vars, OnlyDeliveries, OnlyWebhooks, OnlyMobile, OnlyRealtime, OnlyFraming
<1> QED
  BY <1>1, <1>2, PTL DEF Spec, DeliveriesSpec, WebhooksSpec, MobileSpec, RealtimeSpec, FramingSpec

\* The type invariant of the run is that of its parts.
THEOREM BackgroundIsTyped == Spec => []BackgroundTypeOK
  BY BackgroundKeepsItsSpecs, DeliveriesAreTyped, WebhooksAreTyped, MobileIsTyped,
     RealtimeIsTyped, FramingIsTyped, PTL DEF BackgroundTypeOK

\* In the run as a whole, for any alerts, hooks, phones, streams and devices: a message
\* its recipient got is logged, unless its outcome was lost or overwritten; an event is posted
\* again after its answer only when a counter could not be updated; a fix is lost only
\* where the phone's queue gives it up; a stream shows its tenant's events in order; and
\* a device's frames survive however the network cuts them, but for a Teltonika login
\* still under way when an IMEI is restored.
THEOREM BackgroundIsSafe ==
  Spec => [](DeliveredIsLogged /\ OutcomeCounted /\ FixLossIsExplained /\ StreamFaithful /\ FramesSurvive)
  BY BackgroundKeepsItsSpecs, DeliveredIsInTheLog, OutcomeCountedOnce, FixLossHasReason,
     StreamIsFaithful, FramesAlwaysSurvive, PTL

=============================================================================
