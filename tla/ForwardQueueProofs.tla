------------------------- MODULE ForwardQueueProofs -------------------------
(***************************************************************************)
(* Proofs about ForwardQueue for every number of messages, devices, slots  *)
(* and attempts: the counters are exact, the bounds hold, a drain answer   *)
(* is final, and every step is a step of BoundedForwarder.                 *)
(***************************************************************************)
EXTENDS ForwardQueue, FiniteSetTheorems, FunctionTheorems, SequenceTheorems, TLAPS

Phase == {"new", "queued", "sending", "backoff", "settled", "done"}

Members(q) == {q[j] : j \in 1 .. Len(q)}
Distinct(q) == \A j, l \in 1 .. Len(q) : q[j] = q[l] => j = l
LiveIn(ph) == {i \in Item : ph[i] \in {"queued", "sending", "backoff", "settled"}}
LiveOf(ph, k) == {i \in LiveIn(ph) : KeyOf[i] = k}

\* A queue, a slot counter and the phases tell the same story: each queued item
\* is in the queue once, and the counter counts the items that hold a slot.
Agree(q, busy, ph) ==
  /\ Distinct(q)
  /\ Members(q) = {i \in Item : ph[i] = "queued"}
  /\ IsFiniteSet(InSlot(ph))
  /\ busy = Cardinality(InSlot(ph))

\* Each device is charged for its live items, within its limit.
Charged ==
  \A k \in Key : perKey[k] = Cardinality(LiveOf(phase, k)) /\ perKey[k] <= PerKeyCapacity

\* An item has an outcome exactly when it is settled or gone, and a retry that
\* is due is never one attempt too many.
Progress ==
  \A i \in Item :
    /\ phase[i] \in {"new", "queued", "sending", "backoff"} <=> outcome[i] = "none"
    /\ phase[i] = "backoff" => attempt[i] < MaxAttempts

Draining ==
  \A d \in Drainer :
    /\ drain[d] # "idle" => ~accepting
    /\ drain[d] = "drained" => isDrained
    /\ drain[d] = "waiting" => ~isDrained

\* The inductive invariant.
IInv ==
  /\ TypeOK
  /\ Agree(pending, inFlight, phase)
  /\ CapacityBound
  /\ WorkConserving
  /\ Charged
  /\ Progress
  /\ Draining

-----------------------------------------------------------------------------
(* Lemmas about the operators. *)

\* The first n elements of a queue without duplicates are n items: what pump's
\* loop (lines 115-130) starts is as many items as it takes from the queue.
LEMMA PrefixCardinality ==
  ASSUME NEW q \in Seq(Item), Distinct(q), NEW n \in 0 .. Len(q)
  PROVE  /\ IsFiniteSet({q[j] : j \in 1 .. n})
         /\ Cardinality({q[j] : j \in 1 .. n}) = n
<1> DEFINE S == {q[j] : j \in 1 .. n}
           f == [j \in 1 .. n |-> q[j]]
<1>1. f \in Bijection(1 .. n, S)
  <2>1. f \in [1 .. n -> S]
    OBVIOUS
  <2>2. \A j, l \in 1 .. n : f[j] = f[l] => j = l
    BY LenProperties DEF Distinct
  <2>3. \A s \in S : \E j \in 1 .. n : f[j] = s
    OBVIOUS
  <2> QED
    BY <2>1, <2>2, <2>3 DEF Bijection, Injection, Surjection, IsInjective
<1>2. ExistsBijection(1 .. n, S)
  BY <1>1 DEF ExistsBijection
<1>3. n \in Nat
  BY LenProperties
<1>4. IsFiniteSet(S)
  BY <1>2, <1>3, FS_NatBijection
<1>5. Cardinality(S) = n
  BY <1>2, <1>3, FS_CountingElements
<1> QED
  BY <1>4, <1>5

\* Queue and slots together hold the live items, each once: this is what makes
\* pending.length + inFlight the right side of the test in enqueue (line 69).
LEMMA LiveCardinality ==
  ASSUME NEW q \in Seq(Item), NEW busy, NEW ph \in [Item -> Phase], Agree(q, busy, ph)
  PROVE  /\ IsFiniteSet(LiveIn(ph))
         /\ Cardinality(LiveIn(ph)) = Len(q) + busy
<1> DEFINE Q == {q[j] : j \in 1 .. Len(q)}
<1>1. IsFiniteSet(Q) /\ Cardinality(Q) = Len(q)
  <2>1. Len(q) \in 0 .. Len(q) /\ Distinct(q)
    BY LenProperties DEF Agree
  <2> QED
    BY <2>1, PrefixCardinality, Zenon
<1>2. LiveIn(ph) = Q \cup InSlot(ph)
  BY DEF Agree, Members, LiveIn, InSlot
<1>3. Q \cap InSlot(ph) = {}
  BY DEF Agree, Members, InSlot
<1>4. /\ IsFiniteSet(Q \cup InSlot(ph))
      /\ Cardinality(Q \cup InSlot(ph))
           = Cardinality(Q) + Cardinality(InSlot(ph)) - Cardinality(Q \cap InSlot(ph))
  BY <1>1, FS_Union DEF Agree
<1>5. Cardinality(Q \cap InSlot(ph)) = 0
  BY <1>3, FS_EmptySet
<1>6. Len(q) \in Nat /\ busy \in Nat /\ busy = Cardinality(InSlot(ph))
  BY FS_CardinalityType, LenProperties DEF Agree
<1>7. Cardinality(LiveIn(ph)) = Len(q) + busy - 0
  BY <1>1, <1>2, <1>4, <1>5, <1>6, Zenon
<1> QED
  BY <1>2, <1>4, <1>6, <1>7

\* How many items pump starts: none beyond the queue or the concurrency, and it
\* stops only when one of the two is exhausted.
LEMMA RoomProperties ==
  ASSUME NEW q \in Seq(Item), NEW busy \in Nat, busy <= Concurrency
  PROVE  /\ Room(q, busy) \in 0 .. Len(q)
         /\ busy + Room(q, busy) <= Concurrency
         /\ Room(q, busy) < Len(q) => busy + Room(q, busy) = Concurrency
BY OptionsAssumption, LenProperties DEF Room

\* What pump leaves in the queue is the rest of it, in order.
LEMMA SuffixProperties ==
  ASSUME NEW q \in Seq(Item), NEW n \in 0 .. Len(q)
  PROVE  /\ SubSeq(q, n + 1, Len(q)) \in Seq(Item)
         /\ Len(SubSeq(q, n + 1, Len(q))) = Len(q) - n
         /\ \A j \in 1 .. Len(q) - n : SubSeq(q, n + 1, Len(q))[j] = q[n + j]
<1> DEFINE m == n + 1
           len == Len(q)
<1>1. len \in Nat /\ m \in Nat /\ n \in Nat /\ m = n + 1 /\ n <= len
  BY LenProperties
<1>2. \A i \in m .. len : q[i] \in Item
  <2> TAKE i \in m .. len
  <2>1. i \in 1 .. Len(q)
    BY <1>1
  <2> QED
    BY <2>1, ElementOfSeq
<1> HIDE DEF m, len
<1>3. /\ SubSeq(q, m, len) \in Seq(Item)
      /\ Len(SubSeq(q, m, len)) = IF m <= len THEN len - m + 1 ELSE 0
      /\ \A i \in 1 .. len - m + 1 : SubSeq(q, m, len)[i] = q[m + i - 1]
  BY <1>1, <1>2, SubSeqProperties
<1>4. Len(SubSeq(q, m, len)) = len - n
  BY <1>1, <1>3
<1>5. ASSUME NEW j \in 1 .. len - n
      PROVE  SubSeq(q, m, len)[j] = q[n + j]
  <2>1. j \in 1 .. len - m + 1 /\ m + j - 1 = n + j
    BY <1>1
  <2>2. SubSeq(q, m, len)[j] = q[m + j - 1]
    BY <1>3, <2>1
  <2> QED
    BY <2>1, <2>2
<1> QED
  BY <1>3, <1>4, <1>5 DEF m, len

\* Everything pump (lines 115-130) does to a consistent queue: it stays
\* consistent, nothing is lost or counted twice, and no item waits beside a free
\* slot.
LEMMA PumpProperties ==
  ASSUME NEW q \in Seq(Item), NEW busy \in Nat, NEW ph \in [Item -> Phase],
         attempt \in [Item -> 0 .. MaxAttempts], accepting \in BOOLEAN,
         busy <= Concurrency, Agree(q, busy, ph), pump(q, busy, ph)
  PROVE  /\ pending' \in Seq(Item)
         /\ inFlight' \in Nat
         /\ phase' \in [Item -> Phase]
         /\ attempt' \in [Item -> 0 .. MaxAttempts]
         /\ health' \in [accepting : BOOLEAN, depth : Nat]
         /\ Agree(pending', inFlight', phase')
         /\ Len(pending') + inFlight' = Len(q) + busy
         /\ inFlight' <= Concurrency
         /\ pending' # <<>> => inFlight' = Concurrency
         /\ LiveIn(phase') = LiveIn(ph)
         /\ \A i \in Item : ph[i] # "queued" => phase'[i] = ph[i] /\ attempt'[i] = attempt[i]
         /\ \A i \in Item : ph[i] = "queued" => phase'[i] \in {"queued", "sending"}
<1> DEFINE n == Room(q, busy)
           started == {q[j] : j \in 1 .. n}
           rest == SubSeq(q, n + 1, Len(q))
<1>1. /\ pending' = rest
      /\ inFlight' = busy + n
      /\ phase' = [i \in Item |-> IF i \in started THEN "sending" ELSE ph[i]]
      /\ attempt' = [i \in Item |-> IF i \in started THEN 1 ELSE attempt[i]]
      /\ health' = [accepting |-> accepting, depth |-> Len(q) - n]
  BY Zenon DEF pump
<1>2. /\ n \in 0 .. Len(q)
      /\ busy + n <= Concurrency
      /\ n < Len(q) => busy + n = Concurrency
  BY RoomProperties
<1>3. Len(q) \in Nat /\ \A j \in 1 .. Len(q) : q[j] \in Item
  BY LenProperties, ElementOfSeq
<1>4. n \in Nat /\ Len(q) - n \in Nat
  BY <1>2, <1>3
<1> HIDE DEF n
<1>5. /\ rest \in Seq(Item)
      /\ Len(rest) = Len(q) - n
      /\ \A j \in 1 .. Len(q) - n : rest[j] = q[n + j]
  BY <1>2, SuffixProperties, Zenon
<1>6. started \subseteq {i \in Item : ph[i] = "queued"}
  BY <1>2, <1>3 DEF Agree, Members
<1>7. IsFiniteSet(started) /\ Cardinality(started) = n
  <2>1. Distinct(q)
    BY DEF Agree
  <2> QED
    BY <2>1, <1>2, PrefixCardinality, Zenon
<1> HIDE DEF rest
<1>8. Distinct(rest)
  <2> SUFFICES ASSUME NEW j \in 1 .. Len(rest), NEW l \in 1 .. Len(rest), rest[j] = rest[l]
               PROVE  j = l
    BY DEF Distinct
  <2>1. j \in 1 .. Len(q) - n /\ l \in 1 .. Len(q) - n
    BY <1>5
  <2>2. n + j \in 1 .. Len(q) /\ n + l \in 1 .. Len(q)
    BY <2>1, <1>3, <1>4
  <2>3. q[n + j] = q[n + l]
    BY <2>1, <1>5
  <2>4. n + j = n + l
    BY <2>2, <2>3 DEF Agree, Distinct
  <2> QED
    BY <2>4, <1>4
<1>9. Members(rest) = Members(q) \ started
  <2>1. ASSUME NEW x \in Members(rest) PROVE x \in Members(q) \ started
    <3>1. PICK j \in 1 .. Len(rest) : x = rest[j]
      BY DEF Members
    <3>2. n + j \in 1 .. Len(q) /\ x = q[n + j]
      BY <3>1, <1>3, <1>4, <1>5
    <3>3. x \notin started
      <4> SUFFICES ASSUME NEW l \in 1 .. n, x = q[l] PROVE FALSE
        OBVIOUS
      <4>1. l \in 1 .. Len(q)
        BY <1>2, <1>3
      <4>2. l = n + j
        BY <3>2, <4>1 DEF Agree, Distinct
      <4> QED
        BY <4>2, <1>4
    <3> QED
      BY <3>2, <3>3 DEF Members
  <2>2. ASSUME NEW x \in Members(q) \ started PROVE x \in Members(rest)
    <3>1. PICK j \in 1 .. Len(q) : x = q[j]
      BY DEF Members
    <3>2. j \notin 1 .. n
      BY <3>1
    <3>3. j - n \in 1 .. Len(rest) /\ n + (j - n) = j
      BY <3>2, <1>3, <1>4, <1>5
    <3>4. rest[j - n] = q[n + (j - n)]
      BY <3>3, <1>5
    <3>5. rest[j - n] = x
      BY <3>1, <3>3, <3>4
    <3> QED
      BY <3>3, <3>5 DEF Members
  <2> QED
    BY <2>1, <2>2
<1> HIDE DEF started
<1>10. InSlot(phase') = InSlot(ph) \cup started
  BY <1>1, <1>6 DEF InSlot
<1>11. InSlot(ph) \cap started = {}
  BY <1>6 DEF InSlot
<1>12. /\ IsFiniteSet(InSlot(phase'))
       /\ Cardinality(InSlot(phase')) = busy + n
  <2>1. /\ IsFiniteSet(InSlot(ph) \cup started)
        /\ Cardinality(InSlot(ph) \cup started)
             = Cardinality(InSlot(ph)) + Cardinality(started) - Cardinality(InSlot(ph) \cap started)
    BY <1>7, FS_Union DEF Agree
  <2>2. Cardinality(InSlot(ph) \cap started) = 0
    BY <1>11, FS_EmptySet
  <2>3. Cardinality(InSlot(ph)) = busy
    BY DEF Agree
  <2> QED
    BY <2>1, <2>2, <2>3, <1>7, <1>10, <1>4
<1>13. Members(rest) = {i \in Item : phase'[i] = "queued"}
  BY <1>1, <1>6, <1>9 DEF Agree
<1>14. Agree(pending', inFlight', phase')
  BY <1>1, <1>8, <1>12, <1>13 DEF Agree
<1>15. attempt' \in [Item -> 0 .. MaxAttempts]
  BY <1>1, OptionsAssumption
<1>16. LiveIn(phase') = LiveIn(ph)
  BY <1>1, <1>6 DEF LiveIn
<1>17. phase' \in [Item -> Phase]
  BY <1>1 DEF Phase
<1>18. health' \in [accepting : BOOLEAN, depth : Nat]
  BY <1>1, <1>4
<1>19. pending' # <<>> => inFlight' = Concurrency
  <2>1. ASSUME pending' # <<>> PROVE n < Len(q)
    BY <2>1, <1>1, <1>3, <1>4, <1>5, EmptySeq, SeqEqual
  <2> QED
    BY <2>1, <1>1, <1>2
<1>20. Len(pending') + inFlight' = Len(q) + busy
  BY <1>1, <1>3, <1>4, <1>5
<1>21. \A i \in Item : ph[i] # "queued" => phase'[i] = ph[i] /\ attempt'[i] = attempt[i]
  BY <1>1, <1>6
<1>22. \A i \in Item : ph[i] = "queued" => phase'[i] \in {"queued", "sending"}
  BY <1>1
<1>23. inFlight' \in Nat /\ inFlight' <= Concurrency
  BY <1>1, <1>2, <1>4
<1>24. pending' \in Seq(Item)
  BY <1>1, <1>5
<1> QED
  BY <1>14, <1>15, <1>16, <1>17, <1>18, <1>19, <1>20, <1>21, <1>22, <1>23, <1>24

-----------------------------------------------------------------------------
(* The invariant. *)

\* What an item that keeps its phase class leaves alone: a step that changes
\* only phases, outcomes and attempts, and moves no item into or out of the
\* queue, a slot or the live items, keeps every counter exact.
LEMMA SamePlaces ==
  ASSUME IInv, phase' \in [Item -> Phase],
         UNCHANGED <<pending, inFlight, perKey>>,
         InSlot(phase') = InSlot(phase),
         \A i \in Item : phase'[i] = "queued" <=> phase[i] = "queued"
  PROVE  /\ Agree(pending', inFlight', phase')
         /\ CapacityBound' /\ WorkConserving' /\ Charged'
<1>1. {i \in Item : phase'[i] = "queued"} = {i \in Item : phase[i] = "queued"}
  OBVIOUS
<1>2. Agree(pending', inFlight', phase')
  BY <1>1 DEF IInv, Agree
<1>3. LiveIn(phase') = LiveIn(phase)
  BY DEF LiveIn, InSlot
<1>4. Charged'
  BY <1>3 DEF IInv, Charged, LiveOf
<1> QED
  BY <1>2, <1>4 DEF IInv, CapacityBound, WorkConserving

\* An empty queue with its hooks just installed (lines 44-48 and 64) satisfies the
\* inductive invariant.
LEMMA InitIInv == Init => IInv
<1> SUFFICES ASSUME Init PROVE IInv
  OBVIOUS
<1>1. pending = <<>> /\ Len(pending) = 0 /\ pending \in Seq(Item)
  BY DEF Init
<1>2. InSlot(phase) = {} /\ LiveIn(phase) = {} /\ {i \in Item : phase[i] = "queued"} = {}
  BY DEF Init, InSlot, LiveIn
<1>3. IsFiniteSet({}) /\ Cardinality({}) = 0
  BY FS_EmptySet
<1>4. TypeOK
  BY <1>1, OptionsAssumption DEF Init, TypeOK
<1>5. Agree(pending, inFlight, phase)
  <2>1. Distinct(pending) /\ Members(pending) = {}
    BY <1>1 DEF Distinct, Members
  <2>2. inFlight = 0
    BY DEF Init
  <2>3. IsFiniteSet(InSlot(phase)) /\ Cardinality(InSlot(phase)) = 0
    BY <1>2, <1>3, Zenon
  <2> QED
    BY <1>2, <2>1, <2>2, <2>3, Zenon DEF Agree
<1>6. CapacityBound /\ WorkConserving
  BY <1>1, OptionsAssumption DEF Init, CapacityBound, WorkConserving
<1>7. Charged
  <2>1. \A k \in Key : LiveOf(phase, k) = {}
    BY <1>2 DEF LiveOf
  <2>2. \A k \in Key : Cardinality(LiveOf(phase, k)) = 0
    BY <2>1, <1>3, Zenon
  <2> QED
    BY <2>2, OptionsAssumption DEF Init, Charged
<1>8. Progress /\ Draining
  BY DEF Init, Progress, Draining
<1> QED
  BY <1>4, <1>5, <1>6, <1>7, <1>8 DEF IInv

\* A message that enqueue sheds (lines 68-72) touches no counter.
LEMMA DropStep ==
  ASSUME IInv, NEW i \in Item, drop(i)
  PROVE  IInv'
<1> USE DEF drop
<1>1. TypeOK'
  <2>1. outcome' \in [Item -> {"none", "succeeded", "failed"} \cup DropReason]
    BY DEF IInv, TypeOK
  <2>2. phase' \in [Item -> Phase]
    BY DEF IInv, TypeOK, Phase
  <2> QED
    BY <2>1, <2>2 DEF IInv, TypeOK, Phase
<1>2. InSlot(phase') = InSlot(phase) /\ \A x \in Item : phase'[x] = "queued" <=> phase[x] = "queued"
  BY DEF IInv, TypeOK, InSlot
<1>3. Agree(pending', inFlight', phase') /\ CapacityBound' /\ WorkConserving' /\ Charged'
  BY <1>1, <1>2, SamePlaces DEF TypeOK, Phase
<1>4. Progress'
  BY DEF IInv, TypeOK, Progress, DropReason
<1>5. Draining'
  BY DEF IInv, Draining, isDrained
<1> QED
  BY <1>1, <1>3, <1>4, <1>5 DEF IInv

\* A run that returns after a successful send (lines 138-140) still holds its slot
\* and is still charged to its device.
LEMMA SendSucceedsStep ==
  ASSUME IInv, NEW i \in Item, sendSucceeds(i)
  PROVE  IInv'
<1> USE DEF sendSucceeds
<1>1. TypeOK'
  BY DEF IInv, TypeOK
<1>2. InSlot(phase') = InSlot(phase) /\ \A x \in Item : phase'[x] = "queued" <=> phase[x] = "queued"
  BY DEF IInv, TypeOK, InSlot
<1>3. Agree(pending', inFlight', phase') /\ CapacityBound' /\ WorkConserving' /\ Charged'
  BY <1>1, <1>2, SamePlaces DEF TypeOK, Phase
<1>4. Progress'
  BY DEF IInv, TypeOK, Progress
<1>5. Draining'
  BY DEF IInv, Draining, isDrained
<1> QED
  BY <1>1, <1>3, <1>4, <1>5 DEF IInv

\* A failed attempt (lines 141-149) keeps its slot, whether it gives up or waits for
\* the next one; it never waits for an attempt beyond maxAttempts.
LEMMA SendFailsStep ==
  ASSUME IInv, NEW i \in Item, NEW retryable \in BOOLEAN, sendFails(i, retryable)
  PROVE  IInv'
<1> USE DEF sendFails
<1>1. TypeOK'
  BY DEF IInv, TypeOK
<1>2. InSlot(phase') = InSlot(phase) /\ \A x \in Item : phase'[x] = "queued" <=> phase[x] = "queued"
  BY DEF IInv, TypeOK, InSlot
<1>3. Agree(pending', inFlight', phase') /\ CapacityBound' /\ WorkConserving' /\ Charged'
  BY <1>1, <1>2, SamePlaces DEF TypeOK, Phase
<1>4. Progress'
  <2>1. attempt[i] \in 0 .. MaxAttempts /\ MaxAttempts \in Nat
    BY OptionsAssumption DEF IInv, TypeOK
  <2> QED
    BY <2>1 DEF IInv, TypeOK, Progress
<1>5. Draining'
  BY DEF IInv, Draining, isDrained
<1> QED
  BY <1>1, <1>3, <1>4, <1>5 DEF IInv

\* The next attempt (line 134) starts in the slot of the one before.
LEMMA RetryStep ==
  ASSUME IInv, NEW i \in Item, retry(i)
  PROVE  IInv'
<1> USE DEF retry
<1>1. TypeOK'
  <2>1. attempt[i] \in 0 .. MaxAttempts /\ attempt[i] < MaxAttempts /\ MaxAttempts \in Nat
    BY OptionsAssumption DEF IInv, TypeOK, Progress
  <2>2. attempt[i] + 1 \in 0 .. MaxAttempts
    BY <2>1
  <2> QED
    BY <2>2 DEF IInv, TypeOK
<1>2. InSlot(phase') = InSlot(phase) /\ \A x \in Item : phase'[x] = "queued" <=> phase[x] = "queued"
  BY DEF IInv, TypeOK, InSlot
<1>3. Agree(pending', inFlight', phase') /\ CapacityBound' /\ WorkConserving' /\ Charged'
  BY <1>1, <1>2, SamePlaces DEF TypeOK, Phase
<1>4. Progress'
  BY DEF IInv, TypeOK, Progress
<1>5. Draining'
  BY DEF IInv, Draining, isDrained
<1> QED
  BY <1>1, <1>3, <1>4, <1>5 DEF IInv

\* closeAndDrain (lines 91-108) answers or registers its caller by what is left.
LEMMA CloseStep ==
  ASSUME IInv, NEW d \in Drainer, closeAndDrain(d)
  PROVE  IInv'
<1> USE DEF closeAndDrain
<1>1. TypeOK'
  BY LenProperties DEF IInv, TypeOK
<1>2. /\ Agree(pending', inFlight', phase') /\ CapacityBound' /\ WorkConserving'
      /\ Charged' /\ Progress'
  BY DEF IInv, Agree, CapacityBound, WorkConserving, Charged, Progress
<1>3. Draining'
  BY DEF IInv, TypeOK, Draining, isDrained
<1> QED
  BY <1>1, <1>2, <1>3 DEF IInv

\* The drain timer (line 105) changes an answer and nothing else.
LEMMA DrainTimeoutStep ==
  ASSUME IInv, NEW d \in Drainer, drainTimeout(d)
  PROVE  IInv'
<1> USE DEF drainTimeout
<1>1. TypeOK'
  BY DEF IInv, TypeOK
<1>2. /\ Agree(pending', inFlight', phase') /\ CapacityBound' /\ WorkConserving'
      /\ Charged' /\ Progress'
  BY DEF IInv, Agree, CapacityBound, WorkConserving, Charged, Progress
<1>3. Draining'
  BY DEF IInv, TypeOK, Draining, isDrained
<1> QED
  BY <1>1, <1>2, <1>3 DEF IInv

\* An accepted message (lines 74-79) was within both limits, is charged to its
\* device once, and leaves no slot free beside it.
LEMMA EnqueueStep ==
  ASSUME IInv, NEW i \in Item, enqueue(i)
  PROVE  IInv'
<1> DEFINE q == Append(pending, i)
           ph == [phase EXCEPT ![i] = "queued"]
<1>1. /\ phase[i] = "new" /\ accepting /\ ~Saturated
      /\ perKey[KeyOf[i]] < PerKeyCapacity
      /\ perKey' = [perKey EXCEPT ![KeyOf[i]] = @ + 1]
      /\ pump(q, inFlight, ph)
      /\ UNCHANGED <<accepting, outcome, drain>>
  BY Zenon DEF enqueue
<1>2. TypeOK /\ pending \in Seq(Item) /\ Len(pending) \in Nat /\ inFlight \in Nat
  BY LenProperties DEF IInv, TypeOK
<1>3. phase \in [Item -> Phase] /\ ph \in [Item -> Phase]
  BY <1>2 DEF TypeOK, Phase
<1>4. /\ q \in Seq(Item) /\ Len(q) = Len(pending) + 1
      /\ \A j \in 1 .. Len(pending) : q[j] = pending[j]
      /\ q[Len(pending) + 1] = i
  BY <1>2, AppendProperties
<1>5. Members(pending) = {x \in Item : phase[x] = "queued"} /\ Distinct(pending)
  BY DEF IInv, Agree
<1> HIDE DEF q
<1>6. \A j \in 1 .. Len(pending) : pending[j] # i
  BY <1>1, <1>5 DEF Members
<1>7. Distinct(q)
  <2> SUFFICES ASSUME NEW j \in 1 .. Len(q), NEW l \in 1 .. Len(q), q[j] = q[l]
               PROVE  j = l
    BY DEF Distinct
  <2>1. j \in 1 .. Len(pending) \/ j = Len(pending) + 1
    BY <1>2, <1>4
  <2>2. l \in 1 .. Len(pending) \/ l = Len(pending) + 1
    BY <1>2, <1>4
  <2> QED
    BY <2>1, <2>2, <1>4, <1>5, <1>6 DEF Distinct
<1>8. Members(q) = Members(pending) \cup {i}
  <2>1. \A x : x \in Members(q) => x \in Members(pending) \cup {i}
    <3> TAKE x
    <3> HAVE x \in Members(q)
    <3>1. PICK j \in 1 .. Len(q) : x = q[j]
      BY DEF Members
    <3>2. j \in 1 .. Len(pending) \/ j = Len(pending) + 1
      BY <1>2, <1>4
    <3> QED
      BY <3>1, <3>2, <1>4 DEF Members
  <2>2. \A x \in Members(pending) : x \in Members(q)
    <3> TAKE x \in Members(pending)
    <3>1. PICK j \in 1 .. Len(pending) : x = pending[j]
      BY DEF Members
    <3>2. j \in 1 .. Len(q) /\ q[j] = x
      BY <3>1, <1>2, <1>4
    <3> QED
      BY <3>2 DEF Members
  <2>3. i \in Members(q)
    <3>1. Len(pending) + 1 \in 1 .. Len(q)
      BY <1>2, <1>4
    <3> QED
      BY <3>1, <1>4 DEF Members
  <2> QED
    BY <2>1, <2>2, <2>3
<1>9. InSlot(ph) = InSlot(phase)
  BY <1>1, <1>3 DEF InSlot
<1>10. Agree(q, inFlight, ph)
  <2>1. Members(q) = {x \in Item : ph[x] = "queued"}
    BY <1>3, <1>5, <1>8
  <2> QED
    BY <2>1, <1>7, <1>9 DEF IInv, Agree
<1>11. inFlight <= Concurrency /\ Len(pending) + inFlight < Capacity
  BY <1>1, <1>2, OptionsAssumption DEF IInv, CapacityBound, Saturated
<1>12. attempt \in [Item -> 0 .. MaxAttempts] /\ accepting \in BOOLEAN
  BY <1>2 DEF TypeOK
<1> HIDE DEF ph
<1>13. /\ pending' \in Seq(Item)
       /\ inFlight' \in Nat
       /\ phase' \in [Item -> Phase]
       /\ attempt' \in [Item -> 0 .. MaxAttempts]
       /\ health' \in [accepting : BOOLEAN, depth : Nat]
       /\ Agree(pending', inFlight', phase')
       /\ Len(pending') + inFlight' = Len(q) + inFlight
       /\ inFlight' <= Concurrency
       /\ pending' # <<>> => inFlight' = Concurrency
       /\ LiveIn(phase') = LiveIn(ph)
       /\ \A x \in Item : ph[x] # "queued" => phase'[x] = ph[x] /\ attempt'[x] = attempt[x]
       /\ \A x \in Item : ph[x] = "queued" => phase'[x] \in {"queued", "sending"}
  <2>1. q \in Seq(Item) /\ inFlight \in Nat /\ inFlight <= Concurrency
    BY <1>2, <1>4, <1>11
  <2>2. pump(q, inFlight, ph)
    BY <1>1
  <2> QED
    BY <2>1, <2>2, <1>3, <1>10, <1>12, PumpProperties, Zenon
<1>14. TypeOK'
  <2>1. perKey' \in [Key -> Nat]
    BY <1>1, <1>2, OptionsAssumption DEF TypeOK
  <2> QED
    BY <2>1, <1>1, <1>2, <1>13 DEF TypeOK, Phase
<1>15. CapacityBound' /\ WorkConserving'
  BY <1>2, <1>4, <1>11, <1>13, OptionsAssumption DEF CapacityBound, WorkConserving
<1>16. Charged'
  <2>1. IsFiniteSet(LiveIn(phase))
    BY <1>2, <1>3, LiveCardinality DEF IInv
  <2>2. LiveIn(phase') = LiveIn(phase) \cup {i} /\ i \notin LiveIn(phase)
    BY <1>1, <1>3, <1>13 DEF LiveIn, ph
  <2> SUFFICES ASSUME NEW k \in Key
               PROVE  perKey'[k] = Cardinality(LiveOf(phase', k)) /\ perKey'[k] <= PerKeyCapacity
    BY DEF Charged
  <2>3. IsFiniteSet(LiveOf(phase, k))
    BY <2>1, FS_Subset DEF LiveOf
  <2>4. perKey[k] = Cardinality(LiveOf(phase, k)) /\ perKey[k] <= PerKeyCapacity /\ perKey[k] \in Nat
    BY <1>2 DEF IInv, Charged, TypeOK
  <2>5. CASE k = KeyOf[i]
    <3>1. LiveOf(phase', k) = LiveOf(phase, k) \cup {i} /\ i \notin LiveOf(phase, k)
      BY <2>2, <2>5 DEF LiveOf
    <3>2. Cardinality(LiveOf(phase', k)) = Cardinality(LiveOf(phase, k)) + 1
      BY <2>3, <3>1, FS_AddElement
    <3>3. perKey'[k] = perKey[k] + 1
      BY <1>1, <1>2, <2>5 DEF TypeOK
    <3>4. perKey[k] < PerKeyCapacity
      BY <1>1, <2>5
    <3> QED
      BY <2>4, <3>2, <3>3, <3>4, OptionsAssumption
  <2>6. CASE k # KeyOf[i]
    <3>1. LiveOf(phase', k) = LiveOf(phase, k)
      BY <2>2, <2>6 DEF LiveOf
    <3>2. perKey'[k] = perKey[k]
      BY <1>1, <1>2, <2>6 DEF TypeOK
    <3> QED
      BY <2>4, <3>1, <3>2
  <2> QED
    BY <2>5, <2>6
<1>17. Progress'
  <2> SUFFICES ASSUME NEW x \in Item
               PROVE  /\ phase'[x] \in {"new", "queued", "sending", "backoff"} <=> outcome'[x] = "none"
                      /\ phase'[x] = "backoff" => attempt'[x] < MaxAttempts
    BY DEF Progress
  <2>1. /\ phase[x] \in {"new", "queued", "sending", "backoff"} <=> outcome[x] = "none"
        /\ phase[x] = "backoff" => attempt[x] < MaxAttempts
    BY DEF IInv, Progress
  <2>2. ph[x] = IF x = i THEN "queued" ELSE phase[x]
    BY <1>3 DEF ph
  <2> QED
    BY <2>1, <2>2, <1>1, <1>13
<1>18. Draining'
  BY <1>1 DEF IInv, Draining
<1> QED
  BY <1>13, <1>14, <1>15, <1>16, <1>17, <1>18 DEF IInv

\* The finally() callback (lines 120-128) gives back one slot and one unit of the
\* device, starts what fits, and answers the drainers exactly when nothing is left.
LEMMA ReleaseStep ==
  ASSUME IInv, NEW i \in Item, release(i)
  PROVE  IInv'
<1> DEFINE busy == inFlight - 1
           ph == [phase EXCEPT ![i] = "done"]
<1>1. /\ phase[i] = "settled"
      /\ perKey' = [perKey EXCEPT ![KeyOf[i]] = @ - 1]
      /\ resolveWaitersIfDrained(pending, busy)
      /\ pump(pending, busy, ph)
      /\ UNCHANGED <<accepting, outcome>>
  BY Zenon DEF release
<1>2. TypeOK /\ pending \in Seq(Item) /\ Len(pending) \in Nat /\ inFlight \in Nat
  BY LenProperties DEF IInv, TypeOK
<1>3. phase \in [Item -> Phase] /\ ph \in [Item -> Phase]
  BY <1>2 DEF TypeOK, Phase
<1>4. Agree(pending, inFlight, phase)
  BY DEF IInv
<1>5. InSlot(ph) = InSlot(phase) \ {i} /\ i \in InSlot(phase)
  BY <1>1, <1>3 DEF InSlot
<1>6. IsFiniteSet(InSlot(ph)) /\ Cardinality(InSlot(ph)) = inFlight - 1
  <2>1. IsFiniteSet(InSlot(phase)) /\ Cardinality(InSlot(phase)) = inFlight
    BY <1>4 DEF Agree
  <2> QED
    BY <1>5, <2>1, FS_RemoveElement
<1>7. busy \in Nat
  BY <1>6, FS_CardinalityType
<1>8. Agree(pending, busy, ph)
  <2>1. {x \in Item : ph[x] = "queued"} = {x \in Item : phase[x] = "queued"}
    BY <1>1, <1>3
  <2> QED
    BY <2>1, <1>4, <1>6 DEF Agree
<1>9. busy <= Concurrency /\ Len(pending) + busy < Capacity
  BY <1>2, OptionsAssumption DEF IInv, CapacityBound
<1>10. attempt \in [Item -> 0 .. MaxAttempts] /\ accepting \in BOOLEAN
  BY <1>2 DEF TypeOK
<1>11. inFlight = busy + 1
  BY <1>2
<1> HIDE DEF ph, busy
<1>12. /\ pending' \in Seq(Item)
       /\ inFlight' \in Nat
       /\ phase' \in [Item -> Phase]
       /\ attempt' \in [Item -> 0 .. MaxAttempts]
       /\ health' \in [accepting : BOOLEAN, depth : Nat]
       /\ Agree(pending', inFlight', phase')
       /\ Len(pending') + inFlight' = Len(pending) + busy
       /\ inFlight' <= Concurrency
       /\ pending' # <<>> => inFlight' = Concurrency
       /\ LiveIn(phase') = LiveIn(ph)
       /\ \A x \in Item : ph[x] # "queued" => phase'[x] = ph[x] /\ attempt'[x] = attempt[x]
       /\ \A x \in Item : ph[x] = "queued" => phase'[x] \in {"queued", "sending"}
  BY <1>1, <1>2, <1>3, <1>7, <1>8, <1>9, <1>10, PumpProperties, Zenon
<1>13. Len(pending') \in Nat
  BY <1>12, LenProperties
<1>14. CapacityBound' /\ WorkConserving'
  BY <1>2, <1>7, <1>9, <1>12, <1>13, OptionsAssumption DEF CapacityBound, WorkConserving
<1>15. Charged' /\ perKey' \in [Key -> Nat]
  <2>1. IsFiniteSet(LiveIn(phase))
    BY <1>2, <1>3, <1>4, LiveCardinality
  <2>2. LiveIn(phase') = LiveIn(phase) \ {i} /\ i \in LiveIn(phase)
    BY <1>1, <1>3, <1>12 DEF LiveIn, ph
  <2>3. ASSUME NEW k \in Key
        PROVE  /\ perKey'[k] = Cardinality(LiveOf(phase', k))
               /\ perKey'[k] <= PerKeyCapacity
               /\ perKey'[k] \in Nat
    <3>1. IsFiniteSet(LiveOf(phase, k))
      BY <2>1, FS_Subset DEF LiveOf
    <3>2. perKey[k] = Cardinality(LiveOf(phase, k)) /\ perKey[k] <= PerKeyCapacity /\ perKey[k] \in Nat
      BY <1>2 DEF IInv, Charged, TypeOK
    <3>3. CASE k = KeyOf[i]
      <4>1. LiveOf(phase', k) = LiveOf(phase, k) \ {i} /\ i \in LiveOf(phase, k)
        BY <2>2, <3>3 DEF LiveOf
      <4>2. /\ IsFiniteSet(LiveOf(phase', k))
            /\ Cardinality(LiveOf(phase', k)) = Cardinality(LiveOf(phase, k)) - 1
        BY <3>1, <4>1, FS_RemoveElement
      <4>3. Cardinality(LiveOf(phase', k)) \in Nat
        BY <4>2, FS_CardinalityType
      <4>4. perKey'[k] = perKey[k] - 1
        BY <1>1, <1>2, <3>3 DEF TypeOK
      <4> QED
        BY <3>2, <4>2, <4>3, <4>4, OptionsAssumption
    <3>4. CASE k # KeyOf[i]
      <4>1. LiveOf(phase', k) = LiveOf(phase, k)
        BY <2>2, <3>4 DEF LiveOf
      <4>2. perKey'[k] = perKey[k]
        BY <1>1, <1>2, <3>4 DEF TypeOK
      <4> QED
        BY <3>2, <4>1, <4>2
    <3> QED
      BY <3>3, <3>4
  <2>4. perKey' = [k \in Key |-> perKey'[k]]
    BY <1>1, <1>2 DEF TypeOK
  <2> QED
    BY <2>3, <2>4 DEF Charged
<1>16. drain' = [d \in Drainer |->
                  IF pending = <<>> /\ busy = 0 /\ drain[d] = "waiting" THEN "drained" ELSE drain[d]]
  BY <1>1 DEF resolveWaitersIfDrained
<1>17. TypeOK'
  <2>1. drain' \in [Drainer -> {"idle", "waiting", "drained", "timed_out"}]
    BY <1>2, <1>16 DEF TypeOK
  <2> QED
    BY <2>1, <1>1, <1>2, <1>12, <1>15 DEF TypeOK, Phase
<1>18. Progress'
  <2> SUFFICES ASSUME NEW x \in Item
               PROVE  /\ phase'[x] \in {"new", "queued", "sending", "backoff"} <=> outcome'[x] = "none"
                      /\ phase'[x] = "backoff" => attempt'[x] < MaxAttempts
    BY DEF Progress
  <2>1. /\ phase[x] \in {"new", "queued", "sending", "backoff"} <=> outcome[x] = "none"
        /\ phase[x] = "backoff" => attempt[x] < MaxAttempts
    BY DEF IInv, Progress
  <2>2. ph[x] = IF x = i THEN "done" ELSE phase[x]
    BY <1>3 DEF ph
  <2> QED
    BY <2>1, <2>2, <1>1, <1>12
<1>19. Draining'
  <2>1. isDrained' <=> pending = <<>> /\ busy = 0
    <3>1. pending = <<>> <=> Len(pending) = 0
      BY <1>2, EmptySeq, SeqEqual
    <3>2. pending' = <<>> <=> Len(pending') = 0
      BY <1>12, EmptySeq, SeqEqual
    <3>3. Len(pending') + inFlight' = 0 <=> Len(pending) + busy = 0
      BY <1>12
    <3> QED
      BY <3>1, <3>2, <3>3, <1>2, <1>7, <1>12, <1>13 DEF isDrained
  <2>2. ~isDrained
    BY <1>7, <1>11 DEF isDrained
  <2> QED
    BY <2>1, <2>2, <1>1, <1>16 DEF IInv, Draining
<1> QED
  BY <1>12, <1>14, <1>15, <1>17, <1>18, <1>19 DEF IInv

\* Every callback of the event loop preserves the inductive invariant.
LEMMA NextIInv == IInv /\ [Next]_vars => IInv'
<1> SUFFICES ASSUME IInv, [Next]_vars PROVE IInv'
  OBVIOUS
<1>1. CASE UNCHANGED vars
  BY <1>1 DEF vars, IInv, TypeOK, Agree, CapacityBound, WorkConserving, Charged, Progress,
             Draining, isDrained
<1>2. ASSUME NEW i \in Item, drop(i) PROVE IInv'
  BY <1>2, DropStep
<1>3. ASSUME NEW i \in Item, enqueue(i) PROVE IInv'
  BY <1>3, EnqueueStep
<1>4. ASSUME NEW i \in Item, sendSucceeds(i) PROVE IInv'
  BY <1>4, SendSucceedsStep
<1>5. ASSUME NEW i \in Item, NEW retryable \in BOOLEAN, sendFails(i, retryable) PROVE IInv'
  BY <1>5, SendFailsStep
<1>6. ASSUME NEW i \in Item, retry(i) PROVE IInv'
  BY <1>6, RetryStep
<1>7. ASSUME NEW i \in Item, release(i) PROVE IInv'
  BY <1>7, ReleaseStep
<1>8. ASSUME NEW d \in Drainer, closeAndDrain(d) PROVE IInv'
  BY <1>8, CloseStep
<1>9. ASSUME NEW d \in Drainer, drainTimeout(d) PROVE IInv'
  BY <1>9, DrainTimeoutStep
<1> QED
  BY <1>1, <1>2, <1>3, <1>4, <1>5, <1>6, <1>7, <1>8, <1>9 DEF Next

\* The inductive invariant holds in every behaviour of the queue.
THEOREM Inductive == Spec => []IInv
<1>1. Init => IInv
  BY InitIInv
<1>2. IInv /\ [Next]_vars => IInv'
  BY NextIInv
<1> QED
  BY <1>1, <1>2, PTL DEF Spec

-----------------------------------------------------------------------------
(* The properties. *)

\* Every variable keeps its type; that perKey and inFlight stay natural numbers
\* through the decrements of the finally() callback (lines 120-128) is the point.
THEOREM TypeCorrect == Spec => []TypeOK
<1>1. IInv => TypeOK
  BY DEF IInv
<1> QED
  BY <1>1, Inductive, PTL

\* The memory bound and the concurrency bound of the class (lines 36-42).
THEOREM CapacityHolds == Spec => []CapacityBound
<1>1. IInv => CapacityBound
  BY DEF IInv
<1> QED
  BY <1>1, Inductive, PTL

\* inFlight counts the taken slots and perKey each device's unreleased items.
THEOREM AccountingHolds == Spec => []Accounting
<1>1. IInv => Accounting
  BY DEF IInv, Agree, Charged, LiveOf, LiveIn, Live, Accounting
<1> QED
  BY <1>1, Inductive, PTL

\* No accepted item waits beside a free slot, so pump is called often enough.
THEOREM WorkConservingHolds == Spec => []WorkConserving
<1>1. IInv => WorkConserving
  BY DEF IInv
<1> QED
  BY <1>1, Inductive, PTL

\* Of any finite set of items, no more than n from each of the keys K: the set has at
\* most Cardinality(K) * n members.  Number each key's items and count the pairs.
LEMMA FewOfEach ==
  ASSUME NEW S, IsFiniteSet(S), NEW K, IsFiniteSet(K), NEW of \in [S -> K], NEW n \in Nat,
         \A k \in K : Cardinality({i \in S : of[i] = k}) <= n
  PROVE  Cardinality(S) <= Cardinality(K) * n
<1> DEFINE Of(k) == {i \in S : of[i] = k}
           number == [k \in K |-> CHOOSE g : g \in Injection(Of(k), 1 .. n)]
           f == [i \in S |-> <<of[i], number[of[i]][i]>>]
<1>1. ASSUME NEW k \in K PROVE number[k] \in Injection(Of(k), 1 .. n)
  <2> DEFINE m == Cardinality(Of(k))
  <2>1. IsFiniteSet(Of(k)) /\ m \in Nat /\ ExistsBijection(1 .. m, Of(k))
    BY FS_Subset, FS_CardinalityType
  <2>2. PICK h \in Injection(Of(k), 1 .. m) : TRUE
    BY <2>1, Fun_ExistsBijSymmetric DEF ExistsBijection, Bijection
  <2>3. m <= n
    OBVIOUS
  <2> HIDE DEF m
  <2>4. 1 .. m \subseteq 1 .. n
    BY <2>1, <2>3
  <2> HIDE DEF Of
  <2>5. h \in Injection(Of(k), 1 .. n)
    BY <2>2, <2>4 DEF Injection
  <2>6. number[k] = CHOOSE g : g \in Injection(Of(k), 1 .. n)
    OBVIOUS
  <2> QED
    BY <2>5, <2>6
<1> HIDE DEF number
<1>2. ASSUME NEW i \in S
      PROVE  of[i] \in K /\ i \in Of(of[i]) /\ number[of[i]][i] \in 1 .. n
  <2>1. of[i] \in K /\ i \in Of(of[i])
    OBVIOUS
  <2>2. number[of[i]] \in [Of(of[i]) -> 1 .. n]
    BY <1>1, <2>1 DEF Injection
  <2> QED
    BY <2>1, <2>2
<1>3. f \in [S -> K \X (1 .. n)]
  BY <1>2
<1>4. ASSUME NEW i \in S, NEW j \in S, f[i] = f[j] PROVE i = j
  <2>1. of[i] = of[j] /\ number[of[i]][i] = number[of[i]][j]
    BY <1>4
  <2>2. i \in Of(of[i]) /\ j \in Of(of[i])
    BY <2>1
  <2> QED
    BY <1>1, <1>2, <2>1, <2>2 DEF Injection, IsInjective
<1>5. f \in Injection(S, K \X (1 .. n))
  BY <1>3, <1>4 DEF Injection, IsInjective
<1>6. IsFiniteSet(1 .. n) /\ Cardinality(1 .. n) = n
  BY FS_Interval
<1>7. IsFiniteSet(K \X (1 .. n)) /\ Cardinality(K \X (1 .. n)) = Cardinality(K) * n
  BY <1>6, FS_Product
<1> HIDE DEF f
<1> QED
  BY <1>5, <1>7, FS_Injection

\* One noisy device cannot monopolise the queue (lines 39-40), for any number of
\* devices: a full queue is shared by as many as the per-device limit makes necessary.
THEOREM NoMonopolyHolds == Spec => []NoMonopoly
<1>1. ASSUME IInv, Saturated PROVE Cardinality({k \in Key : perKey[k] > 0}) * PerKeyCapacity >= Capacity
  <2> DEFINE S == LiveIn(phase)
             K == {k \in Key : perKey[k] > 0}
             of == [i \in S |-> KeyOf[i]]
  <2>1. pending \in Seq(Item) /\ phase \in [Item -> Phase] /\ Agree(pending, inFlight, phase)
    BY <1>1 DEF IInv, TypeOK, Phase
  <2>2. IsFiniteSet(S) /\ Cardinality(S) = Len(pending) + inFlight
    BY <2>1, LiveCardinality, Zenon
  <2>3. ASSUME NEW k \in Key
        PROVE  /\ {i \in S : KeyOf[i] = k} = LiveOf(phase, k)
               /\ perKey[k] = Cardinality({i \in S : KeyOf[i] = k}) /\ perKey[k] <= PerKeyCapacity
    BY <1>1 DEF IInv, Charged, LiveOf
  <2>4. ASSUME NEW i \in S PROVE KeyOf[i] \in K
    <3>1. KeyOf[i] \in Key
      BY OptionsAssumption DEF LiveIn
    <3> DEFINE T == {x \in S : KeyOf[x] = KeyOf[i]}
    <3>2. IsFiniteSet(T)
      BY <2>2, FS_Subset
    <3>3. T # {}
      OBVIOUS
    <3>4. Cardinality(T) \in Nat \ {0}
      BY <3>2, <3>3, FS_EmptySet, FS_CardinalityType
    <3>5. perKey[KeyOf[i]] = Cardinality(T)
      BY <2>3, <3>1
    <3> QED
      BY <3>1, <3>4, <3>5
  <2>5. of \in [S -> K]
    BY <2>4
  <2>6. ASSUME NEW k \in K PROVE k \in Key /\ k \in {KeyOf[i] : i \in S}
    <3>1. k \in Key /\ Cardinality({i \in S : KeyOf[i] = k}) # 0
      BY <2>3
    <3>2. {i \in S : KeyOf[i] = k} # {}
      BY <3>1, FS_EmptySet
    <3> QED
      BY <3>1, <3>2
  <2>7. of \in Surjection(S, K)
    BY <2>5, <2>6 DEF Surjection
  <2>8. IsFiniteSet(K)
    BY <2>2, <2>7, FS_Surjection
  <2>9. \A k \in K : Cardinality({i \in S : of[i] = k}) <= PerKeyCapacity
    <3>1. ASSUME NEW k \in K PROVE {i \in S : of[i] = k} = {i \in S : KeyOf[i] = k}
      OBVIOUS
    <3> QED
      BY <2>3, <3>1
  <2>10. PerKeyCapacity \in Nat /\ Capacity \in Nat
    BY OptionsAssumption
  <2> HIDE DEF S, K, of
  <2>11. Cardinality(S) <= Cardinality(K) * PerKeyCapacity
    BY <2>2, <2>5, <2>8, <2>9, <2>10, FewOfEach
  <2>12. Cardinality(S) \in Nat /\ Cardinality(K) \in Nat
    BY <2>2, <2>8, FS_CardinalityType
  <2>13. Cardinality(S) >= Capacity
    BY <1>1, <2>2 DEF Saturated
  <2> DEFINE product == Cardinality(K) * PerKeyCapacity
  <2>14. product \in Nat
    BY <2>10, <2>12
  <2> HIDE DEF product
  <2>15. product >= Capacity
    BY <2>10, <2>11, <2>12, <2>13, <2>14 DEF product
  <2> QED
    BY <2>15 DEF product, K
<1>2. IInv => NoMonopoly
  BY <1>1 DEF NoMonopoly
<1> QED
  BY <1>2, Inductive, PTL

\* What closeAndDrain answers is final (lines 91-108 and 160-163).
THEOREM DrainFinalHolds == Spec => []DrainIsFinal
<1>1. ASSUME IInv PROVE DrainIsFinal
  <2>1. ASSUME isDrained PROVE Live = {}
    <3>1. pending \in Seq(Item) /\ phase \in [Item -> Phase] /\ Agree(pending, inFlight, phase)
      BY <1>1 DEF IInv, TypeOK, Phase
    <3>2. IsFiniteSet(LiveIn(phase)) /\ Cardinality(LiveIn(phase)) = Len(pending) + inFlight
      BY <3>1, LiveCardinality, Zenon
    <3>3. Len(pending) + inFlight = 0
      BY <2>1 DEF isDrained
    <3> QED
      BY <3>2, <3>3, FS_EmptySet DEF Live, LiveIn
  <2> QED
    BY <1>1, <2>1 DEF IInv, Draining, DrainIsFinal
<1> QED
  BY <1>1, Inductive, PTL

-----------------------------------------------------------------------------
(* Every step keeps the promise of BoundedForwarder. *)

\* The instance counts sets as this module does.
LEMMA SameCardinality == \A S : Promise!Cardinality(S) = Cardinality(S)
BY DEF Cardinality, Promise!Cardinality

\* What the promise calls owed is what the queue and the slots hold, for the
\* whole forwarder and for each device.
LEMMA OwedCounts ==
  ASSUME IInv
  PROVE  /\ Live = LiveIn(phase)
         /\ IsFiniteSet(Live)
         /\ Cardinality(Live) = Len(pending) + inFlight
         /\ \A k \in Key : Cardinality(Promise!OwedTo(k)) = perKey[k]
<1>1. pending \in Seq(Item) /\ phase \in [Item -> Phase] /\ Agree(pending, inFlight, phase)
  BY DEF IInv, TypeOK, Phase
<1>2. Live = LiveIn(phase)
  BY DEF Live, LiveIn
<1>3. IsFiniteSet(LiveIn(phase)) /\ Cardinality(LiveIn(phase)) = Len(pending) + inFlight
  BY <1>1, LiveCardinality, Zenon
<1>4. \A k \in Key : Promise!OwedTo(k) = LiveOf(phase, k)
  BY <1>2 DEF Promise!OwedTo, LiveOf
<1> QED
  BY <1>2, <1>3, <1>4 DEF IInv, Charged

\* enqueue refuses for exactly the reason the promise allows (lines 68-72).
LEMMA RefusedIsRefused ==
  ASSUME IInv, NEW i \in Item
  PROVE  /\ Promise!Refused(i, "shutting_down") <=> ~accepting
         /\ Promise!Refused(i, "queue_full") <=> accepting /\ Saturated
         /\ Promise!Refused(i, "per_key_limit")
              <=> accepting /\ ~Saturated /\ perKey[KeyOf[i]] >= PerKeyCapacity
<1>1. KeyOf[i] \in Key
  BY OptionsAssumption
<1>2. Cardinality(Promise!OwedTo(KeyOf[i])) = perKey[KeyOf[i]]
  BY <1>1, OwedCounts
<1>3. Cardinality(Live) >= Capacity <=> Saturated
  BY OwedCounts DEF Saturated
<1>4. Cardinality(Live) \in Nat /\ Capacity \in Nat
  BY OwedCounts, FS_CardinalityType, OptionsAssumption
<1>5. Cardinality(Live) < Capacity <=> ~Saturated
  BY <1>3, <1>4
<1>6. Promise!Refused(i, "shutting_down") <=> ~accepting
  BY DEF Promise!Refused
<1>7. Promise!Refused(i, "queue_full") <=> accepting /\ Saturated
  BY <1>3, SameCardinality DEF Promise!Refused
<1>8. Promise!Refused(i, "per_key_limit")
        <=> accepting /\ ~Saturated /\ perKey[KeyOf[i]] >= PerKeyCapacity
  BY <1>2, <1>5, SameCardinality DEF Promise!Refused
<1> QED
  BY <1>6, <1>7, <1>8

\* drop (lines 110-113) sheds an item as the promise allows.
LEMMA DropSheds ==
  ASSUME IInv, NEW i \in Item, drop(i)
  PROVE  Promise!Shed(i)
<1>1. outcome[i] = "none" /\ i \notin Live
  BY DEF IInv, Progress, drop, Live
<1>2. \E reason \in DropReason :
        Promise!Refused(i, reason) /\ outcome' = [outcome EXCEPT ![i] = reason]
  BY RefusedIsRefused DEF drop, DropReason
<1>3. Live' = Live
  BY DEF IInv, TypeOK, drop, Live
<1> QED
  BY <1>1, <1>2, <1>3 DEF Promise!Shed, Promise!DropReason, DropReason, drop

\* enqueue (lines 74-79) admits an item the promise has no reason to refuse.
LEMMA EnqueueAdmits ==
  ASSUME IInv, NEW i \in Item, enqueue(i)
  PROVE  Promise!Admit(i)
<1>1. outcome[i] = "none" /\ i \notin Live
  BY DEF IInv, Progress, enqueue, Live
<1>2. perKey[KeyOf[i]] \in Nat /\ PerKeyCapacity \in Nat
  BY OptionsAssumption DEF IInv, TypeOK
<1>3. \A reason \in DropReason : ~Promise!Refused(i, reason)
  BY <1>2, RefusedIsRefused DEF enqueue, DropReason
<1>4. Live' = Live \cup {i}
  <2>1. \A x \in Item : phase'[x] = IF x \in {Append(pending, i)[j] :
                                          j \in 1 .. Room(Append(pending, i), inFlight)}
                                 THEN "sending"
                                 ELSE [phase EXCEPT ![i] = "queued"][x]
    BY Zenon DEF enqueue, pump
  <2>2. phase[i] = "new" /\ phase \in [Item -> Phase]
    BY DEF enqueue, IInv, TypeOK, Phase
  <2>3. pending \in Seq(Item) /\ Len(pending) \in Nat /\ inFlight \in Nat /\ inFlight <= Concurrency
    BY LenProperties DEF IInv, TypeOK, CapacityBound
  <2>4. \A x \in {Append(pending, i)[j] : j \in 1 .. Room(Append(pending, i), inFlight)} :
          x = i \/ x \in Members(pending)
    <3>1. Append(pending, i) \in Seq(Item) /\ Len(Append(pending, i)) = Len(pending) + 1
      BY <2>3, AppendProperties
    <3>2. Room(Append(pending, i), inFlight) \in 0 .. Len(pending) + 1
      BY <2>3, <3>1, RoomProperties
    <3>3. ASSUME NEW j \in 1 .. Room(Append(pending, i), inFlight)
          PROVE  Append(pending, i)[j] = i \/ Append(pending, i)[j] \in Members(pending)
      <4>1. j \in 1 .. Len(pending) \/ j = Len(pending) + 1
        BY <2>3, <3>2
      <4> QED
        BY <4>1, <2>3, AppendProperties DEF Members
    <3> QED
      BY <3>3
  <2>5. \A x \in Members(pending) : phase[x] = "queued"
    BY DEF IInv, Agree
  <2>6. \A x \in Item : phase'[x] \in {"queued", "sending", "backoff", "settled"}
                          <=> x = i \/ phase[x] \in {"queued", "sending", "backoff", "settled"}
    BY <2>1, <2>2, <2>4, <2>5
  <2> QED
    BY <2>6 DEF Live
<1> QED
  BY <1>1, <1>3, <1>4 DEF Promise!Admit, Promise!DropReason, DropReason, enqueue

\* The end of run (lines 138-145) gives an admitted item its only outcome.
LEMMA SettlingResolves ==
  ASSUME IInv, NEW i \in Item,
         sendSucceeds(i) \/ \E retryable \in BOOLEAN : sendFails(i, retryable)
  PROVE  Promise!Resolve(i) \/ UNCHANGED <<accepting, Live, outcome, drain>>
<1>1. phase[i] = "sending" /\ outcome[i] = "none" /\ i \in Live
  BY DEF IInv, Progress, sendSucceeds, sendFails, Live
<1>2. Live' = Live
  BY DEF IInv, TypeOK, sendSucceeds, sendFails, Live
<1> QED
  BY <1>1, <1>2 DEF Promise!Resolve, sendSucceeds, sendFails

\* The finally() callback (lines 120-128) stops owing an item that has its outcome,
\* and answers the drainers when it was the last.
LEMMA ReleaseReleases ==
  ASSUME IInv, NEW i \in Item, release(i)
  PROVE  Promise!Release(i)
<1>1. phase[i] = "settled" /\ outcome[i] # "none" /\ i \in Live
  BY DEF IInv, Progress, release, Live
<1>2. /\ IsFiniteSet(Live)
      /\ Cardinality(Live) = Len(pending) + inFlight
      /\ pending \in Seq(Item) /\ Len(pending) \in Nat /\ inFlight \in Nat /\ inFlight <= Concurrency
  BY OwedCounts, LenProperties DEF IInv, TypeOK, CapacityBound
<1>3. Live = {i} <=> pending = <<>> /\ inFlight - 1 = 0
  <2>1. Live = {i} <=> Cardinality(Live) = 1
    <3>1. Cardinality(Live) = 1 <=> \E x : Live = {x}
      BY <1>2, FS_Singleton
    <3> QED
      BY <1>1, <3>1
  <2>2. pending = <<>> <=> Len(pending) = 0
    BY <1>2, EmptySeq, SeqEqual
  <2>3. inFlight >= 1
    <3>1. i \in InSlot(phase)
      BY <1>1 DEF InSlot
    <3>2. IsFiniteSet(InSlot(phase)) /\ inFlight = Cardinality(InSlot(phase))
      BY DEF IInv, Agree
    <3>3. inFlight # 0
      BY <3>1, <3>2, FS_EmptySet
    <3> QED
      BY <3>3, <1>2
  <2> QED
    BY <2>1, <2>2, <2>3, <1>2
<1>4. Live' = Live \ {i}
  <2>1. \A x \in Item : phase'[x] = IF x \in {pending[j] : j \in 1 .. Room(pending, inFlight - 1)}
                                 THEN "sending"
                                 ELSE [phase EXCEPT ![i] = "done"][x]
    BY Zenon DEF release, pump
  <2>2. phase \in [Item -> Phase]
    BY DEF IInv, TypeOK, Phase
  <2>3. Room(pending, inFlight - 1) \in 0 .. Len(pending)
    BY <1>2, OptionsAssumption DEF Room
  <2>4. \A x \in {pending[j] : j \in 1 .. Room(pending, inFlight - 1)} : phase[x] = "queued"
    <3>1. \A j \in 1 .. Room(pending, inFlight - 1) : pending[j] \in Members(pending)
      BY <1>2, <2>3 DEF Members
    <3> QED
      BY <3>1 DEF IInv, Agree
  <2>5. \A x \in Item : phase'[x] \in {"queued", "sending", "backoff", "settled"}
                          <=> x # i /\ phase[x] \in {"queued", "sending", "backoff", "settled"}
    BY <1>1, <2>1, <2>2, <2>4
  <2> QED
    BY <2>5 DEF Live
<1>5. drain' = [d \in Drainer |->
                 IF Live = {i} /\ drain[d] = "waiting" THEN "drained" ELSE drain[d]]
  BY <1>3, Zenon DEF release, resolveWaitersIfDrained
<1> QED
  BY <1>1, <1>4, <1>5 DEF Promise!Release, release

\* A retry and a backoff are invisible to the caller, a close and a drain timer
\* are what the promise says they are.
LEMMA OtherStepsRefine ==
  ASSUME IInv
  PROVE  /\ \A i \in Item : retry(i) => UNCHANGED <<accepting, Live, outcome, drain>>
         /\ \A d \in Drainer : closeAndDrain(d) => Promise!Close(d)
         /\ \A d \in Drainer : drainTimeout(d) => Promise!GiveUp(d)
<1>1. ASSUME NEW i \in Item, retry(i) PROVE UNCHANGED <<accepting, Live, outcome, drain>>
  BY <1>1 DEF IInv, TypeOK, retry, Live
<1>2. isDrained <=> Live = {}
  <2>1. Live = {} <=> Len(pending) + inFlight = 0
    BY OwedCounts, FS_EmptySet
  <2>2. pending \in Seq(Item) /\ Len(pending) \in Nat /\ inFlight \in Nat
    BY LenProperties DEF IInv, TypeOK
  <2>3. pending = <<>> <=> Len(pending) = 0
    BY <2>2, EmptySeq, SeqEqual
  <2> QED
    BY <2>1, <2>2, <2>3 DEF isDrained
<1>3. ASSUME NEW d \in Drainer, closeAndDrain(d) PROVE Promise!Close(d)
  BY <1>2, <1>3 DEF closeAndDrain, Promise!Close, Live
<1>4. ASSUME NEW d \in Drainer, drainTimeout(d) PROVE Promise!GiveUp(d)
  BY <1>4 DEF drainTimeout, Promise!GiveUp, Live
<1> QED
  BY <1>1, <1>3, <1>4

\* The queue with its slots, retries and two-step completion implements the
\* promise: every step is a step of BoundedForwarder or is invisible to it.
THEOREM KeepsPromiseSafety == Spec => Promise!Safety
<1>1. Init => Promise!Init
  BY DEF Init, Promise!Init, Live
<1>2. IInv /\ [Next]_vars => [Promise!Next]_<<accepting, Live, outcome, drain>>
  <2> SUFFICES ASSUME IInv, [Next]_vars
               PROVE  Promise!Next \/ UNCHANGED <<accepting, Live, outcome, drain>>
    OBVIOUS
  <2>1. CASE UNCHANGED vars
    BY <2>1 DEF vars, Live
  <2>2. ASSUME NEW i \in Item, drop(i) PROVE Promise!Next
    BY <2>2, DropSheds DEF Promise!Next
  <2>3. ASSUME NEW i \in Item, enqueue(i) PROVE Promise!Next
    BY <2>3, EnqueueAdmits DEF Promise!Next
  <2>4. ASSUME NEW i \in Item,
               sendSucceeds(i) \/ \E retryable \in BOOLEAN : sendFails(i, retryable)
        PROVE  Promise!Next \/ UNCHANGED <<accepting, Live, outcome, drain>>
    BY <2>4, SettlingResolves DEF Promise!Next
  <2>5. ASSUME NEW i \in Item, release(i) PROVE Promise!Next
    BY <2>5, ReleaseReleases DEF Promise!Next
  <2>6. ASSUME NEW i \in Item, retry(i) PROVE UNCHANGED <<accepting, Live, outcome, drain>>
    BY <2>6, OtherStepsRefine
  <2>7. ASSUME NEW d \in Drainer, closeAndDrain(d) \/ drainTimeout(d) PROVE Promise!Next
    BY <2>7, OtherStepsRefine DEF Promise!Next
  <2> QED
    BY <2>1, <2>2, <2>3, <2>4, <2>5, <2>6, <2>7 DEF Next
<1> QED
  BY <1>1, <1>2, Inductive, PTL DEF Spec, Promise!Safety, Promise!avars
=============================================================================
