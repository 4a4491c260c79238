---------------------------- MODULE ForwardQueue ----------------------------
(***************************************************************************)
(* The bounded asynchronous boundary between the ingest listeners and the  *)
(* API: class ForwardQueue of apps/ingest/src/forward-queue.ts as sink.ts  *)
(* configures it.  One Item is one call of enqueue: a decoded message of   *)
(* the device KeyOf[item].  Everything between two awaits of the Node      *)
(* event loop is one action; the promise returned by run() is settled one  *)
(* microtask before its finally() callback frees the slot, so settling and *)
(* releasing are two actions and other callbacks may run between them.     *)
(***************************************************************************)
EXTENDS Integers, Sequences, FiniteSets

CONSTANTS
  Item,            \* calls of enqueue, each with a message of its own
  Key,             \* device IMEIs
  KeyOf,           \* options.keyOf as a function: the device of each message
  Capacity,        \* options.capacity
  PerKeyCapacity,  \* options.perKeyCapacity
  Concurrency,     \* options.concurrency
  MaxAttempts,     \* options.maxAttempts
  Drainer          \* callers of closeAndDrain

\* The constructor refuses options that are not positive (lines 54-63).
ASSUME OptionsAssumption ==
  /\ KeyOf \in [Item -> Key]
  /\ Capacity \in Nat \ {0}
  /\ PerKeyCapacity \in Nat \ {0}
  /\ Concurrency \in Nat \ {0}
  /\ MaxAttempts \in Nat \ {0}

VARIABLES
  pending,    \* FIFO of accepted items that hold no slot
  perKey,     \* accepted items per device, 0 for an absent Map entry
  inFlight,   \* the slot counter
  accepting,
  phase,      \* where each item is
  attempt,    \* the attempt run(item) is in
  outcome,    \* the last hook called for the item: a drop reason, or how it ended
  drain,      \* what each closeAndDrain call is waiting for, or has returned
  health      \* what the state hook last told health.ts

vars == <<pending, perKey, inFlight, accepting, phase, attempt, outcome, drain, health>>

DropReason == {"shutting_down", "queue_full", "per_key_limit"}

TypeOK ==
  /\ pending \in Seq(Item)
  /\ perKey \in [Key -> Nat]
  /\ inFlight \in Nat
  /\ accepting \in BOOLEAN
  /\ phase \in [Item -> {"new", "queued", "sending", "backoff", "settled", "done"}]
  /\ attempt \in [Item -> 0 .. MaxAttempts]
  /\ outcome \in [Item -> {"none", "succeeded", "failed"} \cup DropReason]
  /\ drain \in [Drainer -> {"idle", "waiting", "drained", "timed_out"}]
  /\ health \in [accepting : BOOLEAN, depth : Nat]

InSlot(ph) == {i \in Item : ph[i] \in {"sending", "backoff", "settled"}}

Init ==
  /\ pending = <<>>
  /\ perKey = [k \in Key |-> 0]
  /\ inFlight = 0
  /\ accepting = TRUE
  /\ phase = [i \in Item |-> "new"]
  /\ attempt = [i \in Item |-> 0]
  /\ outcome = [i \in Item |-> "none"]
  /\ drain = [d \in Drainer |-> "idle"]
  /\ health = [accepting |-> TRUE, depth |-> 0]

\* Mutants, here and below, are definitions with a plausible bug; each shows that
\* some property fails when the code has that bug.

Saturated == Len(pending) + inFlight >= Capacity

isDrained == pending = <<>> /\ inFlight = 0

\* Mutant: the pump's loop tests inFlight <= concurrency.
RoomForOneMore(q, busy) == IF busy + Len(q) <= Concurrency THEN Len(q) ELSE Concurrency + 1 - busy

\* pump() started with the queue q, `busy` slots taken and phases ph: it moves
\* items from the head of the queue into slots while there are free ones.
Room(q, busy) == LET free == IF busy < Concurrency THEN Concurrency - busy ELSE 0
                 IN  IF free < Len(q) THEN free ELSE Len(q)

pump(q, busy, ph) ==
  LET n       == Room(q, busy)
      started == {q[j] : j \in 1 .. n}
  IN  /\ pending' = SubSeq(q, n + 1, Len(q))
      /\ inFlight' = busy + n
      /\ phase' = [i \in Item |-> IF i \in started THEN "sending" ELSE ph[i]]
      /\ attempt' = [i \in Item |-> IF i \in started THEN 1 ELSE attempt[i]]
      /\ health' = [accepting |-> accepting, depth |-> Len(q) - n]

----------------------------------------------------------------------------
\* enqueue of a message the policy sheds, with the reason the code reports.
drop(i) ==
  /\ phase[i] = "new"
  /\ \E reason \in DropReason :
       /\ CASE reason = "shutting_down" -> ~accepting
            [] reason = "queue_full"    -> accepting /\ Saturated
            [] reason = "per_key_limit" -> /\ accepting
                                           /\ ~Saturated
                                           /\ perKey[KeyOf[i]] >= PerKeyCapacity
       /\ outcome' = [outcome EXCEPT ![i] = reason]
  /\ phase' = [phase EXCEPT ![i] = "done"]
  /\ UNCHANGED <<pending, perKey, inFlight, accepting, attempt, drain, health>>

\* Mutant: enqueue without the per-device test.
enqueueAnyKey(i) ==
  /\ phase[i] = "new"
  /\ accepting
  /\ ~Saturated
  /\ perKey' = [perKey EXCEPT ![KeyOf[i]] = @ + 1]
  /\ pump(Append(pending, i), inFlight, [phase EXCEPT ![i] = "queued"])
  /\ UNCHANGED <<accepting, outcome, drain>>

enqueue(i) ==
  /\ phase[i] = "new"
  /\ accepting
  /\ ~Saturated
  /\ perKey[KeyOf[i]] < PerKeyCapacity
  /\ perKey' = [perKey EXCEPT ![KeyOf[i]] = @ + 1]
  /\ pump(Append(pending, i), inFlight, [phase EXCEPT ![i] = "queued"])
  /\ UNCHANGED <<accepting, outcome, drain>>

\* The send of the current attempt resolves: run() returns.
sendSucceeds(i) ==
  /\ phase[i] = "sending"
  /\ phase' = [phase EXCEPT ![i] = "settled"]
  /\ outcome' = [outcome EXCEPT ![i] = "succeeded"]
  /\ UNCHANGED <<pending, perKey, inFlight, accepting, attempt, drain, health>>

\* The send rejects: an HTTP status, a network error, or the abort timer.  The
\* classification says whether it may be retried (408, 429, 5xx, timeout, network).
sendFails(i, retryable) ==
  /\ phase[i] = "sending"
  /\ IF ~retryable \/ attempt[i] = MaxAttempts
       THEN /\ phase' = [phase EXCEPT ![i] = "settled"]
            /\ outcome' = [outcome EXCEPT ![i] = "failed"]
       ELSE /\ phase' = [phase EXCEPT ![i] = "backoff"]
            /\ UNCHANGED outcome
  /\ UNCHANGED <<pending, perKey, inFlight, accepting, attempt, drain, health>>

\* The backoff delay is over: the next attempt starts, still in its slot.
retry(i) ==
  /\ phase[i] = "backoff"
  /\ phase' = [phase EXCEPT ![i] = "sending"]
  /\ attempt' = [attempt EXCEPT ![i] = @ + 1]
  /\ UNCHANGED <<pending, perKey, inFlight, accepting, outcome, drain, health>>

\* Mutant: the waiters are told as soon as nothing is queued.
resolveWaitersOnEmptyQueue(q, busy) ==
  drain' = [d \in Drainer |-> IF q = <<>> /\ drain[d] = "waiting" THEN "drained" ELSE drain[d]]

\* Every caller of closeAndDrain still waiting, once the queue is empty.
resolveWaitersIfDrained(q, busy) ==
  drain' = [d \in Drainer |->
              IF q = <<>> /\ busy = 0 /\ drain[d] = "waiting" THEN "drained" ELSE drain[d]]

\* Mutant: the device is credited twice for one release.
releaseTwice(i) ==
  /\ phase[i] = "settled"
  /\ perKey' = [perKey EXCEPT ![KeyOf[i]] = @ - 2]
  /\ resolveWaitersIfDrained(pending, inFlight - 1)
  /\ pump(pending, inFlight - 1, [phase EXCEPT ![i] = "done"])
  /\ UNCHANGED <<accepting, outcome>>

\* Mutant: the per-device count is not given back.
releaseKeepsKey(i) ==
  /\ phase[i] = "settled"
  /\ resolveWaitersIfDrained(pending, inFlight - 1)
  /\ pump(pending, inFlight - 1, [phase EXCEPT ![i] = "done"])
  /\ UNCHANGED <<perKey, accepting, outcome>>

\* Mutant: the callback does not pump.
releaseNoPump(i) ==
  /\ phase[i] = "settled"
  /\ perKey' = [perKey EXCEPT ![KeyOf[i]] = @ - 1]
  /\ resolveWaitersIfDrained(pending, inFlight - 1)
  /\ inFlight' = inFlight - 1
  /\ phase' = [phase EXCEPT ![i] = "done"]
  /\ health' = [accepting |-> accepting, depth |-> Len(pending)]
  /\ UNCHANGED <<pending, attempt, accepting, outcome>>

\* The finally() callback of run(item): frees the slot, answers the drainers
\* and pumps.
release(i) ==
  /\ phase[i] = "settled"
  /\ perKey' = [perKey EXCEPT ![KeyOf[i]] = @ - 1]
  /\ resolveWaitersIfDrained(pending, inFlight - 1)
  /\ pump(pending, inFlight - 1, [phase EXCEPT ![i] = "done"])
  /\ UNCHANGED <<accepting, outcome>>

\* Mutant: closing answers at once when only the queue, not the slots, is empty.
closeOnEmptyQueue(d) ==
  /\ drain[d] = "idle"
  /\ accepting' = FALSE
  /\ health' = [accepting |-> FALSE, depth |-> Len(pending)]
  /\ drain' = [drain EXCEPT ![d] = IF pending = <<>> THEN "drained" ELSE "waiting"]
  /\ UNCHANGED <<pending, perKey, inFlight, phase, attempt, outcome>>

closeAndDrain(d) ==
  /\ drain[d] = "idle"
  /\ accepting' = FALSE
  /\ health' = [accepting |-> FALSE, depth |-> Len(pending)]
  /\ drain' = [drain EXCEPT ![d] = IF isDrained THEN "drained" ELSE "waiting"]
  /\ UNCHANGED <<pending, perKey, inFlight, phase, attempt, outcome>>

drainTimeout(d) ==
  /\ drain[d] = "waiting"
  /\ drain' = [drain EXCEPT ![d] = "timed_out"]
  /\ UNCHANGED <<pending, perKey, inFlight, accepting, phase, attempt, outcome, health>>

Next ==
  \/ \E i \in Item : \/ drop(i)
                     \/ enqueue(i)
                     \/ sendSucceeds(i)
                     \/ \E retryable \in BOOLEAN : sendFails(i, retryable)
                     \/ retry(i)
                     \/ release(i)
  \/ \E d \in Drainer : closeAndDrain(d) \/ drainTimeout(d)

\* The abort timer ends every attempt, the backoff timer every pause, and the
\* event loop runs every callback of a settled promise.  Devices need not send,
\* nobody need call closeAndDrain, and no property leans on its timer.
Fairness ==
  \A i \in Item :
    /\ WF_vars(sendSucceeds(i) \/ \E retryable \in BOOLEAN : sendFails(i, retryable))
    /\ WF_vars(retry(i))
    /\ WF_vars(release(i))

Spec == Init /\ [][Next]_vars /\ Fairness

----------------------------------------------------------------------------
(* Safety *)

Live == {i \in Item : phase[i] \in {"queued", "sending", "backoff", "settled"}}

\* The memory bound of the class comment (lines 39-41): accepted work, retries
\* and settled-but-not-released slots included, never exceeds the capacity, nor
\* the calls to the API the concurrency.
CapacityBound ==
  /\ Len(pending) + inFlight <= Capacity
  /\ inFlight <= Concurrency

\* The two counters are the truth about the items: a slot is counted once and a
\* device is charged exactly for its accepted items that are not released yet,
\* whatever the order in which concurrent runs settle and release.
Accounting ==
  /\ inFlight = Cardinality(InSlot(phase))
  /\ \A k \in Key : /\ perKey[k] = Cardinality({i \in Live : KeyOf[i] = k})
                    /\ perKey[k] <= PerKeyCapacity

\* pump is called wherever a slot or an item appears: no accepted item waits
\* beside a free slot.
WorkConserving == pending # <<>> => inFlight = Concurrency

\* One noisy device cannot monopolise the queue (lines 39-40): when new work is
\* shed as queue_full, the devices that hold the queue are as many as the
\* per-device limit makes necessary.
NoMonopoly ==
  Saturated => Cardinality({k \in Key : perKey[k] > 0}) * PerKeyCapacity >= Capacity

\* A drain that has answered "drained" is final: no accepted item is left then
\* or later; and no caller is left waiting on a queue that is already empty.
DrainIsFinal ==
  /\ (\E d \in Drainer : drain[d] = "drained") => isDrained /\ Live = {}
  /\ (\E d \in Drainer : drain[d] = "waiting") => ~isDrained

\* What ADR 0009 (docs/adr/0009-backpressure.md lines 10-12) promises, "readiness
\* failure before resource exhaustion", of ingestReady in health.ts: while the
\* queue is so full that the next message is shed, the instance is not ready.
ingestReady == health.accepting /\ health.depth < Capacity

ReadinessFailsWhenSaturated == Saturated => ~ingestReady

(* Liveness *)

\* The queue keeps the promise of BoundedForwarder: the items it owes are those
\* that are queued or hold a slot.  Retries are invisible there.
Promise == INSTANCE BoundedForwarder WITH open <- accepting, owed <- Live

KeepsPromise == Promise!Spec

\* Once closed, the queue empties and every caller gets an answer, even with a
\* drain timer that never fires.
DrainCompletes ==
  /\ ~accepting ~> isDrained
  /\ \A d \in Drainer : drain[d] = "waiting" ~> drain[d] \in {"drained", "timed_out"}
=============================================================================
