-------------------------- MODULE BoundedForwarder --------------------------
(***************************************************************************)
(* What the ingest forwarder promises its callers, with no queue, slots or *)
(* retries: docs/case-study/delivery-semantics.md, "Retry and overload     *)
(* policy".  It owes an outcome for everything it admitted and never owes  *)
(* more than Capacity items, nor more than PerKeyCapacity of one device;   *)
(* it sheds only what it may not admit; a drain answers "drained" only     *)
(* when nothing is owed and nothing can be admitted any more.              *)
(***************************************************************************)
EXTENDS Naturals, FiniteSets

CONSTANTS Item, Key, KeyOf, Capacity, PerKeyCapacity, Drainer

VARIABLES
  open,     \* work is still admitted
  owed,     \* admitted items that count against the limits
  outcome,  \* the answer for an item: a drop reason, or how the send ended
  drain     \* the answer each drain call has

avars == <<open, owed, outcome, drain>>

Init ==
  /\ open = TRUE
  /\ owed = {}
  /\ outcome = [i \in Item |-> "none"]
  /\ drain = [d \in Drainer |-> "idle"]

OwedTo(k) == {i \in owed : KeyOf[i] = k}

\* Why an item may not be admitted; the first reason that applies is reported.
Refused(i, reason) ==
  CASE reason = "shutting_down" -> ~open
    [] reason = "queue_full"    -> open /\ Cardinality(owed) >= Capacity
    [] reason = "per_key_limit" -> /\ open
                                   /\ Cardinality(owed) < Capacity
                                   /\ Cardinality(OwedTo(KeyOf[i])) >= PerKeyCapacity

DropReason == {"shutting_down", "queue_full", "per_key_limit"}

Admit(i) ==
  /\ outcome[i] = "none"
  /\ i \notin owed
  /\ \A reason \in DropReason : ~Refused(i, reason)
  /\ owed' = owed \cup {i}
  /\ UNCHANGED <<open, outcome, drain>>

Shed(i) ==
  /\ outcome[i] = "none"
  /\ i \notin owed
  /\ \E reason \in DropReason :
       Refused(i, reason) /\ outcome' = [outcome EXCEPT ![i] = reason]
  /\ UNCHANGED <<open, owed, drain>>

\* An admitted item gets its one and only outcome.
Resolve(i) ==
  /\ i \in owed
  /\ outcome[i] = "none"
  /\ \E how \in {"succeeded", "failed"} : outcome' = [outcome EXCEPT ![i] = how]
  /\ UNCHANGED <<open, owed, drain>>

\* Only a resolved item stops counting; emptying a closed forwarder answers
\* everyone who waits for that.
Release(i) ==
  /\ i \in owed
  /\ outcome[i] # "none"
  /\ owed' = owed \ {i}
  /\ drain' = [d \in Drainer |->
                 IF owed = {i} /\ drain[d] = "waiting" THEN "drained" ELSE drain[d]]
  /\ UNCHANGED <<open, outcome>>

Close(d) ==
  /\ drain[d] = "idle"
  /\ open' = FALSE
  /\ drain' = [drain EXCEPT ![d] = IF owed = {} THEN "drained" ELSE "waiting"]
  /\ UNCHANGED <<owed, outcome>>

GiveUp(d) ==
  /\ drain[d] = "waiting"
  /\ drain' = [drain EXCEPT ![d] = "timed_out"]
  /\ UNCHANGED <<open, owed, outcome>>

Next ==
  \/ \E i \in Item : Admit(i) \/ Shed(i) \/ Resolve(i) \/ Release(i)
  \/ \E d \in Drainer : Close(d) \/ GiveUp(d)

\* Safety of the promise.
Safety == Init /\ [][Next]_avars

\* The promise: what is owed is paid, and then stops counting.
Spec == Safety /\ \A i \in Item : WF_avars(Resolve(i)) /\ WF_avars(Release(i))
=============================================================================
