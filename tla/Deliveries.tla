----------------------------- MODULE Deliveries -----------------------------
(***************************************************************************)
(* Notification of the alerts one position fired: the API's dispatch loop  *)
(* (alert-dispatch.ts), the delivery log (delivery-log.ts) and the retry   *)
(* job, whose runs overlap when one takes longer than the scheduler's      *)
(* interval (notify-retry.ts, scheduler.ts).  An alert has one recipient;  *)
(* the provider's answer is any.                                           *)
(***************************************************************************)
EXTENDS Naturals, Sequences, FiniteSets

CONSTANTS
  Batch,          \* the alerts fired by one position, in order
  Run,            \* runs of the retry job that may overlap
  MAX_ATTEMPTS,
  BATCH,          \* rows one run selects at most
  ThrottlePerHour,
  MaxDbFaults     \* bound: failed statements and crashes

Alert == {Batch[i] : i \in DOMAIN Batch}

\* Alerts are rows, each with an id of its own; MAX_ATTEMPTS is 5 in the code, and the
\* first attempt is not a retry.
ASSUME DeliveriesAssumption ==
  /\ Batch \in Seq(Alert) /\ Batch # <<>> /\ "none" \notin Alert
  /\ \A i, j \in DOMAIN Batch : Batch[i] = Batch[j] => i = j
  /\ MAX_ATTEMPTS \in Nat /\ MAX_ATTEMPTS > 1 /\ BATCH \in Nat \ {0}
  /\ ThrottlePerHour \in Nat /\ MaxDbFaults \in Nat

VARIABLES
  dispatcher,  \* dispatchAlerts: its next step, the alert it is at, the outcome so far
  hits,        \* the throttle's counter in the current window
  delivery,    \* alert_deliveries
  run,         \* each run: its next step, the rows it selected, with their attempts
  copies,      \* messages the recipient of each alert got (history)
  excused,     \* alerts whose row an outcome was lost to or overwritten by (history)
  dbFaults

deliveryVars == <<dispatcher, hits, delivery, run, copies, excused, dbFaults>>

NoRow == [status |-> "none", attempt |-> 0, retryAt |-> "never"]
Resting == [at |-> "idle", todo |-> {}, seen |-> [a \in {} |-> 0], now |-> "none", ok |-> FALSE]
Current == Batch[dispatcher.i]
Due == {a \in Alert : delivery[a].status = "failed" /\ delivery[a].retryAt = "due"}

DeliveriesTypeOK ==
  /\ dispatcher.at \in {"decide", "send", "record", "done"}
  /\ dispatcher.at # "done" => dispatcher.i \in DOMAIN Batch
  /\ \A a \in Alert :
       /\ delivery[a].status \in {"none", "sent", "failed", "skipped", "abandoned"}
       /\ delivery[a].attempt \in 0 .. MAX_ATTEMPTS
       /\ delivery[a].retryAt # "never" => delivery[a].status = "failed"
  /\ \A r \in Run : /\ run[r].todo \subseteq DOMAIN run[r].seen
                    /\ Cardinality(run[r].todo) <= BATCH
                    /\ run[r].at = "update" <=> run[r].now # "none"
  /\ dbFaults \in 0 .. MaxDbFaults

DeliveriesInit ==
  /\ dispatcher = [at |-> "decide", i |-> 1, allowed |-> FALSE, outcome |-> "none"]
  /\ hits = 0 /\ dbFaults = 0 /\ excused = {}
  /\ delivery = [a \in Alert |-> NoRow]
  /\ run = [r \in Run |-> Resting]
  /\ copies = [a \in Alert |-> 0]

----------------------------------------------------------------------------
(* dispatchAlerts *)

NextAlert == [at |-> IF dispatcher.i < Len(Batch) THEN "decide" ELSE "done",
              i |-> dispatcher.i + 1, allowed |-> FALSE, outcome |-> "none"]

\* Quiet hours leave the throttle alone; throttleAllow counts every hit.
Decides(quiet) ==
  /\ dispatcher.at = "decide"
  /\ hits' = IF quiet THEN hits ELSE hits + 1
  /\ dispatcher' = [dispatcher EXCEPT !.at = "send", !.allowed = ~quiet /\ hits' <= ThrottlePerHour]
  /\ UNCHANGED <<delivery, run, copies, excused, dbFaults>>

\* The hour of the throttle's window is over.
WindowEnds ==
  /\ hits > 0 /\ dispatcher.at = "decide"
  /\ hits' = 0
  /\ UNCHANGED <<dispatcher, delivery, run, copies, excused, dbFaults>>

\* The alert is on the bus; the channel is tried at once, or skipped.
Dispatches(outcome) ==
  /\ dispatcher.at = "send"
  /\ outcome = "skipped" \/ dispatcher.allowed
  /\ dispatcher' = [dispatcher EXCEPT !.at = "record", !.outcome = outcome]
  /\ copies' = IF outcome = "sent" THEN [copies EXCEPT ![Current] = @ + 1] ELSE copies
  /\ UNCHANGED <<hits, delivery, run, excused, dbFaults>>

\* recordDeliveries: a transient failure is to be retried after a backoff.
RecordsDelivery ==
  /\ dispatcher.at = "record"
  /\ delivery' = [delivery EXCEPT ![Current] =
                    [status |-> dispatcher.outcome, attempt |-> 1,
                     retryAt |-> IF dispatcher.outcome = "failed" THEN "later" ELSE "never"]]
  /\ dispatcher' = NextAlert
  /\ UNCHANGED <<hits, run, copies, excused, dbFaults>>

\* A failed insert is caught and the next alert follows.
RecordFails ==
  /\ dispatcher.at = "record" /\ dbFaults < MaxDbFaults
  /\ dbFaults' = dbFaults + 1
  /\ excused' = excused \cup {Current}
  /\ dispatcher' = NextAlert
  /\ UNCHANGED <<hits, delivery, run, copies>>

\* Anything else that throws, or the end of the process, ends the loop: the
\* remaining alerts are not dispatched and leave no row.
DispatchDies ==
  /\ dispatcher.at # "done" /\ dbFaults < MaxDbFaults
  /\ dbFaults' = dbFaults + 1
  /\ excused' = excused \cup {Current}
  /\ dispatcher' = [dispatcher EXCEPT !.at = "done"]
  /\ UNCHANGED <<hits, delivery, run, copies>>

----------------------------------------------------------------------------
(* retryDueDeliveries *)

BackoffEnds(a) ==
  /\ delivery[a].retryAt = "later"
  /\ delivery' = [delivery EXCEPT ![a].retryAt = "due"]
  /\ UNCHANGED <<dispatcher, hits, run, copies, excused, dbFaults>>

\* The select has a limit and no order.
RetrySelects(r) ==
  /\ run[r].at = "idle"
  /\ \E todo \in SUBSET Due \ {{}} :
       /\ Cardinality(todo) = IF Cardinality(Due) < BATCH THEN Cardinality(Due) ELSE BATCH
       /\ run' = [run EXCEPT ![r] = [Resting EXCEPT !.at = "loop", !.todo = todo,
                                                    !.seen = [a \in todo |-> delivery[a].attempt]]]
  /\ UNCHANGED <<dispatcher, hits, delivery, copies, excused, dbFaults>>

RetrySends(r, a, ok) ==
  /\ run[r].at = "loop" /\ a \in run[r].todo
  /\ run' = [run EXCEPT ![r].at = "update", ![r].now = a, ![r].ok = ok]
  /\ copies' = IF ok THEN [copies EXCEPT ![a] = @ + 1] ELSE copies
  /\ UNCHANGED <<dispatcher, hits, delivery, excused, dbFaults>>

\* Mutant: the attempt cap comes before the result.
RetriedCapFirst(attempt, ok) ==
  IF attempt >= MAX_ATTEMPTS THEN [status |-> "abandoned", attempt |-> attempt, retryAt |-> "never"]
  ELSE IF ok THEN [status |-> "sent", attempt |-> attempt, retryAt |-> "never"]
  ELSE [status |-> "failed", attempt |-> attempt, retryAt |-> "later"]

\* The row after a retry.
Retried(attempt, ok) ==
  CASE ok                               -> [status |-> "sent", attempt |-> attempt, retryAt |-> "never"]
    [] ~ok /\ attempt >= MAX_ATTEMPTS   -> [status |-> "abandoned", attempt |-> attempt, retryAt |-> "never"]
    [] OTHER                            -> [status |-> "failed", attempt |-> attempt, retryAt |-> "later"]

\* Mutant: the attempt of the row is written back as it was read.
AttemptKept(r) == run[r].seen[run[r].now]

Attempt(r) == run[r].seen[run[r].now] + 1

\* The update names the row by its id: what another run wrote since is overwritten.
RetryUpdates(r) ==
  /\ run[r].at = "update"
  /\ LET a    == run[r].now
         left == run[r].todo \ {a}
     IN  /\ delivery' = [delivery EXCEPT ![a] = Retried(Attempt(r), run[r].ok)]
         /\ excused' = IF delivery[a].attempt = run[r].seen[a] THEN excused ELSE excused \cup {a}
         /\ run' = [run EXCEPT ![r] = IF left = {} THEN Resting
                                      ELSE [@ EXCEPT !.at = "loop", !.todo = left, !.now = "none", !.ok = FALSE]]
  /\ UNCHANGED <<dispatcher, hits, copies, dbFaults>>

\* A statement fails, or the process ends: runTask reports it and the next tick
\* starts again from the rows.
RetryDies(r) ==
  /\ run[r].at # "idle" /\ dbFaults < MaxDbFaults
  /\ dbFaults' = dbFaults + 1
  /\ excused' = excused \cup ({run[r].now} \cap Alert)
  /\ run' = [run EXCEPT ![r] = Resting]
  /\ UNCHANGED <<dispatcher, hits, delivery, copies>>

----------------------------------------------------------------------------
Dispatch ==
  \/ \E quiet \in BOOLEAN : Decides(quiet)
  \/ \E outcome \in {"sent", "failed", "skipped"} : Dispatches(outcome)
  \/ WindowEnds \/ RecordsDelivery \/ RecordFails \/ DispatchDies
Retry(r) ==
  \/ RetrySelects(r) \/ RetryUpdates(r)
  \/ \E a \in Alert, ok \in BOOLEAN : RetrySends(r, a, ok)
DeliveriesNext ==
  \/ Dispatch
  \/ \E a \in Alert : BackoffEnds(a)
  \/ \E r \in Run : Retry(r) \/ RetryDies(r)

DeliveriesSpec == DeliveriesInit /\ [][DeliveriesNext]_deliveryVars

----------------------------------------------------------------------------
OutcomeUnderWay(a) ==
  \/ dispatcher.at = "record" /\ Current = a
  \/ \E r \in Run : run[r].now = a /\ run[r].ok

\* A message the recipient got is in the log as sent, or about to be, so that the
\* retry job does not send it again; except when a fault lost the outcome or an
\* overlapping run overwrote it.
DeliveredIsLogged ==
  \A a \in Alert : copies[a] > 0 => delivery[a].status = "sent" \/ OutcomeUnderWay(a) \/ a \in excused

\* Each delivery is sent or abandoned in the end, for good, although overlapping
\* runs set the attempts back.
RetriesEnd == \A a \in Alert : <>[](delivery[a].retryAt = "never")
=============================================================================
