------------------------------ MODULE Webhooks ------------------------------
(***************************************************************************)
(* deliverOne of webhook-service.ts: one event to one webhook, at most     *)
(* three attempts, a log row each and one counter in the end.  deliverEvent *)
(* runs one per subscribed webhook at the same time.                       *)
(***************************************************************************)
EXTENDS Naturals, FiniteSets

CONSTANTS
  Hook,
  Unsafe,         \* hooks whose target is refused
  MaxHookFaults   \* bound: counter updates that fail

ASSUME WebhooksAssumption == Unsafe \subseteq Hook /\ MaxHookFaults \in Nat

VARIABLES
  call,        \* each delivery's next step, its attempt and the receiver's last answer
  counters,    \* success_count and failure_count
  logged,      \* rows in webhook_deliveries
  answered,    \* posts the receiver answered with success in time (history)
  uncounted,   \* counter updates that failed (history)
  hookFaults

hookVars == <<call, counters, logged, answered, uncounted, hookFaults>>

WebhooksTypeOK ==
  /\ call \in [Hook -> [at : {"validate", "post", "log", "count", "giveUp", "done"},
                        attempt : 1 .. 3, ok : BOOLEAN]]
  /\ counters \in [Hook -> [success : 0 .. 1, failure : 0 .. 1]]
  /\ \A h \in Hook : logged[h] <= 2 * call[h].attempt /\ answered[h] <= call[h].attempt
  /\ hookFaults \in 0 .. MaxHookFaults

WebhooksInit ==
  /\ call = [h \in Hook |-> [at |-> "validate", attempt |-> 1, ok |-> FALSE]]
  /\ counters = [h \in Hook |-> [success |-> 0, failure |-> 0]]
  /\ logged = [h \in Hook |-> 0] /\ answered = [h \in Hook |-> 0]
  /\ uncounted = [h \in Hook |-> 0] /\ hookFaults = 0

\* One more log row, or none: logAttempt never throws.
Logged(h) == logged' \in {logged, [logged EXCEPT ![h] = @ + 1]}

\* An unsafe target is logged and counted nowhere.
Validates(h) ==
  /\ call[h].at = "validate"
  /\ call' = [call EXCEPT ![h].at = IF h \in Unsafe THEN "done" ELSE "post"]
  /\ IF h \in Unsafe THEN Logged(h) ELSE UNCHANGED logged
  /\ UNCHANGED <<counters, answered, uncounted, hookFaults>>

\* An answer that is late, though the receiver may have accepted, is a failed attempt.
Posts(h, ok) ==
  /\ call[h].at = "post"
  /\ answered' = IF ok THEN [answered EXCEPT ![h] = @ + 1] ELSE answered
  /\ call' = [call EXCEPT ![h].at = "log", ![h].ok = ok]
  /\ UNCHANGED <<counters, logged, uncounted, hookFaults>>

\* Where a failed attempt leads.
Failed(h) == IF call[h].attempt < 3 THEN [call[h] EXCEPT !.at = "post", !.attempt = @ + 1]
             ELSE [call[h] EXCEPT !.at = "giveUp"]

\* Mutant: a successful attempt does not leave the loop.
AfterLogLoops(h) == Failed(h)

AfterLog(h) == IF call[h].ok THEN [call[h] EXCEPT !.at = "count"] ELSE Failed(h)

Logs(h) ==
  /\ call[h].at = "log"
  /\ Logged(h)
  /\ call' = [call EXCEPT ![h] = AfterLog(h)]
  /\ UNCHANGED <<counters, answered, uncounted, hookFaults>>

Counts(h) ==
  /\ call[h].at \in {"count", "giveUp"}
  /\ counters' = IF call[h].at = "count" THEN [counters EXCEPT ![h].success = @ + 1]
                 ELSE [counters EXCEPT ![h].failure = @ + 1]
  /\ call' = [call EXCEPT ![h].at = "done"]
  /\ UNCHANGED <<logged, answered, uncounted, hookFaults>>

\* The counter of a success is written inside the try: its error is logged as a
\* failed attempt and the event is posted again.
CountFails(h) ==
  /\ call[h].at \in {"count", "giveUp"} /\ hookFaults < MaxHookFaults
  /\ hookFaults' = hookFaults + 1
  /\ uncounted' = [uncounted EXCEPT ![h] = @ + 1]
  /\ IF call[h].at = "count"
     THEN /\ Logged(h)
          /\ call' = [call EXCEPT ![h] = Failed(h)]
     ELSE /\ call' = [call EXCEPT ![h].at = "done"] /\ UNCHANGED logged
  /\ UNCHANGED <<counters, answered>>

WebhooksNext ==
  \E h \in Hook :
    \/ Validates(h) \/ Logs(h) \/ Counts(h) \/ CountFails(h)
    \/ \E ok \in BOOLEAN : Posts(h, ok)

WebhooksSpec == WebhooksInit /\ [][WebhooksNext]_hookVars

----------------------------------------------------------------------------
\* However the deliveries interleave, an event that was answered is posted again only
\* when a counter could not be updated, once for each time; a delivery is never counted
\* twice, and when no update failed it ends counted as what it was.
OutcomeCounted ==
  \A h \in Hook \ Unsafe :
    /\ answered[h] <= uncounted[h] + 1
    /\ counters[h].success + counters[h].failure <= 1
    /\ call[h].at = "done" /\ uncounted[h] = 0 =>
         counters[h].success = answered[h] /\ counters[h].failure = 1 - answered[h]
=============================================================================
