----------------------------- MODULE MobileQueue -----------------------------
(***************************************************************************)
(* Position reports of the mobile app (tracking.ts, offline-queue.ts): one *)
(* callback per fix, which reports it, drains the stored queue when that   *)
(* worked and appends to it when not.  Callbacks overlap at every await,   *)
(* and the queue is read and written as a whole.                           *)
(***************************************************************************)
EXTENDS Naturals, Sequences, FiniteSets, SequencesExt

CONSTANTS
  Fixes,      \* number of fixes of one tracking session
  max,        \* entries the queue keeps
  MaxRestarts \* bound: the app is killed and started again

ASSUME MobileQueueAssumption == Fixes \in Nat /\ max \in Nat \ {0} /\ MaxRestarts \in Nat

Fix == 1 .. Fixes

VARIABLES
  stored,    \* the entry in AsyncStorage
  cb,        \* each fix's callback: its next step and its copy of the queue
  reached,   \* fixes the API took (history)
  dropped,   \* fixes shifted out at the cap (history)
  clobbered, \* fixes that were in the store when an outdated copy replaced it (history)
  restarts

mobileVars == <<stored, cb, reached, dropped, clobbered, restarts>>

NoCallback == [at |-> "waiting", items |-> <<>>, base |-> <<>>]
Writing == {"writeAppended", "writeRest"}

MobileTypeOK ==
  /\ stored \in Seq(Fix) /\ Len(stored) <= max
  /\ \A f \in Fix : /\ cb[f].at \in {"waiting", "reporting", "append", "drain", "sending", "done"} \cup Writing
                    /\ Len(cb[f].items) <= max
  /\ reached \subseteq Fix /\ dropped \subseteq Fix
  /\ restarts \in 0 .. MaxRestarts

MobileInit ==
  /\ stored = <<>> /\ reached = {} /\ dropped = {} /\ clobbered = {} /\ restarts = 0
  /\ cb = [f \in Fix |-> NoCallback]

At(f, step) == cb' = [cb EXCEPT ![f].at = step]

\* watchPositionAsync calls back fix after fix.
FixArrives(f) ==
  /\ cb[f].at = "waiting" /\ \A e \in 1 .. f - 1 : cb[e].at # "waiting"
  /\ At(f, "reporting")
  /\ UNCHANGED <<stored, reached, dropped, clobbered, restarts>>

\* reportPosition; a call that fails may have reached the API.
Reports(f, arrives, ok) ==
  /\ cb[f].at = "reporting" /\ (ok => arrives)
  /\ reached' = IF arrives THEN reached \cup {f} ELSE reached
  /\ At(f, IF ok THEN "drain" ELSE "append")
  /\ UNCHANGED <<stored, dropped, clobbered, restarts>>

Capped(items) == IF Len(items) > max THEN Tail(items) ELSE items

\* enqueue: read, push, shift.
EnqueueReads(f) ==
  /\ cb[f].at = "append"
  /\ cb' = [cb EXCEPT ![f] = [at |-> "writeAppended", items |-> Capped(Append(stored, f)), base |-> stored]]
  /\ dropped' = IF Len(stored) = max THEN dropped \cup {Head(stored)} ELSE dropped
  /\ UNCHANGED <<stored, reached, clobbered, restarts>>

\* flush: read.
FlushReads(f) ==
  /\ cb[f].at = "drain"
  /\ cb' = [cb EXCEPT ![f] = [at |-> IF stored = <<>> THEN "done" ELSE "sending", items |-> stored, base |-> stored]]
  /\ UNCHANGED <<stored, reached, dropped, clobbered, restarts>>

\* Mutant: a failed report leaves the queue like a sent one.
FlushSendsAll(f, arrives, ok) ==
  LET items == cb[f].items IN
  /\ cb[f].at = "sending" /\ items # <<>> /\ (ok => arrives)
  /\ reached' = IF arrives THEN reached \cup {Head(items)} ELSE reached
  /\ cb' = [cb EXCEPT ![f].items = Tail(items), ![f].at = IF ok /\ Len(items) > 1 THEN "sending" ELSE "writeRest"]
  /\ UNCHANGED <<stored, dropped, clobbered, restarts>>

\* The oldest entry is sent; the first failure ends the flush.
FlushSends(f, arrives, ok) ==
  LET items == cb[f].items IN
  /\ cb[f].at = "sending" /\ items # <<>> /\ (ok => arrives)
  /\ reached' = IF arrives THEN reached \cup {Head(items)} ELSE reached
  /\ cb' = [cb EXCEPT ![f].items = IF ok THEN Tail(items) ELSE items,
                      ![f].at = IF ok /\ Len(items) > 1 THEN "sending" ELSE "writeRest"]
  /\ UNCHANGED <<stored, dropped, clobbered, restarts>>

\* write: what another callback stored since this one read is gone.
Writes(f) ==
  /\ cb[f].at \in Writing
  /\ stored' = cb[f].items
  /\ clobbered' = clobbered \cup (ToSet(stored) \ ToSet(cb[f].base))
  /\ cb' = [cb EXCEPT ![f] = [NoCallback EXCEPT !.at = "done"]]
  /\ UNCHANGED <<reached, dropped, restarts>>

\* The app dies: callbacks end, the store stays.
Killed ==
  /\ restarts < MaxRestarts
  /\ restarts' = restarts + 1
  /\ cb' = [f \in Fix |-> IF cb[f].at = "waiting" THEN cb[f] ELSE [NoCallback EXCEPT !.at = "done"]]
  /\ clobbered' = clobbered \cup {f \in Fix : cb[f].at \in {"reporting", "append", "writeAppended"}}
  /\ UNCHANGED <<stored, reached, dropped>>

MobileNext ==
  \/ \E f \in Fix :
       \/ FixArrives(f) \/ EnqueueReads(f) \/ FlushReads(f) \/ Writes(f)
       \/ \E arrives, ok \in BOOLEAN : Reports(f, arrives, ok) \/ FlushSends(f, arrives, ok)
  \/ Killed

MobileSpec == MobileInit /\ [][MobileNext]_mobileVars

----------------------------------------------------------------------------
\* A fix is with the API, in the store or on its way there; one that is not was
\* the oldest of a full queue, was overwritten by a callback that had read the
\* queue before it was stored, or was not stored yet when the app died.
FixLossIsExplained ==
  \A f \in Fix :
    \/ f \in reached \cup ToSet(stored) \cup dropped \cup clobbered
    \/ cb[f].at \in {"waiting", "reporting", "append", "writeAppended"}
=============================================================================
