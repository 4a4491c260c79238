-------------------------------- MODULE Fleet --------------------------------
(***************************************************************************)
(* What the API stores about one device: its positions, the last state in  *)
(* its row, the state of each geofence and the alerts they raise           *)
(* (positions-service.ts, geofence-service.ts), while geofences are edited *)
(* and the offline sweep runs (device-events.ts).  Each request is one     *)
(* READ COMMITTED transaction, one action per statement; the UPDATE of     *)
(* devices holds the row until the transaction ends.                       *)
(***************************************************************************)
EXTENDS GeofenceRules, Sequences, FiniteSets

CONSTANTS
  Request,    \* POST /internal/positions and POST /devices/:id/report, retries included
  Of,         \* what each request carries
  Attr,       \* telemetry keys
  Geofence, RuleOf,
  Grouped,    \* geofences that target the device by its group, the others by allDevices
  Edited,     \* geofences that are switched, deleted or retargeted
  Sweeper,    \* ticks of the offline sweep that may overlap
  MaxEdits, MaxFaults   \* bounds: edits, transactions that fail

Bodies == [kind : {"fix", "status"}, time : FixTime, inside : SUBSET Geofence, attrs : SUBSET Attr]

Nobody == "nobody"

ASSUME FleetAssumption ==
  /\ Of \in [Request -> Bodies] /\ Nobody \notin Request
  /\ RuleOf \in [Geofence -> Rules]
  /\ Grouped \subseteq Edited /\ Edited \subseteq Geofence
  /\ MaxEdits \in Nat /\ MaxFaults \in Nat

VARIABLES
  fixes,      \* fix times in positions (unique per device)
  row,        \* lastFixTime, the geofences around lastLat/lastLon, online, lastAttributes
  recent,     \* lastSeen is within the offline threshold
  fence,      \* status of each geofence
  member,     \* the device is in the group
  gstate,     \* geofence_states
  alerts,     \* geofence alerts of each geofence, with their fix times
  tx,         \* each request's transaction: the next statement and what it has read
  lock,       \* the transaction that holds the device row
  evaluated,  \* commits that evaluated each fix (history)
  sweep, edits, faults

fenceVars == <<fence, member, edits>>
storeVars == <<fixes, row, gstate, alerts, evaluated>>
vars == <<storeVars, recent, fenceVars, tx, lock, sweep, faults>>

NoFences == [g \in {} |-> EmptyState]
Idle == [at |-> "new", online |-> FALSE, attrs |-> {}, stale |-> FALSE, states |-> NoFences, fired |-> NoFences]
Ended(how) == [Idle EXCEPT !.at = how]
Open == {"inserted", "read", "updated", "evaluated"}
Overtaken == [q \in Request |-> [tx[q] EXCEPT !.stale = @ \/ tx[q].at = "read"]]   \* history
IsFix(r) == Of[r].kind = "fix"

TypeOK ==
  /\ fixes \subseteq FixTime
  /\ row \in [time : FixTime \cup {Never}, where : SUBSET Geofence, online : BOOLEAN, attrs : SUBSET Attr]
  /\ recent \in BOOLEAN
  /\ fence \in [Geofence -> {"active", "inactive", "deleted"}] /\ member \in BOOLEAN
  /\ gstate \in [Geofence -> States]
  /\ \A g \in Geofence : \A i \in DOMAIN alerts[g] : alerts[g][i] \in [type : Events, time : FixTime]
  /\ \A r \in Request : tx[r].at \in {"new", "done", "failed"} \cup Open
  /\ lock \in Request \cup {Nobody}
  /\ lock # Nobody => tx[lock].at \in {"updated", "evaluated"}
  /\ sweep \in [Sweeper -> {"idle", "selected", "flipped"}]
  /\ edits \in 0 .. MaxEdits /\ faults \in 0 .. MaxFaults

\* A registered device that has not reported yet.
Init ==
  /\ fixes = {} /\ recent = FALSE
  /\ row = [time |-> Never, where |-> {}, online |-> FALSE, attrs |-> {}]
  /\ fence = [g \in Geofence |-> "active"] /\ member = TRUE
  /\ gstate = [g \in Geofence |-> EmptyState]
  /\ alerts = [g \in Geofence |-> <<>>]
  /\ tx = [r \in Request |-> Idle]
  /\ lock = Nobody
  /\ evaluated = [t \in FixTime |-> 0]
  /\ sweep = [s \in Sweeper |-> "idle"]
  /\ edits = 0 /\ faults = 0

----------------------------------------------------------------------------
(* recordPosition and updateDeviceTelemetry *)

\* Mutant: no unique index on the device and the fix time.
InsertPositionAgain(r) ==
  /\ tx[r].at = "new" /\ IsFix(r)
  /\ tx' = [tx EXCEPT ![r].at = "inserted"]
  /\ UNCHANGED <<storeVars, recent, fenceVars, lock, sweep, faults>>

\* INSERT ... ON CONFLICT DO NOTHING waits for an open transaction with the same
\* key; a duplicate ends the request.
InsertPosition(r) ==
  /\ tx[r].at = "new" /\ IsFix(r)
  /\ ~ \E q \in Request \ {r} : IsFix(q) /\ Of[q].time = Of[r].time /\ tx[q].at \in Open
  /\ tx' = [tx EXCEPT ![r].at = IF Of[r].time \in fixes THEN "done" ELSE "inserted"]
  /\ UNCHANGED <<storeVars, recent, fenceVars, lock, sweep, faults>>

\* SELECT of the previous row, which takes no lock.
ReadDevice(r) ==
  /\ tx[r].at = IF IsFix(r) THEN "inserted" ELSE "new"
  /\ tx' = [tx EXCEPT ![r].at = "read", ![r].stale = FALSE, ![r].online = row.online,
                      ![r].attrs = row.attrs]
  /\ UNCHANGED <<storeVars, recent, fenceVars, lock, sweep, faults>>

\* UPDATE devices: waits for the row and holds it.
UpdateDevice(r) ==
  /\ tx[r].at = "read"
  /\ lock = Nobody
  /\ lock' = r
  /\ tx' = [tx EXCEPT ![r].at = "updated"]
  /\ UNCHANGED <<storeVars, recent, fenceVars, sweep, faults>>

Applicable == {g \in Geofence : fence[g] = "active" /\ (g \in Grouped => member)}

EventAt(r, g) == EventOf(RuleOf[g], gstate[g], g \in Of[r].inside, Of[r].time)

\* What the request has found out: the states to store and the events to raise.
Evaluation(r, stored) ==
  [tx[r] EXCEPT !.at = "evaluated",
     !.states = [g \in stored |-> StateAfter(RuleOf[g], gstate[g], g \in Of[r].inside, Of[r].time)],
     !.fired  = [g \in Applicable |-> EventAt(r, g)]]

\* Mutant: the geofences are evaluated before the device row is taken.
EvaluateUnlocked(r) ==
  /\ tx[r].at = "read" /\ IsFix(r)
  /\ tx' = [tx EXCEPT ![r] = Evaluation(r, Applicable)]
  /\ UNCHANGED <<storeVars, recent, fenceVars, lock, sweep, faults>>

\* Mutant: a position that raises no event leaves before it stores the state.
EvaluateStoresEventsOnly(r) ==
  /\ tx[r].at = "updated" /\ IsFix(r)
  /\ tx' = [tx EXCEPT ![r] = Evaluation(r, {g \in Applicable : EventAt(r, g) # "none"})]
  /\ UNCHANGED <<storeVars, recent, fenceVars, lock, sweep, faults>>

\* The selects of evaluateGeofences and the transitions they lead to.
EvaluateGeofences(r) ==
  /\ tx[r].at = "updated" /\ IsFix(r)
  /\ tx' = [tx EXCEPT ![r] = Evaluation(r, Applicable)]
  /\ UNCHANGED <<storeVars, recent, fenceVars, lock, sweep, faults>>

\* Mutant: the new attributes replace the stored ones.
ReplacedAttributes(r) == IF Of[r].attrs = {} THEN row.attrs ELSE Of[r].attrs

mergedAttributes(r) == IF Of[r].attrs = {} THEN row.attrs ELSE tx[r].attrs \cup Of[r].attrs

Raised(r, g) == g \in DOMAIN tx[r].fired /\ tx[r].fired[g] # "none"

\* The end of every successful transaction.
Written(r) ==
  /\ recent' = TRUE
  /\ tx' = [Overtaken EXCEPT ![r] = Ended("done")]
  /\ lock' = IF lock = r THEN Nobody ELSE lock

CommitFix(r) ==
  /\ tx[r].at = "evaluated"
  /\ \A g \in DOMAIN tx[r].states : fence[g] # "deleted"
  /\ fixes' = fixes \cup {Of[r].time}
  /\ row' = [time |-> Of[r].time, where |-> Of[r].inside, online |-> TRUE, attrs |-> mergedAttributes(r)]
  /\ gstate' = [g \in Geofence |-> IF g \in DOMAIN tx[r].states THEN tx[r].states[g] ELSE gstate[g]]
  /\ alerts' = [g \in Geofence |->
                  IF Raised(r, g) THEN Append(alerts[g], [type |-> tx[r].fired[g], time |-> Of[r].time])
                  ELSE alerts[g]]
  /\ evaluated' = [evaluated EXCEPT ![Of[r].time] = @ + 1]
  /\ Written(r)
  /\ UNCHANGED <<fenceVars, sweep, faults>>

CommitStatus(r) ==
  /\ tx[r].at = "updated" /\ ~IsFix(r)
  /\ row' = [row EXCEPT !.online = TRUE, !.attrs = mergedAttributes(r)]
  /\ Written(r)
  /\ UNCHANGED <<fixes, gstate, alerts, evaluated, fenceVars, sweep, faults>>

RolledBack(r) ==
  /\ tx' = [tx EXCEPT ![r] = Ended("failed")]
  /\ lock' = IF lock = r THEN Nobody ELSE lock
  /\ UNCHANGED <<storeVars, recent, fenceVars, sweep>>

\* A geofence deleted since the select fails the foreign key of its state.
DeletedUnderway(r) ==
  /\ tx[r].at = "evaluated"
  /\ \E g \in DOMAIN tx[r].states : fence[g] = "deleted"
  /\ RolledBack(r)
  /\ UNCHANGED faults

\* The connection or the process dies.
Fails(r) ==
  /\ tx[r].at \in Open /\ faults < MaxFaults
  /\ faults' = faults + 1
  /\ RolledBack(r)

----------------------------------------------------------------------------
(* Geofence and group edits *)

\* PATCH /geofences/:id
SwitchGeofence(g) ==
  /\ fence[g] # "deleted" /\ edits < MaxEdits
  /\ fence' = [fence EXCEPT ![g] = IF @ = "active" THEN "inactive" ELSE "active"]
  /\ edits' = edits + 1
  /\ UNCHANGED <<storeVars, recent, member, tx, lock, sweep, faults>>

\* DELETE /geofences/:id; its states go with it, its alerts stay.
DeleteGeofence(g) ==
  /\ fence[g] # "deleted" /\ edits < MaxEdits
  /\ fence' = [fence EXCEPT ![g] = "deleted"]
  /\ gstate' = [gstate EXCEPT ![g] = EmptyState]
  /\ edits' = edits + 1
  /\ UNCHANGED <<fixes, row, alerts, evaluated, recent, member, tx, lock, sweep, faults>>

\* PUT /device-groups/:id/devices with or without the device
SetMembers(in) ==
  /\ edits < MaxEdits /\ member # in
  /\ member' = in
  /\ edits' = edits + 1
  /\ UNCHANGED <<storeVars, recent, fence, tx, lock, sweep, faults>>

----------------------------------------------------------------------------
(* The offline sweep *)

\* OFFLINE_THRESHOLD_MS after lastSeen
ThresholdPasses ==
  /\ recent
  /\ recent' = FALSE
  /\ UNCHANGED <<storeVars, fenceVars, tx, lock, sweep, faults>>

\* Mutant: the cut-off is compared the wrong way round.
SweepSelectsFresh(s) ==
  /\ sweep[s] = "idle" /\ row.online /\ recent
  /\ sweep' = [sweep EXCEPT ![s] = "selected"]
  /\ UNCHANGED <<storeVars, recent, fenceVars, tx, lock, faults>>

SweepSelects(s) ==
  /\ sweep[s] = "idle" /\ row.online /\ ~recent
  /\ sweep' = [sweep EXCEPT ![s] = "selected"]
  /\ UNCHANGED <<storeVars, recent, fenceVars, tx, lock, faults>>

\* The UPDATE names the device only by its id.
SweepFlips(s) ==
  /\ sweep[s] = "selected" /\ lock = Nobody
  /\ row' = [row EXCEPT !.online = FALSE]
  /\ sweep' = [sweep EXCEPT ![s] = "flipped"]
  /\ tx' = Overtaken
  /\ UNCHANGED <<fixes, gstate, alerts, evaluated, recent, fenceVars, lock, faults>>

\* emitDeviceEvent, successful or not, ends the sweep's turn for the device.
SweepEmits(s) ==
  /\ sweep[s] = "flipped"
  /\ sweep' = [sweep EXCEPT ![s] = "idle"]
  /\ UNCHANGED <<storeVars, recent, fenceVars, tx, lock, faults>>

----------------------------------------------------------------------------
Handle(r) ==
  \/ InsertPosition(r) \/ ReadDevice(r) \/ UpdateDevice(r) \/ EvaluateGeofences(r)
  \/ CommitFix(r) \/ CommitStatus(r) \/ DeletedUnderway(r)
Edit ==
  \/ \E g \in Edited : SwitchGeofence(g) \/ DeleteGeofence(g)
  \/ \E in \in BOOLEAN : SetMembers(in)
Sweep(s) == SweepSelects(s) \/ SweepFlips(s) \/ SweepEmits(s)

Next ==
  \/ \E r \in Request : Handle(r) \/ Fails(r)
  \/ Edit
  \/ ThresholdPasses
  \/ \E s \in Sweeper : Sweep(s)

\* An open transaction goes on, time passes, the sweep's timer fires.
Fairness ==
  /\ \A r \in Request : WF_vars(tx[r].at \in Open /\ Handle(r))
  /\ WF_vars(ThresholdPasses)
  /\ \A s \in Sweeper : WF_vars(Sweep(s))

Spec == Init /\ [][Next]_vars /\ Fairness

----------------------------------------------------------------------------
\* What may come right before an event of one geofence.
Before(event) ==
  CASE event = "entry" -> {"exit"} [] event = "dwell" -> {"entry"} [] event = "exit" -> {"entry", "dwell"}

\* Alerts of a geofence that raises entries and exits and never throttles
\* alternate: one entry, at most one dwell, one exit, however the transactions of
\* retried, reordered and concurrent positions interleave; and no two alerts of a
\* throttled geofence are closer than its window.
AlertHistoryLegal ==
  \A g \in Geofence : \A i \in DOMAIN alerts[g] :
    LET prior == IF i = 1 THEN "exit" ELSE alerts[g][i - 1].type
    IN  /\ RuleOf[g].throttle = 0 /\ RuleOf[g].onEntry /\ RuleOf[g].onExit =>
             prior \in Before(alerts[g][i].type)
        /\ i > 1 /\ RuleOf[g].throttle > 0 =>
             alerts[g][i].time - alerts[g][i - 1].time >= RuleOf[g].throttle

\* The device row and the states of the geofences that are never edited tell the
\* same story: the device is inside exactly those around its last stored fix.
StatesFollowRow == \A g \in Geofence \ Edited : gstate[g].inside <=> g \in row.where

\* A position is evaluated once if it is stored and never otherwise, although the
\* forward queue repeats attempts whose answer it did not get.
FixEvaluatedOnce == \A t \in FixTime : evaluated[t] = IF t \in fixes THEN 1 ELSE 0

Commits(r) == tx[r].at \in Open /\ tx'[r].at = "done"

\* mergedAttributes only adds keys, and a device that comes back is announced
\* (prev.online was false).  Either fails only for a transaction that read the row
\* before another transaction or the sweep wrote it.
OnlyStaleReadsLose ==
  [][\/ \E r \in Request : Commits(r) /\ tx[r].stale
     \/ /\ row.attrs \subseteq row'.attrs
        /\ (~row.online /\ row'.online) => \E r \in Request : Commits(r) /\ ~tx[r].online]_vars

\* A device that has stopped reporting is marked offline.
SilentGoesOffline == (\A r \in Request : tx[r].at \in {"done", "failed"}) ~> ~row.online
=============================================================================
