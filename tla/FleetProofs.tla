----------------------------- MODULE FleetProofs -----------------------------
(***************************************************************************)
(* Proofs about Fleet for any requests, geofences, rules and edits: a      *)
(* stored position is evaluated once, the geofence states agree with the   *)
(* device row, alerts follow one another as the rules allow, and only a    *)
(* transaction that read the row too early can lose attributes or the      *)
(* return of a silent device.                                              *)
(***************************************************************************)
EXTENDS Fleet, SequenceTheorems, TLAPS

-----------------------------------------------------------------------------
(* The transition engine. *)

\* evaluateTransition (geofence.ts lines 90-123) returns a state and, or not, an
\* event, and the state has an entry time exactly while the device is inside.
LEMMA EngineTypes ==
  ASSUME NEW rule \in Rules, NEW prev \in States, NEW inside \in BOOLEAN, NEW now \in FixTime
  PROVE  /\ StateAfter(rule, prev, inside, now) \in States
         /\ EventOf(rule, prev, inside, now) \in Events \cup {"none"}
         /\ StateAfter(rule, prev, inside, now).inside = inside
<1>1. now \in Nat /\ now # Never
  BY FixTimeAssumption DEF Never
<1>2. EventOf(rule, prev, inside, now) \in Events \cup {"none"}
  BY DEF EventOf, Transition, Events
<1> QED
  BY <1>1, <1>2 DEF StateAfter, States

\* The last event is remembered with its time, and throttles the next one.
LEMMA EngineThrottles ==
  ASSUME NEW rule \in Rules, NEW prev \in States, NEW inside \in BOOLEAN, NEW now \in FixTime
  PROVE  /\ StateAfter(rule, prev, inside, now).lastEventAt =
              IF EventOf(rule, prev, inside, now) # "none" THEN now ELSE prev.lastEventAt
         /\ EventOf(rule, prev, inside, now) # "none" /\ rule.throttle > 0 /\ prev.lastEventAt # Never
              => now - prev.lastEventAt >= rule.throttle
<1>1. prev.lastEventAt # Never => prev.lastEventAt \in Nat
  BY FixTimeAssumption DEF States
<1>2. now \in Nat /\ rule.throttle \in Nat
  BY FixTimeAssumption DEF Rules
<1> QED
  BY <1>1, <1>2 DEF StateAfter, EventOf, Throttled

\* A rule that raises entries and exits and never throttles.
Alternates(rule) == rule.throttle = 0 /\ rule.onEntry /\ rule.onExit

\* What such a rule's event says of the state before and after it.
LEMMA EngineAlternates ==
  ASSUME NEW rule \in Rules, NEW prev \in States, NEW inside \in BOOLEAN, NEW now \in FixTime,
         Alternates(rule)
  PROVE  LET event == EventOf(rule, prev, inside, now)
             next  == StateAfter(rule, prev, inside, now)
         IN  /\ event = "entry" => ~prev.inside /\ next.inside
             /\ event = "exit"  => prev.inside /\ ~next.inside
             /\ event = "dwell" => prev.inside /\ ~prev.dwelled /\ next.inside /\ next.dwelled
             /\ event = "none"  => /\ next.inside = prev.inside
                                   /\ prev.inside /\ prev.dwelled => next.dwelled
BY DEF Alternates, EventOf, StateAfter, Throttled, Transition, DwellDue, Rules, States

-----------------------------------------------------------------------------
(* Types. *)

Alert == [type : Events, time : FixTime]

\* What evaluateGeofences has found out: functions on some of the geofences.
StatesFound == UNION {[G -> States] : G \in SUBSET Geofence}
EventsFound == UNION {[G -> Events \cup {"none"}] : G \in SUBSET Geofence}

Transactions ==
  [at : {"new", "done", "failed"} \cup Open, online : BOOLEAN, attrs : SUBSET Attr,
   stale : BOOLEAN, states : StatesFound, fired : EventsFound]

\* The whole state, with the transactions and who holds the device row.
Typed ==
  /\ fixes \subseteq FixTime
  /\ row \in [time : FixTime \cup {Never}, where : SUBSET Geofence, online : BOOLEAN, attrs : SUBSET Attr]
  /\ recent \in BOOLEAN
  /\ fence \in [Geofence -> {"active", "inactive", "deleted"}] /\ member \in BOOLEAN
  /\ gstate \in [Geofence -> States]
  /\ alerts \in [Geofence -> Seq(Alert)]
  /\ evaluated \in [FixTime -> Nat]
  /\ tx \in [Request -> Transactions]
  /\ lock \in Request \cup {Nobody}
  /\ sweep \in [Sweeper -> {"idle", "selected", "flipped"}]
  /\ edits \in 0 .. MaxEdits /\ faults \in 0 .. MaxFaults

\* The device row is held from the UPDATE to the end of the transaction, and only
\* a position is inserted and evaluated.
Locked ==
  /\ \A r \in Request : tx[r].at \in {"updated", "evaluated"} <=> lock = r
  /\ \A r \in Request : tx[r].at \in {"inserted", "evaluated"} => IsFix(r)

\* What a transaction found out concerns geofences.
LEMMA FoundTypes ==
  ASSUME Typed, NEW r \in Request
  PROVE  /\ DOMAIN tx[r].states \subseteq Geofence
         /\ \A g \in DOMAIN tx[r].states : tx[r].states[g] \in States
         /\ DOMAIN tx[r].fired \subseteq Geofence
         /\ \A g \in DOMAIN tx[r].fired : tx[r].fired[g] \in Events \cup {"none"}
<1>1. tx[r].states \in StatesFound /\ tx[r].fired \in EventsFound
  BY DEF Typed, Transactions
<1>2. PICK G \in SUBSET Geofence : tx[r].states \in [G -> States]
  BY <1>1 DEF StatesFound
<1>3. PICK H \in SUBSET Geofence : tx[r].fired \in [H -> Events \cup {"none"}]
  BY <1>1 DEF EventsFound
<1> QED
  BY <1>2, <1>3

\* A transaction that is over, or has not begun, has found nothing.
LEMMA EndedType ==
  ASSUME NEW how \in {"new", "done", "failed"}
  PROVE  Ended(how) \in Transactions /\ Ended(how).at = how /\ Idle \in Transactions
<1>1. NoFences \in [{} -> States] /\ NoFences \in [{} -> Events \cup {"none"}]
  BY DEF NoFences
<1>2. NoFences \in StatesFound /\ NoFences \in EventsFound
  BY <1>1 DEF StatesFound, EventsFound
<1> QED
  BY <1>2 DEF Ended, Idle, Transactions

\* What the requests' bodies and the rules are.
LEMMA BodyTypes ==
  ASSUME NEW r \in Request
  PROVE  /\ Of[r].time \in FixTime /\ Of[r].inside \subseteq Geofence /\ Of[r].attrs \subseteq Attr
         /\ \A g \in Geofence : RuleOf[g] \in Rules
BY FleetAssumption DEF Bodies

\* evaluateGeofences (geofence-service.ts lines 55-113) finds, for geofences, the
\* engine's states and events.
LEMMA EvaluationType ==
  ASSUME Typed, NEW r \in Request
  PROVE  LET after == Evaluation(r, Applicable)
         IN  /\ after \in Transactions /\ after.at = "evaluated"
             /\ after.online = tx[r].online /\ after.attrs = tx[r].attrs /\ after.stale = tx[r].stale
             /\ DOMAIN after.states = Applicable /\ DOMAIN after.fired = Applicable
             /\ \A g \in Applicable :
                  /\ after.states[g] = StateAfter(RuleOf[g], gstate[g], g \in Of[r].inside, Of[r].time)
                  /\ after.fired[g] = EventAt(r, g)
<1> DEFINE found == [g \in Applicable |-> StateAfter(RuleOf[g], gstate[g], g \in Of[r].inside, Of[r].time)]
           fired == [g \in Applicable |-> EventAt(r, g)]
<1>1. Applicable \in SUBSET Geofence
  BY DEF Applicable
<1>2. ASSUME NEW g \in Applicable
      PROVE  /\ StateAfter(RuleOf[g], gstate[g], g \in Of[r].inside, Of[r].time) \in States
             /\ EventAt(r, g) \in Events \cup {"none"}
  <2>1. gstate[g] \in States /\ (g \in Of[r].inside) \in BOOLEAN
    BY <1>1 DEF Typed
  <2> QED
    BY <1>1, <2>1, BodyTypes, EngineTypes DEF EventAt
<1>3. found \in StatesFound /\ fired \in EventsFound
  <2>1. found \in [Applicable -> States] /\ fired \in [Applicable -> Events \cup {"none"}]
    BY <1>2
  <2> QED
    BY <1>1, <2>1 DEF StatesFound, EventsFound
<1>4. Evaluation(r, Applicable) = [tx[r] EXCEPT !.at = "evaluated", !.states = found, !.fired = fired]
  BY DEF Evaluation
<1>5. tx[r] \in Transactions
  BY DEF Typed
<1> HIDE DEF found, fired
<1>6. /\ Evaluation(r, Applicable) \in Transactions
      /\ Evaluation(r, Applicable).at = "evaluated"
      /\ Evaluation(r, Applicable).online = tx[r].online
      /\ Evaluation(r, Applicable).attrs = tx[r].attrs
      /\ Evaluation(r, Applicable).stale = tx[r].stale
      /\ Evaluation(r, Applicable).states = found
      /\ Evaluation(r, Applicable).fired = fired
  BY <1>3, <1>4, <1>5 DEF Transactions, Open
<1> QED
  BY <1>6 DEF found, fired

\* A write of the row marks the transactions that have read it.
LEMMA OvertakenType ==
  ASSUME Typed
  PROVE  /\ Overtaken \in [Request -> Transactions]
         /\ \A q \in Request : /\ Overtaken[q] = [tx[q] EXCEPT !.stale = @ \/ tx[q].at = "read"]
                               /\ Overtaken[q].at = tx[q].at
                               /\ Overtaken[q].online = tx[q].online /\ Overtaken[q].attrs = tx[q].attrs
                               /\ Overtaken[q].states = tx[q].states /\ Overtaken[q].fired = tx[q].fired
                               /\ Overtaken[q].stale = (tx[q].stale \/ tx[q].at = "read")
<1>1. ASSUME NEW q \in Request
      PROVE  /\ Overtaken[q] = [tx[q] EXCEPT !.stale = @ \/ tx[q].at = "read"]
             /\ Overtaken[q] \in Transactions /\ Overtaken[q].at = tx[q].at
             /\ Overtaken[q].online = tx[q].online /\ Overtaken[q].attrs = tx[q].attrs
             /\ Overtaken[q].states = tx[q].states /\ Overtaken[q].fired = tx[q].fired
             /\ Overtaken[q].stale = (tx[q].stale \/ tx[q].at = "read")
  <2> DEFINE b == tx[q].stale \/ tx[q].at = "read"
  <2>1. tx[q] \in Transactions /\ b \in BOOLEAN
    BY DEF Typed, Transactions
  <2>2. Overtaken[q] = [tx[q] EXCEPT !.stale = b]
    BY DEF Overtaken
  <2> HIDE DEF b
  <2>3. /\ Overtaken[q] \in Transactions /\ Overtaken[q].at = tx[q].at
        /\ Overtaken[q].online = tx[q].online /\ Overtaken[q].attrs = tx[q].attrs
        /\ Overtaken[q].states = tx[q].states /\ Overtaken[q].fired = tx[q].fired
        /\ Overtaken[q].stale = b
    BY <2>1, <2>2 DEF Transactions
  <2> QED
    BY <2>2, <2>3 DEF b
<1>2. Overtaken = [q \in Request |-> Overtaken[q]]
  BY DEF Overtaken
<1>3. Overtaken \in [Request -> Transactions]
  BY <1>1, <1>2
<1> QED
  BY <1>1, <1>3

-----------------------------------------------------------------------------
(* What each statement does to the transactions and to what is stored. *)

\* The insert (positions-service.ts lines 33-53) begins the transaction, or ends it
\* because the fix is stored.
LEMMA InsertEffect ==
  ASSUME Typed, NEW r \in Request, InsertPosition(r)
  PROVE  /\ tx' \in [Request -> Transactions] /\ \A q \in Request \ {r} : tx'[q] = tx[q]
         /\ tx[r].at = "new" /\ IsFix(r)
         /\ tx'[r].at \in {"inserted", "done"} /\ (tx'[r].at = "inserted" => Of[r].time \notin fixes)
         /\ ~ \E q \in Request \ {r} : IsFix(q) /\ Of[q].time = Of[r].time /\ tx[q].at \in Open
         /\ UNCHANGED <<storeVars, recent, fenceVars, lock, sweep, faults>>
<1> DEFINE a == IF Of[r].time \in fixes THEN "done" ELSE "inserted"
<1>1. /\ tx[r].at = "new" /\ IsFix(r)
      /\ ~ \E q \in Request \ {r} : IsFix(q) /\ Of[q].time = Of[r].time /\ tx[q].at \in Open
      /\ tx' = [tx EXCEPT ![r] = [@ EXCEPT !.at = a]]
      /\ UNCHANGED <<storeVars, recent, fenceVars, lock, sweep, faults>>
  BY DEF InsertPosition
<1>2. a \in {"inserted", "done"} /\ (a = "inserted" => Of[r].time \notin fixes)
  OBVIOUS
<1> HIDE DEF a
<1>3. tx \in [Request -> Transactions] /\ tx[r] \in Transactions
  BY DEF Typed
<1>4. [tx[r] EXCEPT !.at = a] \in Transactions /\ [tx[r] EXCEPT !.at = a].at = a
  BY <1>2, <1>3 DEF Transactions, Open
<1> QED
  BY <1>1, <1>2, <1>3, <1>4

\* The select of the previous row (lines 55-59).
LEMMA ReadEffect ==
  ASSUME Typed, NEW r \in Request, ReadDevice(r)
  PROVE  /\ tx' \in [Request -> Transactions] /\ \A q \in Request \ {r} : tx'[q] = tx[q]
         /\ tx[r].at = IF IsFix(r) THEN "inserted" ELSE "new"
         /\ tx'[r].at = "read" /\ tx'[r].attrs = row.attrs /\ tx'[r].online = row.online
         /\ UNCHANGED <<storeVars, recent, fenceVars, lock, sweep, faults>>
<1> DEFINE after == [tx[r] EXCEPT !.at = "read", !.stale = FALSE, !.online = row.online, !.attrs = row.attrs]
<1>1. /\ tx[r].at = IF IsFix(r) THEN "inserted" ELSE "new"
      /\ tx' = [tx EXCEPT ![r] = after]
      /\ UNCHANGED <<storeVars, recent, fenceVars, lock, sweep, faults>>
  BY DEF ReadDevice
<1>2. tx \in [Request -> Transactions] /\ tx[r] \in Transactions /\ row.online \in BOOLEAN /\ row.attrs \in SUBSET Attr
  BY DEF Typed
<1>3. after \in Transactions /\ after.at = "read" /\ after.attrs = row.attrs /\ after.online = row.online
  BY <1>2 DEF Transactions, Open
<1> HIDE DEF after
<1> QED
  BY <1>1, <1>2, <1>3

\* The UPDATE takes the device row (lines 61-73).
LEMMA UpdateEffect ==
  ASSUME Typed, NEW r \in Request, UpdateDevice(r)
  PROVE  /\ tx' \in [Request -> Transactions] /\ \A q \in Request \ {r} : tx'[q] = tx[q]
         /\ tx[r].at = "read" /\ tx'[r] = [tx[r] EXCEPT !.at = "updated"]
         /\ tx'[r].at = "updated" /\ tx'[r].attrs = tx[r].attrs
         /\ tx'[r].online = tx[r].online /\ tx'[r].stale = tx[r].stale
         /\ lock = Nobody /\ lock' = r
         /\ UNCHANGED <<storeVars, recent, fenceVars, sweep, faults>>
<1>1. tx \in [Request -> Transactions] /\ tx[r] \in Transactions
  BY DEF Typed
<1>2. /\ tx' = [tx EXCEPT ![r] = [@ EXCEPT !.at = "updated"]] /\ tx[r].at = "read" /\ lock = Nobody /\ lock' = r
      /\ UNCHANGED <<storeVars, recent, fenceVars, sweep, faults>>
  BY DEF UpdateDevice
<1>3. [tx[r] EXCEPT !.at = "updated"] \in Transactions
  BY <1>1 DEF Transactions, Open
<1> QED
  BY <1>1, <1>2, <1>3 DEF Transactions

\* The evaluation writes nothing yet.
LEMMA EvaluateEffect ==
  ASSUME Typed, NEW r \in Request, EvaluateGeofences(r)
  PROVE  /\ tx' \in [Request -> Transactions] /\ \A q \in Request \ {r} : tx'[q] = tx[q]
         /\ tx[r].at = "updated" /\ IsFix(r) /\ tx'[r] = Evaluation(r, Applicable)
         /\ UNCHANGED <<storeVars, recent, fenceVars, lock, sweep, faults>>
BY EvaluationType DEF EvaluateGeofences, Typed

\* A commit or a roll-back ends the transaction and gives the row back.
LEMMA WrittenEffect ==
  ASSUME Typed, NEW r \in Request, Written(r)
  PROVE  /\ tx' \in [Request -> Transactions] /\ tx'[r].at = "done"
         /\ \A q \in Request \ {r} : tx'[q] = Overtaken[q]
         /\ recent' = TRUE /\ lock' = IF lock = r THEN Nobody ELSE lock
<1>1. tx' = [Overtaken EXCEPT ![r] = Ended("done")]
  BY DEF Written
<1> QED
  BY <1>1, OvertakenType, EndedType DEF Written

\* Nothing a failed transaction did stays.
LEMMA RollBackEffect ==
  ASSUME Typed, NEW r \in Request, DeletedUnderway(r) \/ Fails(r)
  PROVE  /\ tx' \in [Request -> Transactions] /\ \A q \in Request \ {r} : tx'[q] = tx[q]
         /\ tx[r].at \in Open /\ tx'[r].at = "failed" /\ lock' = IF lock = r THEN Nobody ELSE lock
         /\ faults' \in 0 .. MaxFaults
         /\ UNCHANGED <<storeVars, recent, fenceVars, sweep>>
<1>1. tx[r].at \in Open /\ RolledBack(r)
  BY DEF DeletedUnderway, Fails, Open
<1>2. faults' \in 0 .. MaxFaults
  BY FleetAssumption DEF DeletedUnderway, Fails, Typed
<1>3. tx' = [tx EXCEPT ![r] = Ended("failed")] /\ lock' = IF lock = r THEN Nobody ELSE lock
  BY <1>1 DEF RolledBack
<1> QED
  BY <1>1, <1>2, <1>3, EndedType DEF RolledBack, Typed

\* mergedAttributes (positions-service.ts lines 22-26) are attributes.
LEMMA MergedType ==
  ASSUME Typed, NEW r \in Request
  PROVE  mergedAttributes(r) \subseteq Attr
BY BodyTypes DEF mergedAttributes, Typed, Transactions

-----------------------------------------------------------------------------
(* Typed and Locked are inductive. *)

\* A position's commit stores states, appends alerts and counts.
LEMMA CommitTypes ==
  ASSUME Typed, NEW r \in Request, CommitFix(r)
  PROVE  Typed'
<1>1. /\ tx[r].at = "evaluated"
      /\ fixes' = fixes \cup {Of[r].time}
      /\ row' = [time |-> Of[r].time, where |-> Of[r].inside, online |-> TRUE, attrs |-> mergedAttributes(r)]
      /\ gstate' = [g \in Geofence |-> IF g \in DOMAIN tx[r].states THEN tx[r].states[g] ELSE gstate[g]]
      /\ alerts' = [g \in Geofence |->
                  IF Raised(r, g) THEN Append(alerts[g], [type |-> tx[r].fired[g], time |-> Of[r].time])
                  ELSE alerts[g]]
      /\ evaluated' = [evaluated EXCEPT ![Of[r].time] = @ + 1]
      /\ Written(r)
      /\ UNCHANGED <<fenceVars, sweep, faults>>
  BY DEF CommitFix
<1>2. fixes' \subseteq FixTime
  BY <1>1, BodyTypes DEF Typed
<1>3. row' \in [time : FixTime \cup {Never}, where : SUBSET Geofence, online : BOOLEAN, attrs : SUBSET Attr]
  BY <1>1, BodyTypes, MergedType
<1>4. gstate' \in [Geofence -> States]
  BY <1>1, FoundTypes DEF Typed
<1>5. alerts' \in [Geofence -> Seq(Alert)]
  <2>1. ASSUME NEW g \in Geofence, Raised(r, g)
        PROVE  Append(alerts[g], [type |-> tx[r].fired[g], time |-> Of[r].time]) \in Seq(Alert)
    <3>1. [type |-> tx[r].fired[g], time |-> Of[r].time] \in Alert
      BY <2>1, FoundTypes, BodyTypes DEF Raised, Alert
    <3> QED
      BY <3>1, AppendProperties DEF Typed
  <2> QED
    BY <1>1, <2>1 DEF Typed
<1>6. evaluated' \in [FixTime -> Nat]
  BY <1>1, BodyTypes DEF Typed
<1>7. tx' \in [Request -> Transactions] /\ recent' = TRUE /\ lock' \in {lock, Nobody}
  BY <1>1, WrittenEffect
<1> QED
  BY <1>1, <1>2, <1>3, <1>4, <1>5, <1>6, <1>7 DEF Typed, fenceVars

\* Every other action.
LEMMA TypedStep ==
  ASSUME Typed, [Next]_vars
  PROVE  Typed'
<1>1. ASSUME NEW r \in Request, Handle(r) \/ Fails(r)
      PROVE  Typed'
  <2>1. CASE InsertPosition(r)
    BY <2>1, InsertEffect DEF Typed, storeVars, fenceVars
  <2>2. CASE ReadDevice(r)
    BY <2>2, ReadEffect DEF Typed, storeVars, fenceVars
  <2>3. CASE UpdateDevice(r)
    BY <2>3, UpdateEffect DEF Typed, storeVars, fenceVars
  <2>4. CASE EvaluateGeofences(r)
    BY <2>4, EvaluateEffect DEF Typed, storeVars, fenceVars
  <2>5. CASE CommitStatus(r)
    <3>1. /\ tx' \in [Request -> Transactions] /\ recent' = TRUE /\ lock' \in {lock, Nobody}
          /\ UNCHANGED <<fixes, gstate, alerts, evaluated, fenceVars, sweep, faults>>
      BY <2>5, WrittenEffect DEF CommitStatus
    <3>2. row' = [row EXCEPT !.online = TRUE, !.attrs = mergedAttributes(r)]
      BY <2>5 DEF CommitStatus
    <3>3. row' \in [time : FixTime \cup {Never}, where : SUBSET Geofence, online : BOOLEAN, attrs : SUBSET Attr]
      BY <3>2, MergedType DEF Typed
    <3> QED
      BY <3>1, <3>3 DEF Typed, fenceVars
  <2>6. CASE DeletedUnderway(r) \/ Fails(r)
    BY <2>6, RollBackEffect DEF Typed, storeVars, fenceVars
  <2> QED
    BY <1>1, <2>1, <2>2, <2>3, <2>4, <2>5, <2>6, CommitTypes DEF Handle
<1>2. CASE Edit
  <2>1. EmptyState \in States
    BY DEF EmptyState, States
  <2>2. ASSUME edits < MaxEdits, edits' = edits + 1
        PROVE  edits' \in 0 .. MaxEdits
    BY <2>2, FleetAssumption DEF Typed
  <2>3. ASSUME NEW g \in Edited, SwitchGeofence(g)
        PROVE  Typed'
    BY <2>2, <2>3 DEF SwitchGeofence, Typed, storeVars
  <2>4. ASSUME NEW g \in Edited, DeleteGeofence(g)
        PROVE  Typed'
    BY <2>1, <2>2, <2>4 DEF DeleteGeofence, Typed
  <2>5. ASSUME NEW in \in BOOLEAN, SetMembers(in)
        PROVE  Typed'
    BY <2>2, <2>5 DEF SetMembers, Typed, storeVars
  <2> QED
    BY <1>2, <2>3, <2>4, <2>5 DEF Edit
<1>3. CASE ThresholdPasses
  BY <1>3 DEF ThresholdPasses, Typed, storeVars, fenceVars
<1>4. ASSUME NEW s \in Sweeper, Sweep(s)
      PROVE  Typed'
  <2>1. CASE SweepFlips(s)
    <3>1. /\ row' = [row EXCEPT !.online = FALSE] /\ sweep' = [sweep EXCEPT ![s] = "flipped"] /\ tx' = Overtaken
          /\ UNCHANGED <<fixes, gstate, alerts, evaluated, recent, fenceVars, lock, faults>>
      BY <2>1 DEF SweepFlips
    <3> QED
      BY <3>1, OvertakenType DEF Typed, fenceVars
  <2>2. CASE SweepSelects(s) \/ SweepEmits(s)
    BY <2>2 DEF SweepSelects, SweepEmits, Typed, storeVars, fenceVars
  <2> QED
    BY <1>4, <2>1, <2>2 DEF Sweep
<1>5. CASE UNCHANGED vars
  BY <1>5 DEF vars, Typed, storeVars, fenceVars
<1> QED
  BY <1>1, <1>2, <1>3, <1>4, <1>5 DEF Next

\* A commit by r: the other transactions go on where they were.
LEMMA CommitEffect ==
  ASSUME Typed, Locked, NEW r \in Request, CommitFix(r) \/ CommitStatus(r)
  PROVE  /\ tx[r].at \in {"updated", "evaluated"} /\ tx'[r].at = "done"
         /\ lock = r /\ lock' = Nobody
         /\ \A q \in Request \ {r} :
              /\ tx'[q] = Overtaken[q] /\ tx'[q].at = tx[q].at
              /\ tx[q].at \notin {"updated", "evaluated"}
         /\ UNCHANGED fenceVars
<1>1. tx[r].at \in {"updated", "evaluated"} /\ Written(r) /\ UNCHANGED fenceVars
  BY DEF CommitFix, CommitStatus
<1>2. lock = r /\ \A q \in Request \ {r} : tx[q].at \notin {"updated", "evaluated"}
  BY <1>1 DEF Locked
<1> QED
  BY <1>1, <1>2, WrittenEffect, OvertakenType

\* The edits, the clock and the sweep touch no transaction's progress.
LEMMA BackgroundEffect ==
  ASSUME Typed, Edit \/ ThresholdPasses \/ (\E s \in Sweeper : Sweep(s)) \/ UNCHANGED vars
  PROVE  /\ lock' = lock
         /\ \A q \in Request : /\ tx'[q].at = tx[q].at
                               /\ tx'[q].states = tx[q].states /\ tx'[q].fired = tx[q].fired
                               /\ tx'[q].attrs = tx[q].attrs /\ tx'[q].online = tx[q].online
         /\ UNCHANGED <<fixes, evaluated, alerts>>
         /\ \/ tx' = tx /\ row' = row
            \/ /\ lock = Nobody /\ tx' = Overtaken
               /\ row' = [row EXCEPT !.online = FALSE] /\ UNCHANGED <<fence, gstate>>
<1>1. CASE \E s \in Sweeper : SweepFlips(s)
  BY <1>1, OvertakenType DEF SweepFlips, fenceVars
<1>2. CASE \E s \in Sweeper : SweepSelects(s) \/ SweepEmits(s)
  BY <1>2 DEF SweepSelects, SweepEmits, storeVars
<1>3. CASE Edit
  BY <1>3 DEF Edit, SwitchGeofence, DeleteGeofence, SetMembers, storeVars
<1>4. CASE ThresholdPasses \/ UNCHANGED vars
  BY <1>4 DEF ThresholdPasses, vars, storeVars
<1> QED
  BY <1>1, <1>2, <1>3, <1>4 DEF Sweep

\* Only the UPDATE takes the row, and the end of a transaction gives it back.
LEMMA LockedStep ==
  ASSUME Typed, Locked, [Next]_vars
  PROVE  Locked'
<1> USE FleetAssumption
<1>1. ASSUME NEW r \in Request, InsertPosition(r)
      PROVE  Locked'
  BY <1>1, InsertEffect DEF Locked, IsFix
<1>2. ASSUME NEW r \in Request, ReadDevice(r)
      PROVE  Locked'
  BY <1>2, ReadEffect DEF Locked, IsFix
<1>3. ASSUME NEW r \in Request, UpdateDevice(r)
      PROVE  Locked'
  BY <1>3, UpdateEffect DEF Locked, IsFix
<1>4. ASSUME NEW r \in Request, EvaluateGeofences(r)
      PROVE  Locked'
  BY <1>4, EvaluateEffect, EvaluationType DEF Locked, IsFix
<1>5. ASSUME NEW r \in Request, CommitFix(r) \/ CommitStatus(r)
      PROVE  Locked'
  BY <1>5, CommitEffect DEF Locked, IsFix
<1>6. ASSUME NEW r \in Request, DeletedUnderway(r) \/ Fails(r)
      PROVE  Locked'
  BY <1>6, RollBackEffect DEF Locked, IsFix
<1>7. CASE Edit \/ ThresholdPasses \/ (\E s \in Sweeper : Sweep(s)) \/ UNCHANGED vars
  BY <1>7, BackgroundEffect DEF Locked, IsFix
<1> QED
  BY <1>1, <1>2, <1>3, <1>4, <1>5, <1>6, <1>7 DEF Next, Handle

-----------------------------------------------------------------------------
(* Evaluated once. *)

\* The unique index (schema.ts) at work: while a fix is being recorded it is not
\* stored, and nobody else is recording it.
BeingStored ==
  \A r \in Request : IsFix(r) /\ tx[r].at \in Open =>
    /\ Of[r].time \notin fixes
    /\ \A q \in Request \ {r} : IsFix(q) /\ tx[q].at \in Open => Of[q].time # Of[r].time

\* A retry waits for the first attempt and then finds the fix stored.
LEMMA EvaluatedStep ==
  ASSUME Typed, Locked, BeingStored, FixEvaluatedOnce, [Next]_vars
  PROVE  BeingStored' /\ FixEvaluatedOnce'
<1>1. ASSUME NEW r \in Request, InsertPosition(r)
      PROVE  BeingStored' /\ FixEvaluatedOnce'
  BY <1>1, InsertEffect DEF BeingStored, FixEvaluatedOnce, IsFix, storeVars, Open
<1>2. ASSUME NEW r \in Request, ReadDevice(r) \/ UpdateDevice(r) \/ EvaluateGeofences(r)
      PROVE  BeingStored' /\ FixEvaluatedOnce'
  <2>1. /\ UNCHANGED <<fixes, evaluated>> /\ \A q \in Request \ {r} : tx'[q] = tx[q]
        /\ IsFix(r) => tx[r].at \in Open
    BY <1>2, ReadEffect, UpdateEffect, EvaluateEffect DEF storeVars, Open
  <2> QED
    BY <2>1 DEF BeingStored, FixEvaluatedOnce, IsFix
<1>3. ASSUME NEW r \in Request, CommitFix(r)
      PROVE  BeingStored' /\ FixEvaluatedOnce'
  <2>1. /\ IsFix(r) /\ tx[r].at \in Open /\ tx'[r].at = "done" /\ \A q \in Request \ {r} : tx'[q].at = tx[q].at
        /\ fixes' = fixes \cup {Of[r].time} /\ evaluated' = [evaluated EXCEPT ![Of[r].time] = @ + 1]
    BY <1>3, CommitEffect DEF CommitFix, Locked, Open
  <2>2. Of[r].time \notin fixes /\ Of[r].time \in FixTime
    BY <2>1, BodyTypes DEF BeingStored
  <2>3. BeingStored'
    BY <2>1 DEF BeingStored, IsFix, Open
  <2>4. FixEvaluatedOnce'
    BY <2>1, <2>2 DEF FixEvaluatedOnce, Typed
  <2> QED
    BY <2>3, <2>4
<1>4. ASSUME NEW r \in Request, CommitStatus(r)
      PROVE  BeingStored' /\ FixEvaluatedOnce'
  <2>1. UNCHANGED <<fixes, evaluated>> /\ tx'[r].at = "done" /\ \A q \in Request \ {r} : tx'[q].at = tx[q].at
    BY <1>4, CommitEffect DEF CommitStatus
  <2> QED
    BY <2>1 DEF BeingStored, FixEvaluatedOnce, IsFix, Open
<1>5. ASSUME NEW r \in Request, DeletedUnderway(r) \/ Fails(r)
      PROVE  BeingStored' /\ FixEvaluatedOnce'
  BY <1>5, RollBackEffect DEF BeingStored, FixEvaluatedOnce, IsFix, storeVars, Open
<1>6. CASE Edit \/ ThresholdPasses \/ (\E s \in Sweeper : Sweep(s)) \/ UNCHANGED vars
  BY <1>6, BackgroundEffect DEF BeingStored, FixEvaluatedOnce, IsFix
<1> QED
  BY <1>1, <1>2, <1>3, <1>4, <1>5, <1>6 DEF Next, Handle

-----------------------------------------------------------------------------
(* States and row. *)

\* Nobody edits these geofences, so every evaluation covers them.
Covered ==
  \A g \in Geofence \ Edited :
    /\ fence[g] = "active"
    /\ \A r \in Request : tx[r].at = "evaluated" => g \in DOMAIN tx[r].states

\* What an evaluation found is still what an evaluation would find, because the
\* device row is held until the commit; only a deletion comes in between.
Undisturbed ==
  \A r \in Request : tx[r].at = "evaluated" =>
    /\ DOMAIN tx[r].fired = DOMAIN tx[r].states
    /\ \A g \in DOMAIN tx[r].states : fence[g] # "deleted" =>
         /\ tx[r].states[g] = StateAfter(RuleOf[g], gstate[g], g \in Of[r].inside, Of[r].time)
         /\ tx[r].fired[g] = EventAt(r, g)

\* The two keep through every step.
LEMMA UndisturbedStep ==
  ASSUME Typed, Locked, Covered, Undisturbed, [Next]_vars
  PROVE  Covered' /\ Undisturbed'
<1>1. ASSUME NEW r \in Request, InsertPosition(r) \/ ReadDevice(r) \/ UpdateDevice(r) \/ DeletedUnderway(r) \/ Fails(r)
      PROVE  Covered' /\ Undisturbed'
  <2>1. /\ tx'[r].at # "evaluated" /\ \A q \in Request \ {r} : tx'[q] = tx[q]
        /\ UNCHANGED <<fence, gstate>>
    BY <1>1, InsertEffect, ReadEffect, UpdateEffect, RollBackEffect DEF storeVars, fenceVars
  <2> QED
    BY <2>1 DEF Covered, Undisturbed, EventAt
<1>2. ASSUME NEW r \in Request, EvaluateGeofences(r)
      PROVE  Covered' /\ Undisturbed'
  <2>1. /\ tx'[r] = Evaluation(r, Applicable) /\ \A q \in Request \ {r} : tx'[q] = tx[q]
        /\ UNCHANGED <<fence, gstate>>
    BY <1>2, EvaluateEffect DEF storeVars, fenceVars
  <2>2. /\ DOMAIN tx'[r].states = Applicable /\ DOMAIN tx'[r].fired = Applicable
        /\ \A g \in Applicable :
             /\ tx'[r].states[g] = StateAfter(RuleOf[g], gstate[g], g \in Of[r].inside, Of[r].time)
             /\ tx'[r].fired[g] = EventAt(r, g)
    BY <2>1, EvaluationType
  <2>3. Covered'
    BY <2>1, <2>2, FleetAssumption DEF Covered, Applicable
  <2>4. Undisturbed'
    BY <2>1, <2>2 DEF Undisturbed, EventAt
  <2> QED
    BY <2>3, <2>4
<1>3. ASSUME NEW r \in Request, CommitFix(r) \/ CommitStatus(r)
      PROVE  Covered' /\ Undisturbed'
  <2>1. fence' = fence /\ \A q \in Request : tx'[q].at # "evaluated"
    BY <1>3, CommitEffect DEF fenceVars
  <2> QED
    BY <2>1 DEF Covered, Undisturbed
<1>4. CASE Edit
  <2>1. tx' = tx /\ \A g \in Geofence \ Edited : fence'[g] = fence[g]
    BY <1>4 DEF Edit, SwitchGeofence, DeleteGeofence, SetMembers, Typed
  <2>2. \A g \in Geofence : fence'[g] # "deleted" => fence[g] # "deleted" /\ gstate'[g] = gstate[g]
    BY <1>4, FleetAssumption DEF Edit, SwitchGeofence, DeleteGeofence, SetMembers, Typed, storeVars
  <2>3. \A r \in Request : DOMAIN tx[r].states \subseteq Geofence
    BY FoundTypes
  <2> QED
    BY <2>1, <2>2, <2>3 DEF Covered, Undisturbed, EventAt
<1>5. CASE ThresholdPasses \/ (\E s \in Sweeper : Sweep(s)) \/ UNCHANGED vars
  <2>1. UNCHANGED <<fence, gstate>>
    BY <1>5 DEF ThresholdPasses, Sweep, SweepSelects, SweepFlips, SweepEmits, vars, storeVars, fenceVars
  <2> QED
    BY <1>5, <2>1, BackgroundEffect DEF Covered, Undisturbed, EventAt
<1> QED
  BY <1>1, <1>2, <1>3, <1>4, <1>5 DEF Next, Handle

\* What a position's commit makes of a geofence that is not deleted: either
\* nothing, or what the engine says of its state.
LEMMA CommitOfFence ==
  ASSUME Typed, Undisturbed, NEW r \in Request, CommitFix(r), NEW g \in Geofence
  PROVE  \/ g \notin DOMAIN tx[r].states /\ gstate'[g] = gstate[g] /\ alerts'[g] = alerts[g]
         \/ /\ g \in DOMAIN tx[r].states /\ fence[g] # "deleted"
            /\ gstate'[g] = StateAfter(RuleOf[g], gstate[g], g \in Of[r].inside, Of[r].time)
            /\ alerts'[g] = IF EventAt(r, g) = "none" THEN alerts[g]
                            ELSE Append(alerts[g], [type |-> EventAt(r, g), time |-> Of[r].time])
<1>1. /\ tx[r].at = "evaluated"
      /\ \A h \in DOMAIN tx[r].states : fence[h] # "deleted"
      /\ gstate'[g] = IF g \in DOMAIN tx[r].states THEN tx[r].states[g] ELSE gstate[g]
      /\ alerts'[g] = IF Raised(r, g) THEN Append(alerts[g], [type |-> tx[r].fired[g], time |-> Of[r].time])
                      ELSE alerts[g]
  BY DEF CommitFix
<1>2. CASE g \in DOMAIN tx[r].states
  <2>1. /\ tx[r].states[g] = StateAfter(RuleOf[g], gstate[g], g \in Of[r].inside, Of[r].time)
        /\ tx[r].fired[g] = EventAt(r, g) /\ g \in DOMAIN tx[r].fired
    BY <1>1, <1>2 DEF Undisturbed
  <2> QED
    BY <1>1, <1>2, <2>1 DEF Raised
<1>3. CASE g \notin DOMAIN tx[r].states
  BY <1>1, <1>3 DEF Undisturbed, Raised
<1> QED
  BY <1>2, <1>3

\* The states follow the row, position by position.
LEMMA RowStep ==
  ASSUME Typed, Locked, Covered, Undisturbed, StatesFollowRow, [Next]_vars
  PROVE  StatesFollowRow'
<1>1. ASSUME NEW r \in Request, CommitFix(r)
      PROVE  StatesFollowRow'
  <2>1. row'.where = Of[r].inside /\ tx[r].at = "evaluated"
    BY <1>1 DEF CommitFix
  <2>2. ASSUME NEW g \in Geofence \ Edited
        PROVE  gstate'[g].inside <=> g \in row'.where
    <3>1. gstate'[g] = StateAfter(RuleOf[g], gstate[g], g \in Of[r].inside, Of[r].time)
      BY <1>1, <2>1, CommitOfFence DEF Covered
    <3>2. gstate'[g].inside = (g \in Of[r].inside)
      BY <3>1 DEF StateAfter
    <3> QED
      BY <2>1, <3>2
  <2> QED
    BY <2>2 DEF StatesFollowRow
<1>2. ASSUME NEW r \in Request, InsertPosition(r) \/ ReadDevice(r) \/ UpdateDevice(r) \/ EvaluateGeofences(r)
                                  \/ DeletedUnderway(r) \/ Fails(r)
      PROVE  StatesFollowRow'
  <2>1. UNCHANGED <<row, gstate>>
    BY <1>2, InsertEffect, ReadEffect, UpdateEffect, EvaluateEffect, RollBackEffect DEF storeVars
  <2> QED
    BY <2>1 DEF StatesFollowRow
<1>3. ASSUME NEW r \in Request, CommitStatus(r)
      PROVE  StatesFollowRow'
  <2>1. row'.where = row.where /\ gstate' = gstate
    BY <1>3 DEF CommitStatus, Typed
  <2> QED
    BY <2>1 DEF StatesFollowRow
<1>4. CASE Edit
  <2>1. row' = row /\ \A g \in Geofence \ Edited : gstate'[g] = gstate[g]
    BY <1>4 DEF Edit, SwitchGeofence, DeleteGeofence, SetMembers, Typed, storeVars
  <2> QED
    BY <2>1 DEF StatesFollowRow
<1>5. CASE ThresholdPasses \/ (\E s \in Sweeper : Sweep(s)) \/ UNCHANGED vars
  <2>1. gstate' = gstate /\ row'.where = row.where
    BY <1>5 DEF ThresholdPasses, Sweep, SweepSelects, SweepFlips, SweepEmits, vars, storeVars, Typed
  <2> QED
    BY <2>1 DEF StatesFollowRow
<1> QED
  BY <1>1, <1>2, <1>3, <1>4, <1>5 DEF Next, Handle

-----------------------------------------------------------------------------
(* The history of alerts. *)

\* The last alert of a history s; before the first one the device is outside.
LastType(s) == IF s = <<>> THEN "exit" ELSE s[Len(s)].type
LastTime(s) == IF s = <<>> THEN Never ELSE s[Len(s)].time

\* AlertHistoryLegal of one geofence's history s.
Legal(g, s) ==
  \A i \in DOMAIN s :
    LET prior == IF i = 1 THEN "exit" ELSE s[i - 1].type
    IN  /\ Alternates(RuleOf[g]) => prior \in Before(s[i].type)
        /\ i > 1 /\ RuleOf[g].throttle > 0 => s[i].time - s[i - 1].time >= RuleOf[g].throttle

\* The state that is stored for a geofence and the history of its alerts agree:
\* the engine decides on what the last alert said.
Recorded(g) ==
  /\ gstate[g].lastEventAt = LastTime(alerts[g])
  /\ Alternates(RuleOf[g]) => /\ gstate[g].inside <=> LastType(alerts[g]) # "exit"
                              /\ LastType(alerts[g]) = "dwell" => gstate[g].dwelled

\* One more alert.
LEMMA AppendAlert ==
  ASSUME NEW s \in Seq(Alert), NEW a \in Alert
  PROVE  /\ Append(s, a) \in Seq(Alert)
         /\ LastType(Append(s, a)) = a.type /\ LastTime(Append(s, a)) = a.time
         /\ DOMAIN Append(s, a) = 1 .. (Len(s) + 1) /\ DOMAIN s = 1 .. Len(s) /\ Len(s) \in Nat
         /\ Append(s, a)[Len(s) + 1] = a
         /\ \A i \in 1 .. Len(s) : Append(s, a)[i] = s[i]
<1>1. /\ Append(s, a) \in Seq(Alert) /\ Len(Append(s, a)) = Len(s) + 1
      /\ Append(s, a)[Len(s) + 1] = a /\ \A i \in 1 .. Len(s) : Append(s, a)[i] = s[i]
      /\ Append(s, a) # <<>>
  BY AppendProperties
<1>2. DOMAIN Append(s, a) = 1 .. Len(Append(s, a)) /\ DOMAIN s = 1 .. Len(s) /\ Len(s) \in Nat
  BY <1>1, LenProperties
<1> QED
  BY <1>1, <1>2 DEF LastType, LastTime

\* The last alert is one.
LEMMA LastAlert ==
  ASSUME NEW s \in Seq(Alert)
  PROVE  LastType(s) \in Events /\ (s # <<>> => LastTime(s) # Never)
<1>1. CASE s = <<>>
  BY <1>1 DEF LastType, Events
<1>2. CASE s # <<>>
  <2>1. Len(s) \in Nat /\ Len(s) # 0
    BY <1>2, EmptySeq, LenProperties
  <2>2. Len(s) \in 1 .. Len(s)
    BY <2>1
  <2>3. s[Len(s)] \in Alert
    BY <2>2, ElementOfSeq
  <2> QED
    BY <1>2, <2>3, FixTimeAssumption DEF LastType, LastTime, Alert, Never
<1> QED
  BY <1>1, <1>2

\* A history stays legal under an alert that may follow its last one.
LEMMA LegalAppend ==
  ASSUME NEW g \in Geofence, NEW s \in Seq(Alert), NEW a \in Alert, Legal(g, s),
         Alternates(RuleOf[g]) => LastType(s) \in Before(a.type),
         s # <<>> /\ RuleOf[g].throttle > 0 => a.time - LastTime(s) >= RuleOf[g].throttle
  PROVE  Legal(g, Append(s, a))
<1> DEFINE t == Append(s, a)
<1> SUFFICES ASSUME NEW i \in DOMAIN t
             PROVE  /\ Alternates(RuleOf[g]) => (IF i = 1 THEN "exit" ELSE t[i - 1].type) \in Before(t[i].type)
                    /\ i > 1 /\ RuleOf[g].throttle > 0 => t[i].time - t[i - 1].time >= RuleOf[g].throttle
  BY DEF Legal
<1>1. /\ DOMAIN t = 1 .. (Len(s) + 1) /\ DOMAIN s = 1 .. Len(s) /\ Len(s) \in Nat
      /\ t[Len(s) + 1] = a /\ \A j \in 1 .. Len(s) : t[j] = s[j]
  BY AppendAlert
<1> HIDE DEF t
<1>2. CASE i \in DOMAIN s
  <2>1. t[i] = s[i] /\ (i # 1 => t[i - 1] = s[i - 1])
    BY <1>1, <1>2
  <2> QED
    BY <1>2, <2>1 DEF Legal
<1>3. CASE i \notin DOMAIN s
  <2>1. i = Len(s) + 1 /\ t[i] = a
    BY <1>1, <1>3
  <2>2. CASE s = <<>>
    <3>1. i = 1 /\ LastType(s) = "exit"
      BY <2>1, <2>2, EmptySeq DEF LastType
    <3> QED
      BY <2>1, <3>1
  <2>3. CASE s # <<>>
    <3>1. Len(s) \in 1 .. Len(s) /\ i # 1 /\ i - 1 = Len(s)
      BY <1>1, <2>1, <2>3, EmptySeq
    <3>2. t[i - 1] = s[Len(s)] /\ LastType(s) = s[Len(s)].type /\ LastTime(s) = s[Len(s)].time
      BY <1>1, <2>3, <3>1 DEF LastType, LastTime
    <3> QED
      BY <2>1, <2>3, <3>1, <3>2
  <2> QED
    BY <2>2, <2>3
<1> QED
  BY <1>2, <1>3

\* Every alert that a commit adds is one that may follow, and the state keeps up.
LEMMA AlertStep ==
  ASSUME Typed, Undisturbed, AlertHistoryLegal, NEW g \in Geofence,
         fence[g] # "deleted" => Recorded(g), NEW r \in Request, CommitFix(r)
  PROVE  /\ Legal(g, alerts'[g])
         /\ fence[g] # "deleted" => Recorded(g)'
<1> DEFINE rule == RuleOf[g]
           prev == gstate[g]
           in   == g \in Of[r].inside
           now  == Of[r].time
           event == EventOf(rule, prev, in, now)
           next == StateAfter(rule, prev, in, now)
<1>1. /\ rule \in Rules /\ prev \in States /\ in \in BOOLEAN /\ now \in FixTime
      /\ alerts[g] \in Seq(Alert) /\ Legal(g, alerts[g])
  BY BodyTypes DEF Typed, AlertHistoryLegal, Legal, Alternates
<1>2. CASE gstate'[g] = prev /\ alerts'[g] = alerts[g]
  BY <1>1, <1>2 DEF Recorded
<1>3. CASE /\ fence[g] # "deleted" /\ gstate'[g] = next
           /\ alerts'[g] = IF event = "none" THEN alerts[g] ELSE Append(alerts[g], [type |-> event, time |-> now])
  <2>1. /\ event \in Events \cup {"none"}
        /\ next.lastEventAt = IF event # "none" THEN now ELSE prev.lastEventAt
        /\ event # "none" /\ rule.throttle > 0 /\ prev.lastEventAt # Never
             => now - prev.lastEventAt >= rule.throttle
    <3>1. event \in Events \cup {"none"}
      BY <1>1, EngineTypes
    <3> QED
      BY <1>1, <3>1, EngineThrottles
  <2>2. Alternates(rule) =>
          /\ event = "entry" => ~prev.inside /\ next.inside
          /\ event = "exit"  => prev.inside /\ ~next.inside
          /\ event = "dwell" => prev.inside /\ ~prev.dwelled /\ next.inside /\ next.dwelled
          /\ event = "none"  => /\ next.inside = prev.inside
                                /\ prev.inside /\ prev.dwelled => next.dwelled
    BY <1>1, EngineAlternates
  <2>3. /\ prev.lastEventAt = LastTime(alerts[g])
        /\ Alternates(rule) => /\ prev.inside <=> LastType(alerts[g]) # "exit"
                               /\ LastType(alerts[g]) = "dwell" => prev.dwelled
    BY <1>3 DEF Recorded
  <2>4. LastType(alerts[g]) \in Events
    BY <1>1, LastAlert
  <2> HIDE DEF event, next, rule, prev, in, now
  <2>5. CASE event = "none"
    <3>1. alerts'[g] = alerts[g]
      BY <1>3, <2>5
    <3>2. Recorded(g)'
      BY <1>1, <1>3, <2>1, <2>2, <2>3, <2>4, <2>5, <3>1 DEF Recorded, rule, Events
    <3> QED
      BY <1>1, <3>1, <3>2
  <2>6. CASE event # "none"
    <3> DEFINE a == [type |-> event, time |-> now]
    <3>1. a \in Alert /\ alerts'[g] = Append(alerts[g], a) /\ a.type = event /\ a.time = now
      BY <1>1, <1>3, <2>1, <2>6 DEF Alert
    <3> HIDE DEF a
    <3>2. LastType(alerts'[g]) = event /\ LastTime(alerts'[g]) = now
      BY <1>1, <3>1, AppendAlert
    <3>3. Recorded(g)'
      BY <1>3, <2>1, <2>2, <2>6, <3>2 DEF Recorded, rule, Events
    <3>4. Alternates(rule) => LastType(alerts[g]) \in Before(event)
      BY <1>1, <2>1, <2>2, <2>3, <2>4, <2>6 DEF Before, Events
    <3>5. alerts[g] # <<>> /\ rule.throttle > 0 => now - LastTime(alerts[g]) >= rule.throttle
      <4>1. alerts[g] # <<>> => LastTime(alerts[g]) # Never
        BY <1>1, LastAlert
      <4> QED
        BY <2>1, <2>3, <2>6, <4>1
    <3>6. Legal(g, Append(alerts[g], a))
      BY <1>1, <3>1, <3>4, <3>5, LegalAppend DEF rule
    <3> QED
      BY <3>1, <3>3, <3>6
  <2> QED
    BY <2>5, <2>6
<1> QED
  BY <1>2, <1>3, CommitOfFence DEF EventAt

\* The history of every geofence that is not deleted is recorded in its state.
AllRecorded == \A g \in Geofence : fence[g] # "deleted" => Recorded(g)

\* No step adds an alert that may not follow.
LEMMA HistoryStep ==
  ASSUME Typed, Undisturbed, AlertHistoryLegal, AllRecorded, [Next]_vars
  PROVE  AlertHistoryLegal' /\ AllRecorded'
<1>1. ASSUME NEW r \in Request, CommitFix(r)
      PROVE  AlertHistoryLegal' /\ AllRecorded'
  <2>1. fence' = fence
    BY <1>1 DEF CommitFix, fenceVars
  <2>2. \A g \in Geofence : Legal(g, alerts'[g]) /\ (fence[g] # "deleted" => Recorded(g)')
    BY <1>1, AlertStep DEF AllRecorded
  <2>3. AlertHistoryLegal'
    BY <2>2 DEF AlertHistoryLegal, Legal, Alternates
  <2> QED
    BY <2>1, <2>2, <2>3 DEF AllRecorded
<1>2. CASE /\ alerts' = alerts
           /\ \A g \in Geofence : fence'[g] # "deleted" => fence[g] # "deleted" /\ gstate'[g] = gstate[g]
  BY <1>2 DEF AlertHistoryLegal, AllRecorded, Recorded
<1>3. ASSUME NEW r \in Request, InsertPosition(r) \/ ReadDevice(r) \/ UpdateDevice(r) \/ EvaluateGeofences(r)
                                  \/ DeletedUnderway(r) \/ Fails(r) \/ CommitStatus(r)
      PROVE  UNCHANGED <<alerts, fence, gstate>>
  BY <1>3, InsertEffect, ReadEffect, UpdateEffect, EvaluateEffect, RollBackEffect DEF CommitStatus, storeVars, fenceVars
<1>4. ASSUME Edit
      PROVE  /\ alerts' = alerts
             /\ \A g \in Geofence : fence'[g] # "deleted" => fence[g] # "deleted" /\ gstate'[g] = gstate[g]
  BY <1>4, FleetAssumption DEF Edit, SwitchGeofence, DeleteGeofence, SetMembers, Typed, storeVars
<1>5. ASSUME ThresholdPasses \/ (\E s \in Sweeper : Sweep(s)) \/ UNCHANGED vars
      PROVE  UNCHANGED <<alerts, fence, gstate>>
  BY <1>5 DEF ThresholdPasses, Sweep, SweepSelects, SweepFlips, SweepEmits, vars, storeVars, fenceVars
<1> QED
  BY <1>1, <1>2, <1>3, <1>4, <1>5 DEF Next, Handle

-----------------------------------------------------------------------------
(* Reads that are not stale. *)

\* A transaction that nobody overtook knows the row: until its UPDATE every write
\* of the row marks it, and from then on it holds the row.
Fresh ==
  \A r \in Request : tx[r].at \in {"read", "updated", "evaluated"} /\ ~tx[r].stale =>
    tx[r].attrs = row.attrs /\ tx[r].online = row.online

\* Every write of the row marks the transactions that have read it.
LEMMA FreshStep ==
  ASSUME Typed, Locked, Fresh, [Next]_vars
  PROVE  Fresh'
<1>1. ASSUME NEW r \in Request, InsertPosition(r) \/ DeletedUnderway(r) \/ Fails(r)
      PROVE  Fresh'
  <2>1. /\ row' = row /\ tx'[r].at \notin {"read", "updated", "evaluated"}
        /\ \A q \in Request \ {r} : tx'[q] = tx[q]
    BY <1>1, InsertEffect, RollBackEffect DEF storeVars
  <2> QED
    BY <2>1 DEF Fresh
<1>2. ASSUME NEW r \in Request, ReadDevice(r)
      PROVE  Fresh'
  BY <1>2, ReadEffect DEF Fresh, storeVars
<1>3. ASSUME NEW r \in Request, UpdateDevice(r)
      PROVE  Fresh'
  <2>1. /\ row' = row /\ \A q \in Request \ {r} : tx'[q] = tx[q]
        /\ tx[r].at = "read" /\ tx'[r].attrs = tx[r].attrs
        /\ tx'[r].online = tx[r].online /\ tx'[r].stale = tx[r].stale
    BY <1>3, UpdateEffect DEF storeVars
  <2> QED
    BY <2>1 DEF Fresh
<1>4. ASSUME NEW r \in Request, EvaluateGeofences(r)
      PROVE  Fresh'
  <2>1. /\ tx'[r] = Evaluation(r, Applicable) /\ tx[r].at = "updated" /\ row' = row
        /\ \A q \in Request \ {r} : tx'[q] = tx[q]
    BY <1>4, EvaluateEffect DEF storeVars
  <2>2. tx'[r].online = tx[r].online /\ tx'[r].attrs = tx[r].attrs /\ tx'[r].stale = tx[r].stale
    BY <2>1, EvaluationType
  <2> QED
    BY <2>1, <2>2 DEF Fresh
<1>5. ASSUME NEW r \in Request, CommitFix(r) \/ CommitStatus(r)
      PROVE  Fresh'
  <2>1. /\ tx'[r].at = "done"
        /\ \A q \in Request \ {r} : tx'[q] = Overtaken[q] /\ tx[q].at \notin {"updated", "evaluated"}
    BY <1>5, CommitEffect
  <2>2. \A q \in Request \ {r} : tx'[q].at = tx[q].at /\ (tx[q].at = "read" => tx'[q].stale)
    BY <2>1, OvertakenType
  <2> QED
    BY <2>1, <2>2 DEF Fresh
<1>6. CASE Edit \/ ThresholdPasses \/ (\E s \in Sweeper : Sweep(s)) \/ UNCHANGED vars
  <2>1. CASE tx' = tx /\ row' = row
    BY <2>1 DEF Fresh
  <2>2. CASE lock = Nobody /\ tx' = Overtaken
    <3>1. \A q \in Request : tx[q].at \notin {"updated", "evaluated"}
      BY <2>2, FleetAssumption DEF Locked
    <3>2. \A q \in Request : tx'[q].at = tx[q].at /\ (tx[q].at = "read" => tx'[q].stale)
      BY <2>2, OvertakenType
    <3> QED
      BY <3>1, <3>2 DEF Fresh
  <2> QED
    BY <1>6, <2>1, <2>2, BackgroundEffect
<1> QED
  BY <1>1, <1>2, <1>3, <1>4, <1>5, <1>6 DEF Next, Handle

-----------------------------------------------------------------------------
(* What the reports of a device lead to. *)

\* The inductive invariant of the API's store.
FleetInv ==
  /\ Typed /\ Locked /\ BeingStored /\ FixEvaluatedOnce /\ Covered /\ Undisturbed
  /\ StatesFollowRow /\ AlertHistoryLegal /\ AllRecorded /\ Fresh

\* It holds of a registered device, and every statement keeps it.
LEMMA FleetInvHolds == Init /\ [][Next]_vars => []FleetInv
<1>1. Init => FleetInv
  <2> SUFFICES ASSUME Init PROVE FleetInv
    OBVIOUS
  <2>1. Typed
    <3>1. /\ EmptyState \in States /\ tx \in [Request -> Transactions]
          /\ alerts \in [Geofence -> Seq(Alert)] /\ evaluated \in [FixTime -> Nat]
      BY EndedType DEF Init, EmptyState, States
    <3>2. edits \in 0 .. MaxEdits /\ faults \in 0 .. MaxFaults
      BY FleetAssumption DEF Init
    <3> QED
      BY <3>1, <3>2 DEF Init, Typed
  <2>2. \A r \in Request : tx[r].at = "new"
    BY DEF Init, Idle
  <2>3. Locked /\ BeingStored /\ FixEvaluatedOnce /\ Undisturbed /\ Fresh
    BY <2>2, FleetAssumption DEF Init, Locked, BeingStored, FixEvaluatedOnce, Undisturbed, Fresh, Open
  <2>4. Covered /\ StatesFollowRow
    BY <2>2 DEF Init, Covered, StatesFollowRow, EmptyState
  <2>5. AlertHistoryLegal
    BY EmptySeq DEF Init, AlertHistoryLegal
  <2>6. AllRecorded
    BY DEF Init, AllRecorded, Recorded, EmptyState, LastType, LastTime
  <2> QED
    BY <2>1, <2>3, <2>4, <2>5, <2>6 DEF FleetInv
<1>2. FleetInv /\ [Next]_vars => FleetInv'
  <2> SUFFICES ASSUME FleetInv, [Next]_vars PROVE FleetInv'
    OBVIOUS
  <2>1. Typed' /\ Locked' /\ Fresh'
    BY TypedStep, LockedStep, FreshStep DEF FleetInv
  <2>2. BeingStored' /\ FixEvaluatedOnce'
    BY EvaluatedStep DEF FleetInv
  <2>3. Covered' /\ Undisturbed' /\ StatesFollowRow'
    BY UndisturbedStep, RowStep DEF FleetInv
  <2>4. AlertHistoryLegal' /\ AllRecorded'
    BY HistoryStep DEF FleetInv
  <2> QED
    BY <2>1, <2>2, <2>3, <2>4 DEF FleetInv
<1> QED
  BY <1>1, <1>2, PTL

\* The store keeps its types: a geofence state has an entry time exactly while the
\* device is inside, the device row is held by one open transaction.
THEOREM FleetTyped == Spec => []TypeOK
<1>1. FleetInv => TypeOK
  <2> SUFFICES ASSUME FleetInv PROVE TypeOK
    OBVIOUS
  <2>1. Typed /\ Locked
    BY DEF FleetInv
  <2>2. \A g \in Geofence : \A i \in DOMAIN alerts[g] : alerts[g][i] \in [type : Events, time : FixTime]
    <3>1. ASSUME NEW g \in Geofence, NEW i \in DOMAIN alerts[g] PROVE alerts[g][i] \in Alert
      <4>1. alerts[g] \in Seq(Alert)
        BY <2>1 DEF Typed
      <4> QED
        BY <3>1, <4>1, LenProperties, ElementOfSeq
    <3> QED
      BY <3>1 DEF Alert
  <2>3. \A r \in Request : tx[r].at \in {"new", "done", "failed"} \cup Open
    BY <2>1 DEF Typed, Transactions
  <2>4. lock # Nobody => tx[lock].at \in {"updated", "evaluated"}
    BY <2>1 DEF Typed, Locked
  <2> QED
    BY <2>1, <2>2, <2>3, <2>4 DEF Typed, TypeOK
<1> QED
  BY FleetInvHolds, <1>1, PTL DEF Spec

\* A position is evaluated exactly once when it is stored (positions-service.ts
\* lines 33-53), whatever retries and roll-backs surround it.
THEOREM EvaluatedExactlyOnce == Spec => []FixEvaluatedOnce
<1>1. FleetInv => FixEvaluatedOnce
  BY DEF FleetInv
<1> QED
  BY FleetInvHolds, <1>1, PTL DEF Spec

\* The states of the geofences nobody edits follow the device row
\* (geofence-service.ts lines 73-113), for any number of concurrent reports.
THEOREM StatesAgreeWithRow == Spec => []StatesFollowRow
<1>1. FleetInv => StatesFollowRow
  BY DEF FleetInv
<1> QED
  BY FleetInvHolds, <1>1, PTL DEF Spec

\* Alerts of a geofence follow one another as its rule allows (geofence.ts lines
\* 101-119), under edits and any interleaving of transactions.
THEOREM AlertsFollowRules == Spec => []AlertHistoryLegal
<1>1. FleetInv => AlertHistoryLegal
  BY DEF FleetInv
<1> QED
  BY FleetInvHolds, <1>1, PTL DEF Spec

\* Attributes and the announcement of a returning device are lost only by a
\* transaction that read the row before another write (positions-service.ts lines
\* 55-73).
THEOREM LostOnlyByStaleReads == Spec => OnlyStaleReadsLose
<1> DEFINE Loses == /\ row.attrs \subseteq row'.attrs
                    /\ (~row.online /\ row'.online) => \E r \in Request : Commits(r) /\ ~tx[r].online
<1>1. FleetInv /\ [Next]_vars => [(\E r \in Request : Commits(r) /\ tx[r].stale) \/ Loses]_vars
  <2> SUFFICES ASSUME FleetInv, Next PROVE (\E r \in Request : Commits(r) /\ tx[r].stale) \/ Loses
    OBVIOUS
  <2>1. Typed /\ Locked /\ Fresh
    BY DEF FleetInv
  <2>2. ASSUME NEW r \in Request, CommitFix(r) \/ CommitStatus(r), ~tx[r].stale
        PROVE  Loses
    <3>1. Commits(r) /\ tx[r].attrs = row.attrs /\ tx[r].online = row.online
      BY <2>1, <2>2, CommitEffect DEF Commits, Fresh, Open
    <3>2. row'.attrs = mergedAttributes(r)
      <4>1. CASE CommitFix(r)
        BY <4>1 DEF CommitFix
      <4>2. CASE CommitStatus(r)
        BY <2>1, <4>2 DEF CommitStatus, Typed
      <4> QED
        BY <2>2, <4>1, <4>2
    <3> QED
      BY <3>1, <3>2 DEF mergedAttributes
  <2>3. ASSUME NEW r \in Request, CommitFix(r) \/ CommitStatus(r), tx[r].stale
        PROVE  Commits(r) /\ tx[r].stale
    BY <2>1, <2>3, CommitEffect DEF Commits, Open
  <2>4. ASSUME NEW r \in Request, InsertPosition(r) \/ ReadDevice(r) \/ UpdateDevice(r) \/ EvaluateGeofences(r)
                                    \/ DeletedUnderway(r) \/ Fails(r)
        PROVE  Loses
    BY <2>1, <2>4, InsertEffect, ReadEffect, UpdateEffect, EvaluateEffect, RollBackEffect DEF storeVars
  <2>5. ASSUME Edit \/ ThresholdPasses \/ (\E s \in Sweeper : Sweep(s))
        PROVE  Loses
    <3>1. row' = row \/ row' = [row EXCEPT !.online = FALSE]
      BY <2>1, <2>5, BackgroundEffect
    <3> QED
      BY <2>1, <3>1 DEF Typed
  <2> QED
    BY <2>2, <2>3, <2>4, <2>5 DEF Next, Handle
<1> QED
  BY FleetInvHolds, <1>1, PTL DEF Spec, OnlyStaleReadsLose

=============================================================================
