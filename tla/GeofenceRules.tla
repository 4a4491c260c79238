---------------------------- MODULE GeofenceRules ----------------------------
(***************************************************************************)
(* The transition engine of one geofence, packages/core/src/geofence.ts:   *)
(* what a position does to the stored state, and which event it raises.    *)
(* Geometry is abstracted to whether the position is inside.               *)
(***************************************************************************)
EXTENDS Integers

CONSTANT FixTime   \* the device's clock readings that occur

ASSUME FixTimeAssumption == FixTime \subseteq Nat

Never == -1   \* null
Events == {"entry", "exit", "dwell"}

Rules == [onEntry : BOOLEAN, onExit : BOOLEAN, onDwell : BOOLEAN, dwell : Nat, throttle : Nat]

\* A device is inside exactly while it has an entry time.
States == {s \in [inside : BOOLEAN, enteredAt : FixTime \cup {Never},
                  dwelled : BOOLEAN, lastEventAt : FixTime \cup {Never}] :
             s.inside <=> s.enteredAt # Never}

EmptyState == [inside |-> FALSE, enteredAt |-> Never, dwelled |-> FALSE, lastEventAt |-> Never]

DwellDue(rule, prev, now) == rule.onDwell /\ ~prev.dwelled /\ now - prev.enteredAt >= rule.dwell

\* The transition before throttling; "none" is null.
Transition(rule, prev, inside, now) ==
  CASE inside /\ ~prev.inside                            -> IF rule.onEntry THEN "entry" ELSE "none"
    [] ~inside /\ prev.inside                            -> IF rule.onExit THEN "exit" ELSE "none"
    [] inside /\ prev.inside /\ DwellDue(rule, prev, now) -> "dwell"
    [] OTHER                                             -> "none"

Throttled(rule, prev, now) ==
  prev.lastEventAt # Never /\ rule.throttle > 0 /\ now - prev.lastEventAt < rule.throttle

EventOf(rule, prev, inside, now) ==
  IF Throttled(rule, prev, now) THEN "none" ELSE Transition(rule, prev, inside, now)

\* Mutant: an exit leaves the entry time.
StateAfterKeepsEntry(rule, prev, inside, now) ==
  [inside      |-> inside,
   enteredAt   |-> IF inside /\ ~prev.inside THEN now ELSE prev.enteredAt,
   dwelled     |-> prev.dwelled,
   lastEventAt |-> IF EventOf(rule, prev, inside, now) # "none" THEN now ELSE prev.lastEventAt]

\* The state moves on whether or not its event is throttled.
StateAfter(rule, prev, inside, now) ==
  [inside      |-> inside,
   enteredAt   |-> IF inside THEN IF prev.inside THEN prev.enteredAt ELSE now ELSE Never,
   dwelled     |-> inside /\ prev.inside /\ (prev.dwelled \/ DwellDue(rule, prev, now)),
   lastEventAt |-> IF EventOf(rule, prev, inside, now) # "none" THEN now ELSE prev.lastEventAt]
=============================================================================
