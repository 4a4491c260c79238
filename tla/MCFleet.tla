------------------------------- MODULE MCFleet -------------------------------
(* A fix inside both geofences and its retry, a later fix inside (the dwell), *)
(* one outside, and a heartbeat.  "home" is edited; "yard" throttles.         *)
EXTENDS Fleet

fix(t, where, keys) == [kind |-> "fix", time |-> t, inside |-> where, attrs |-> keys]

MCOf ==
  [r \in Request |->
     CASE r \in {"in", "inRetry"} -> fix(0, {"home", "yard"}, {"fuel"})
       [] r = "later" -> fix(1, {"home"}, {})
       [] r = "out" -> fix(2, {}, {})
       [] r = "beat" -> [kind |-> "status", time |-> 0, inside |-> {}, attrs |-> {"gsm"}]]

MCRuleOf ==
  [g \in Geofence |-> [onEntry |-> TRUE, onExit |-> TRUE, onDwell |-> TRUE, dwell |-> 1,
                       throttle |-> IF g = "yard" THEN 2 ELSE 0]]
=============================================================================
