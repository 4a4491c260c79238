----------------------------- MODULE MCRecords ------------------------------
(* Sessions, teams and the history of a device share no state: the run       *)
(* explores each completely, as a disjoint sum.  The parts that have not     *)
(* begun are in their initial states.                                        *)
EXTENDS Sessions, Team, History, TLC

RecordsTypeOK == SessionsTypeOK /\ TeamTypeOK /\ HistoryTypeOK

vars == <<sessionsVars, teamVars, historyVars>>

Init == SessionsInit /\ TeamInit /\ HistoryInit

Next ==
  \/ TeamInit /\ HistoryInit /\ SessionsNext /\ UNCHANGED <<teamVars, historyVars>>
  \/ SessionsInit /\ HistoryInit /\ TeamNext /\ UNCHANGED <<sessionsVars, historyVars>>
  \/ SessionsInit /\ TeamInit /\ HistoryNext /\ UNCHANGED <<sessionsVars, teamVars>>

Spec == Init /\ [][Next]_vars

Symmetry == Permutations(Sid) \cup Permutations(Handler)
=============================================================================
