--------------------------- MODULE MCForwardQueue ---------------------------
(* A small ForwardQueue: messages of two devices, one of them noisy enough to *)
(* exceed its share, and two callers of closeAndDrain.                        *)
EXTENDS ForwardQueue

MCItem == {"m1", "m2", "m3", "m4"}
MCKey == {"noisy", "quiet"}
MCKeyOf == [i \in Item |-> IF i = "m4" THEN "quiet" ELSE "noisy"]
=============================================================================
