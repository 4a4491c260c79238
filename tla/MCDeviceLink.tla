---------------------------- MODULE MCDeviceLink ----------------------------
(* One device and two instances; the gate of B lets one connection in. *)
EXTENDS DeviceLink

MCMaxSockets == [i \in Inst |-> IF i = "A" THEN 2 ELSE 1]
=============================================================================
