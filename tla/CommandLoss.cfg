SPECIFICATION Spec
CONSTANTS
  Cmd = {k1}
  Expiring = {}
  Inst = {"A", "B"}
  NoInst = NoInst
  Conn = {c1, c2}
  NoConn = NoConn
  MaxSockets <- MCMaxSockets
  MaxCalls = 1
  MaxFaults = 0
  Scripted = TRUE
INVARIANTS
  ReconnectKeepsRowQueued
CHECK_DEADLOCK FALSE
