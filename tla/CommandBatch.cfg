SPECIFICATION Spec
CONSTANTS
  Cmd = {k1, k2}
  Expiring = {}
  Inst = {"A"}
  NoInst = NoInst
  Conn = {c1, c2}
  NoConn = NoConn
  MaxSockets <- MCMaxSockets
  MaxCalls = 0
  MaxFaults = 1
  Scripted = TRUE
INVARIANTS
  LossIsExplained
PROPERTIES
  DrainsEnd
CHECK_DEADLOCK FALSE
