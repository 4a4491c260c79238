SPECIFICATION Spec
CONSTANTS
  Cmd = {}
  Expiring = {}
  Inst = {"A", "B"}
  NoInst = NoInst
  Conn = {c1, c2}
  NoConn = NoConn
  MaxSockets <- MCMaxSockets
  MaxCalls = 0
  MaxFaults = 0
  Scripted = FALSE
PROPERTIES
  ReleasesOwnBinding
CHECK_DEADLOCK FALSE
