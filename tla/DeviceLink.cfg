SPECIFICATION Spec
CONSTANTS
  Cmd = {k1}
  Expiring = {k1}
  Inst = {"A", "B"}
  NoInst = NoInst
  Conn = {c1, c2}
  NoConn = NoConn
  MaxSockets <- MCMaxSockets
  MaxCalls = 1
  MaxFaults = 1
  Scripted = TRUE
INVARIANTS
  TypeOK
  WrittenAtMostOnce
  GateExact
  RegistriesExplained
PROPERTIES
  KeepsHandover
CHECK_DEADLOCK FALSE
