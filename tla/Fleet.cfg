SPECIFICATION Spec
CONSTANTS
  FixTime = {0, 1, 2}
  Request = {"in", "inRetry", "later", "out", "beat"}
  Of <- MCOf
  Attr = {"fuel", "gsm"}
  Geofence = {"home", "yard"}
  RuleOf <- MCRuleOf
  Grouped = {"home"}
  Edited = {"home"}
  Sweeper = {"tick"}
  MaxEdits = 1
  MaxFaults = 1
INVARIANTS
  TypeOK
  AlertHistoryLegal
  StatesFollowRow
  FixEvaluatedOnce
PROPERTIES
  OnlyStaleReadsLose
  SilentGoesOffline
CHECK_DEADLOCK FALSE
