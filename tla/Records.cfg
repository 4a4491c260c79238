\* The parts range over the same model values, which keeps the symmetry group small.
SPECIFICATION Spec
CONSTANTS
  Sid = {x, y, z}
  Handler = {h1, h2}
  MaxBulk = 2
  Email = {founder, x, y, z}
  Founder = founder
  Manager = {h1, h2}
  Limit = 2
  Rollup = {h1, h2}
  Window = 2
  Day = 2
  historyDays = 1
  maxGap = 1
  stopMin = 1
  Horizon = 3
  MaxHistoryFaults = 1
  founder = founder
  x = x
  y = y
  z = z
  h1 = h1
  h2 = h2
SYMMETRY Symmetry
INVARIANTS
  RecordsTypeOK
  SignOutHolds
  RotationKeepsOne
  LastOwnerKept
  InvitesNearQuota
  HistoryAgrees
CHECK_DEADLOCK FALSE
