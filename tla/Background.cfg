SPECIFICATION Spec
CONSTANTS
  a1 = a1
  a2 = a2
  pod1 = pod1
  pod2 = pod2
  s1 = s1
  s2 = s2
  Batch <- MCBatch
  Run = {r1, r2}
  MAX_ATTEMPTS = 3
  BATCH = 2
  ThrottlePerHour = 1
  MaxDbFaults = 1
  Hook = {"fleet", "ops", "bad"}
  Unsafe = {"bad"}
  MaxHookFaults = 2
  Fixes = 3
  max = 2
  MaxRestarts = 1
  Replica = {pod1, pod2}
  Tenant = {"acme", "zeta"}
  Stream = {s1, s2}
  Home <- MCHome
  Viewer <- MCViewer
  capacity = 1
  MaxEvents = 2
  MaxBusFaults = 1
  MaxFragments = 3
  MaxRestored = 2
  MAX_BUFFER = 18
INVARIANTS
  BackgroundTypeOK
  DeliveredIsLogged
  OutcomeCounted
  FixLossIsExplained
  StreamFaithful
  FramesSurvive
PROPERTIES
  RetriesEnd
CHECK_DEADLOCK FALSE
