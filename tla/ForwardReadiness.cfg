SPECIFICATION Spec
CONSTANTS
  Item <- MCItem
  Key <- MCKey
  KeyOf <- MCKeyOf
  Capacity = 3
  PerKeyCapacity = 2
  Concurrency = 2
  MaxAttempts = 2
  Drainer = {d1}
INVARIANTS
  ReadinessFailsWhenSaturated
CHECK_DEADLOCK FALSE
