SPECIFICATION Spec
CONSTANTS
  Item <- MCItem
  Key <- MCKey
  KeyOf <- MCKeyOf
  Capacity = 3
  PerKeyCapacity = 2
  Concurrency = 2
  MaxAttempts = 2
  Drainer = {d1, d2}
INVARIANTS
  TypeOK
  CapacityBound
  Accounting
  WorkConserving
  NoMonopoly
  DrainIsFinal
PROPERTIES
  DrainCompletes
  KeepsPromise
CHECK_DEADLOCK FALSE
