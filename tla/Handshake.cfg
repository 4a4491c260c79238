SPECIFICATION FramingSpec
CONSTANTS
  MaxFragments = 1
  MaxRestored = 1
  MAX_BUFFER = 18
INVARIANTS
  HandshakeAnswered
CHECK_DEADLOCK FALSE
