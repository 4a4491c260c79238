SPECIFICATION FramingSpec
CONSTANTS
  MaxFragments = 2
  MaxRestored = 0
  MAX_BUFFER = 18
INVARIANTS
  TopicIsAuthoritative
CHECK_DEADLOCK FALSE
