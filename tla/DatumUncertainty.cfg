SPECIFICATION RingSpec
CONSTANTS
  Winds <- MCWinds
  MaxHours = 4
INVARIANTS
  GapsWiden
  LeewayOffCovers
PROPERTY
  RingGrowsOutward
CHECK_DEADLOCK FALSE
