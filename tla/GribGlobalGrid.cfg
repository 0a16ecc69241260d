SPECIFICATION Spec
CONSTANTS
  Records <- MCGlobal
  Queries = {0, 3, 9}
  Latitudes <- MCLatitudes
  Places <- MCPlaces
  Circle = 16
  MaxMessages = 4
INVARIANT
  AnswersInside
CHECK_DEADLOCK FALSE
