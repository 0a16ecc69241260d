SPECIFICATION Spec
CONSTANTS
  Records <- MCRecords
  Queries = {0, 3, 9}
  Latitudes <- MCLatitudes
  Places <- MCPlaces
  Circle = 16
  MaxMessages = 4
INVARIANTS
  NearestFirst
  AnswersNearestPoint
  VectorOfOneForecast
CHECK_DEADLOCK FALSE
