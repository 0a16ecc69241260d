SPECIFICATION Spec
CONSTANTS
  References <- MCReferences
  Forecasts <- MCForecasts
  Parameters <- MCParameters
  Grids <- MCGrids
  MaxFields = 3
  MaxMessages = 2
INVARIANT
  EveryFieldTimed
CHECK_DEADLOCK FALSE
