SPECIFICATION FileSpec
CONSTANTS
  References <- MCReferences
  Forecasts <- MCForecasts
  Parameters <- MCParameters
  Grids <- MCGrids
  Meaning <- MCMeaning
  Geometry <- MCGeometry
  Contents <- MCContents
  Queries <- MCQueries
  Latitudes = {0}
  Positions <- MCPositions
  Circle = 16
  MaxFields = 3
  MaxMessages = 2
INVARIANTS
  TypeOK
  ReadsSupportedFields
  AnswersByTheFile
CHECK_DEADLOCK FALSE
