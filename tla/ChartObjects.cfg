SPECIFICATION ChartSpec
CONSTANTS
  None = None
  Situations = {s1, s2}
  Shapes <- MCShapes
SYMMETRY SituationsAlike
INVARIANTS
  ChartTypeOK
  RouteMeetsMark
  StaleOnlyIfKept
  NothingLeftBehind
PROPERTIES
  NavigationSurvives
  ImplementsPromise
