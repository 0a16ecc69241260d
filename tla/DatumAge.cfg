SPECIFICATION Spec
CONSTANTS
  None = None
  Gribs <- MCGribs
  Region <- MCRegion
  Period <- MCPeriod
  Reports = {0, 1}
  Nows = {1, 4, 8}
  Drifts = {1}
  LeewayFactor = 1
  StepLength = 2
  MaxSteps = 4
  MaxElapsed = 7
INVARIANTS
  TypeOK
  StepsAddUp
  OnOneTrajectory
  FlagsTellEveryStep
  LeewayAlongPath
CHECK_DEADLOCK FALSE
