SPECIFICATION Spec
CONSTANTS
  None = None
  Situations = {s1}
  Shapes <- MCShapes
  MaxFailures = 1
INVARIANTS
  TypeOK
  ChartShowsOutputs
  StaleIsAnnounced
  CheckboxesActAtOnce
  ToolMirrorsPanel

PROPERTY
  DrivesChart
