SPECIFICATION Spec
CONSTANTS
  Cap = 7
  MaxRange = 9
  MaxTargetSpeed = 2
  OwnSpeeds = {0, 1, 3}
  MinStep = 2
  TimeTol = 1
  MaxEvaluations = 4
  Trajectories <- MCTrajectories
INVARIANTS
  TypeOK
  EarliestMeeting
  GivesUpRightly
  MeetingIsPinned
CHECK_DEADLOCK FALSE
