SPECIFICATION Spec
CONSTANTS
  Value <- MCValue
  Characters <- MCCharacters
  MaxTyped = 4
  Halves <- MCHalves
  Typical <- MCTypical
  Shown <- MCShown
  Offsets <- MCOffsets
  Speeds = {0, 2}
  Rates = {0, 1}
  Streams <- MCStreams
  Ages <- MCAges
  MaxElapsed = 5
  Cap = 5
INVARIANTS
  ReadsWhatIsWritten
  CopiedReadsBack
  RowsTellTheChart
  MeetsDriftingTarget
  EtaNeedsSpeed
  DriftRowTellsDrift
CHECK_DEADLOCK FALSE
