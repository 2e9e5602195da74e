SPECIFICATION FairSpec
CONSTANTS
  j1 = j1
  j2 = j2
  p1 = p1
  p2 = p2
  Jobs = {j1, j2}
  Pings = {p1, p2}
  MaxTime = 2
  MaxEdits = 1
  None = None
  Watched = j1
  Within = 2
  Checks = 2
  MaxCycles = 2
  MaxKills = 1
INVARIANTS
  TypeOK
  RecordedUntilOverwritten
  FailureIsFinal
  NoFalseAlarm
PROPERTIES
  SequentialPingsMoveForward
  SilenceIsReported
CHECK_DEADLOCK FALSE
