SPECIFICATION Spec
CONSTANTS
  None = None
  Invocations <- MCInvocations
  Documents <- MCDocuments
  ConfigFiles <- MCConfigFiles
  HeartbeatFiles <- MCHeartbeatFiles
  Dirs <- MCDirs
  HeartbeatName <- MCHeartbeatName
  JobNames = {"a", "b"}
  MaxEdits = 1
INVARIANTS
  PingReachesWatch
  SetupIsSound
