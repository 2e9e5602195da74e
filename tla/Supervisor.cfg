SPECIFICATION FairSpec
CONSTANTS
  ChildCodes = {0, 3}
  Forwarded = {1, 2, 15}
  Captured = {2, 15}
  Cancellable = TRUE
  SignalBuffer = 1
  MaxSignals = 2
  None = None
INVARIANTS
  TypeOK
  SuccessIsReal
  ReportedOnce
  KillAfterTerm
  NoOrphan
PROPERTIES
  TimeoutEnds
  QueuedSignalForwarded
