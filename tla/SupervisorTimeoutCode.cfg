SPECIFICATION Spec
CONSTANTS
  ChildCodes = {0, 3}
  Forwarded = {1, 2, 15}
  Captured = {2, 15}
  Cancellable = FALSE
  SignalBuffer = 1
  MaxSignals = 2
  None = None
INVARIANT TimeoutMeansStopped
