SPECIFICATION FairSpec
CONSTANTS
  c1 = c1
  c2 = c2
  r1 = r1
  r2 = r2
  Checks = {c1, c2}
  Reasons = {r1, r2}
  Signals = {SIGINT, SIGTERM}
  SIGINT = SIGINT
  SIGTERM = SIGTERM
  Mode = "check"
  OneStrike <- MCOneStrike
  ConfirmChecks <- MCConfirmChecksShort
  PanicChecks = {c1, c2}
  MaxCycles = 2
  MaxSignals = 2
  None = None
INVARIANT CheckIsComplete
