SPECIFICATION FairSpec
CONSTANTS
  MaxMessages = 2
  Attempts = 4
  Bound = {1}
  None = None
INVARIANTS
  TypeOK
  AcknowledgedArrives
  CopiesBounded
  SilentStaysSilent
PROPERTIES
  GivesUpForAReason
  SendReturns
  DeliversAsPromised
