SPECIFICATION FairSpec
CONSTANTS
  ChildCodes = {0, 3}
  ExpectCodes = {0, 124}
  None = None
PROPERTY TimeoutBoundsEvaluation
