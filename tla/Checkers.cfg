SPECIFICATION FairSpec
CONSTANTS
  None = None
  Types = {"cmd", "file", "request", "output"}
  ChildCodes = {0, 3}
  ExpectCodes = {0, 124}
  Names = {1, 2}
  Sizes = {0, 1}
  MaxTime = 2
  MaxChanges = 1
  FileWants <- MCFileWants
  Members <- MCMembers
  Items <- MCItems
  Roots = {"root", "list"}
  Texts = {"up", "down"}
  Statuses = {200, 404, 500}
  RequestWants <- MCRequestWants
  Timeout = 2
  MaxRedirects = 2
  Bytes = {"x", "NL"}
  NL = "NL"
  BufferBytes = 4
  TailLines = 2
  TailBytes = 3
  MaxPiece = 3
  MaxWritten = 7
INVARIANTS
  TypeOK
  CmdPassIsReal
  ChildReaped
  FileFailureIsReal
  FilePassIsReal
  RequestPassIsReal
  TailIsFaithful
PROPERTY EvaluateReturns
