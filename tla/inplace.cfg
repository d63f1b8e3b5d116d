SPECIFICATION Spec
CONSTANTS
  TrampolineSize = 4
  HeaderSize = 36
  Jobs <- MCJobs
INVARIANTS
  ReadsOriginalPayload
  AccessesStayInHunk
  MoveKeepsPayload
  SizesAgree
PROPERTY KeepsContract
CHECK_DEADLOCK FALSE
