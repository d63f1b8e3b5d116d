SPECIFICATION Spec
CONSTANTS
  TrampolineSize = 16
  HeaderSize = 36
  Jobs <- RewindJobs
INVARIANTS
  ReadsOriginalPayload
CHECK_DEADLOCK FALSE
