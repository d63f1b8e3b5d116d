SPECIFICATION HostSpec
CONSTANTS
  Word = 64
  Radix = 6
  HunkFiles <- MCFlattened
  Bases = {0, 20, 60}
  GroupedFiles <- MCGrouped
  LoadBases = {0, 20}
  Files <- MCFiles
  TrampolineSize = 6
  HeaderSize = 36
  Jobs <- MCJobs
  Others <- MCOthers
  Trampoline <- MCTrampoline
  Stubs <- MCStubs
  MixedStub <- MCMixedStub
INVARIANTS
  BytesInPlace
  PointersAsLoaded
  VerdictIsRight
  ReadsBack
  HunksAreSound
  BasesAgree
  PointersAcrossGroups
  ReadersAgree
