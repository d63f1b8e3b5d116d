SPECIFICATION Spec
CONSTANTS
  Parts = {"zx0", "lz4", "coder", "lz", "finder", "parser"}
  Zx0Jobs <- MCZx0Jobs
  Lz4Texts <- MCTexts
  Lz4Plans <- MCPlans
  RangeBits = 8
  ByteBits = 4
  ADJUST_SHIFT = 2
  Contexts = {1}
  MaxBits = 11
  Trailers = {0, 15}
INVARIANTS
  ParsesAreSound
  HostAccepts
  AmigaAgrees
  BlockComesBack
  BitsComeBack
  DecodersRead
  ReportsMatches
  EdgesAreCounted
  ParseIsWhatItCosts
CHECK_DEADLOCK FALSE
