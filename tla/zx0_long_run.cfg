SPECIFICATION Spec
CONSTANTS
  Parts = {"zx0"}
  Zx0Jobs <- LongRun
  Lz4Texts = {}
  Lz4Plans = {}
  RangeBits = 8
  ByteBits = 4
  ADJUST_SHIFT = 2
  Contexts = {1}
  MaxBits = 11
  Trailers = {0, 15}
INVARIANTS
  AmigaAgrees
CHECK_DEADLOCK FALSE
