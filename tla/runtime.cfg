SPECIFICATION Spec
CONSTANTS
  TrampolineSize = 4
  HeaderSize = 36
  Radix = 4
  Files <- MCFiles
  ExecVersions = {34, 37}
INVARIANTS
  NoUseAfterFree
  FreedOnce
  WritesStayInFinal
  CodePublished
PROPERTIES
  StartsProgram
  Starts
