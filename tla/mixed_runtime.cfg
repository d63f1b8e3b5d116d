SPECIFICATION Spec
CONSTANTS
  TrampolineSize = 6
  HeaderSize = 36
  Radix = 6
  ExecVersions = {34, 37, 40}
  Files <- MCFiles
INVARIANTS
  FreedOnce
  WritesStayInGroups
PROPERTIES
  StartsProgram
  Starts
