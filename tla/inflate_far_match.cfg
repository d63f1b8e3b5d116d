SPECIFICATION Spec
CONSTANTS
  Parts = {"match"}
  Matches <- FarMatches
INVARIANTS
  MatchIsCopied
