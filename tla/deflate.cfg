SPECIFICATION Spec
CONSTANTS
  Parts = {"match", "tables", "header", "codes"}
  Matches <- MCMatches
INVARIANTS
  MatchIsCopied
  DecodesSymbols
  LengthsComeBack
  LengthsMakeCodes
