----------------------------- MODULE MCDeflate -----------------------------
(***************************************************************************)
(* A block of DEFLATE, from zopfli's writer to the Amiga's reader, in four *)
(* parts: matches (InflateMatch), the tables a block's codes are decoded   *)
(* with (InflateTables), the header that carries the codes' lengths        *)
(* (InflateHeader), and how the lengths come about (CodeLengths).  They    *)
(* share nothing: a behaviour is one part at work on one input, while the  *)
(* variables of the others keep a value that means nothing.                *)
(***************************************************************************)
EXTENDS Integers, Sequences, FiniteSetsExt

CONSTANTS
  Parts,     \* the parts to run
  Matches    \* of InflateMatch

VARIABLES
  part,
  pc, lengths,     \* of more than one part
  match, symbols, tables, r,
  d1, i, next_code, table, node, decoded,
  tree, flags, enc, stream, dec,
  counts, limit, leaves, nodes, lists, calls, runs

matchOnly  == <<match, symbols, tables, r>>
tablesOnly == <<d1, i, next_code, table, node, decoded>>
headerOnly == <<tree, flags, enc, stream, dec>>
codesOnly  == <<counts, limit, leaves, nodes, lists, calls, runs>>
vars       == <<part, pc, lengths, matchOnly, tablesOnly, headerOnly, codesOnly>>

-----------------------------------------------------------------------------
(* Matches, at their real widths.                                          *)

Longs == {[length |-> l, distance |-> 1] : l \in 3..258}
Fars(distances) == {[length |-> 3, distance |-> d] : d \in distances}

\* As far as zopfli and libdeflate look back: every distance up to 2048, and
\* those either side of the bounds of the codes beyond.
MCMatches ==
  Longs \cup Fars(1..2048)
        \cup Fars({512 * n + k : n \in 4..63, k \in {-1, 0, 1, 2, 3, 255, 256, 257}})
\* As far as zultra does (format.h:40).
FarMatches == {[length |-> l, distance |-> d] : l \in 3..12, d \in 32760..32768}

Match == INSTANCE InflateMatch

-----------------------------------------------------------------------------
(* Tables of eight first words for codes of up to five bits: every         *)
(* complete code of four symbols, then of six.                             *)

\* Lengths that fill the tree of all codes of max bits, or one of a single bit.
FullCodes(n, max) ==
  {code \in [0..(n - 1) -> 0..max] :
     \/ MapThenSumSet(LAMBDA s : IF code[s] = 0 THEN 0 ELSE 2^(max - code[s]), DOMAIN code) = 2^max
     \/ \E s \in DOMAIN code : code = [t \in DOMAIN code |-> IF t = s THEN 1 ELSE 0]}

FullCodelenCodes == FullCodes(4, 2)
FullLiteralCodes == FullCodes(6, 5)

Tables == INSTANCE InflateTables WITH
            FirstBits <- 3, LenBits <- 2, MaxBits <- 5, CodelenSymbols <- 4, Symbols <- 6,
            CodelenCodes <- FullCodelenCodes, LiteralCodes <- FullLiteralCodes,
            Thresholds <- {0, 3}

-----------------------------------------------------------------------------
(* Headers at their real size.                                             *)

\* A code for the symbols used, as flat as can be.
FlatTree(n, used) ==
  LET size == Cardinality(used)
      width == IF size < 2 THEN 1 ELSE CHOOSE b \in 1..9 : size <= 2^b /\ size > 2^(b - 1)
  IN  [s \in 0..(n - 1) |->
        IF s \notin used THEN 0
        ELSE IF size > 1 /\ Cardinality({t \in used : t < s}) < 2^width - size THEN width - 1
        ELSE width]

\* The last n + 1 of the literals and lengths have codes of w bits, and so have
\* all distances, or the first alone: a run of up to 16 at the end of one table
\* goes on for 1, 2, 4, 8 or 16 in the other, or takes its first length from it.
CrossingTrees ==
  UNION {{[ll |-> FlatTree(288, (1..(2^w - 1 - n)) \cup (256..(256 + n))), d |-> FlatTree(32, 0..last)] :
            n \in 0..(2^w - 1), last \in {2^w - 1, 2^(w + 1) - 2} \cap (0..29)} : w \in 1..4}

\* Gaps and runs either side of every bound of the run-length code: 3, 6,
\* 10, 11 and 138; distances none, some and all.
MCTrees ==
  {[ll |-> FlatTree(288, (x[1]..(x[1] + x[2] - 1)) \cup {256} \cup (257..(256 + x[3]))),
    d |-> FlatTree(32, ds)] :
     x \in ({3, 10, 11, 138, 139} \X {4} \X {29}) \cup ({11, 139} \X {4} \X {0}) \cup {<<138, 60, 29>>},
     ds \in {{}, 3..6, 0..29}}
  \cup CrossingTrees

Header == INSTANCE InflateHeader WITH Trees <- MCTrees

-----------------------------------------------------------------------------
(* Every histogram of seven counts of three values, and one whose best     *)
(* code without a limit has a length for every symbol.                     *)

MCHistograms ==
  [0..6 -> {0, 1, 6}] \cup {[s \in 0..6 |-> <<8, 13, 1, 2, 5, 3, 1>>[s + 1]]}

Codes == INSTANCE CodeLengths WITH Histograms <- MCHistograms, Limits <- {3, 7}

ASSUME PartsAssumption ==
  /\ Match!MatchesAssumption /\ Tables!TablesAssumption
  /\ Header!TreesAssumption /\ Codes!HistogramsAssumption

-----------------------------------------------------------------------------
(* The parts, one at a time.                                               *)

MatchIdle  == match = 0 /\ symbols = 0 /\ tables = 0 /\ r = 0
TablesIdle == d1 = 0 /\ i = 0 /\ next_code = 0 /\ table = 0 /\ node = 0 /\ decoded = 0
HeaderIdle == tree = 0 /\ flags = 0 /\ enc = 0 /\ stream = 0 /\ dec = 0
CodesIdle  ==
  counts = 0 /\ limit = 0 /\ leaves = 0 /\ nodes = 0 /\ lists = 0 /\ calls = 0 /\ runs = 0

Init ==
  /\ part \in Parts
  /\ \/ part = "match"  /\ Match!Init  /\ lengths = 0 /\ TablesIdle /\ HeaderIdle /\ CodesIdle
     \/ part = "tables" /\ Tables!Init /\ MatchIdle /\ HeaderIdle /\ CodesIdle
     \/ part = "header" /\ Header!Init /\ lengths = 0 /\ MatchIdle /\ TablesIdle /\ CodesIdle
     \/ part = "codes"  /\ Codes!Init  /\ MatchIdle /\ TablesIdle /\ HeaderIdle

Next ==
  /\ UNCHANGED part
  /\ \/ part = "match"  /\ Match!Next  /\ UNCHANGED <<lengths, tablesOnly, headerOnly, codesOnly>>
     \/ part = "tables" /\ Tables!Next /\ UNCHANGED <<matchOnly, headerOnly, codesOnly>>
     \/ part = "header" /\ Header!Next /\ UNCHANGED <<lengths, matchOnly, tablesOnly, codesOnly>>
     \/ part = "codes"  /\ Codes!Next  /\ UNCHANGED <<matchOnly, tablesOnly, headerOnly>>

Spec == Init /\ [][Next]_vars

-----------------------------------------------------------------------------
(* Properties, of the part at work.                                        *)

\* InflateMatch's: a match is copied from as far back, and as long, as meant.
MatchIsCopied == part = "match" => Match!MatchIsCopied

\* InflateTables': the two-level tables decode every symbol of the code.
DecodesSymbols == part = "tables" => Tables!DecodesSymbols

\* InflateHeader's: the Amiga reads back the lengths the compressor meant.
LengthsComeBack == part = "header" => Header!LengthsComeBack

\* CodeLengths': the lengths are those of a best code within the limit.
LengthsMakeCodes == part = "codes" => Codes!LengthsMakeCodes
=============================================================================
