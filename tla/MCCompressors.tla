--------------------------- MODULE MCCompressors ---------------------------
(***************************************************************************)
(* The zx0 and lz4 backends from end to end (Zx0Codec, Lz4Codec), and      *)
(* Shrinkler in four parts: its range coder (RangeCoder), the spelling of  *)
(* its symbols (ShrinklerLZ), its match finder (MatchFinder) and its       *)
(* parser (LZParser).  They are functions that share nothing: a behaviour  *)
(* is one part at work on one input, while the variables of the others     *)
(* keep a value that means nothing.                                        *)
(***************************************************************************)
EXTENDS Sequences, RangeCoder

CONSTANTS
  Parts,     \* the parts to run
  Zx0Jobs,   \* sequences of inputs for zx0
  Lz4Texts, Lz4Plans   \* what lz4 parses, and what it writes

VARIABLES
  part,
  pc, host, data, amiga, stream, cpu,     \* of more than one part, as is RangeCoder's phase
  inputs, job, pool, index, offset, last_literal, last_match, optimal, best_length,
  match_length, best_length_size, output_size, bit_index, bit_mask, backtrack,
  prev, block, last_offset, input_index,
  lz, bits,
  match_patience, suffix_array, rev_suffix_array, longest_common_prefix, state, found,
  p, at, sizes, pack,
  source, ip, anchor, opt, cur, last_match_pos, recorded, reach

zx0Only    == <<inputs, job, pool, index, offset, last_literal, last_match, optimal, best_length,
                match_length, best_length_size, output_size, bit_index, bit_mask,
                backtrack, prev, block, last_offset, input_index>>
coderOnly  == <<coded, enc, decoder, registers, trailer>>
lzOnly     == <<lz, bits>>
finderOnly == <<match_patience, suffix_array, rev_suffix_array, longest_common_prefix, state, found>>
parserOnly == <<p, at, sizes, pack>>
lz4Only    == <<source, ip, anchor, opt, cur, last_match_pos, recorded, reach>>
vars       == <<part, pc, host, data, phase, amiga, stream, cpu,
                zx0Only, coderOnly, lzOnly, finderOnly, parserOnly, lz4Only>>

-----------------------------------------------------------------------------
(* Zx0: with bytes of two bits an offset's low byte tells two offsets      *)
(* apart, the largest offset is 6 and a count of 16 no longer fits dbf, so *)
(* that inputs of a dozen bytes meet every limit of the format.            *)

Inputs(n, values) == [1..n -> values]

\* Where the largest offset, and the one that would be past it, pay off.
AtOffsetLimit(distance) == LET a == SubSeq(<<0, 1, 2, 3, 1, 0, 2>>, 1, distance) IN {a \o a}

\* One file: every input of up to eight bytes of two values, and of six of three.
OneFile == {<<x>> : x \in UNION {Inputs(n, {0, 1}) : n \in 1..8}
                          \cup Inputs(6, {0, 1, 3})
                          \cup AtOffsetLimit(6) \cup AtOffsetLimit(7)}

\* Two in turn: the second takes over what the first left in the pool.
TwoFiles == {<<x, y>> : x \in Inputs(5, {0, 1}), y \in Inputs(5, {0, 1})}

MCZx0Jobs == OneFile \cup TwoFiles

\* A run of 18 equal bytes: one literal and a match of 17.
LongRun == {<<[n \in 1..18 |-> 0]>>}

Zx0 == INSTANCE Zx0Codec WITH ByteBits <- 2, Jobs <- Zx0Jobs

-----------------------------------------------------------------------------
(* Shrinkler: texts of six bytes of two bits; texts of eight letters, with *)
(* and without patience; and every set of matches a finder could report on *)
(* seven letters, with room for four edges.  Its coder has registers of    *)
(* eight bits and bytes of four, and a context learns with two.            *)

\* The first iteration, in which every bit costs the same, one in which
\* repeating an offset has turned out cheap and a literal dear, and one in
\* which all numbers cost next to nothing, so that many edges are equal.
MCSizeTables == {[lit |-> 8, kind |-> 1, rep |-> 1, bit |-> 1],
                 [lit |-> 12, kind |-> 2, rep |-> 0, bit |-> 3],
                 [lit |-> 8, kind |-> 1, rep |-> 1, bit |-> 0]}

Speller == INSTANCE ShrinklerLZ WITH LitBits <- 2, MaxText <- 6, Base <- 4
Finder == INSTANCE MatchFinder WITH Alphabet <- {0, 1}, MaxLength <- 8, min_length <- 2,
            Patiences <- {1, 10}, max_same_length <- 2
Parser == INSTANCE LZParser WITH DataLength <- 7, edge_capacity <- 4, length_margin <- 3,
            skip_length <- 4, iterations <- 2, SizeTables <- MCSizeTables, RealSizes <- {1, 2}

-----------------------------------------------------------------------------
(* Lz4: at the program's widths, but for the places the parser weighs at   *)
(* once.  It parses texts made of a few words, with repeats that cross and *)
(* overlap; the lengths at which the format adds a byte, and those at      *)
(* which a decoder leaves its fast loop, come from plans.                  *)

Words == {<<0, 0, 0, 0, 0>>, <<0, 1, 0, 1, 1>>, <<2, 0, 1, 0, 1>>}

MCTexts == {a \o b \o c \o d \o e \o <<0, 1, 2, 3, 4>> : a, b, c, d, e \in Words}

Match(lits, mlen, off) == [lits |-> lits, mlen |-> mlen, off |-> off]

\* One match, at every length and distance that is treated in its own way.
OneMatch == {[sequences |-> <<Match(17, mlen, off)>>, last |-> last] :
               mlen \in {4, 8, 16, 17, 18, 19}, off \in 1..17, last \in {8, 12, 64}}

\* A block of more than FASTLOOP_SAFE_DISTANCE, in which the second match ends
\* at, before and behind the place where the fast loop is left.
TwoMatches == {[sequences |-> <<Match(14, 18, near), Match(lits, mlen, far)>>, last |-> last] :
                 near \in {5, 9}, lits \in {0, 15, 33}, mlen \in {4, 19, 100},
                 far \in {3, 8, 16, 32, 64}, last \in {5, 8, 58, 70}}

\* Lengths of one, two and three bytes more.
LongLengths == {[sequences |-> <<Match(lits, mlen, 1)>>, last |-> last] :
                  lits \in {14, 15, 269, 270, 525}, mlen \in {19, 273, 274, 528}, last \in {12, 270}}

\* A match lies within what is written, and ends soon enough before the end.
MCPlans == {plan \in OneMatch \cup TwoMatches \cup LongLengths :
              /\ plan.sequences[Len(plan.sequences)].off <= 32 + plan.sequences[Len(plan.sequences)].lits
              /\ plan.sequences[Len(plan.sequences)].mlen + plan.last >= 12}

Lz4 == INSTANCE Lz4Codec WITH LZ4_OPT_NUM <- 12, Texts <- Lz4Texts, Plans <- Lz4Plans

ASSUME PartsAssumption ==
  /\ Zx0!ByteBitsAssumption /\ Lz4!Lz4Assumption /\ WidthsAssumption /\ Speller!LzAssumption
  /\ Finder!FinderAssumption /\ Parser!ParserAssumption

-----------------------------------------------------------------------------
(* The parts, one at a time.                                               *)

Zx0Idle ==
  /\ inputs = 0 /\ job = 0 /\ pool = 0 /\ index = 0 /\ offset = 0 /\ last_literal = 0
  /\ last_match = 0 /\ optimal = 0 /\ best_length = 0 /\ match_length = 0
  /\ best_length_size = 0 /\ output_size = 0 /\ bit_index = 0 /\ bit_mask = 0
  /\ backtrack = 0 /\ prev = 0 /\ block = 0 /\ last_offset = 0 /\ input_index = 0
StreamIdle == stream = 0 /\ cpu = 0
CoderIdle  ==
  /\ coded = 0 /\ enc = 0 /\ trailer = 0
  /\ decoder = [wrong |-> FALSE] /\ registers = [wrong |-> FALSE]
LzIdle     == lz = 0 /\ bits = 0
FinderIdle ==
  /\ match_patience = 0 /\ suffix_array = 0 /\ rev_suffix_array = 0
  /\ longest_common_prefix = 0 /\ state = 0 /\ found = 0
ParserIdle == p = 0 /\ at = 0 /\ sizes = 0 /\ pack = 0
Lz4Idle    ==
  /\ source = 0 /\ ip = 0 /\ anchor = 0 /\ opt = 0
  /\ cur = 0 /\ last_match_pos = 0 /\ recorded = 0 /\ reach = 0

Init ==
  /\ part \in Parts
  /\ \/ /\ part = "zx0" /\ Zx0!Init
        /\ data = 0 /\ phase = 0 /\ amiga = 0
        /\ CoderIdle /\ LzIdle /\ FinderIdle /\ ParserIdle /\ Lz4Idle
     \/ /\ part = "lz4" /\ Lz4!Init
        /\ data = 0 /\ phase = 0 /\ amiga = 0
        /\ Zx0Idle /\ CoderIdle /\ LzIdle /\ FinderIdle /\ ParserIdle
     \/ /\ part = "coder" /\ CoderInit
        /\ pc = 0 /\ host = 0 /\ data = 0 /\ amiga = 0
        /\ Zx0Idle /\ StreamIdle /\ LzIdle /\ FinderIdle /\ ParserIdle /\ Lz4Idle
     \/ /\ part = "lz" /\ Speller!Init
        /\ pc = 0 /\ data = 0
        /\ Zx0Idle /\ StreamIdle /\ CoderIdle /\ FinderIdle /\ ParserIdle /\ Lz4Idle
     \/ /\ part = "finder" /\ Finder!Init
        /\ pc = 0 /\ host = 0 /\ phase = 0 /\ amiga = 0
        /\ Zx0Idle /\ StreamIdle /\ CoderIdle /\ LzIdle /\ ParserIdle /\ Lz4Idle
     \/ /\ part = "parser" /\ Parser!Init
        /\ host = 0 /\ phase = 0 /\ amiga = 0
        /\ Zx0Idle /\ StreamIdle /\ CoderIdle /\ LzIdle /\ FinderIdle /\ Lz4Idle

Next ==
  /\ UNCHANGED part
  /\ \/ /\ part = "zx0" /\ Zx0!Next
        /\ UNCHANGED <<data, phase, amiga, coderOnly, lzOnly, finderOnly, parserOnly, lz4Only>>
     \/ /\ part = "lz4" /\ Lz4!Next
        /\ UNCHANGED <<data, phase, amiga, zx0Only, coderOnly, lzOnly, finderOnly, parserOnly>>
     \/ /\ part = "coder" /\ CoderNext
        /\ UNCHANGED <<pc, host, data, amiga, stream, cpu, zx0Only, lzOnly, finderOnly, parserOnly, lz4Only>>
     \/ /\ part = "lz" /\ Speller!Next
        /\ UNCHANGED <<pc, data, stream, cpu, zx0Only, coderOnly, finderOnly, parserOnly, lz4Only>>
     \/ /\ part = "finder" /\ Finder!Next
        /\ UNCHANGED <<pc, host, phase, amiga, stream, cpu,
                       zx0Only, coderOnly, lzOnly, parserOnly, lz4Only>>
     \/ /\ part = "parser" /\ Parser!Next
        /\ UNCHANGED <<host, phase, amiga, stream, cpu,
                       zx0Only, coderOnly, lzOnly, finderOnly, lz4Only>>

Spec == Init /\ [][Next]_vars

-----------------------------------------------------------------------------
(* Properties, of the part at work; RangeCoder's BitsComeBack holds of it  *)
(* as it is.                                                               *)

\* Zx0Codec's: the optimizer's shared and reused blocks form valid parses.
ParsesAreSound == part = "zx0" => Zx0!ParsesAreSound

\* Zx0Codec's: what is written fits its buffer and passes the pack-time check.
HostAccepts == part = "zx0" => Zx0!HostAccepts

\* Zx0Codec's: what the host accepts, the Amiga unpacks to the same bytes.
AmigaAgrees == part = "zx0" => Zx0!AmigaAgrees

\* Lz4Codec's: whatever is parsed and written, every reader takes it back
\* without leaving its buffers.
BlockComesBack == part = "lz4" => Lz4!BlockComesBack

\* ShrinklerLZ's: both decoders ask for the bits in the contexts they were
\* coded in, and unpack the text.
DecodersRead == part = "lz" => Speller!DecodersRead

\* MatchFinder's: what is reported are matches, longest first.
ReportsMatches == part = "finder" => Finder!ReportsMatches

\* LZParser's: every edge's count is the number of what refers to it.
EdgesAreCounted == part = "parser" => Parser!EdgesAreCounted

\* LZParser's: the parse chosen spells the text at the cost it was chosen by.
ParseIsWhatItCosts == part = "parser" => Parser!ParseIsWhatItCosts
=============================================================================
