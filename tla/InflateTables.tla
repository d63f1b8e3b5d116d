--------------------------- MODULE InflateTables ---------------------------
(***************************************************************************)
(* The prefix codes of a DEFLATE block: their canonical form as the        *)
(* compressor writes it (ZopfliLengthsToSymbols of zopfli_vendor/tree.c,   *)
(* AddHuffmanBits of deflate.c) and the two-level table the Amiga decodes  *)
(* it with (build_code and stream_next_symbol of inflate_core.s).  Short   *)
(* codes are looked up by the next FirstBits bits of the stream, in        *)
(* whatever order they come; longer ones go on bit by bit through nodes of *)
(* two words each, which are numbered so that a node's number is also its  *)
(* place.  The code of the code lengths and the one of literals and        *)
(* lengths are built in the same memory, one after the other.              *)
(***************************************************************************)
EXTENDS Integers, Sequences, SequencesExt, FiniteSetsExt

CONSTANTS
  FirstBits,     \* 8
  LenBits,       \* 3: of an entry hold a short code's length
  MaxBits,       \* 15
  CodelenSymbols,   \* 19
  Symbols,          \* 288
  CodelenCodes,     \* the codes of the code lengths,
  LiteralCodes,     \* and of literals and lengths, a compressor may choose
  Thresholds     \* d1: above it, the table's values are rows of four bytes

VARIABLES
  pc,
  lengths,     \* of the code being built
  d1,          \* its threshold
  i,           \* the next symbol to be entered
  next_code,   \* the counters on the stack
  table,       \* the words at a1
  node,        \* d4: the last node taken
  decoded      \* the last symbol decoded: what was coded, what came of it

vars == <<pc, lengths, d1, i, next_code, table, node, decoded>>

NODE == 32768                  \* bit 15 of an entry
FirstLevel == 2^FirstBits

\* Words kept for the table of a code of n symbols.
AreaWords(n) == FirstLevel + 2 * (n - (FirstBits + 1))
Area == AreaWords(Symbols)

BitOf(value, k) == (value \div 2^k) % 2
FromBits(bits) == FoldRight(LAMBDA bit, value : bit + 2 * value, bits, 0)

-----------------------------------------------------------------------------
(* The compressor                                                          *)

\* Every string of bits starts with a code, or there is one symbol, of one bit.
Complete(code) ==
  MapThenSumSet(LAMBDA s : IF code[s] = 0 THEN 0 ELSE 2^(MaxBits - code[s]), DOMAIN code)
    = 2^MaxBits
OneSymbol(code) == Cardinality({s \in DOMAIN code : code[s] # 0}) = 1 /\ Max(Range(code)) = 1

\* A code length's code is short enough for the first level.
TablesAssumption ==
  /\ FirstBits \in Nat \ {0} /\ LenBits \in Nat
  /\ FirstBits <= 2^LenBits
  /\ MaxBits \in Nat /\ MaxBits > FirstBits
  /\ CodelenSymbols \in Nat \ {0}
  /\ Symbols \in Nat /\ Symbols >= CodelenSymbols
  /\ CodelenCodes \subseteq [0..(CodelenSymbols - 1) -> 0..(FirstBits - 1)]
  /\ LiteralCodes \subseteq [0..(Symbols - 1) -> 0..MaxBits]
  /\ \A code \in CodelenCodes \cup LiteralCodes : Complete(code) \/ OneSymbol(code)

\* The numerical value of the smallest code of each length.
FirstCode(code, bits) ==
  FoldLeft(LAMBDA value, b : 2 * (value + Cardinality({s \in DOMAIN code : code[s] = b /\ b > 0})),
           0, [b \in 1..bits |-> b - 1])

SymbolCode(code, s) ==
  FirstCode(code, code[s]) + Cardinality({t \in DOMAIN code : t < s /\ code[t] = code[s]})

\* AddHuffmanBits(): the highest bit first.
HuffmanBits(code, s) ==
  [k \in 1..code[s] |-> BitOf(SymbolCode(code, s), code[s] - k)]

-----------------------------------------------------------------------------
(* build_code                                                              *)

n_symbols == Cardinality(DOMAIN lengths)

\* Up to bc4.  The counter of a length lies where that of the one above it
\* is looked for afterwards.
CountLengths ==
  /\ pc \in {"codelens", "lengths"}
  /\ LET count == [b \in 0..MaxBits |-> IF b = 0 THEN 0 ELSE
                     Cardinality({s \in DOMAIN lengths : lengths[s] = b})]
         Step(at, b) == [d2 |-> 2 * (at.d2 + count[b]), codes |-> Append(at.codes, 2 * (at.d2 + count[b]))]
     IN  next_code' = FoldLeft(Step, [d2 |-> 0, codes |-> <<>>],
                               [b \in 1..(MaxBits + 1) |-> b - 1]).codes
  /\ pc' = IF pc = "codelens" THEN "enter_codelens" ELSE "enter_lengths"
  /\ i' = 0
  /\ node' = 2^(FirstBits - 1) - 1
  /\ UNCHANGED <<lengths, d1, table, decoded>>

Entering == pc \in {"enter_codelens", "enter_lengths"} /\ i < n_symbols

\* bc5: as many bits as the code has, turned round.
Turned(value, bits) == FromBits([k \in 1..bits |-> BitOf(value, bits - k)])

Value(symbol) == IF symbol > d1 THEN 4 * symbol ELSE symbol

\* The symbol is not in the code.
SkipSymbol ==
  /\ Entering /\ lengths[i] = 0
  /\ i' = i + 1
  /\ UNCHANGED <<pc, lengths, d1, next_code, table, node, decoded>>

Taken == [next_code EXCEPT ![lengths[i]] = @ + 1]

\* codelen_le_8: every word whose index ends in the code's bits.
EnterShort ==
  /\ Entering /\ lengths[i] \in 1..FirstBits
  /\ LET code  == Turned(next_code[lengths[i]], lengths[i])
         entry == Value(i) * 2^LenBits + lengths[i] - 1
     IN  table' = [w \in DOMAIN table |->
                    IF w < FirstLevel /\ w % 2^lengths[i] = code THEN entry ELSE table[w]]
  /\ next_code' = Taken
  /\ i' = i + 1
  /\ UNCHANGED <<pc, lengths, d1, node, decoded>>

\* Faulty: a node that is there is not used again.
BranchAnew(at, bit) ==
  LET number == at.node + 1
  IN  [words |-> [at.words EXCEPT ![at.word] = NODE + number],
       node  |-> number, word |-> 2 * number + bit]

\* bc8: to the node a word leads to, a new one if there is none.
Branch(at, bit) ==
  LET there  == at.words[at.word] # 0
      number == IF there THEN at.words[at.word] - NODE ELSE at.node + 1
  IN  [words |-> [at.words EXCEPT ![at.word] = NODE + number],
       node  |-> IF there THEN at.node ELSE number,
       word  |-> 2 * number + bit]

\* codelen_gt_8
EnterLong ==
  /\ Entering /\ lengths[i] > FirstBits
  /\ LET code == Turned(next_code[lengths[i]], lengths[i])
         rest == [k \in 1..(lengths[i] - FirstBits) |-> BitOf(code, FirstBits + k - 1)]
         leaf == FoldLeft(Branch, [words |-> table, node |-> node, word |-> code % FirstLevel], rest)
     IN  /\ table' = [leaf.words EXCEPT ![leaf.word] = Value(i)]
         /\ node' = leaf.node
  /\ next_code' = Taken
  /\ i' = i + 1
  /\ UNCHANGED <<pc, lengths, d1, decoded>>

Built ==
  /\ pc \in {"enter_codelens", "enter_lengths"} /\ i = n_symbols
  /\ pc' = IF pc = "enter_codelens" THEN "read_codelens" ELSE "decode_loop"
  /\ UNCHANGED <<lengths, d1, i, next_code, table, node, decoded>>

Nothing == [value |-> <<0, 0>>, used |-> <<0, 0>>]

\* dh9: the memory of the first table is cleared, and the lengths that came
\* out of it are those of the second.  What was looked up before is the same
\* to the tables; one way is enough.
ReadLengths ==
  /\ pc = "read_codelens" /\ decoded = Nothing
  /\ table' = [w \in DOMAIN table |-> IF w < AreaWords(CodelenSymbols) THEN 0 ELSE table[w]]
  /\ lengths' \in LiteralCodes
  /\ d1' \in Thresholds
  /\ pc' = "lengths"
  /\ UNCHANGED <<i, next_code, node, decoded>>

-----------------------------------------------------------------------------
(* stream_next_symbol                                                      *)

\* The bits that come next, and what comes of looking them up.
NextSymbol(stream) ==
  LET entry == table[FromBits(SubSeq(stream, 1, FirstBits))]
      Step(at) == IF at.entry < NODE THEN at
                  ELSE [entry |-> table[2 * (at.entry - NODE) + stream[at.used + 1]],
                        used  |-> at.used + 1]
      last  == FoldLeft(LAMBDA at, k : Step(at), [entry |-> entry, used |-> FirstBits], stream)
  IN  IF entry < NODE
      THEN [value |-> entry \div 2^LenBits, used |-> (entry % 2^LenBits) + 1]
      ELSE [value |-> last.entry, used |-> last.used]

\* A symbol, followed by anything.
Decode ==
  /\ pc \in {"read_codelens", "decode_loop"}
  /\ \E s \in {t \in DOMAIN lengths : lengths[t] # 0} :
       \E more \in [1..FirstBits -> {0, 1}] :
         decoded' = [NextSymbol(HuffmanBits(lengths, s) \o more) EXCEPT
                       !.value = <<@, Value(s)>>, !.used = <<@, lengths[s]>>]
  /\ UNCHANGED <<pc, lengths, d1, i, next_code, table, node>>

-----------------------------------------------------------------------------

\* dynamic_huffman has pushed zeros.
Init ==
  /\ pc = "codelens"
  /\ lengths \in CodelenCodes
  /\ d1 = CodelenSymbols
  /\ table = [w \in 0..(Area - 1) |-> 0]
  /\ i = 0 /\ next_code = <<>> /\ node = 0 /\ decoded = Nothing

Next ==
  \/ CountLengths \/ SkipSymbol \/ EnterShort \/ EnterLong \/ Built
  \/ ReadLengths \/ Decode

Spec == Init /\ [][Next]_vars

-----------------------------------------------------------------------------
(* Properties.                                                             *)

\* Every symbol of every code is decoded to its value, takes as many bits as
\* it has and not one of those that follow, and no node lies beyond the
\* table's memory (tree.c:30-69 and deflate.c:61-72 against
\* inflate_core.s:118-221 and 430-471).
DecodesSymbols ==
  /\ decoded.value[1] = decoded.value[2] /\ decoded.used[1] = decoded.used[2]
  /\ 2 * node + 1 < Area
=============================================================================
