---------------------------- MODULE DepackTraces ----------------------------
(***************************************************************************)
(* The order in which the 68000 depackers of stubs/ read their payload and *)
(* write their output, as functions from a compressed stream to a sequence *)
(* of accesses.  A stream is given by what the depacker's control depends  *)
(* on: lengths of literal runs and matches, widths of codes.  The bytes    *)
(* themselves are not represented, nor are reads of earlier output (a      *)
(* match copies bytes that are already final).                             *)
(***************************************************************************)
EXTENDS Integers, SequencesExt

\* Where a depacker stands: next payload byte, next output byte, bits left in
\* its bit buffer, and the accesses made so far.
Start == [in |-> 0, out |-> 0, bits |-> 0, ops |-> <<>>]

Accesses(op, at, n) == [i \in 1 .. n |-> [op |-> op, at |-> at + i - 1]]

Fetches(c, n) == [c EXCEPT !.in = @ + n, !.ops = @ \o Accesses("get", c.in, n)]
Emits(c, n)   == [c EXCEPT !.out = @ + n, !.ops = @ \o Accesses("put", c.out, n)]

\* n times  move.<unit> (a0)+,(a1)+ , which reads its unit before it writes it.
Copies(c, unit, n) ==
  [c EXCEPT
     !.in = @ + unit * n, !.out = @ + unit * n,
     !.ops = @ \o [i \in 1 .. 2 * unit * n |->
       LET move == (i - 1) \div (2 * unit)
           byte == (move * unit) + ((i - 1) % unit)
       IN  IF (i - 1) % (2 * unit) < unit
           THEN [op |-> "get", at |-> c.in + byte]
           ELSE [op |-> "put", at |-> c.out + byte]]]

\* Take width bits, fetching a byte only when they are not all there.
TakeBits(c, width) ==
  LET missing == IF c.bits >= width THEN 0 ELSE (width - c.bits + 7) \div 8
  IN  [Fetches(c, missing) EXCEPT !.bits = c.bits + 8 * missing - width]

-----------------------------------------------------------------------------
(* stubs/store/depack_core.s: whole longwords, then the odd bytes.         *)

StoreDepack(length) == Copies(Copies(Start, 4, length \div 4), 1, length % 4).ops

-----------------------------------------------------------------------------
(* stubs/lz4: sequences of literals and a match; the end test is made just *)
(* after the literals, so the last sequence has no match.                  *)

\* .readLen: a nibble of 15 is followed by bytes of 255 and one below it.
Lz4Length(c, n) == IF n < 15 THEN c ELSE Fetches(c, (n - 15) \div 255 + 1)

Lz4Literals(c, literals) == Copies(Lz4Length(Fetches(c, 1), literals), 1, literals)

\* .lenOffset: two offset bytes, then the rest of the match length.
Lz4Match(c, match) == Emits(Lz4Length(Fetches(c, 2), match - 4), match)

Lz4Sequence(c, s) == Lz4Match(Lz4Literals(c, s.literals), s.match)

Lz4Depack(sequences, last) ==
  Lz4Literals(FoldLeft(Lz4Sequence, Start, sequences), last).ops

-----------------------------------------------------------------------------
(* stubs/zx0/unzx0_68000.s: a queue of eight bits, refilled when empty, in *)
(* which interlaced Elias gamma codes and block flags are interleaved with *)
(* whole bytes.                                                            *)

\* Data bits of an Elias gamma code: the position of its leading one.
Log2(n) == CHOOSE k \in 0 .. n : 2 ^ k <= n /\ n < 2 ^ (k + 1)

GetElias(c, n) == TakeBits(c, 2 * Log2(n) + 1)

\* [kind |-> "literals", length], [kind |-> "rep", length] or
\* [kind |-> "match", length, high]: high is the value coded for the offset's
\* high byte; the low byte carries the first bit of the length.  Every block
\* but the first is introduced by a flag bit.
Zx0Block(c, b) ==
  LET flagged == IF c.ops = <<>> THEN c ELSE TakeBits(c, 1)
  IN  CASE b.kind = "literals" -> Copies(GetElias(flagged, b.length), 1, b.length)
        [] b.kind = "rep"      -> Emits(GetElias(flagged, b.length), b.length)
        [] b.kind = "match"    ->
             LET offset == Fetches(GetElias(flagged, b.high), 1)
             IN  Emits(TakeBits(offset, 2 * Log2(b.length - 1)), b.length)

\* The end marker is an offset whose high byte codes 256.
Zx0Depack(blocks) ==
  GetElias(TakeBits(FoldLeft(Zx0Block, Start, blocks), 1), 256).ops

-----------------------------------------------------------------------------
(* stubs/inflate/inflate_core.s: DEFLATE with a bit buffer of 16 bits (d5) *)
(* and its fill count (d6, here bits).                                     *)

\* A code of up to 8 bits is looked up in a whole byte, fetched if it is not
\* there even when the code itself would fit what is left; a longer code goes
\* on bit by bit.
StreamNextSymbol(c, width) ==
  LET d == IF c.bits <= 7 THEN [Fetches(c, 1) EXCEPT !.bits = @ + 8] ELSE c
  IN  IF width <= 8 THEN [d EXCEPT !.bits = @ - width]
      ELSE TakeBits([d EXCEPT !.bits = @ - 8], width - 8)

\* A decoded symbol: [kind |-> "literal", code] or [kind |-> "match", code,
\* extra, distCode, distExtra, length], each field but length a width.
DecodeLoop(c, s) ==
  CASE s.kind = "literal" -> Emits(StreamNextSymbol(c, s.code), 1)
    [] s.kind = "match"   ->
         LET length   == TakeBits(StreamNextSymbol(c, s.code), s.extra)
             distance == TakeBits(StreamNextSymbol(length, s.distCode), s.distExtra)
         IN  Emits(distance, s.length)

\* uncompressed_block: whole bytes still in the bit buffer are handed back to
\* the stream (sub.w d6,a5), LEN is read, NLEN skipped, the data copied.
UncompressedBlock(c, length) ==
  LET rewound == [c EXCEPT !.in = @ - (c.bits \div 8), !.bits = 0]
      len     == TakeBits(rewound, 16)
  IN  Copies([len EXCEPT !.in = @ + 2], 1, length)

\* [kind |-> "stored", length] or [kind |-> "huffman", trees, symbols, end]:
\* trees are the widths of the code description's fields (<<>> for the static
\* code, whose description is not in the payload), end the end-of-block code.
InflateBlock(c, b) ==
  LET header == TakeBits(c, 3)
  IN  CASE b.kind = "stored"  -> UncompressedBlock(header, b.length)
        [] b.kind = "huffman" ->
             LET trees == FoldLeft(TakeBits, header, b.trees)
             IN  StreamNextSymbol(FoldLeft(DecodeLoop, trees, b.symbols), b.end)

InflateDepack(blocks) == FoldLeft(InflateBlock, Start, blocks).ops
=============================================================================
