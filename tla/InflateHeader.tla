--------------------------- MODULE InflateHeader ---------------------------
(***************************************************************************)
(* How a DEFLATE block says which prefix codes it uses: the lengths of all *)
(* codes, run by run (EncodeTree of zopfli_vendor/deflate.c), and their    *)
(* way back on the Amiga (dynamic_huffman of inflate_core.s), which also   *)
(* reads the codes of a static block, from such a header of its own.  The  *)
(* numbers are the real ones; codes are looked up as InflateTables shows   *)
(* they are.                                                               *)
(***************************************************************************)
EXTENDS Integers, Sequences, SequencesExt, FiniteSetsExt, Functions

CONSTANTS
  Trees     \* pairs of lengths: of literals and lengths, and of distances

TreesAssumption ==
  Trees \subseteq [ll : [0..287 -> 0..15], d : [0..31 -> 0..15]]

VARIABLES
  pc,
  tree,      \* the lengths of the block
  flags,     \* EncodeTree()'s use_16, use_17, use_18
  enc,       \* its run-length encoding so far, and the index it has reached
  stream,    \* the header as it is written, and where the Amiga is in it
  dec        \* the Amiga's: counts, lengths and the code of the code lengths

vars == <<pc, tree, flags, enc, stream, dec>>

order == <<16, 17, 18, 0, 8, 7, 9, 6, 10, 5, 11, 4, 12, 3, 13, 2, 14, 1, 15>>

BitOf(value, k) == (value \div 2^k) % 2
\* AddBits()
Bits(value, n) == [k \in 1..n |-> BitOf(value, k - 1)]
ToNumber(bits) == FoldRight(LAMBDA bit, value : bit + 2 * value, bits, 0)

\* GetFixedTree(), and what static blocks begin with on the Amiga.
FixedTree == [ll |-> [s \in 0..287 |-> IF s < 144 THEN 8 ELSE IF s < 256 THEN 9
                                      ELSE IF s < 280 THEN 7 ELSE 8],
              d  |-> [s \in 0..31 |-> 5]]
static_huffman_prefix ==
  <<255, 91, 0, 108, 3, 54, 219, 182, 109, 219, 182, 109, 219, 182,
    205, 219, 182, 109, 219, 182, 109, 219, 168, 109, 206, 139, 109, 59>>

-----------------------------------------------------------------------------
(* EncodeTree()                                                            *)

\* Zeros at the end are not written, but never fewer than 257 and 1 lengths.
Trimmed(lengths, first, hmax) ==
  Max({0} \cup {h \in 1..hmax : lengths[first + h - 1] # 0})
hlit  == Trimmed(tree.ll, 257, 29)
hdist == Trimmed(tree.d, 1, 29)
lld_total == hlit + 257 + hdist + 1
AllLengths == [k \in 1..lld_total |-> IF k <= hlit + 257 THEN tree.ll[k - 1]
                                                         ELSE tree.d[k - hlit - 258]]

\* How many times the length at k comes from there on, literals' and
\* distances' alike.
Run(lengths, k) ==
  CHOOSE n \in 1..(Len(lengths) - k + 1) :
    /\ n = Len(lengths) - k + 1 \/ lengths[k + n] # lengths[k]
    /\ \A m \in 1..(n - 1) : lengths[k + m] = lengths[k]

Same(n, item) == [k \in 1..n |-> item]

\* Runs of zeros of at least least in pieces of at most most, and what is
\* left of them.
Pieces(count, least, most, symbol) ==
  LET whole == count \div most
      rest  == count % most
      last  == IF rest >= least THEN <<<<symbol, rest - least>>>> ELSE <<>>
  IN  [items |-> Same(whole, <<symbol, most - least>>) \o last,
       left  |-> IF rest >= least THEN 0 ELSE rest]

EncodeZeros(count) ==
  LET long  == IF flags[3] /\ count >= 3 THEN Pieces(count, 11, 138, 18)
               ELSE [items |-> <<>>, left |-> count]
      short == IF flags[2] /\ count >= 3 THEN Pieces(long.left, 3, 10, 17)
               ELSE [items |-> <<>>, left |-> long.left]
  IN  [items |-> long.items \o short.items, left |-> short.left]

EncodeRepeated(symbol, count) ==
  IF flags[1] /\ count >= 4
  THEN LET again == Pieces(count - 1, 3, 6, 16)
       IN  <<<<symbol, 0>>>> \o again.items \o Same(again.left, <<symbol, 0>>)
  ELSE Same(count, <<symbol, 0>>)

EncodeRun ==
  /\ pc = "encode" /\ enc.i < lld_total
  /\ LET lengths == AllLengths
         symbol == lengths[enc.i + 1]
         count  == IF flags[1] \/ (symbol = 0 /\ (flags[2] \/ flags[3])) 
                   THEN Run(lengths, enc.i + 1) ELSE 1
         zeros  == IF symbol = 0 THEN EncodeZeros(count) ELSE [items |-> <<>>, left |-> count]
     IN  enc' = [i   |-> enc.i + count,
                 rle |-> enc.rle \o zeros.items \o EncodeRepeated(symbol, zeros.left)]
  /\ UNCHANGED <<pc, tree, flags, stream, dec>>

Used == {item[1] : item \in Range(enc.rle)}

\* ZopfliCalculateBitLengths() gives a complete code of at most 7 bits to
\* the symbols used; here one as flat as can be.
Flat(used) ==
  LET n     == Cardinality(used)
      bits  == CHOOSE b \in 0..8 : n <= 2^b /\ (b = 0 \/ n > 2^(b - 1))
      rank  == [s \in used |-> Cardinality({t \in used : t < s})]
  IN  [s \in 0..18 |-> IF s \notin used THEN 0
                       ELSE IF n = 1 THEN 1
                       ELSE IF rank[s] < 2^bits - n THEN bits - 1 ELSE bits]

\* The canonical code: its bits from the highest.
Code(lengths, s) ==
  LET before == {t \in DOMAIN lengths : lengths[t] # 0 /\
                   (lengths[t] < lengths[s] \/ (lengths[t] = lengths[s] /\ t < s))}
      value  == MapThenSumSet(LAMBDA t : 2^(lengths[s] - lengths[t]), before)
  IN  [k \in 1..lengths[s] |-> BitOf(value, lengths[s] - k)]

ExtraBits(symbol) == IF symbol = 16 THEN 2 ELSE IF symbol = 17 THEN 3
                     ELSE IF symbol = 18 THEN 7 ELSE 0

WriteTree ==
  /\ pc = "encode" /\ enc.i = lld_total
  /\ LET clcl  == Flat(Used)
         hclen == Max({0} \cup {h \in 1..15 : order[h + 4] \in Used})
         codes == [s \in Used |-> Code(clcl, s)]
         item(k) == codes[enc.rle[k][1]] \o Bits(enc.rle[k][2], ExtraBits(enc.rle[k][1]))
     IN  stream' = Bits(hlit, 5) \o Bits(hdist, 5) \o Bits(hclen, 4)
                   \o FlattenSeq([k \in 1..(hclen + 4) |-> Bits(clcl[order[k]], 3)])
                   \o FlattenSeq([k \in DOMAIN enc.rle |-> item(k)])
  /\ pc' = "dynamic_huffman"
  /\ enc' = [i |-> 0, rle |-> <<>>]
  /\ UNCHANGED <<tree, flags, dec>>

-----------------------------------------------------------------------------
(* inflate_core.s                                                          *)

\* static_huffman: the header is its own, and the stream is put aside.
StaticHuffman ==
  /\ pc = "static_huffman"
  /\ stream' = FlattenSeq([k \in DOMAIN static_huffman_prefix |->
                             Bits(static_huffman_prefix[k], 8)])
  /\ pc' = "dynamic_huffman"
  /\ UNCHANGED <<tree, flags, enc, dec>>

NextBits(at, n) == ToNumber(SubSeq(stream, at, at + n - 1))

\* dynamic_huffman, up to the table of the code lengths' code.
ReadCounts ==
  /\ pc = "dynamic_huffman"
  /\ LET hclen   == NextBits(11, 4) + 4
         lengths == [s \in 0..18 |->
                      IF \E k \in 1..hclen : order[k] = s
                      THEN NextBits(15 + 3 * ((CHOOSE k \in 1..hclen : order[k] = s) - 1), 3)
                      ELSE 0]
     IN  dec' = [dec EXCEPT !.literals = NextBits(1, 5) + 257, !.distances = NextBits(6, 5) + 1,
                            !.at = 15 + 3 * hclen,
                            !.code = [s \in {t \in 0..18 : lengths[t] # 0} |-> Code(lengths, s)]]
  /\ pc' = "lengths"
  /\ UNCHANGED <<tree, flags, enc, stream>>

\* How many lengths a symbol stands for.  Faulty: a run ends with the
\* literals' lengths.
RunLengthInTable(s, extra) ==
  LET count == IF s < 16 THEN 1 ELSE IF s = 18 THEN extra + 11 ELSE extra + 3
      room  == dec.literals - Len(dec.lengths)
  IN  IF room > 0 THEN Min({count, room}) ELSE count
RunLength(s, extra) == IF s < 16 THEN 1 ELSE IF s = 18 THEN extra + 11 ELSE extra + 3

\* The symbol whose code comes next.
Comes(s) == /\ dec.at + Len(dec.code[s]) - 1 <= Len(stream)
            /\ SubSeq(stream, dec.at, dec.at + Len(dec.code[s]) - 1) = dec.code[s]

Left == dec.literals + dec.distances - Len(dec.lengths)

\* dh4: c_lit, c_16, c_17, c_18
ReadLength ==
  /\ pc = "lengths" /\ Left > 0
  /\ \E s \in DOMAIN dec.code :
       /\ Comes(s)
       /\ LET at    == dec.at + Len(dec.code[s])
              count == RunLength(s, NextBits(at, ExtraBits(s)))
              value == IF s < 16 THEN s ELSE IF s = 16 THEN Last(dec.lengths) ELSE 0
          IN  dec' = [dec EXCEPT !.at = at + ExtraBits(s), !.lengths = @ \o Same(count, value)]
  /\ UNCHANGED <<pc, tree, flags, enc, stream>>

\* A run longer than what is left would make the counter wrap.
LengthsRead ==
  /\ pc = "lengths" /\ Left = 0
  /\ pc' = "build_code"
  /\ UNCHANGED <<tree, flags, enc, stream, dec>>

-----------------------------------------------------------------------------

Init ==
  /\ \/ pc = "encode" /\ tree \in Trees /\ flags \in [1..3 -> BOOLEAN]
     \/ pc = "static_huffman" /\ tree = FixedTree /\ flags = [k \in 1..3 |-> TRUE]
  /\ enc = [i |-> 0, rle |-> <<>>]
  /\ stream = <<>>
  /\ dec = [literals |-> 0, distances |-> 0, at |-> 1, code |-> <<>>, lengths |-> <<>>]

Finished == pc = "build_code" /\ UNCHANGED vars

Next == \/ EncodeRun \/ WriteTree
        \/ StaticHuffman \/ ReadCounts \/ ReadLength \/ LengthsRead
        \/ Finished

Spec == Init /\ [][Next]_vars

-----------------------------------------------------------------------------
(* Properties.                                                             *)

\* The Amiga builds its tables from the lengths the compressor meant, zeros
\* for those it did not write, having read the whole header and not a bit
\* more, which never ends before all lengths are read; runs that go on from
\* the literals into the distances, or only begin there, are taken up where
\* they were written; and static blocks use the lengths the format prescribes
\* (deflate.c:106-250 and 336-343 against inflate_core.s:103-107 and
\* 275-356).
LengthsComeBack ==
  /\ Left >= 0
  /\ pc = "lengths" /\ Left > 0 => \E s \in DOMAIN dec.code : Comes(s)
  /\ pc = "build_code" =>
       /\ \A s \in DOMAIN tree.ll :
            tree.ll[s] = IF s < dec.literals THEN dec.lengths[s + 1] ELSE 0
       /\ \A s \in DOMAIN tree.d :
            tree.d[s] = IF s < dec.distances THEN dec.lengths[dec.literals + s + 1] ELSE 0
       /\ tree # FixedTree => dec.at = Len(stream) + 1
=============================================================================
