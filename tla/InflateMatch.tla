---------------------------- MODULE InflateMatch ----------------------------
(***************************************************************************)
(* A match of a DEFLATE stream, from the compressor's length and distance  *)
(* (zopfli_vendor/symbols.h) to the bytes the Amiga copies                 *)
(* (decode_loop of inflate_core.s).  Each side has its own idea of which   *)
(* symbol stands for which range: the host's are tables and bit tricks,    *)
(* the Amiga's are counted down from the far end when inflate starts.  The *)
(* numbers are the real ones.                                              *)
(***************************************************************************)
EXTENDS Integers, Sequences, SequencesExt

CONSTANTS
  Matches     \* the matches the compressor may find

MatchesAssumption ==
  Matches \subseteq [length : 3..258, distance : 1..32768]

VARIABLES
  pc,
  match,
  symbols,   \* the match as it is written: two symbols, each with its extra bits
  tables,    \* what build_base_extrabits leaves on inflate's stack
  r          \* the Amiga's registers, how much has been copied, and its place

vars == <<pc, match, symbols, tables, r>>

Word == 65536

-----------------------------------------------------------------------------
(* symbols.h                                                               *)

Log2(n) == CHOOSE k \in 0..15 : 2^k <= n /\ n < 2^(k + 1)

\* Faulty: the first distance with an extra bit is taken for one without.
DistExtraBitsLate(dist) == IF dist < 6 THEN 0 ELSE Log2(dist - 1) - 1
DistExtraBits(dist) == IF dist < 5 THEN 0 ELSE Log2(dist - 1) - 1
DistExtraBitsValue(dist) ==
  IF dist < 5 THEN 0
  ELSE LET l == Log2(dist - 1) IN (dist - (1 + 2^l)) % 2^(l - 1)
DistSymbol(dist) ==
  IF dist < 5 THEN dist - 1
  ELSE LET l == Log2(dist - 1) IN 2 * l + (((dist - 1) \div 2^(l - 1)) % 2)

\* The tables: one symbol each up to length 10 and for 258, four for each
\* doubling of the range in between.
LengthExtraBits(l) == IF l < 11 \/ l = 258 THEN 0 ELSE Log2(l - 3) - 2
LengthExtraBitsValue(l) == IF l = 258 THEN 0 ELSE (l - 3) % 2^LengthExtraBits(l)
LengthSymbol(l) ==
  IF l < 11 THEN 254 + l
  ELSE IF l = 258 THEN 285
  ELSE 257 + 4 * (Log2(l - 3) - 1) + (((l - 3) \div 2^(Log2(l - 3) - 2)) % 4)

Encode ==
  /\ pc = "encode"
  /\ symbols' =
       [length   |-> [symbol |-> LengthSymbol(match.length),
                      bits   |-> LengthExtraBits(match.length),
                      value  |-> LengthExtraBitsValue(match.length)],
        distance |-> [symbol |-> DistSymbol(match.distance),
                      bits   |-> DistExtraBits(match.distance),
                      value  |-> DistExtraBitsValue(match.distance)]]
  /\ pc' = "build"
  /\ UNCHANGED <<match, tables, r>>

-----------------------------------------------------------------------------
(* inflate_core.s                                                          *)

\* build_base_extrabits: from the last symbol (d0) down, each range ends
\* where the one after it (d2) starts.
BaseExtrabits(d0, d2, d4) ==
  LET Step(at, symbol) ==
        LET halved == (symbol \div 2^d4) - 1
            d3     == IF halved < 0 THEN 0 ELSE halved
            base   == at.base - 2^d3
        IN  [base |-> base,
             rows |-> <<[extra |-> d3, base |-> base % Word]>> \o at.rows]
  IN  FoldLeft(Step, [base |-> d2, rows |-> <<>>], [i \in 1..(d0 + 1) |-> d0 + 1 - i]).rows

\* inflate: the row of length 258 is pushed first.
BuildTables ==
  /\ pc = "build"
  /\ tables' = [lengths   |-> Append(BaseExtrabits(27, 259, 2), [extra |-> 0, base |-> 258]),
                distances |-> BaseExtrabits(29, 32769, 1)]
  /\ pc' = "length"
  /\ UNCHANGED <<match, symbols, r>>

\* stream_next_bits takes as many bits as the table says from the lowest on;
\* those past the ones written are the next code's, and not known here.
NextBits(s, extra) == s.value % 2^extra

\* How far behind the last bit written for s the Amiga then is (or, if less
\* than zero, ahead of it): where it takes the next code from.
Behind(s, extra) == r.behind + s.bits - extra

\* decode_loop; the entries of the code's table hold the symbol times four,
\* the size of a row.
DecodeLength ==
  /\ pc = "length"
  /\ LET row == tables.lengths[symbols.length.symbol - 257 + 1]
     IN  r' = [r EXCEPT !.d3 = (NextBits(symbols.length, row.extra) + row.base) % Word,
                        !.behind = Behind(symbols.length, row.extra)]
  /\ pc' = "distance"
  /\ UNCHANGED <<match, symbols, tables>>

SignExtended(word) == IF word < Word \div 2 THEN word ELSE word - Word

CopyTurns(d3) == IF d3 % 2 = 1 THEN d3 \div 2 ELSE d3 \div 2 - 1

\* lsr.w #1,d3: an odd length enters the loop in its middle.
DecodeDistance ==
  /\ pc = "distance"
  /\ LET row == tables.distances[symbols.distance.symbol + 1]
         d0  == (NextBits(symbols.distance, row.extra) + row.base) % Word
     IN  r' = [r EXCEPT !.a0 = r.a4 - SignExtended(d0), !.d3 = CopyTurns(@),
                        !.behind = Behind(symbols.distance, row.extra)]
  /\ pc' = IF r.d3 % 2 = 1 THEN "copy_one" ELSE "copy_two"
  /\ UNCHANGED <<match, symbols, tables>>

\* dbf: the loop is left when the word counted down from zero.
Counted == /\ pc' = IF r.d3 = 0 THEN "decode_loop" ELSE "copy_two"
           /\ UNCHANGED <<match, symbols, tables>>

CopyTwo ==
  /\ pc = "copy_two"
  /\ r' = [r EXCEPT !.a0 = @ + 2, !.a4 = @ + 2, !.d3 = (@ - 1) % Word]
  /\ Counted

CopyOne ==
  /\ pc = "copy_one"
  /\ r' = [r EXCEPT !.a0 = @ + 1, !.a4 = @ + 1, !.d3 = (@ - 1) % Word]
  /\ Counted

-----------------------------------------------------------------------------

\* The output so far is as long as the match reaches back.
Init ==
  /\ match \in Matches
  /\ pc = "encode" /\ symbols = <<>> /\ tables = <<>>
  /\ r = [d3 |-> 0, a0 |-> 0, a4 |-> match.distance, behind |-> 0]

Copied == pc = "decode_loop" /\ UNCHANGED vars

Next == Encode \/ BuildTables \/ DecodeLength \/ DecodeDistance \/ CopyTwo \/ CopyOne \/ Copied

Spec == Init /\ [][Next]_vars

-----------------------------------------------------------------------------
(* Properties.                                                             *)

\* Both sides give a symbol the same number of extra bits, so that the Amiga
\* takes every code from where it was written; and every byte is copied from
\* as far back as the compressor meant, and as many as it meant, for every
\* length and distance (symbols.h:37-237 against inflate_core.s:403-426 and
\* 476-520).
MatchIsCopied ==
  /\ r.behind = 0
  /\ pc \in {"copy_one", "copy_two"} => r.a0 = r.a4 - match.distance
  /\ pc = "decode_loop" => r.a4 = match.distance + match.length
=============================================================================
