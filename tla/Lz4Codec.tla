------------------------------- MODULE Lz4Codec -------------------------------
(***************************************************************************)
(* The lz4 backends from end to end: LZ4HC's optimal parser at the level   *)
(* lz4.zig asks for, its writer, and the block read by the host's decoder  *)
(* (LZ4_decompress_safe of lz4_vendor/lz4.c, in the three builds its       *)
(* preprocessor tells apart), which decides whether a file is written, and *)
(* by the three depackers that run on the Amiga (stubs/lz4), which unpack  *)
(* the file.                                                               *)
(*                                                                         *)
(* Places in a buffer count from 0, as the pointers do: the byte at place  *)
(* p is element p + 1 of its sequence.                                     *)
(***************************************************************************)
EXTENDS Integers, Sequences, FiniteSetsExt, SequencesExt

MINMATCH     == 4
MFLIMIT      == 12    \* no match starts in the last bytes of a block,
LASTLITERALS == 5     \* none ends in the very last
RUN_MASK     == 15
ML_MASK      == 15
MATCH_SAFEGUARD_DISTANCE == 12
FASTLOOP_SAFE_DISTANCE   == 64

UNWRITTEN == -1       \* what a buffer holds before anything is written there

VARIABLES
  stream,   \* the block
  host,     \* the place LZ4_decompress_generic has reached, and its locals
  cpu       \* the label the depacker has reached, its registers, and the
            \* bytes written through a1

iend == Len(stream)

Token(place)     == stream[place + 1]
LiteralsOf(token) == token \div 16
MatchOf(token)    == token % 16

LZ4_readLE16(place) == stream[place + 1] + 256 * stream[place + 2]

\* The bytes from place to the first that is not 255: their sum, and the
\* place after them.
ExtensionAt(place) ==
  LET last == CHOOSE p \in place..(iend - 1) :
                /\ stream[p + 1] # 255 \/ p = iend - 1
                /\ \A q \in place..(p - 1) : stream[q + 1] = 255
  IN  [sum |-> 255 * (last - place) + stream[last + 1], next |-> last + 1]

\* The bytes written by a copy that goes on in chunks until it has n.
Wild(chunk, n) == IF n <= chunk THEN chunk ELSE ((n + chunk - 1) \div chunk) * chunk

-----------------------------------------------------------------------------
(* The host's decoder.                                                     *)

InitHost == host = [label |-> "idle"]

\* What the build copies at a time, or 0 for one without the fast loop.
Stripe == [x86_64 |-> 32, aarch64 |-> 64, other |-> 0]

CallDecompress(build, outputSize) ==
  host' = [label  |-> IF Stripe[build] = 0 \/ outputSize < FASTLOOP_SAFE_DISTANCE
                      THEN "safe_decode" ELSE "fast",
           stripe |-> Stripe[build], ip |-> 0, op |-> 0,
           token  |-> 0, length |-> 0, offset |-> 0,
           dst    |-> [i \in 1..outputSize |-> UNWRITTEN],
           undefined |-> FALSE]

Reached(label)  == host.label = label
Error(h)        == [h EXCEPT !.label = "error"]
Go(h, label)    == [h EXCEPT !.label = label]

oend == Len(host.dst)

\* read_variable_length(), added to the length: no byte at limit or beyond is
\* read.
Lengthened(h, limit, label) ==
  LET read == ExtensionAt(h.ip)
  IN  IF h.ip >= limit \/ read.next > limit THEN Error(h)
      ELSE [h EXCEPT !.length = @ + read.sum, !.ip = read.next, !.label = label]

\* n literals are read and written; a pointer outside its buffer is
\* undefined behaviour.
CopyLiterals(h, n) ==
  IF h.ip + n > iend \/ h.op + n > oend THEN [h EXCEPT !.undefined = TRUE]
  ELSE [h EXCEPT !.dst = [i \in DOMAIN @ |->
          IF i \in (h.op + 1)..(h.op + n) THEN stream[h.ip + i - h.op] ELSE @[i]]]

\* n bytes of a match, chunk by chunk, to place at from so far before it; so
\* is memcpy between bytes that overlap.
CopyBack(h, at, distance, n, chunk) ==
  IF distance > at \/ at + n > oend \/ distance < chunk THEN [h EXCEPT !.undefined = TRUE]
  ELSE [h EXCEPT !.dst = [i \in DOMAIN @ |->
          IF i \in (at + 1)..(at + n) THEN @[at + 1 - distance + ((i - at - 1) % distance)] ELSE @[i]]]

Skip(h, n) == [h EXCEPT !.ip = @ + n, !.op = @ + n]

ReadOffset(h, label) ==
  [h EXCEPT !.offset = LZ4_readLE16(h.ip), !.ip = @ + 2, !.length = MatchOf(h.token), !.label = label]

ReadToken == [host EXCEPT !.token = Token(host.ip), !.length = LiteralsOf(Token(host.ip)), !.ip = @ + 1]

inc32table == <<0, 1, 2, 1, 0, 4, 4, 4>>
dec64table == <<0, 0, 0, -1, -4, 1, 2, 3>>

\* The first eight bytes of a match, and how far back the ninth is then read:
\* further than the offset if that is less than eight.
FirstEight(h) ==
  IF h.offset >= 8 THEN CopyBack(h, h.op, h.offset, 8, 8)
  ELSE LET inc == inc32table[h.offset + 1]
       IN  CopyBack(CopyBack(h, h.op, h.offset, 4, 1), h.op + 4, h.offset + 4 - inc, 4, 4)

DistanceAfterEight(offset) ==
  IF offset >= 8 THEN offset
  ELSE offset + 8 - inc32table[offset + 1] + dec64table[offset + 1]

\* LZ4_memcpy_using_offset(): eight equal patterns for an offset of 1, 2 or 4.
CopyUsingOffset(h) ==
  IF h.offset \in {1, 2, 4} THEN CopyBack(h, h.op, h.offset, Wild(8, h.length), 1)
  ELSE CopyBack(FirstEight(h), h.op + 8, DistanceAfterEight(h.offset), Wild(8, h.length - 8), 8)

-----------------------------------------------------------------------------
(* The fast loop: copies may write FASTLOOP_SAFE_DISTANCE too far.         *)

FastLiterals ==
  /\ Reached("fast")
  /\ LET h    == ReadToken
         long == Lengthened(h, iend - RUN_MASK, "get_offset")
         near == long.op + long.length > oend - h.stripe \/ long.ip + long.length > iend - h.stripe
     IN  host' = IF h.ip > iend - (16 + 1) THEN Go(h, "safe_literal_copy_early")
                 ELSE IF h.length < RUN_MASK THEN Go(Skip(CopyLiterals(h, 16), h.length), "get_offset")
                 ELSE IF long.label = "error" THEN long
                 ELSE IF near THEN Go(long, "safe_literal_copy")
                 ELSE Skip(CopyLiterals(long, Wild(h.stripe, long.length)), long.length)

\* A match that is not near the end.
FastCopy(h) ==
  IF h.offset > h.op THEN Error(h)
  ELSE LET copied == IF h.offset < 16 THEN CopyUsingOffset(h)
                     ELSE IF h.stripe = 64 /\ h.offset >= 64
                          THEN CopyBack(h, h.op, h.offset, Wild(64, h.length), 64)
                          ELSE CopyBack(h, h.op, h.offset, Wild(32, h.length), 16)
       IN  [copied EXCEPT !.op = h.op + h.length, !.label = "fast"]

FastMatch ==
  /\ Reached("get_offset")
  /\ LET h     == ReadOffset(host, "fast")
         read  == IF h.length = ML_MASK THEN Lengthened(h, iend - (1 + LASTLITERALS), "fast") ELSE h
         found == [read EXCEPT !.length = @ + MINMATCH]
         near  == found.op + found.length >= oend - FASTLOOP_SAFE_DISTANCE
         short == h.length < ML_MASK /\ h.offset \in 8..h.op
     IN  host' = IF read.label = "error" THEN read
                 ELSE IF near THEN Go(found, "safe_match_copy")
                 ELSE IF short THEN [CopyBack(found, h.op, h.offset, 18, 8) EXCEPT
                                       !.op = @ + found.length]
                 ELSE FastCopy(found)

-----------------------------------------------------------------------------
(* The safe loop: the end of the block, or all of a short one.             *)

\* With room for all of it, literals and match are copied without a look at
\* their lengths.
SafeToken ==
  /\ Reached("safe_decode")
  /\ LET h        == ReadToken
         shortcut == /\ h.length # RUN_MASK
                     /\ h.ip < iend - 14 - 2 /\ h.op <= oend - 14 - 18
         match    == ReadOffset(Skip(CopyLiterals(h, 16), h.length), "copy_match")
         whole    == match.length # ML_MASK /\ match.offset \in 8..match.op
     IN  host' = IF ~shortcut THEN Go(h, "safe_literal_copy_early")
                 ELSE IF ~whole THEN match
                 ELSE [CopyBack(match, match.op, match.offset, 18, 8) EXCEPT
                         !.op = @ + match.length + MINMATCH, !.label = "safe_decode"]

SafeLiteralLength ==
  /\ Reached("safe_literal_copy_early")
  /\ host' = IF host.length = RUN_MASK THEN Lengthened(host, iend - RUN_MASK, "safe_literal_copy")
                                       ELSE Go(host, "safe_literal_copy")

\* Literals near the end of either buffer must be the last.
SafeLiteralCopy ==
  /\ Reached("safe_literal_copy")
  /\ LET n    == host.length
         near == \/ host.op + n > oend - MFLIMIT
                 \/ host.ip + n > iend - (2 + 1 + LASTLITERALS)
         last == host.ip + n = iend /\ host.op + n <= oend
     IN  host' = IF ~near THEN ReadOffset(Skip(CopyLiterals(host, Wild(8, n)), n), "copy_match")
                 ELSE IF last THEN Go(Skip(CopyLiterals(host, n), n), "done")
                 ELSE Error(host)

SafeMatchLength ==
  /\ Reached("copy_match")
  /\ LET read == IF host.length = ML_MASK
                 THEN Lengthened(host, iend - (1 + LASTLITERALS), "safe_match_copy")
                 ELSE Go(host, "safe_match_copy")
     IN  host' = [read EXCEPT !.length = @ + MINMATCH]

\* The part of a match after its first eight bytes, when it ends too near the
\* end of the output to be copied by eights up to there.
CopyToTheEnd(h, distance, cpy) ==
  LET at    == h.op + 8
      limit == oend - 7
      bulk  == IF at < limit THEN CopyBack(h, at, distance, Wild(8, limit - at), 8) ELSE h
      from  == IF at < limit THEN limit ELSE at
  IN  IF from < cpy THEN CopyBack(bulk, from, distance, cpy - from, 1) ELSE bulk

CopyOn(h, distance, cpy) ==
  LET eight == CopyBack(h, h.op + 8, distance, 8, 8)
  IN  IF h.length > 16 THEN CopyBack(eight, h.op + 16, distance, Wild(8, cpy - (h.op + 16)), 8) ELSE eight

SafeMatchCopy ==
  /\ Reached("safe_match_copy")
  /\ LET cpy      == host.op + host.length
         begun    == FirstEight(host)
         distance == DistanceAfterEight(host.offset)
         near     == cpy > oend - MATCH_SAFEGUARD_DISTANCE
         copied   == IF near THEN CopyToTheEnd(begun, distance, cpy) ELSE CopyOn(begun, distance, cpy)
     IN  host' = IF host.offset > host.op \/ (near /\ cpy > oend - LASTLITERALS) THEN Error(host)
                 ELSE [copied EXCEPT !.op = cpy, !.label = "safe_decode"]

HostNext ==
  \/ FastLiterals \/ FastMatch
  \/ SafeToken \/ SafeLiteralLength \/ SafeLiteralCopy \/ SafeMatchLength \/ SafeMatchCopy

-----------------------------------------------------------------------------
(* The Amiga's depackers: one keeps its copies in loops, one jumps into    *)
(* rows of move instructions for short ones, one has code of its own for   *)
(* each value a token can have.  None is told how much it will write: the  *)
(* end of the block is looked for after literals only.                     *)

Variants == {"small", "normal", "fast"}

InitCpu == cpu = [label |-> "idle"]

CallDepack(variant) ==
  cpu' = [label |-> "tokenLoop", variant |-> variant,
          d0 |-> 0, d1 |-> 0, a0 |-> 0, a1 |-> <<>>]

\* A jump so many bytes before the end of a row of two-byte moves.
MovesBefore(bytes) == bytes \div 2

\* Counted down by sixteens, the rest first.
UnrolledMoves(count) == MovesBefore(2 * (count % 16)) + 16 * (count \div 16)

\* The jump table's entry for short literals, in a row of 14 moves with the
\* test for the end of the block behind it.  Without literals it is behind both.
RowBytes        == 28
Entry(literals) == RowBytes - 2 * literals

ShortLiterals(literals) ==
  IF cpu.variant = "fast" THEN MovesBefore(RowBytes - Entry(literals)) ELSE MovesBefore(2 * literals)

\* The row of a short match has four moves more than its length says.
ShortMatch(length) == MovesBefore(2 * length) + MINMATCH

LongCopy(count) == IF cpu.variant = "fast" THEN UnrolledMoves(count) ELSE count

At(label) == cpu.label = label

\* Without literals there is no test for the end of the block.
TokenLoop ==
  /\ At("tokenLoop")
  /\ LET token == Token(cpu.a0)
     IN  cpu' = [cpu EXCEPT !.d0 = MatchOf(token), !.d1 = LiteralsOf(token), !.a0 = @ + 1,
                   !.label = IF LiteralsOf(token) = 0 THEN "lenOffset" ELSE "litcopy"]

CopyLits(n, place) ==
  cpu' = [cpu EXCEPT !.a1 = @ \o SubSeq(stream, place + 1, place + n), !.a0 = place + n,
                     !.label = IF place + n = iend THEN "done" ELSE "lenOffset"]

LitCopy ==
  /\ At("litcopy")
  /\ IF cpu.d1 = 15
     THEN LET read == ExtensionAt(cpu.a0) IN CopyLits(LongCopy(cpu.d1 + read.sum), read.next)
     ELSE CopyLits(ShortLiterals(cpu.d1), cpu.a0)

\* Each byte read may be one that the copy has just written.
CopyMatch(distance, n, place) ==
  cpu' = [cpu EXCEPT !.a0 = place, !.label = "tokenLoop",
            !.a1 = [i \in 1..(Len(@) + n) |->
                      IF i <= Len(@) THEN @[i]
                      ELSE @[Len(@) - distance + 1 + ((i - Len(@) - 1) % distance)]]]

LenOffset ==
  /\ At("lenOffset")
  /\ LET distance == LZ4_readLE16(cpu.a0)
         place    == cpu.a0 + 2
     IN  IF cpu.d0 = 15
         THEN LET read == ExtensionAt(place)
              IN  CopyMatch(distance, LongCopy(cpu.d0 + MINMATCH + read.sum), read.next)
         ELSE CopyMatch(distance, ShortMatch(cpu.d0), place)

CpuNext == TokenLoop \/ LitCopy \/ LenOffset

-----------------------------------------------------------------------------
(* The parser and the writer: their state.                                 *)

CONSTANTS
  LZ4_OPT_NUM,   \* places the parser weighs at once (4096)
  Texts,         \* inputs of the parser
  Plans          \* sequences it might choose, with the literals after them:
                 \* what is written when it has

Lz4Assumption == LZ4_OPT_NUM \in Nat /\ LZ4_OPT_NUM > MINMATCH

VARIABLES
  pc, source,
  ip, anchor,              \* where the parser is, what is not yet written
  opt, cur, last_match_pos,
  recorded,                \* the matches chosen and not yet written
  reach                    \* how far into the output has been written

parser == <<source, ip, anchor, opt, cur, last_match_pos, recorded>>
vars   == <<pc, parser, stream, reach, host, cpu>>

size       == Len(source)
mflimit    == size - MFLIMIT
matchlimit == size - LASTLITERALS
sufficient_len == LZ4_OPT_NUM - 1
TRAILING_LITERALS == 3

\* The matches of a plan at their places, and the text it stands for: of
\* fresh bytes, as far as there are any.
MatchesOf(sequences) ==
  LET Start[n \in DOMAIN sequences] ==
        IF n = 1 THEN sequences[1].lits
        ELSE Start[n - 1] + sequences[n - 1].mlen + sequences[n].lits
  IN  [n \in DOMAIN sequences |->
         [start |-> Start[n], mlen |-> sequences[n].mlen, off |-> sequences[n].off]]

TextOf(matches, length) ==
  LET Text[p \in 1..length] ==
        LET over == {n \in DOMAIN matches : p - 1 \in matches[n].start..(matches[n].start + matches[n].mlen - 1)}
        IN  IF over = {} THEN p % 256 ELSE Text[p - matches[CHOOSE n \in over : TRUE].off]
  IN  [p \in 1..length |-> Text[p]]

Idle ==
  /\ anchor = 0 /\ opt = << >> /\ cur = 0 /\ last_match_pos = 0
  /\ stream = <<>> /\ reach = 0 /\ InitHost /\ InitCpu

InitParse == pc = "search" /\ source \in Texts /\ ip = 0 /\ recorded = <<>> /\ Idle

\* The parser's last window, from the start of the text, has been traversed.
InitPlan ==
  \E plan \in Plans :
    LET matches == MatchesOf(plan.sequences)
        end     == matches[Len(matches)].start + matches[Len(matches)].mlen
    IN  /\ pc = "encode" /\ recorded = matches /\ ip = end + plan.last
        /\ source = TextOf(matches, end + plan.last) /\ Idle

Init == InitParse \/ InitPlan

-----------------------------------------------------------------------------
(* The optimal parser.                                                     *)

LiteralsPrice(litlen) ==
  IF litlen >= RUN_MASK THEN litlen + 1 + (litlen - RUN_MASK) \div 255 ELSE litlen

SequencePrice(litlen, mlen) ==
  LET long == mlen - (ML_MASK + MINMATCH)
  IN  1 + 2 + LiteralsPrice(litlen) + (IF long >= 0 THEN 1 + long \div 255 ELSE 0)

\* How many bytes at place p equal those off before, up to matchlimit.
MatchLength(p, off) ==
  LET Agree(n) == \A k \in 1..n : source[p + k] = source[p + k - off]
  IN  Max({n \in 0..(matchlimit - p) : Agree(n)})

\* LZ4HC_FindLongerMatch(): any of the longest matches, or none.
FoundAt(p) ==
  LET length == [off \in 1..p |-> MatchLength(p, off)]
      best   == Max({length[off] : off \in 1..p} \cup {0})
  IN  IF best < MINMATCH THEN {[len |-> 0, off |-> 0]}
      ELSE {[len |-> best, off |-> off] : off \in {o \in 1..p : length[o] = best}}

Literal(litlen, price) == [price |-> price, off |-> 0, mlen |-> 1, litlen |-> litlen]

\* The literals after the last match.
Trailing(o, last) ==
  [k \in (last + 1)..(last + TRAILING_LITERALS) |->
     Literal(k - last, o[last].price + LiteralsPrice(k - last))] @@ o

Windows == <<opt, cur, last_match_pos>>

\* Matches of the window, in order, are to be written; the parser goes on
\* behind the last.
Record(matches, next) ==
  /\ recorded' = [n \in DOMAIN matches |-> [matches[n] EXCEPT !.start = ip + @]]
  /\ ip' = next /\ pc' = "encode"

\* A match at ip.  One that is long enough is taken at once; else it opens a
\* window of prices.
Search ==
  /\ pc = "search" /\ ip <= mflimit
  /\ \E first \in FoundAt(ip) :
       LET llen == ip - anchor
           begun == [k \in 0..first.len |->
                       IF k < MINMATCH THEN Literal(llen + k, LiteralsPrice(llen + k))
                       ELSE [price |-> SequencePrice(llen, k), off |-> first.off, mlen |-> k, litlen |-> llen]]
       IN  \/ /\ first.len = 0
              /\ ip' = ip + 1 /\ UNCHANGED <<pc, recorded, Windows>>
           \/ /\ first.len > sufficient_len
              /\ Record(<<[start |-> 0, mlen |-> first.len, off |-> first.off]>>, ip + first.len)
              /\ UNCHANGED Windows
           \/ /\ first.len \in 1..sufficient_len
              /\ opt' = Trailing(begun, first.len) /\ last_match_pos' = first.len
              /\ cur' = 1 /\ pc' = "prices"
              /\ UNCHANGED <<ip, recorded>>
  /\ UNCHANGED <<source, anchor, stream, reach, host, cpu>>

\* The matches on the cheapest way to a place of the window, of which each
\* entry only knows its last step.
WayTo(place) ==
  LET Way[p \in 0..place] ==
        LET step == opt[p].mlen
        IN  IF step > p THEN <<>>
            ELSE IF step = 1 THEN Way[p - 1]
            ELSE Append(Way[p - step], [start |-> p - step, mlen |-> step, off |-> opt[p].off])
  IN  Way[place]

\* Searching here is of no use: the next place costs no more, and soon after
\* it costs less than what a sequence adds.
Passed == opt[cur + 1].price <= opt[cur].price /\ opt[cur + MINMATCH].price < opt[cur].price + 3

\* Literals before a match that begins later.
WithLiterals(o) ==
  LET base     == o[cur].litlen
      price(n) == o[cur].price - LiteralsPrice(base) + LiteralsPrice(base + n)
      better   == {n \in 1..(MINMATCH - 1) : price(n) < o[cur + n].price}
  IN  [k \in {cur + n : n \in better} |-> Literal(base + k - cur, price(k - cur))] @@ o

\* The cost of a match of length ml here, and the literals before it.
MatchEntry(o, match, ml) ==
  LET ll == IF o[cur].mlen = 1 THEN o[cur].litlen ELSE 0
      before == IF o[cur].mlen # 1 THEN o[cur].price ELSE IF cur > ll THEN o[cur - ll].price ELSE 0
  IN  [price |-> before + SequencePrice(ll, ml), off |-> match.off, mlen |-> ml, litlen |-> ll]

\* Each length of the match that is no dearer than what is known.
WithMatch(o, match) ==
  LET better == {ml \in MINMATCH..match.len :
                   \/ cur + ml > last_match_pos + TRAILING_LITERALS
                   \/ MatchEntry(o, match, ml).price <= o[cur + ml].price}
  IN  [entries |-> [k \in {cur + ml : ml \in better} |-> MatchEntry(o, match, k - cur)] @@ o,
       last    |-> IF match.len \in better THEN Max({last_match_pos, cur + match.len}) ELSE last_match_pos]

\* Faulty: goes on where no match may start any more.
WindowGoesOnToEnd == cur < last_match_pos

WindowGoesOn == cur < last_match_pos /\ ip + cur <= mflimit

NextPlace == cur' = cur + 1 /\ UNCHANGED <<pc, ip, recorded>>

SearchFurther ==
  /\ pc = "prices" /\ WindowGoesOn
  /\ \/ Passed /\ NextPlace /\ UNCHANGED <<opt, last_match_pos>>
     \/ /\ ~Passed
        /\ \E match \in FoundAt(ip + cur) :
             \/ match.len = 0 /\ NextPlace /\ UNCHANGED <<opt, last_match_pos>>
             \/ /\ match.len > sufficient_len \/ match.len + cur >= LZ4_OPT_NUM
                /\ Record(Append(WayTo(cur), [start |-> cur, mlen |-> match.len, off |-> match.off]),
                          ip + cur + match.len)
                /\ UNCHANGED Windows
             \/ /\ match.len \in 1..sufficient_len /\ match.len + cur < LZ4_OPT_NUM
                /\ LET priced == WithMatch(WithLiterals(opt), match)
                   IN  opt' = Trailing(priced.entries, priced.last) /\ last_match_pos' = priced.last
                /\ NextPlace
  /\ UNCHANGED <<source, anchor, stream, reach, host, cpu>>

Traverse ==
  /\ pc = "prices" /\ ~WindowGoesOn
  /\ Record(WayTo(last_match_pos), ip + last_match_pos)
  /\ UNCHANGED <<source, anchor, Windows, stream, reach, host, cpu>>

-----------------------------------------------------------------------------
(* Writing.                                                                *)

\* The bytes that follow a length of at least mask.
Extension(length, mask) ==
  IF length < mask THEN <<>>
  ELSE [n \in 1..((length - mask) \div 255) |-> 255] \o <<(length - mask) % 255>>

TokenByte(literals, match) == 16 * Min({literals, RUN_MASK}) + Min({match, ML_MASK})

\* LZ4HC_encodeSequence(): literals are copied by eights, over what comes next.
EncodeSequence ==
  /\ pc = "encode" /\ recorded # <<>>
  /\ LET match  == Head(recorded)
         litLen == match.start - anchor
         mlCode == match.mlen - MINMATCH
         head   == stream \o <<TokenByte(litLen, mlCode)>> \o Extension(litLen, RUN_MASK)
     IN  /\ stream' = head \o SubSeq(source, anchor + 1, match.start)
                           \o <<match.off % 256, match.off \div 256>> \o Extension(mlCode, ML_MASK)
         /\ reach' = Max({reach, Len(head) + Wild(8, litLen), Len(stream')})
         /\ anchor' = match.start + match.mlen
  /\ recorded' = Tail(recorded)
  /\ UNCHANGED <<pc, source, ip, Windows, host, cpu>>

GoOn ==
  /\ pc = "encode" /\ recorded = <<>>
  /\ pc' = "search"
  /\ UNCHANGED <<parser, stream, reach, host, cpu>>

\* What is left is written as literals, and the host's decoder called.
LastLiterals ==
  /\ pc = "search" /\ ip > mflimit
  /\ LET lastRunSize == size - anchor
     IN  stream' = stream \o <<TokenByte(lastRunSize, 0)>> \o Extension(lastRunSize, RUN_MASK)
                          \o SubSeq(source, anchor + 1, size)
  /\ reach' = Max({reach, Len(stream')})
  /\ pc' = "check"
  /\ \E build \in DOMAIN Stripe : CallDecompress(build, size)
  /\ UNCHANGED <<parser, cpu>>

-----------------------------------------------------------------------------
(* Reading.                                                                *)

HostStep ==
  /\ pc = "check" /\ HostNext
  /\ UNCHANGED <<pc, parser, stream, reach, cpu>>

\* decompress() in lz4.zig, and the comparison in compressWithBackend().
Verified == host.label = "done" /\ host.op = size /\ host.dst = source

Ship ==
  /\ pc = "check" /\ Verified
  /\ pc' = "unpack"
  /\ host' = [label |-> "idle"]
  /\ \E variant \in Variants : CallDepack(variant)
  /\ UNCHANGED <<parser, stream, reach>>

CpuStep ==
  /\ pc = "unpack" /\ CpuNext
  /\ UNCHANGED <<pc, parser, stream, reach, host>>

Next ==
  \/ Search \/ SearchFurther \/ Traverse
  \/ EncodeSequence \/ GoOn \/ LastLiterals
  \/ HostStep \/ Ship \/ CpuStep

Spec == Init /\ [][Next]_vars

-----------------------------------------------------------------------------
(* Properties.                                                             *)

LZ4_compressBound == size + size \div 255 + 16

\* Whatever the parser chooses, what is written fits the buffer lz4.zig
\* allocates, although literals are copied past their end; the host's decoder
\* takes it back, in any of its builds, although it copies past the end of
\* literals and matches, never leaving a buffer nor copying between bytes that
\* overlap; and each of the Amiga's depackers, none of which knows how much to
\* write, unpacks the same bytes and stops at the block's last byte.
BlockComesBack ==
  /\ reach <= LZ4_compressBound
  /\ pc = "encode" /\ recorded # <<>> =>
       anchor + Wild(8, Head(recorded).start - anchor) <= size
  /\ pc = "check" =>
       /\ ~host.undefined
       /\ host.label # "error"
       /\ host.label = "done" => Verified
  /\ pc = "unpack" =>
       /\ cpu.a0 <= iend
       /\ cpu.label = "done" => cpu.a0 = iend /\ cpu.a1 = source
=============================================================================
