---------------------------- MODULE ShrinklerLZ ----------------------------
(***************************************************************************)
(* How Shrinkler spells literals and references as bits, each in a context *)
(* (shrinkler_vendor/LZEncoder.h, Coder.h), and how the host's decoder     *)
(* (LZDecoder.h, Decoder.h, the receiver in shrinkler_shim.cpp) and the    *)
(* Amiga's (ShrinklerDecompress.s) read them.  RangeCoder gives back the   *)
(* bits as long as both sides agree on which of them share a context: the  *)
(* host numbers contexts, the Amiga finds a word on its stack from a       *)
(* register and the depth it was called at.                                *)
(***************************************************************************)
EXTENDS Integers, Sequences, SequencesExt, FiniteSetsExt

CONSTANTS
  LitBits,     \* 8
  MaxText,     \* how long a text the model packs at most
  Base         \* where the Amiga writes it

LzAssumption ==
  /\ LitBits \in 1..8
  /\ MaxText \in Nat
  /\ Base \in Nat /\ Base % 2 = 0

GROUP_SIZE    == 256
NUM_CONTEXTS  == 1 + 4 * GROUP_SIZE     \* the host's
NUM_SLOTS     == 1536                   \* the Amiga's
OFFSET_GROUP  == 2
LENGTH_GROUP  == 3
LIT           == 0
REF           == 1
REPEATED      == 0                      \* NUM_SINGLE_CONTEXTS + CONTEXT_REPEATED

VARIABLES
  phase,
  lz,       \* LZState, and the text encoded so far
  bits,     \* the bits coded, each with its context
  host,
  amiga

vars == <<phase, lz, bits, host, amiga>>

\* A reference's bytes, which may be some of those it copies.
Copied(text, offset, length) ==
  text \o [i \in 1..length |-> text[Len(text) - offset + 1 + ((i - 1) % offset)]]

Group(g) == 1 + g * GROUP_SIZE
BitOf(value, i) == (value \div 2^i) % 2
ToNumber(start, seq) == FoldLeft(LAMBDA value, bit : 2 * value + bit, start, seq)

-----------------------------------------------------------------------------
(* LZEncoder.h                                                             *)

\* The context of a literal's bit: the bits above it, after a leading one.
LiteralContext(value, i) == 2^(LitBits - i - 1) + value \div 2^(i + 1)

LiteralBits(parity, value) ==
  [k \in 1..LitBits |->
    LET i == LitBits - k
    IN  <<Group(parity) + LiteralContext(value, i), BitOf(value, i)>>]

\* encodeNumber(): how many bits follow in unary, then the bits.
DataBits(number) == CHOOSE n \in 1..number : 2^n <= number /\ number < 2^(n + 1)
NumberBits(base, number) ==
  LET n == DataBits(number)
  IN  [k \in 1..(2 * n) |->
        IF k <= n THEN <<base + 2 * k, IF k < n THEN 1 ELSE 0>>
        ELSE <<base + 2 * (2 * n - k) + 1, BitOf(number, 2 * n - k)>>]

\* The bit that tells a literal from a reference; the first symbol has none.
Kind(kind) == IF lz.after_first THEN << <<Group(lz.parity), kind>> >> ELSE <<>>

\* Faulty: the bit that says a reference repeats the last offset is also
\* written after a reference.
RepeatedAlways(bit) == << <<REPEATED, bit>> >>
Repeated(bit) == IF lz.prev_was_ref THEN <<>> ELSE << <<REPEATED, bit>> >>

EncodeLiteral(value) ==
  /\ phase = "encode" /\ Len(lz.text) < MaxText
  /\ bits' = bits \o Kind(LIT) \o LiteralBits(lz.parity, value)
  /\ lz' = [lz EXCEPT !.text = Append(@, value), !.after_first = TRUE,
                      !.prev_was_ref = FALSE, !.parity = (@ + 1) % 2]
  /\ UNCHANGED <<phase, host, amiga>>

\* The guards are encodeReference()'s assertions.
EncodeReference(offset, length) ==
  /\ phase = "encode" /\ Len(lz.text) + length <= MaxText
  /\ lz.after_first
  /\ LET rep == offset = lz.last_offset
     IN  /\ ~(lz.prev_was_ref /\ rep)
         /\ bits' = bits \o Kind(REF) \o Repeated(IF rep THEN 1 ELSE 0)
                      \o (IF rep THEN <<>> ELSE NumberBits(Group(OFFSET_GROUP), offset + 2))
                      \o NumberBits(Group(LENGTH_GROUP), length)
  /\ lz' = [lz EXCEPT !.text = Copied(@, offset, length), !.after_first = TRUE,
                      !.prev_was_ref = TRUE, !.parity = (@ + length) % 2,
                      !.last_offset = offset]
  /\ UNCHANGED <<phase, host, amiga>>

\* finish(); shrinkler_compress_buffer() takes no empty text.
Finish ==
  /\ phase = "encode" /\ lz.text # <<>>
  /\ bits' = bits \o Kind(REF) \o Repeated(0) \o NumberBits(Group(OFFSET_GROUP), 2)
  /\ phase' = "check"
  /\ UNCHANGED <<lz, host, amiga>>

-----------------------------------------------------------------------------
(* What both decoders ask of the entropy decoder: the next bits.           *)

Bit(at) == IF at <= Len(bits) THEN bits[at][2] ELSE 0
\* The unary part of a number at a position: up to its first zero.
Unary(at) == Min({k \in 1..(Len(bits) + 1) : Bit(at + k - 1) = 0})
Number(at) ==
  LET n == Unary(at) IN ToNumber(1, [k \in 1..n |-> Bit(at + n + k - 1)])
Literal(at) == ToNumber(0, [k \in 1..LitBits |-> Bit(at + k - 1)])

-----------------------------------------------------------------------------
(* LZDecoder.h: contexts holds the ones it asked for.                      *)

\* decodeNumber()'s contexts.
NumberContexts(base, at) ==
  LET n == Unary(at)
  IN  [k \in 1..(2 * n) |-> IF k <= n THEN base + 2 * k ELSE base + 2 * (2 * n - k) + 1]

InitHost == host = [pc |-> "literal", out |-> <<>>, prev_was_ref |-> FALSE, offset |-> 0,
                    contexts |-> <<>>, failed |-> FALSE]

Next_(d) == Len(d.contexts) + 1

\* The kind of the next symbol, in the context of the position's parity.
Then(d) ==
  [d EXCEPT !.contexts = Append(@, Group(Len(d.out) % 2)),
            !.pc = IF Bit(Next_(d)) = REF THEN "reference" ELSE "literal"]

HostLiteral ==
  /\ phase = "check" /\ host.pc = "literal" /\ ~host.failed
  /\ LET at       == Next_(host)
         value    == Literal(at)
         contexts == [k \in 1..LitBits |->
                        Group(Len(host.out) % 2) + LiteralContext(value, LitBits - k)]
     IN  host' = IF Len(host.out) >= Len(lz.text)
                 THEN [host EXCEPT !.failed = TRUE]
                 ELSE Then([host EXCEPT !.contexts = @ \o contexts,
                                        !.out = Append(@, value), !.prev_was_ref = FALSE])
  /\ UNCHANGED <<phase, lz, bits, amiga>>

HostReference ==
  /\ phase = "check" /\ host.pc = "reference" /\ ~host.failed
  /\ LET flag     == IF host.prev_was_ref THEN <<>> ELSE <<REPEATED>>
         repeated == ~host.prev_was_ref /\ Bit(Next_(host)) = 1
         at       == Next_(host) + Len(flag)
         distance == IF repeated THEN <<>> ELSE NumberContexts(Group(OFFSET_GROUP), at)
         offset   == IF repeated THEN host.offset ELSE Number(at) - 2
         at2      == at + Len(distance)
         length   == Number(at2)
         read     == [host EXCEPT !.contexts = @ \o flag \o distance, !.offset = offset]
     IN  host' =
           IF offset = 0 THEN [read EXCEPT !.pc = "end"]
           ELSE IF offset > Len(host.out) \/ Len(host.out) + length > Len(lz.text)
           THEN [read EXCEPT !.failed = TRUE]
           ELSE Then([read EXCEPT
                  !.contexts = @ \o NumberContexts(Group(LENGTH_GROUP), at2),
                  !.out = Copied(@, offset, length), !.prev_was_ref = TRUE])
  /\ UNCHANGED <<phase, lz, bits, amiga>>

\* The file is written when what the host unpacks is what was packed.
Ship ==
  /\ phase = "check" /\ host.pc = "end" /\ ~host.failed
  /\ host.out = lz.text
  /\ phase' = "unpack"
  /\ UNCHANGED <<lz, bits, host, amiga>>

-----------------------------------------------------------------------------
(* ShrinklerDecompress.s: slots holds the words of its table it used.      *)

InitAmiga == amiga = [pc |-> "lit", out |-> <<>>, d5 |-> 0, d6 |-> 0, slots |-> <<>>]

\* GetBit's word lies behind the return addresses on the stack: one when it
\* is called by the main loop, two from GetNumber.
SlotFromLoop(d6)   == d6 + 1
SlotFromNumber(d6) == d6 + 1 - 2

At(r) == Len(r.slots) + 1

\* Faulty: d6 is cleared before a literal, and the parity with it.
AmigaLiteralNoParity ==
  /\ phase = "unpack" /\ amiga.pc = "lit"
  /\ LET value == Literal(At(amiga))
         slots == [k \in 1..LitBits |-> SlotFromLoop(LiteralContext(value, LitBits - k))]
     IN  amiga' = [amiga EXCEPT !.slots = @ \o slots, !.out = Append(@, value), !.pc = "switch"]
  /\ UNCHANGED <<phase, lz, bits, host>>

\* .lit, .getlit: d6 grows from one below the parity until it overflows.
AmigaLiteral ==
  /\ phase = "unpack" /\ amiga.pc = "lit"
  /\ LET value == Literal(At(amiga))
         slots == [k \in 1..LitBits |->
                     SlotFromLoop(amiga.d6 + LiteralContext(value, LitBits - k))]
     IN  amiga' = [amiga EXCEPT !.slots = @ \o slots, !.out = Append(@, value), !.pc = "switch"]
  /\ UNCHANGED <<phase, lz, bits, host>>

\* GetKind: d6 from the lowest bit of the address.
GetKind(r) ==
  LET d6 == ((Base + Len(r.out)) % 2) * GROUP_SIZE
  IN  [r EXCEPT !.d6 = d6, !.slots = Append(@, SlotFromLoop(d6))]

\* .switch, and the bit that says the last offset is used again.
AmigaSwitch ==
  /\ phase = "unpack" /\ amiga.pc = "switch"
  /\ LET kind == Bit(At(amiga))
         read == GetKind(amiga)
     IN  amiga' = IF kind = LIT THEN [read EXCEPT !.pc = "lit"]
                  ELSE [read EXCEPT !.d6 = -1, !.slots = Append(@, SlotFromLoop(-1)),
                                    !.pc = IF Bit(At(read)) = 1 THEN "readlength" ELSE "readoffset"]
  /\ UNCHANGED <<phase, lz, bits, host>>

\* GetNumber with d6 = group: two up for every one, then one down and two
\* down for every bit.
NumberSlots(group, at) ==
  LET n == Unary(at)
  IN  [k \in 1..(2 * n) |-> SlotFromNumber(group * GROUP_SIZE
                              + (IF k <= n THEN 2 * k ELSE 2 * n - 1 - 2 * (k - n - 1)))]

AmigaOffset ==
  /\ phase = "unpack" /\ amiga.pc = "readoffset"
  /\ LET d0 == Number(At(amiga))
     IN  amiga' = [amiga EXCEPT !.slots = @ \o NumberSlots(3, At(amiga)), !.d5 = 2 - d0,
                                !.pc = IF d0 = 2 THEN "rts" ELSE "readlength"]
  /\ UNCHANGED <<phase, lz, bits, host>>

\* .readlength, .copyloop, and the kind of what follows a reference.
AmigaLength ==
  /\ phase = "unpack" /\ amiga.pc = "readlength"
  /\ LET copied == [amiga EXCEPT !.slots = @ \o NumberSlots(4, At(amiga)),
                                 !.out = Copied(@, -amiga.d5, Number(At(amiga)))]
     IN  amiga' = [GetKind(copied) EXCEPT
                     !.pc = IF Bit(At(copied)) = LIT THEN "lit" ELSE "readoffset"]
  /\ UNCHANGED <<phase, lz, bits, host>>

-----------------------------------------------------------------------------

Init ==
  /\ phase = "encode" /\ bits = <<>>
  /\ lz = [after_first |-> FALSE, prev_was_ref |-> FALSE, parity |-> 0, last_offset |-> 0,
           text |-> <<>>]
  /\ InitHost /\ InitAmiga

Next ==
  \/ \E value \in 0..(2^LitBits - 1) : EncodeLiteral(value)
  \/ \E offset \in 1..Len(lz.text), length \in 2..MaxText : EncodeReference(offset, length)
  \/ Finish
  \/ HostLiteral \/ HostReference \/ Ship
  \/ AmigaLiteral \/ AmigaSwitch \/ AmigaOffset \/ AmigaLength

Spec == Init /\ [][Next]_vars

-----------------------------------------------------------------------------
(* Properties.                                                             *)

\* The host's decoder asks for every bit in the context it was coded in and
\* unpacks the text, within the buffer it was given (LZDecoder.h:38-73
\* against LZEncoder.h:120-182).
HostReads ==
  /\ host.contexts = SubSeq([i \in DOMAIN bits |-> bits[i][1]], 1, Len(host.contexts))
  /\ ~host.failed
  /\ host.pc = "end" => host.out = lz.text /\ Len(host.contexts) = Len(bits)

\* One word of the Amiga's table for each context of the coder's.
SlotsAreContexts ==
  LET used == DOMAIN amiga.slots
  IN  /\ \A i \in used : amiga.slots[i] \in 0..(NUM_SLOTS - 1)
      /\ \A i, j \in used : (amiga.slots[i] = amiga.slots[j]) <=> (bits[i][1] = bits[j][1])

\* The Amiga, too, unpacks the text, and takes two bits to share a context
\* exactly when the coder did, so that both learn the same proportions,
\* whichever depth of the stack the word is addressed from
\* (ShrinklerDecompress.s:91-187 against LZEncoder.h:120-182).
AmigaReads ==
  /\ Len(amiga.slots) <= Len(bits)
  /\ SlotsAreContexts
  /\ amiga.pc = "rts" => amiga.out = lz.text /\ Len(amiga.slots) = Len(bits)

\* The host's check before a file is written and the Amiga's run of it come to
\* the same end, bit by bit (shrinkler_shim.cpp runs LZDecoder.h, the file has
\* ShrinklerDecompress.s).
DecodersRead == HostReads /\ AmigaReads
=============================================================================
