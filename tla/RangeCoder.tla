----------------------------- MODULE RangeCoder -----------------------------
(***************************************************************************)
(* Shrinkler's entropy coder (shrinkler_vendor/RangeCoder.h), its decoder  *)
(* on the host (RangeDecoder.h) and the one of the depacker on the Amiga   *)
(* (GetBit of ShrinklerDecompress.s).  Every bit narrows an interval in    *)
(* the proportion its context has learned; a carry may run back through    *)
(* bytes already written.  The width of the interval's registers and of a  *)
(* byte are constants.                                                     *)
(***************************************************************************)
EXTENDS Integers, Sequences, FiniteSetsExt

CONSTANTS
  RangeBits,      \* 16
  ByteBits,       \* 8
  ADJUST_SHIFT,   \* 4
  Contexts,       \* the contexts bits are coded in
  MaxBits,        \* how many bits the model codes at most
  Trailers        \* what a byte behind the coded data may be

Pow2[n \in Nat] == IF n = 0 THEN 1 ELSE 2 * Pow2[n - 1]

One      == Pow2[RangeBits]          \* 0x10000
Half     == Pow2[RangeBits - 1]      \* 0x8000
Byte     == Pow2[ByteBits]
ByteHalf == Pow2[ByteBits - 1]

\* A context that adjusts by half may come to give a bit no room at all, which
\* is what the code asserts against; a shift of two or more keeps clear of it.
WidthsAssumption ==
  /\ ByteBits \in Nat \ {0}
  /\ ADJUST_SHIFT \in Nat /\ ADJUST_SHIFT >= 2
  /\ RangeBits \in Nat /\ RangeBits >= 2
  /\ Trailers \subseteq 0..(Byte - 1)

VARIABLES
  phase,
  coded,     \* the bits coded, with their contexts
  enc,       \* the coder: contexts, out (as bits), dest_bit, the interval, finish()'s locals
  decoder,   \* the host's decoder
  registers, \* the Amiga's registers, and its contexts
  trailer    \* the two bytes behind the data

coder_vars == <<phase, coded, enc, decoder, registers, trailer>>

-----------------------------------------------------------------------------
(* What all three share.                                                   *)

Threshold(size, prob) == (size * prob) \div One

AfterZero(prob) == prob - prob \div Pow2[ADJUST_SHIFT]
AfterOne(prob)  == AfterZero(prob) + (One - 1) \div Pow2[ADJUST_SHIFT]

Learned(prob, bit) == IF bit = 0 THEN AfterZero(prob) ELSE AfterOne(prob)

Fresh == [c \in Contexts |-> Half]

-----------------------------------------------------------------------------
(* RangeCoder.h                                                            *)

InBytes(n) == (n + ByteBits - 1) \div ByteBits

\* Zero bits up to the end of the byte that holds bit n - 1.
Padded(out, n) ==
  LET bits == InBytes(n) * ByteBits
  IN  IF bits > Len(out) THEN out \o [i \in 1..(bits - Len(out)) |-> 0] ELSE out

\* Faulty: the carry is not passed on to the bits before.
AddBitNoCarry(out, dest_bit) ==
  LET bits == Padded(out, dest_bit)
  IN  [p \in DOMAIN bits |-> IF p = dest_bit THEN 1 - bits[p] ELSE bits[p]]

\* addBit(): one is added to the number the bits before dest_bit form.
AddBit(out, dest_bit) ==
  LET bits  == Padded(out, dest_bit)
      zeros == {p \in 1..dest_bit : bits[p] = 0}
      stop  == IF zeros = {} THEN 1 ELSE Max(zeros)
  IN  [p \in DOMAIN bits |-> IF p \in stop..dest_bit THEN 1 - bits[p] ELSE bits[p]]

\* The interval's lower end has moved to min, perhaps past the register.
Carried(e, min) ==
  IF min < One THEN [e EXCEPT !.min = min]
  ELSE [e EXCEPT !.min = min - One, !.out = AddBit(@, e.dest_bit)]

InitCoder ==
  enc = [contexts |-> Fresh, out |-> <<>>, dest_bit |-> -1, size |-> Half, min |-> 0,
         final_min |-> 0, final_size |-> One]

Code(c, bit) ==
  /\ phase = "code" /\ enc.size >= Half /\ Len(coded) < MaxBits
  /\ LET threshold == Threshold(enc.size, enc.contexts[c])
         narrowed  == IF bit = 0
                      THEN [Carried(enc, enc.min + threshold) EXCEPT !.size = @ - threshold]
                      ELSE [enc EXCEPT !.size = threshold]
     IN  enc' = [narrowed EXCEPT !.contexts[c] = Learned(@, bit)]
  /\ coded' = Append(coded, <<c, bit>>)
  /\ UNCHANGED <<phase, decoder, registers, trailer>>

\* One turn of the loop that makes the size fill its register again.
Normalise ==
  /\ phase = "code" /\ enc.size < Half
  /\ enc' = Carried([enc EXCEPT !.dest_bit = @ + 1, !.size = 2 * @], 2 * enc.min)
  /\ UNCHANGED <<phase, coded, decoder, registers, trailer>>

StartFinish ==
  /\ phase = "code" /\ enc.size >= Half
  /\ phase' = "finish"
  /\ UNCHANGED <<coded, enc, decoder, registers, trailer>>

\* finish() looks for a number all of whose continuations lie in the interval.
Settled == /\ enc.final_min >= enc.min
           /\ enc.final_min + enc.final_size < enc.min + enc.size

FinishStep ==
  /\ phase = "finish" /\ ~Settled
  /\ LET below == enc.final_min + enc.final_size < enc.min + enc.size
         moved == IF below THEN [enc EXCEPT !.out = AddBit(@, enc.dest_bit),
                                            !.final_min = @ + enc.final_size]
                           ELSE enc
     IN  enc' = [moved EXCEPT !.dest_bit = @ + 1, !.final_size = @ \div 2]
  /\ UNCHANGED <<phase, coded, decoder, registers, trailer>>

Finish ==
  /\ phase = "finish" /\ Settled
  /\ phase' = "check"
  /\ enc' = [enc EXCEPT !.out = Padded(@, enc.dest_bit)]
  /\ UNCHANGED <<coded, decoder, registers, trailer>>

-----------------------------------------------------------------------------
(* RangeDecoder.h                                                          *)

Data == enc.out
Done(d) == d.bits = Len(coded)
\* The context the decoder of the symbols asks for next.
Context(d) == coded[d.bits + 1][1]

InitHost ==
  decoder = [contexts |-> Fresh, bit_index |-> 0, size |-> 1, value |-> 0,
          uncertainty |-> 1, bits |-> 0, wrong |-> FALSE]

\* getBit(), called for by the loop that fills the interval.
ReadBit ==
  /\ phase = "check" /\ ~Done(decoder) /\ decoder.size < Half
  /\ LET past == decoder.bit_index >= Len(Data)
     IN  decoder' = [decoder EXCEPT
           !.bit_index = @ + 1, !.size = 2 * @,
           !.value = 2 * @ + (IF past THEN 0 ELSE Data[decoder.bit_index + 1]),
           !.uncertainty = IF past THEN 2 * @ ELSE @]
  /\ UNCHANGED <<phase, coded, enc, registers, trailer>>

\* decode(): wrong when its assertion fails or a bit is not what was coded.
HostDecode ==
  /\ phase = "check" /\ ~Done(decoder) /\ decoder.size >= Half
  /\ LET c         == Context(decoder)
         threshold == Threshold(decoder.size, decoder.contexts[c])
         bit       == IF decoder.value >= threshold THEN 0 ELSE 1
         sure      == bit = 0 \/ decoder.value + decoder.uncertainty <= threshold
     IN  decoder' = [decoder EXCEPT
           !.value = IF bit = 0 THEN @ - threshold ELSE @,
           !.size = IF bit = 0 THEN @ - threshold ELSE threshold,
           !.contexts[c] = Learned(@, bit),
           !.bits = @ + 1,
           !.wrong = @ \/ ~sure \/ bit # coded[decoder.bits + 1][2]]
  /\ UNCHANGED <<phase, coded, enc, registers, trailer>>

Ship ==
  /\ phase = "check" /\ Done(decoder) /\ ~decoder.wrong
  /\ phase' = "unpack"
  /\ trailer' \in [1..2 -> Trailers]
  /\ UNCHANGED <<coded, enc, decoder, registers>>

-----------------------------------------------------------------------------
(* ShrinklerDecompress.s                                                   *)

InitAmiga ==
  registers = [contexts |-> Fresh, d2 |-> 0, d3 |-> 1, d4 |-> ByteHalf, a4 |-> 1,
           bits |-> 0, wrong |-> FALSE]

\* Past the data there are two bytes that may be fetched.
Behind(data, after, a4) == after[IF (a4 - 1) * ByteBits > Len(data) THEN 2 ELSE 1]

\* The byte at a4, of the data or of what follows it.
ByteOf(data, after, a4) ==
  LET number[n \in 0..ByteBits] ==
        IF n = 0 THEN 0 ELSE 2 * number[n - 1] + data[(a4 - 1) * ByteBits + n]
  IN  IF a4 * ByteBits > Len(data) THEN Behind(data, after, a4) ELSE number[ByteBits]

\* readbit: the buffer's lowest set bit marks its end; addx shifts it back
\* in when the next byte has been fetched.
ReadBitAmiga ==
  /\ phase = "unpack" /\ ~Done(registers) /\ registers.d3 < Half
  /\ LET left  == (2 * registers.d4) % Byte
         mark  == registers.d4 \div ByteHalf
         next  == ByteOf(Data, trailer, registers.a4)
         bit   == IF left = 0 THEN next \div ByteHalf ELSE mark
     IN  registers' = [registers EXCEPT
           !.d4 = IF left = 0 THEN (2 * next + mark) % Byte ELSE left,
           !.a4 = IF left = 0 THEN @ + 1 ELSE @,
           !.d2 = (2 * @ + bit) % One, !.d3 = (2 * @) % One]
  /\ UNCHANGED <<phase, coded, enc, decoder, trailer>>

GetBit ==
  /\ phase = "unpack" /\ ~Done(registers) /\ registers.d3 >= Half
  /\ LET c   == Context(registers)
         d1  == Threshold(registers.d3, registers.contexts[c])
         bit == IF registers.d2 < d1 THEN 1 ELSE 0
     IN  registers' = [registers EXCEPT
           !.d2 = IF bit = 0 THEN @ - d1 ELSE @,
           !.d3 = IF bit = 0 THEN @ - d1 ELSE d1,
           !.contexts[c] = Learned(@, bit),
           !.bits = @ + 1,
           !.wrong = @ \/ bit # coded[registers.bits + 1][2]]
  /\ UNCHANGED <<phase, coded, enc, decoder, trailer>>

-----------------------------------------------------------------------------

CoderInit ==
  /\ phase = "code" /\ coded = <<>> /\ trailer = <<>>
  /\ InitCoder /\ InitHost /\ InitAmiga

CoderNext ==
  \/ \E c \in Contexts, bit \in {0, 1} : Code(c, bit)
  \/ Normalise \/ StartFinish \/ FinishStep \/ Finish
  \/ ReadBit \/ HostDecode \/ Ship
  \/ ReadBitAmiga \/ GetBit

CoderSpec == CoderInit /\ [][CoderNext]_coder_vars

-----------------------------------------------------------------------------
(* Properties.                                                             *)

\* Both decoders give back every bit that was coded, in every context and
\* through every carry, whatever follows the data in memory; the assertion
\* of the host's (RangeDecoder.h:80), that the bits it made up past the end
\* do not matter, never fails.
BitsComeBack == ~decoder.wrong /\ ~registers.wrong
=============================================================================
