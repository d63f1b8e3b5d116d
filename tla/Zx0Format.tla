------------------------------ MODULE Zx0Format ------------------------------
(***************************************************************************)
(* The ZX0 stream the compressor writes and both decoders read: the width  *)
(* of its bytes, the interlaced Elias gamma code of its lengths and        *)
(* offsets, and what each kind of block costs in bits.                     *)
(*                                                                         *)
(* The format is modelled at any even width of a byte; every constant of   *)
(* the code that stems from the width is computed from it.  The program's  *)
(* width is 8.                                                             *)
(***************************************************************************)
EXTENDS Integers, Sequences

CONSTANT ByteBits

ByteBitsAssumption == ByteBits \in Nat /\ ByteBits > 0 /\ ByteBits % 2 = 0

Byte == 2^ByteBits           \* 256, also the offset byte that ends a stream
Half == 2^(ByteBits - 1)     \* 128, the offsets an offset's low byte tells apart
Word == Byte * Byte
Long == Word * Word

\* A byte shifted left by one: the bit that falls out, and what is left.
TopBit(byte)  == byte \div Half
Shifted(byte) == (2 * byte) % Byte

\* A copy of n bytes, each of which may be one the copy has just written.
CopiedFrom(out, distance, n) ==
  [i \in 1..(Len(out) + n) |->
     IF i <= Len(out) THEN out[i]
     ELSE out[Len(out) - distance + 1 + ((i - Len(out) - 1) % distance)]]

INITIAL_OFFSET == 1
\* Faulty: room for the largest offset forgets the end marker.
OffsetLimitRound == Byte * Half
OffsetLimit    == (Byte - 1) * Half     \* 32640

\* The number of bits below the leading one.
Log2[value \in Nat] == IF value < 2 THEN 0 ELSE 1 + Log2[value \div 2]

EliasGammaBits(value) == 2 * Log2[value] + 1

\* Bit k of value, the lowest being bit 0.
BitOf(value, k) == (value \div 2^k) % 2

\* Before each bit of value but its leading one a 0, and a 1 at the end.
EliasGamma(value, invert) ==
  LET n == Log2[value]
  IN  [j \in 1..(2 * n + 1) |->
         IF j = 2 * n + 1 THEN 1
         ELSE IF j % 2 = 1 THEN 0
         ELSE IF invert THEN 1 - BitOf(value, n - j \div 2) ELSE BitOf(value, n - j \div 2)]

OffsetHigh(offset) == (offset - 1) \div Half + 1
OffsetLow(offset)  == (Half - 1 - ((offset - 1) % Half)) * 2

LiteralsBits(length)         == 1 + EliasGammaBits(length) + length * ByteBits
RepMatchBits(length)         == 1 + EliasGammaBits(length)
NewOffsetBits(offset, length) ==
  ByteBits + EliasGammaBits(OffsetHigh(offset)) + EliasGammaBits(length - 1)
=============================================================================
