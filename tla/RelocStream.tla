---------------------------- MODULE RelocStream ----------------------------
(***************************************************************************)
(* The relocation stream: the byte code by which the packer tells the      *)
(* runtime which longwords of the image hold addresses.  Sites are coded   *)
(* as halved distances, one byte each where it fits, otherwise an escape   *)
(* and four big-endian bytes; the two highest byte values are the escape   *)
(* and the terminator.                                                     *)
(*                                                                         *)
(* Radix is the number of values of a byte: 256 in the program, fewer in   *)
(* the models so that short images reach every digit of an escape.         *)
(***************************************************************************)
EXTENDS Integers, Sequences, Functions

CONSTANT Radix

ASSUME RadixAssumption == Radix \in Nat /\ Radix > 2

End    == Radix - 2   \* RELOC_STREAM_END, 0xFE
Escape == Radix - 1   \* RELOC_STREAM_ESCAPE, 0xFF

\* How many values four bytes have.
Longwords == Radix * (Radix * (Radix * Radix))

BigEndian(n) ==
  LET high   == n \div Radix
      higher == high \div Radix
  IN  << (higher \div Radix) % Radix, higher % Radix, high % Radix, n % Radix >>

EncodeHalfDelta(half) == IF half < End THEN <<half>> ELSE <<Escape>> \o BigEndian(half)

\* The codes, one after the other, and the terminator.
Terminated(codes) ==
  LET joined[n \in 0 .. Len(codes)] == IF n = 0 THEN <<>> ELSE joined[n - 1] \o codes[n]
  IN  Append(joined[Len(codes)], End)

\* sites: ascending even offsets.
EncodeRelocStream(sites) ==
  LET delta(n) == (sites[n] - IF n = 1 THEN 0 ELSE sites[n - 1]) \div 2
  IN  Terminated([n \in 1 .. Len(sites) |-> EncodeHalfDelta(delta(n))])

-----------------------------------------------------------------------------
(* The runtime's side: one record read at offset at of bytes.              *)

\* Faulty: the last byte of an escape is read as a record of its own.
RecordLengthShort(bytes, at) == IF bytes[at] = Escape THEN 4 ELSE 1

RecordLength(bytes, at) == IF bytes[at] = Escape THEN 5 ELSE 1

HalfDelta(bytes, at) ==
  IF bytes[at] = Escape
  THEN ((bytes[at + 1] * Radix + bytes[at + 2]) * Radix + bytes[at + 3]) * Radix + bytes[at + 4]
  ELSE bytes[at]

\* RelocFixup's registers when n records are read: the byte after them, and
\* the site the last of them led to; and the sites it visits until the terminator.
DecodeRelocStream(bytes) ==
  LET registers[n \in 0 .. Len(bytes)] ==
        IF n = 0 THEN [a5 |-> 1, d6 |-> 0]
        ELSE LET r == registers[n - 1]
             IN  [a5 |-> r.a5 + RecordLength(bytes, r.a5), d6 |-> r.d6 + 2 * HalfDelta(bytes, r.a5)]
      AtEnd(n) == bytes[registers[n].a5] = End
      records  == CHOOSE n \in 0 .. Len(bytes) : AtEnd(n) /\ \A m \in 0 .. n - 1 : ~AtEnd(m)
  IN  [n \in 1 .. records |-> registers[n].d6]

-----------------------------------------------------------------------------
(* The stream of one region among several: each record starts with the     *)
(* number of the region whose address belongs at the site.  The terminator *)
(* stands where that number would.                                         *)

\* sorted: sites with targets, by ascending offsets.
EncodeGroupStream(sorted) ==
  LET delta(n) == (sorted[n].offset - IF n = 1 THEN 0 ELSE sorted[n - 1].offset) \div 2
  IN  Terminated([n \in 1 .. Len(sorted) |-> <<sorted[n].target>> \o EncodeHalfDelta(delta(n))])

-----------------------------------------------------------------------------
(* The runtime's side: one record read at offset at of bytes.              *)

\* Faulty: the target's byte is not counted.
GroupRecordShort(bytes, at) == RecordLength(bytes, at + 1)

GroupRecordLength(bytes, at) == 1 + RecordLength(bytes, at + 1)

\* What mixed.s makes of a stream: pairs of a site and the group whose
\* address is added there.  registers[n]: when n records are read, the byte
\* after them, and what the last of them said.
DecodeGroupStream(bytes) ==
  LET registers[n \in 0 .. Len(bytes)] ==
        IF n = 0 THEN [a0 |-> 1, d6 |-> 0, target |-> 0]
        ELSE LET r == registers[n - 1]
             IN  [a0 |-> r.a0 + GroupRecordLength(bytes, r.a0),
                  d6 |-> r.d6 + 2 * HalfDelta(bytes, r.a0 + 1),
                  target |-> bytes[r.a0]]
      AtEnd(n) == bytes[registers[n].a0] = End
      records  == CHOOSE n \in 0 .. Len(bytes) : AtEnd(n) /\ \A m \in 0 .. n - 1 : ~AtEnd(m)
  IN  [n \in 1 .. records |-> [offset |-> registers[n].d6, target |-> registers[n].target]]
=============================================================================
