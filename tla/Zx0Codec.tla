------------------------------- MODULE Zx0Codec -------------------------------
(***************************************************************************)
(* The zx0 backend from end to end: each input is parsed by optimize(),    *)
(* written by zx0_vendor/compress.c, and the stream decoded by the host's  *)
(* decoder, which decides whether a file is written, and by the Amiga's,   *)
(* which unpacks the file.  One process compresses several inputs in turn  *)
(* (packBest over backends and regions), so the pool of blocks goes on.    *)
(***************************************************************************)
EXTENDS Zx0Optimize

VARIABLES
  stream,                         \* output_data up to output_index
  output_size,                    \* what malloc was asked for
  bit_index, bit_mask, backtrack,
  prev, block,                    \* the writing loop's two pointers
  last_offset, input_index,
  cpu, host

Amiga == INSTANCE Unzx0
Host  == INSTANCE Zx0Expand

bitWriter == <<stream, bit_index, bit_mask, backtrack>>
writer    == <<bitWriter, output_size, prev, block, last_offset, input_index>>
vars      == <<pc, optimizer, writer, cpu, host>>

Init ==
  /\ InitOptimizer /\ pc = "optimize"
  /\ stream = <<>> /\ output_size = 0
  /\ bit_index = 0 /\ bit_mask = 0 /\ backtrack = TRUE
  /\ prev = NULL /\ block = NULL
  /\ last_offset = INITIAL_OFFSET /\ input_index = 0
  /\ Amiga!InitCpu /\ Host!InitHost

-----------------------------------------------------------------------------
(* compress()                                                              *)

\* The blocks from the fake one to b, along the chain.
PathTo(b) ==
  LET Path[c \in 0..Len(pool.blocks)] ==
        IF c = NULL THEN <<>> ELSE Append(Path[Block(c).chain], c)
  IN  Path[b]

\* Faulty: the flag before the end marker is not counted.
BufferSizeNoFlag(bits) == (bits + 2 * ByteBits + 1 + ByteBits - 1) \div ByteBits

\* The bits of the parse, and those of the end marker, to whole bytes.
BufferSize(bits) == (bits + 2 * ByteBits + 2 + ByteBits - 1) \div ByteBits

\* The chain is turned round in the blocks themselves.
StartCompress ==
  LET last == optimal[input_size - 1]
      path == PathTo(last)
      After(b) == LET n == CHOOSE n \in DOMAIN path : path[n] = b
                  IN  IF n = Len(path) THEN NULL ELSE path[n + 1]
  IN  /\ pc = "offset" /\ ~InLoop
      /\ pc' = "write"
      /\ output_size' = BufferSize(Block(last).bits)
      /\ pool' = [pool EXCEPT !.blocks = [b \in DOMAIN @ |->
                    IF b \in Range(path) THEN [@[b] EXCEPT !.chain = After(b)] ELSE @[b]]]
      /\ prev' = Head(path) /\ block' = After(Head(path))
      /\ stream' = <<>> /\ bit_mask' = 0 /\ backtrack' = TRUE
      /\ last_offset' = INITIAL_OFFSET /\ input_index' = 0
      /\ UNCHANGED <<inputs, job, index, offset, arrays, bit_index, cpu, host>>

Output == [bytes |-> stream, at |-> bit_index, mask |-> bit_mask, back |-> backtrack]

WriteByte(w, value) == [w EXCEPT !.bytes = Append(@, value)]

\* The first bit after an offset's low byte goes into that byte.
WriteBit(w, bit) ==
  IF w.back
  THEN [w EXCEPT !.back = FALSE,
                 !.bytes = IF bit = 1 THEN [@ EXCEPT ![Len(@)] = @ + 1] ELSE @]
  ELSE LET ready == IF w.mask = 0
                    THEN [WriteByte(w, 0) EXCEPT !.mask = Half, !.at = Len(w.bytes) + 1]
                    ELSE w
       IN  [ready EXCEPT !.bytes[ready.at] = @ + bit * ready.mask, !.mask = @ \div 2]

WriteBits(w, bits) == FoldLeft(WriteBit, w, bits)

Wrote(w) ==
  /\ stream' = w.bytes /\ bit_index' = w.at /\ bit_mask' = w.mask /\ backtrack' = w.back

Length == Block(block).index - Block(prev).index

NextBlockWritten ==
  /\ prev' = block /\ block' = Block(block).chain
  /\ input_index' = input_index + Length
  /\ UNCHANGED <<pc, optimizer, output_size, cpu, host>>

Writing == pc = "write" /\ block # NULL

WriteLiterals ==
  /\ Writing /\ Block(block).offset = 0
  /\ LET coded == WriteBits(Output, <<0>> \o EliasGamma(Length, FALSE))
     IN  Wrote([coded EXCEPT !.bytes =
                 @ \o SubSeq(input_data, input_index + 1, input_index + Length)])
  /\ UNCHANGED last_offset
  /\ NextBlockWritten

WriteRepMatch ==
  /\ Writing /\ Block(block).offset = last_offset
  /\ Wrote(WriteBits(Output, <<0>> \o EliasGamma(Length, FALSE)))
  /\ UNCHANGED last_offset
  /\ NextBlockWritten

WriteNewOffset ==
  /\ Writing /\ Block(block).offset \notin {0, last_offset}
  /\ LET high == WriteBits(Output, <<1>> \o EliasGamma(OffsetHigh(Block(block).offset), TRUE))
         low  == [WriteByte(high, OffsetLow(Block(block).offset)) EXCEPT !.back = TRUE]
     IN  Wrote(WriteBits(low, EliasGamma(Length - 1, FALSE)))
  /\ last_offset' = Block(block).offset
  /\ NextBlockWritten

WriteEnd ==
  /\ pc = "write" /\ block = NULL
  /\ Wrote(WriteBits(Output, <<1>> \o EliasGamma(Byte, TRUE)))
  /\ pc' = "check"
  /\ Host!CallExpand(input_size)
  /\ UNCHANGED <<optimizer, output_size, prev, block, last_offset, input_index, cpu>>

-----------------------------------------------------------------------------

HostStep ==
  /\ pc = "check" /\ Host!HostNext
  /\ UNCHANGED <<pc, optimizer, writer, cpu>>

HostEnds == host.label \in {"done", "error"}

\* compressWithBackend() goes on only with a payload that decodes.
Verified == host.label = "done" /\ host.out = input_data

Ship ==
  /\ pc = "check" /\ HostEnds /\ Verified
  /\ pc' = "unpack"
  /\ \E fast \in BOOLEAN : Amiga!CallDepack(fast)
  /\ UNCHANGED <<optimizer, writer, host>>

CpuStep ==
  /\ pc = "unpack" /\ Amiga!CpuNext
  /\ UNCHANGED <<pc, optimizer, writer, host>>

Unpacked == pc = "unpack" /\ cpu.label = "done"

\* The next backend or region.
NextJob ==
  /\ Unpacked /\ job < Len(inputs)
  /\ job' = job + 1 /\ pc' = "optimize"
  /\ UNCHANGED <<inputs, pool, index, offset, arrays, writer, cpu, host>>

Optimize ==
  /\ AllocateArrays \/ RepMatch \/ NewOffset \/ Literals
  /\ UNCHANGED <<writer, cpu, host>>

Compress == StartCompress \/ WriteLiterals \/ WriteRepMatch \/ WriteNewOffset \/ WriteEnd

Next == Optimize \/ Compress \/ HostStep \/ Ship \/ CpuStep \/ NextJob

Spec == Init /\ [][Next]_vars

-----------------------------------------------------------------------------
(* Properties.                                                             *)

\* The offset a rep match after this block would have.
RepOffset(b) == IF Block(b).offset # 0 THEN Block(b).offset ELSE Block(Block(b).chain).offset

\* What the stream's format lets a block c add to the parse that ends with
\* b, in bits, or none if it may not follow b.
StepBits(b, c) ==
  LET length == Block(c).index - Block(b).index
      after  == Block(b).offset
      new    == Block(c).offset
      copies == \A n \in (Block(b).index + 1)..Block(c).index : InputByte(n) = InputByte(n - new)
  IN  IF new = 0 THEN IF after # 0 /\ length >= 1 THEN {LiteralsBits(length)} ELSE {}
      ELSE IF ~copies THEN {}
      ELSE IF after = 0 /\ new = RepOffset(b) THEN {RepMatchBits(length)}
      ELSE IF new # RepOffset(b) /\ length >= 2 /\ new <= OffsetLimit THEN {NewOffsetBits(new, length)}
      ELSE {}

Slots == (Range(optimal) \cup Range(last_literal) \cup Range(last_match)) \ {NULL}

\* The blocks a parse still in use is made of.
Live == UNION {Range(PathTo(b)) : b \in Slots}

\* Every parse in use, although its blocks are shared with others and were
\* part of others before, is one the format allows and costs the bits its
\* last block says: no block of it has been given out again for another, nor
\* waits to be as a ghost, where none may be twice.
ParsesAreSound ==
  /\ IsInjective(pool.ghosts)
  /\ pc \in {"offset", "new offset"} =>
       /\ Range(pool.ghosts) \cap Live = {}
       /\ \A b \in Live : Block(b).chain # NULL =>
            Block(b).bits - Block(Block(b).chain).bits \in StepBits(Block(b).chain, b)

\* What is written is as long as the buffer the cost was turned into, no byte
\* past it and none left unwritten, and the pack-time check accepts it,
\* whatever the input: no input makes the zx0 backend fail.
HostAccepts ==
  /\ Len(stream) <= output_size
  /\ pc \in {"check", "unpack"} => Len(stream) = output_size
  /\ pc = "check" /\ HostEnds => Verified

\* What the host's decoder has accepted, the Amiga's unpacks to the same
\* bytes, either of them, and reads the stream to its last byte and no
\* further.  Only the first bit of a pair is fetched with a test for an empty
\* queue; the instructions that take the second find one there.
AmigaAgrees ==
  /\ pc = "unpack" =>
       /\ cpu.a0 <= Len(stream) + 1
       /\ cpu.label \in {"elias_bt", "copy_lits", "do_copy", "do_copy_offs", "do_copy_offs2"}
            => cpu.d1 # Half
  /\ Unpacked => cpu.a1 = input_data /\ cpu.a0 = Len(stream) + 1

=============================================================================
