--------------------------- MODULE InPlaceDepack ---------------------------
(***************************************************************************)
(* Overlap-in-place decompression, from the packer's measurement to the    *)
(* last byte Depack writes on the Amiga.                                   *)
(*                                                                         *)
(* The packer runs Depack once in an emulator with payload and output in   *)
(* separate buffers and derives a safety margin from the order of its      *)
(* accesses (src/musashi_bench.zig).  The margin sizes hunk 0 of the       *)
(* packed file (src/container.zig).  At load time the runtime moves the    *)
(* payload to the end of hunk 0 and runs the same Depack again, now        *)
(* writing its output over the very memory that holds its input            *)
(* (stubs/common/runtime.i).                                               *)
(*                                                                         *)
(* A decoder is known here by the order in which it touches the two        *)
(* regions, byte by byte: module DepackTraces gives the orders of the      *)
(* real ones.  A memory cell records where its byte comes from, not its    *)
(* value.                                                                  *)
(***************************************************************************)
EXTENDS ContainerLayout, Integers, Sequences

CONSTANT Jobs   \* the packed files: their image, payload length and decoder run

Get(at) == [op |-> "get", at |-> at]   \* read of payload byte at
Put(at) == [op |-> "put", at |-> at]   \* write of output byte at

IsGet(o) == o.op = "get"
IsPut(o) == o.op = "put"

\* The decoder run reads payload bytes, writes output bytes, and writes each
\* output byte at least once: main.zig's self-check refuses any other payload.
IsJob(j) ==
  /\ j.image \in Images
  /\ j.payload \in Nat
  /\ j.ops \in Seq([op : {"get", "put"}, at : Nat])
  /\ \A n \in DOMAIN j.ops :
       j.ops[n].at < IF IsGet(j.ops[n]) THEN j.payload ELSE DepackedSize(j.image)
  /\ \A at \in 0 .. DepackedSize(j.image) - 1 :
       \E n \in DOMAIN j.ops : j.ops[n] = Put(at)

ASSUME JobsAssumption == \A j \in Jobs : IsJob(j)

\* A decoder that walks its input with (a0)+ alone: every read is past all
\* the reads before it.
Forward(ops) ==
  \A m, n \in DOMAIN ops :
    m < n /\ IsGet(ops[m]) /\ IsGet(ops[n]) => ops[m].at < ops[n].at

ForwardJobs == \A j \in Jobs : Forward(j.ops)

VARIABLES
  job,          \* the file being packed and run
  phase,        \* "measure", "file", "move", "depack" or "done"
  pc,           \* next step of the decoder run, in either pass
  maxConsumed,  \* overlap_max_consumed
  margin,       \* overlap_required_margin
  header,       \* the packed file's header
  mem,          \* hunk 0: the origin of the byte in each cell
  left,         \* longwords OverlapMovePayload still has to copy
  misread       \* payload offsets Depack fetched a wrong byte for, in place

packVars == <<maxConsumed, margin, header>>
vars == <<job, phase, pc, packVars, mem, left, misread>>

Cell(kind, at) == [kind |-> kind, at |-> at]
Payload(at) == Cell("payload", at)
Output(at)  == Cell("output", at)
Junk        == Cell("junk", 0)

Ops == job.ops
PayloadOffset == OverlapPayloadOffset(header)
AllocatedSize ==
  OverlapAllocatedSize(TrampolineSize, job.payload, margin, Hunk0Size(job.image))

NoHeader == Header([code |-> 0, bss |-> 0, stream |-> 1], 0, 0)

Init ==
  /\ job \in Jobs
  /\ phase = "measure"
  /\ pc = 1
  /\ maxConsumed = -1
  /\ margin = 0
  /\ header = NoHeader
  /\ mem = <<>>
  /\ left = 0
  /\ misread = {}

-----------------------------------------------------------------------------
(* The packer: the measuring run, then the file.                           *)

\* Faulty: a byte counts as consumed one byte too early.
MarkTooHigh ==
  /\ phase = "measure"
  /\ pc \in DOMAIN Ops
  /\ IsGet(Ops[pc])
  /\ maxConsumed' = IF Ops[pc].at + 1 > maxConsumed THEN Ops[pc].at + 1 ELSE maxConsumed
  /\ pc' = pc + 1
  /\ UNCHANGED <<job, phase, margin, header, mem, left, misread>>

MeasureRead ==
  /\ phase = "measure"
  /\ pc \in DOMAIN Ops
  /\ IsGet(Ops[pc])
  /\ maxConsumed' = IF Ops[pc].at > maxConsumed THEN Ops[pc].at ELSE maxConsumed
  /\ pc' = pc + 1
  /\ UNCHANGED <<job, phase, margin, header, mem, left, misread>>

\* Faulty: the write itself is not counted.
MarginOffByOne ==
  /\ phase = "measure"
  /\ pc \in DOMAIN Ops
  /\ IsPut(Ops[pc])
  /\ LET needed == Ops[pc].at - (maxConsumed + 1)
     IN  margin' = IF needed > margin THEN needed ELSE margin
  /\ pc' = pc + 1
  /\ UNCHANGED <<job, phase, maxConsumed, header, mem, left, misread>>

\* Faulty: only the last write of the run sets the margin.
LastMarginWins ==
  /\ phase = "measure"
  /\ pc \in DOMAIN Ops
  /\ IsPut(Ops[pc])
  /\ LET needed == (Ops[pc].at + 1) - (maxConsumed + 1)
     IN  margin' = IF needed > 0 THEN needed ELSE 0
  /\ pc' = pc + 1
  /\ UNCHANGED <<job, phase, maxConsumed, header, mem, left, misread>>

MeasureWrite ==
  /\ phase = "measure"
  /\ pc \in DOMAIN Ops
  /\ IsPut(Ops[pc])
  /\ LET needed == (Ops[pc].at + 1) - (maxConsumed + 1)
     IN  margin' = IF needed > margin THEN needed ELSE margin
  /\ pc' = pc + 1
  /\ UNCHANGED <<job, phase, maxConsumed, header, mem, left, misread>>

BuildFile ==
  /\ phase = "measure"
  /\ pc \notin DOMAIN Ops
  /\ header' = Header(job.image, job.payload, margin)
  /\ phase' = "file"
  /\ pc' = 1
  /\ UNCHANGED <<job, maxConsumed, margin, mem, left, misread>>

-----------------------------------------------------------------------------
(* The Amiga.  LoadSeg allocates hunk 0 at its declared size and fills its *)
(* front with trampoline ++ payload; the runtime then computes the payload *)
(* offset and starts moving.                                               *)

LoadSeg ==
  /\ phase = "file"
  /\ mem' = [a \in 0 .. AllocatedSize - 1 |->
               IF a \in TrampolineSize .. TrampolineSize + job.payload - 1
               THEN Payload(a - TrampolineSize) ELSE Junk]
  /\ left' = Align4(header.compressed_size) \div 4
  /\ phase' = IF left' = 0 THEN "depack" ELSE "move"
  /\ UNCHANGED <<job, pc, packVars, misread>>

\* Faulty: lowest longword first, (a0)+ to (a1)+.
MoveForward ==
  /\ phase = "move"
  /\ LET total  == Align4(header.compressed_size) \div 4
         source == header.trampoline_size + 4 * (total - left)
         dest   == PayloadOffset + 4 * (total - left)
     IN  mem' = [a \in DOMAIN mem |->
                   IF a \in dest .. dest + 3 THEN mem[a - dest + source] ELSE mem[a]]
  /\ left' = left - 1
  /\ phase' = IF left' = 0 THEN "depack" ELSE "move"
  /\ UNCHANGED <<job, pc, packVars, misread>>

\* One  move.l -(a0),-(a1)  of OverlapMovePayload, highest longword first.
OverlapMovePayload ==
  /\ phase = "move"
  /\ LET source == header.trampoline_size + 4 * (left - 1)
         dest   == PayloadOffset + 4 * (left - 1)
     IN  mem' = [a \in DOMAIN mem |->
                   IF a \in dest .. dest + 3 THEN mem[a - dest + source] ELSE mem[a]]
  /\ left' = left - 1
  /\ phase' = IF left' = 0 THEN "depack" ELSE "move"
  /\ UNCHANGED <<job, pc, packVars, misread>>

DepackRead ==
  /\ phase = "depack"
  /\ pc \in DOMAIN Ops
  /\ IsGet(Ops[pc])
  /\ misread' = IF mem[PayloadOffset + Ops[pc].at] = Payload(Ops[pc].at)
                THEN misread ELSE misread \cup {Ops[pc].at}
  /\ pc' = pc + 1
  /\ UNCHANGED <<job, phase, packVars, mem, left>>

\* A decoder that was fed a wrong byte writes something else from then on.
DepackWrite ==
  /\ phase = "depack"
  /\ pc \in DOMAIN Ops
  /\ IsPut(Ops[pc])
  /\ mem' = [mem EXCEPT ![Ops[pc].at] = IF misread = {} THEN Output(Ops[pc].at) ELSE Junk]
  /\ pc' = pc + 1
  /\ UNCHANGED <<job, phase, packVars, left, misread>>

DepackReturn ==
  /\ phase = "depack"
  /\ pc \notin DOMAIN Ops
  /\ phase' = "done"
  /\ UNCHANGED <<job, pc, packVars, mem, left, misread>>

Next ==
  \/ MeasureRead \/ MeasureWrite \/ BuildFile
  \/ LoadSeg \/ OverlapMovePayload
  \/ DepackRead \/ DepackWrite \/ DepackReturn

Spec == Init /\ [][Next]_vars

-----------------------------------------------------------------------------
(* Properties.                                                             *)

Cells == [kind : {"payload", "output", "junk"}, at : Nat]

\* Types of the variables; hunk 0 is as large as the file says once loaded.
TypeOK ==
  /\ IsJob(job)
  /\ phase \in {"measure", "file", "move", "depack", "done"}
  /\ pc \in 1 .. Len(Ops) + 1
  /\ maxConsumed \in -1 .. job.payload - 1
  /\ margin \in Nat
  /\ header = IF phase = "measure" THEN NoHeader ELSE Header(job.image, job.payload, margin)
  /\ phase \in {"move", "depack", "done"} => mem \in [0 .. AllocatedSize - 1 -> Cells]
  /\ left \in Nat /\ 4 * left <= Align4(job.payload)
  /\ phase = "move" => left # 0
  /\ misread \subseteq 0 .. job.payload - 1

\* The point of the safety margin: although the output grows over the memory
\* that holds the payload, every payload byte Depack fetches in place is the
\* byte the compressor produced.
ReadsOriginalPayload == misread = {}

\* No access of the in-place run leaves hunk 0, even where the runtime's
\* allocated size is not the packer's: the output fits, and so does the
\* payload at the offset the runtime computes for it, rounded up as moved.
\* OverlapMovePayload copies highest address first and longword by longword,
\* which is right only if that offset is not below the payload's old one and
\* is long-aligned: a decoder's first word access faults otherwise.
AccessesStayInHunk ==
  phase \in {"move", "depack"} =>
    /\ DepackedSize(job.image) <= AllocatedSize
    /\ header.trampoline_size + Align4(job.payload) <= AllocatedSize
    /\ PayloadOffset + Align4(job.payload) <= AllocatedSize
    /\ PayloadOffset >= header.trampoline_size
    /\ PayloadOffset % 4 = 0

\* While the backward copy overlaps its own source, each payload byte is
\* still where the rest of the move will look for it, or already in place.
MoveKeepsPayload ==
  phase = "move" =>
    \A at \in 0 .. job.payload - 1 :
      mem[at + IF at < 4 * left THEN header.trampoline_size ELSE PayloadOffset] = Payload(at)

\* In place, Depack still keeps the contract it keeps on separate buffers.
Contract == INSTANCE DepackContract WITH
  size     <- DepackedSize(job.image),
  produced <- {at \in 0 .. DepackedSize(job.image) - 1 :
                 phase \in {"depack", "done"} /\ mem[at] = Output(at)},
  returned <- phase = "done"

KeepsContract == Contract!Spec

\* runtime.i recomputes hunk 0's size from a header that stores 0, not 1, for
\* the relocation stream of a file without sites, and lands on the packer's
\* size all the same, so that "the two can never drift apart": the measured
\* margin always makes room for the terminator Depack writes.
SizesAgree ==
  phase # "measure" => RuntimeAllocatedSize(header) = AllocatedSize
=============================================================================
