------------------------------ MODULE Runtime ------------------------------
(***************************************************************************)
(* A packed executable between LoadSeg and the exit of the program in it:  *)
(* stubs/common/trampoline.s and stubs/common/runtime.i, with AmigaDOS and *)
(* Exec as far as they touch the same memory.                              *)
(*                                                                         *)
(* LoadSeg has allocated two hunks: hunk 0, here final, where the program  *)
(* will live, and hunk 1, the scratch hunk with the stub, the header and,  *)
(* in the disjoint layout, the payload.  A cell of final holds the origin  *)
(* of its byte and how often a relocation has added final's address to it. *)
(* Depack and the payload's move are single steps here: InPlaceDepack      *)
(* shows that they keep their contract byte by byte.                       *)
(***************************************************************************)
EXTENDS ContainerLayout, RelocStream, Integers, FiniteSets

CONSTANTS
  Files,        \* packed files, as LoadSeg finds them on disk
  ExecVersions  \* lib_Version of exec.library

\* sites: the even offsets of relocated longwords, ascending; stream: the same
\* as flatten.zig encodes them; sound: magic and
\* version are the runtime's; allocates: the backend's Depack calls AllocMem.
IsFile(f) ==
  /\ f.code \in Nat /\ f.bss \in Nat /\ f.code % 4 = 0 /\ f.bss % 4 = 0
  /\ f.payload \in Nat \ {0}
  /\ f.margin \in Nat
  /\ {f.overlap, f.sound, f.allocates} \subseteq BOOLEAN
  /\ f.sites \in Seq(Nat)
  /\ \A n \in DOMAIN f.sites :
       /\ f.sites[n] % 2 = 0
       /\ f.sites[n] + 4 <= f.code
       /\ n > 1 => f.sites[n - 1] <= f.sites[n]
       /\ f.sites[n] < 2 * Longwords
  /\ f.stream = EncodeRelocStream(f.sites)

ASSUME FilesAssumption ==
  /\ \A f \in Files : IsFile(f)
  /\ ExecVersions \subseteq Nat

VARIABLES
  file,     \* the file loaded
  exec,     \* exec.library's version
  pc,       \* the routine about to run
  final,    \* hunk 0
  input,    \* where Depack will read: a hunk and an offset in it
  cursor,   \* a5 of RelocFixup, as an offset in final
  site,     \* d6 of RelocFixup
  todo,     \* longwords of BSS still to clear
  chain,    \* hunk 0's link: "scratch" or "none"
  scratch,  \* hunk 1's memory: "held", "free", "reused" or "corrupt"
  stale     \* offsets in final an instruction cache may hold old bytes of

vars == <<file, exec, pc, final, input, cursor, site, todo, chain, scratch, stale>>

-----------------------------------------------------------------------------
Cell(kind, at) == [kind |-> kind, at |-> at, relocs |-> 0]

Image == [code |-> file.code, bss |-> file.bss, stream |-> Len(file.stream)]
FileHeader == Header(Image, file.payload, IF file.overlap THEN file.margin ELSE 0)

AllocatedSize ==
  IF file.overlap
  THEN OverlapAllocatedSize(TrampolineSize, file.payload, file.margin, Hunk0Size(Image))
  ELSE Hunk0Size(Image)

\* Byte at of what Depack produces: code_data ++ reloc_stream.
Output(at) == IF at < file.code THEN Cell("code", at) ELSE Cell("stream", file.stream[at - file.code + 1])

LoadedCell(a) ==
  IF file.overlap /\ a \in TrampolineSize .. TrampolineSize + file.payload - 1
  THEN Cell("payload", a - TrampolineSize)
  ELSE Cell("junk", 0)

\* The compressed payload is where Depack is told to read it.
PayloadAt(where) ==
  IF where.hunk = "scratch" THEN ~file.overlap /\ where.at = 0
  ELSE \A k \in 0 .. file.payload - 1 :
         /\ where.at + k \in DOMAIN final
         /\ final[where.at + k] = Cell("payload", k)

Init ==
  /\ file \in Files
  /\ exec \in ExecVersions
  /\ pc = "trampoline"
  /\ final = [a \in 0 .. AllocatedSize - 1 |-> LoadedCell(a)]
  /\ input = [hunk |-> "scratch", at |-> 0]
  /\ cursor = 0 /\ site = 0 /\ todo = 0
  /\ chain = "scratch"
  /\ scratch = "held"
  /\ stale = {}

Goto(p) == pc' = p

\* Writes of final go past the instruction cache.
Write(cells) ==
  /\ final' = [a \in DOMAIN final |-> IF a \in DOMAIN cells THEN cells[a] ELSE final[a]]
  /\ stale' = stale \cup DOMAIN cells

-----------------------------------------------------------------------------
(* trampoline.s and Start.                                                 *)

\* Hunk 1 is found by following hunk 0's link.
Trampoline ==
  /\ pc = "trampoline"
  /\ chain = "scratch"
  /\ Goto("start")
  /\ UNCHANGED <<file, exec, final, input, cursor, site, todo, chain, scratch, stale>>

\* Faulty: the test is the wrong way round.
TestInverted ==
  /\ pc = "start"
  /\ Goto(IF file.sound THEN "fail" ELSE "payload")
  /\ UNCHANGED <<file, exec, final, input, cursor, site, todo, chain, scratch, stale>>

CheckHeader ==
  /\ pc = "start"
  /\ Goto(IF file.sound THEN "payload" ELSE "fail")
  /\ UNCHANGED <<file, exec, final, input, cursor, site, todo, chain, scratch, stale>>

DisjointPayload ==
  /\ pc = "payload"
  /\ ~file.overlap
  /\ input' = [hunk |-> "scratch", at |-> 0]
  /\ Goto("depack")
  /\ UNCHANGED <<file, exec, final, cursor, site, todo, chain, scratch, stale>>

\* Faulty: Depack is pointed at the payload where LoadSeg left it.
InputNotMoved ==
  /\ pc = "payload"
  /\ file.overlap
  /\ LET offset == OverlapPayloadOffset(FileHeader)
         moved  == Align4(file.payload)
     IN  Write([a \in offset .. offset + moved - 1 |-> final[a - offset + TrampolineSize]])
  /\ input' = [hunk |-> "final", at |-> TrampolineSize]
  /\ Goto("depack")
  /\ UNCHANGED <<file, exec, cursor, site, todo, chain, scratch>>

OverlapPayload ==
  /\ pc = "payload"
  /\ file.overlap
  /\ LET offset == OverlapPayloadOffset(FileHeader)
         moved  == Align4(file.payload)
     IN  /\ Write([a \in offset .. offset + moved - 1 |-> final[a - offset + TrampolineSize]])
         /\ input' = [hunk |-> "final", at |-> offset]
  /\ Goto("depack")
  /\ UNCHANGED <<file, exec, cursor, site, todo, chain, scratch>>

\* Depack, and the choice of what comes after it (FLAG_HAS_RELOCS).  Fed with
\* anything but the payload it produces garbage.
Depack ==
  /\ pc = "depack"
  /\ Write([a \in 0 .. DepackedSize(Image) - 1 |->
              IF PayloadAt(input) THEN Output(a) ELSE Cell("junk", 0)])
  /\ cursor' = FileHeader.code_data_size
  /\ site' = 0
  /\ todo' = FileHeader.bss_size \div 4
  /\ Goto(IF HasRelocs(Image) THEN "fixup" ELSE "clear")
  /\ UNCHANGED <<file, exec, input, chain, scratch>>

\* stubs/inflate/stub.s: no memory for the decoder's tables.
DepackFails ==
  /\ pc = "depack"
  /\ file.allocates
  /\ Goto("fail")
  /\ UNCHANGED <<file, exec, final, input, cursor, site, todo, chain, scratch, stale>>

-----------------------------------------------------------------------------
(* RelocFixup: one record of the stream, read out of final itself.         *)

StreamBytes == [a \in DOMAIN final |-> IF final[a].kind = "stream" THEN final[a].at ELSE 0]

RelocFixup ==
  /\ pc = "fixup"
  /\ StreamBytes[cursor] # End
  /\ LET patched == site + 2 * HalfDelta(StreamBytes, cursor)
     IN  /\ Write([a \in patched .. patched + 3 |-> [final[a] EXCEPT !.relocs = @ + 1]])
         /\ site' = patched
  /\ cursor' = cursor + RecordLength(StreamBytes, cursor)
  /\ UNCHANGED <<file, exec, pc, input, todo, chain, scratch>>

RelocFixupDone ==
  /\ pc = "fixup"
  /\ StreamBytes[cursor] = End
  /\ Goto("clear")
  /\ UNCHANGED <<file, exec, final, input, cursor, site, todo, chain, scratch, stale>>

-----------------------------------------------------------------------------
(* The rest of Start.                                                      *)

\* One  clr.l (a0)+  of the BSS, which still holds the stream.
ClearBss ==
  /\ pc = "clear"
  /\ todo > 0
  /\ LET start == file.code + file.bss - 4 * todo
     IN  Write([a \in start .. start + 3 |-> Cell("zero", 0)])
  /\ todo' = todo - 1
  /\ UNCHANGED <<file, exec, pc, input, cursor, site, chain, scratch>>

\* Faulty: the program is entered through a stale cache.
NoFlush ==
  /\ pc = "clear"
  /\ todo = 0
  /\ Goto("detach")
  /\ UNCHANGED <<file, exec, final, input, cursor, site, todo, chain, scratch, stale>>

\* CacheClearU exists from version 37 on.
PublishCode ==
  /\ pc = "clear"
  /\ todo = 0
  /\ stale' = IF exec >= 37 THEN {} ELSE stale
  /\ Goto("detach")
  /\ UNCHANGED <<file, exec, final, input, cursor, site, todo, chain, scratch>>

\* Faulty: the link to the scratch hunk stays.
KeepLink ==
  /\ pc = "detach"
  /\ Goto("free")
  /\ UNCHANGED <<file, exec, final, input, cursor, site, todo, chain, scratch, stale>>

\* Faulty: FreeMem is called, not jumped to, and returns into the freed hunk.
FreeTooEarly ==
  /\ pc = "detach"
  /\ chain' = "none"
  /\ scratch' = "free"
  /\ Goto("free")
  /\ UNCHANGED <<file, exec, final, input, cursor, site, todo, stale>>

DetachScratch ==
  /\ pc = "detach"
  /\ chain' = "none"
  /\ Goto("free")
  /\ UNCHANGED <<file, exec, final, input, cursor, site, todo, scratch, stale>>

\* FreeMem's own rts enters the program.
FreeScratch ==
  /\ pc = "free"
  /\ scratch' = IF scratch = "held" THEN "free" ELSE "corrupt"
  /\ Goto("program")
  /\ UNCHANGED <<file, exec, final, input, cursor, site, todo, chain, stale>>

\* The hang is for good.
Fail ==
  /\ pc = "fail"
  /\ UNCHANGED vars

-----------------------------------------------------------------------------
(* AmigaDOS and other tasks.                                               *)

\* UnLoadSeg frees hunk 0 and all that is chained to it.
UnLoadSeg ==
  /\ pc = "program"
  /\ Goto("exited")
  /\ scratch' = IF chain = "none" THEN scratch
                ELSE IF scratch = "held" THEN "free" ELSE "corrupt"
  /\ UNCHANGED <<file, exec, final, input, cursor, site, todo, chain, stale>>

\* Any other task may get the memory as soon as it is free.
OtherTaskAllocates ==
  /\ scratch = "free"
  /\ scratch' = "reused"
  /\ UNCHANGED <<file, exec, pc, final, input, cursor, site, todo, chain, stale>>

OtherTaskFrees ==
  /\ scratch = "reused"
  /\ scratch' = "free"
  /\ UNCHANGED <<file, exec, pc, final, input, cursor, site, todo, chain, stale>>

Run ==
  \/ Trampoline \/ CheckHeader \/ DisjointPayload \/ OverlapPayload
  \/ Depack \/ DepackFails \/ RelocFixup \/ RelocFixupDone
  \/ ClearBss \/ PublishCode \/ DetachScratch \/ FreeScratch

Next == Run \/ Fail \/ UnLoadSeg \/ OtherTaskAllocates \/ OtherTaskFrees

\* The CPU keeps executing the stub; programs need not end.
Fairness == WF_vars(Run)

Spec == Init /\ [][Next]_vars /\ Fairness

-----------------------------------------------------------------------------
(* Properties.                                                             *)

InScratch == {"start", "payload", "depack", "fixup", "clear", "detach", "free"}

\* The stub's instructions, header and payload lie in hunk 1: none of its code
\* runs, not even the last jump, once another task may own that memory.
NoUseAfterFree == pc \in InScratch => scratch = "held"

\* Detached before it is freed, the scratch hunk is freed exactly once: not
\* again by UnLoadSeg, and not left behind.
FreedOnce ==
  /\ scratch # "corrupt"
  /\ pc \in {"program", "exited"} => scratch # "held"

\* No copy, output byte, patch or clear goes outside hunk 0's allocation, and
\* the fixup loop, which patches the memory its stream lies in, reads stream
\* bytes only, never code, payload or cleared memory, and only patches code:
\* never the part of the stream it still needs.
WritesStayInFinal ==
  /\ stale \subseteq DOMAIN final
  /\ pc = "fixup" =>
       /\ site + 4 <= file.code
       /\ \A k \in cursor .. cursor + RecordLength(StreamBytes, cursor) - 1 :
            k \in DOMAIN final /\ final[k].kind = "stream"

\* The program's first instructions are fetched from memory as it is now,
\* wherever Exec offers a way to make sure of that.
CodePublished == pc = "program" /\ exec >= 37 => stale = {}

\* The program starts on what AmigaDOS would have given it.
Covering(a) == Cardinality({n \in DOMAIN file.sites : a \in file.sites[n] .. file.sites[n] + 3})

ProgramImage ==
  [a \in 0 .. file.code + file.bss - 1 |->
     IF a < file.code THEN [kind |-> "code", at |-> a, relocs |-> Covering(a)]
     ELSE Cell("zero", 0)]

Abstract == INSTANCE ProgramStart WITH
  image  <- ProgramImage,
  residents <- {"final"},
  memory <- IF pc = "program" THEN [a \in 0 .. file.code + file.bss - 1 |-> final[a]] ELSE <<>>,
  state  <- IF pc \in {"program", "exited"} THEN
              (IF pc = "program" THEN "running" ELSE "exited") ELSE "loading",
  owned  <- (IF pc = "exited" THEN {} ELSE {"final"})
              \cup (IF scratch = "held" THEN {"scratch"} ELSE {})

StartsProgram == Abstract!Spec

\* What docs/memory-lifecycle.md says of the runtime, that LoadSeg is the only
\* allocator: once loaded, a sound file cannot fail for want of memory.  With
\* inflate it can.
OnlyBadHeadersFail == pc = "fail" => ~file.sound

\* A sound file whose Depack needs no memory of its own gets to its program.
Starts == (pc = "trampoline" /\ file.sound /\ ~file.allocates) ~> pc = "program"
=============================================================================
