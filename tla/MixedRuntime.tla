---------------------------- MODULE MixedRuntime ----------------------------
(***************************************************************************)
(* A packed executable of several memory classes between LoadSeg and the   *)
(* program's exit: stubs/common/mixed.s.  AmigaDOS has chained the hunks   *)
(* in the file's order: the first resident, the scratch hunk with the      *)
(* dispatcher, then the other residents.  The dispatcher finds all of them *)
(* by their links, then unpacks, relocates and clears one after another,   *)
(* so that a region is patched with addresses of regions not unpacked yet. *)
(* Residents count from zero, as the relocation streams do.                *)
(***************************************************************************)
EXTENDS ContainerLayout, RelocStream, Integers, FiniteSets

CONSTANTS
  Files,        \* per resident: its image, relocations and payload
  ExecVersions  \* lib_Version of exec.library

IsPart(p, parts) ==
  /\ p.code \in Nat /\ p.bss \in Nat /\ p.code % 4 = 0 /\ p.bss % 4 = 0
  /\ p.payload \in Nat \ {0} /\ p.margin \in Nat
  /\ {p.overlap, p.allocates} \subseteq BOOLEAN
  /\ p.sites \in Seq([offset : Nat, target : 0 .. Len(parts) - 1])
  /\ \A n \in DOMAIN p.sites :
       /\ p.sites[n].offset % 2 = 0 /\ p.sites[n].offset + 4 <= p.code
       /\ p.sites[n].offset < 2 * Longwords
       /\ n > 1 => p.sites[n - 1].offset <= p.sites[n].offset
  /\ p.stream = EncodeGroupStream(p.sites)

ASSUME FilesAssumption ==
  /\ \A f \in Files : f # <<>> /\ f \in Seq(Range(f)) /\ \A n \in DOMAIN f : IsPart(f[n], f)
  /\ \A f \in Files : Len(f) <= End
  /\ ExecVersions \subseteq Nat

VARIABLES
  parts,    \* the file loaded
  exec,     \* exec.library's version
  pc,
  memory,   \* the residents' bytes: origin, and how often each address was added
  link,     \* next hunk of the chain, per hunk; -1 is the scratch hunk, "none" ends it
  bases,    \* DESC_BASE of the descriptors: the hunks found so far
  walk,     \* a0 while the chain is followed
  g,        \* the group at work
  input,    \* where Depack will read
  cursor,   \* a0 of the relocation loop, as an offset in the group
  site,     \* d6 of the relocation loop
  todo,     \* longwords of BSS still to clear
  scratch,  \* the scratch hunk's memory: "held", "free", "reused" or "corrupt"
  loaded,   \* hunks UnLoadSeg has not freed
  stale     \* <<resident, offset>> an instruction cache may hold old bytes of

vars == <<parts, exec, pc, memory, link, bases, walk, g, input, cursor, site, todo, scratch, loaded, stale>>

-----------------------------------------------------------------------------
(* Hunks are numbered as residents are; two more numbers:                  *)

Scratch == -1
None    == -2   \* the end of the chain

Residents == 0 .. Len(parts) - 1
PartOf(r) == parts[r + 1]
Image(r)  == [code |-> PartOf(r).code, bss |-> PartOf(r).bss, stream |-> Len(PartOf(r).stream)]

\* Only the first resident starts with the trampoline.
Prefix(r) == IF r = 0 THEN TrampolineSize ELSE 0

AllocatedSize(r) ==
  LET resident == Larger(ResidentTailSize(Image(r)), Align4(Prefix(r)))
  IN  IF PartOf(r).overlap
      THEN OverlapAllocatedSize(Prefix(r), PartOf(r).payload, PartOf(r).margin, resident)
      ELSE resident

Cell(kind, at) == [kind |-> kind, at |-> at, adds |-> [t \in Residents |-> 0]]

LoadedCell(r, a) ==
  IF PartOf(r).overlap /\ a \in Prefix(r) .. Prefix(r) + PartOf(r).payload - 1
  THEN Cell("payload", a - Prefix(r))
  ELSE Cell("junk", 0)

Init ==
  /\ parts \in Files
  /\ exec \in ExecVersions
  /\ pc = "trampoline"
  /\ memory = [r \in Residents |-> [a \in 0 .. AllocatedSize(r) - 1 |-> LoadedCell(r, a)]]
  /\ link = [h \in Residents \cup {Scratch} |->
               IF h = 0 THEN Scratch
               ELSE LET next == IF h = Scratch THEN 1 ELSE h + 1
                    IN  IF next \in Residents THEN next ELSE None]
  /\ bases = <<>> /\ walk = None
  /\ g = 0
  /\ input = [hunk |-> None, at |-> 0]
  /\ cursor = 0 /\ site = 0 /\ todo = 0
  /\ scratch = "held"
  /\ loaded = Residents
  /\ stale = {}

Goto(p)    == pc' = p
finding    == <<bases, walk>>
unpacking  == <<g, input, cursor, site, todo>>
exits      == <<link, scratch, loaded>>

Here == bases[g + 1]
Part == PartOf(g)

\* Writes of the group's memory go past the instruction cache.
Write(cells) ==
  /\ memory' = [memory EXCEPT ![Here] = [a \in DOMAIN @ |-> IF a \in DOMAIN cells THEN cells[a] ELSE @[a]]]
  /\ stale' = stale \cup {<<Here, a>> : a \in DOMAIN cells}

-----------------------------------------------------------------------------
(* Finding the residents.                                                  *)

Trampoline ==
  /\ pc = "trampoline"
  /\ link[0] = Scratch
  /\ Goto("find")
  /\ UNCHANGED <<parts, exec, memory, finding, unpacking, exits, stale>>

FindFirst ==
  /\ pc = "find"
  /\ bases' = <<0>>
  /\ walk' = link[0]
  /\ Goto("map")
  /\ UNCHANGED <<parts, exec, memory, unpacking, exits, stale>>

FindNext ==
  /\ pc = "map"
  /\ Len(bases) < Len(parts)
  /\ walk' = link[walk]
  /\ bases' = Append(bases, link[walk])
  /\ UNCHANGED <<parts, exec, pc, memory, unpacking, exits, stale>>

FoundAll ==
  /\ pc = "map"
  /\ Len(bases) = Len(parts)
  /\ Goto("payload")
  /\ UNCHANGED <<parts, exec, memory, finding, unpacking, exits, stale>>

-----------------------------------------------------------------------------
(* One group.                                                              *)

DisjointPayload ==
  /\ pc = "payload"
  /\ ~Part.overlap
  /\ input' = [hunk |-> Scratch, at |-> g]
  /\ Goto("depack")
  /\ UNCHANGED <<parts, exec, memory, finding, g, cursor, site, todo, exits, stale>>

OverlapPayload ==
  /\ pc = "payload"
  /\ Part.overlap
  /\ LET moved == Align4(Part.payload)
         dest  == AllocatedSize(g) - moved
     IN  /\ Write([a \in dest .. dest + moved - 1 |-> memory[Here][a - dest + Prefix(g)]])
         /\ input' = [hunk |-> Here, at |-> dest]
  /\ Goto("depack")
  /\ UNCHANGED <<parts, exec, finding, g, cursor, site, todo, exits>>

\* The group's payload is where Depack is told to read it.
PayloadAt(where) ==
  IF where.hunk = Scratch THEN ~Part.overlap /\ where.at = g
  ELSE \A k \in 0 .. Part.payload - 1 :
         /\ where.at + k \in DOMAIN memory[where.hunk]
         /\ memory[where.hunk][where.at + k] = Cell("payload", k)

Output(at) == IF at < Part.code THEN Cell("code", at) ELSE Cell("stream", Part.stream[at - Part.code + 1])

Depack ==
  /\ pc = "depack"
  /\ Write([a \in 0 .. DepackedSize(Image(g)) - 1 |->
              IF PayloadAt(input) THEN Output(a) ELSE Cell("junk", 0)])
  /\ cursor' = Part.code
  /\ site' = 0
  /\ todo' = Part.bss \div 4
  /\ Goto("fixup")
  /\ UNCHANGED <<parts, exec, finding, g, input, exits>>

\* stubs/inflate/stub.s hangs without memory for its tables.
DepackFails ==
  /\ pc = "depack"
  /\ Part.allocates
  /\ Goto("fail")
  /\ UNCHANGED <<parts, exec, memory, finding, unpacking, exits, stale>>

\* Bytes of the stream; anything else reads as some other number.
StreamBytes == [a \in DOMAIN memory[Here] |-> IF memory[Here][a].kind = "stream" THEN memory[Here][a].at ELSE 0]

\* The address of target is added to the longword at offset a of the group.
Patch(a, target) ==
  Write([b \in a .. a + 3 |-> IF b \in DOMAIN memory[Here] THEN [memory[Here][b] EXCEPT !.adds[target] = @ + 1]
                              ELSE Cell("junk", 0)])

\* Faulty: the group's own address is added.
FixupOwnBase ==
  /\ pc = "fixup"
  /\ StreamBytes[cursor] # End
  /\ site' = site + 2 * HalfDelta(StreamBytes, cursor + 1)
  /\ Patch(site', Here)
  /\ cursor' = cursor + GroupRecordLength(StreamBytes, cursor)
  /\ UNCHANGED <<parts, exec, pc, finding, g, input, todo, exits>>

Fixup ==
  /\ pc = "fixup"
  /\ StreamBytes[cursor] # End
  /\ site' = site + 2 * HalfDelta(StreamBytes, cursor + 1)
  /\ Patch(site', bases[StreamBytes[cursor] + 1])
  /\ cursor' = cursor + GroupRecordLength(StreamBytes, cursor)
  /\ UNCHANGED <<parts, exec, pc, finding, g, input, todo, exits>>

FixupDone ==
  /\ pc = "fixup"
  /\ StreamBytes[cursor] = End
  /\ Goto("clear")
  /\ UNCHANGED <<parts, exec, memory, finding, unpacking, exits, stale>>

ClearBss ==
  /\ pc = "clear"
  /\ todo > 0
  /\ LET start == Part.code + Part.bss - 4 * todo
     IN  Write([a \in start .. start + 3 |-> Cell("zero", 0)])
  /\ todo' = todo - 1
  /\ UNCHANGED <<parts, exec, pc, finding, g, input, cursor, site, exits>>

\* Faulty: no test for an empty BSS, and a counter that starts at 2^32.
NextGroupAfterBss ==
  /\ pc = "clear"
  /\ todo = 0
  /\ IF Part.bss = 0 THEN Goto("fail") /\ UNCHANGED g
     ELSE IF g + 1 \in Residents
     THEN g' = g + 1 /\ Goto("payload")
     ELSE Goto("publish") /\ UNCHANGED g
  /\ UNCHANGED <<parts, exec, memory, finding, input, cursor, site, todo, exits, stale>>

NextGroup ==
  /\ pc = "clear"
  /\ todo = 0
  /\ IF g + 1 \in Residents
     THEN g' = g + 1 /\ Goto("payload")
     ELSE Goto("publish") /\ UNCHANGED g
  /\ UNCHANGED <<parts, exec, memory, finding, input, cursor, site, todo, exits, stale>>

-----------------------------------------------------------------------------
(* Handing over.                                                           *)

\* Faulty: only version 37 itself clears the cache.
PublishOnly37 ==
  /\ pc = "publish"
  /\ stale' = IF exec = 37 THEN {} ELSE stale
  /\ Goto("detach")
  /\ UNCHANGED <<parts, exec, memory, finding, unpacking, exits>>

PublishCode ==
  /\ pc = "publish"
  /\ stale' = IF exec >= 37 THEN {} ELSE stale
  /\ Goto("detach")
  /\ UNCHANGED <<parts, exec, memory, finding, unpacking, exits>>

\* Faulty: the chain ends at the first resident, as it does in runtime.i.
DetachAll ==
  /\ pc = "detach"
  /\ link' = [link EXCEPT ![0] = None]
  /\ Goto("free")
  /\ UNCHANGED <<parts, exec, memory, finding, unpacking, scratch, loaded, stale>>

\* Faulty: FreeMem is called, not jumped to, and returns into the freed hunk.
FreeTooEarly ==
  /\ pc = "detach"
  /\ link' = [link EXCEPT ![0] = link[Scratch]]
  /\ scratch' = "free"
  /\ Goto("free")
  /\ UNCHANGED <<parts, exec, memory, finding, unpacking, loaded, stale>>

\* The first resident's link skips the scratch hunk.
DetachScratch ==
  /\ pc = "detach"
  /\ link' = [link EXCEPT ![0] = link[Scratch]]
  /\ Goto("free")
  /\ UNCHANGED <<parts, exec, memory, finding, unpacking, scratch, loaded, stale>>

\* FreeMem's own rts enters the program.
FreeScratch ==
  /\ pc = "free"
  /\ scratch' = IF scratch = "held" THEN "free" ELSE "corrupt"
  /\ Goto("program")
  /\ UNCHANGED <<parts, exec, memory, finding, unpacking, link, loaded, stale>>

Hang == pc = "fail" /\ UNCHANGED vars

-----------------------------------------------------------------------------
(* AmigaDOS and other tasks.                                               *)

\* Hunks that following the links from resident 0 reaches.
Chain ==
  LET within[n \in 0 .. Len(parts) + 1] ==
        IF n = 0 THEN {0} ELSE within[n - 1] \cup {link[h] : h \in within[n - 1] \ {None}}
  IN  within[Len(parts) + 1] \ {None}

UnLoadSeg ==
  /\ pc = "program"
  /\ Goto("exited")
  /\ loaded' = loaded \ Chain
  /\ scratch' = IF Scratch \notin Chain THEN scratch
                ELSE IF scratch = "held" THEN "free" ELSE "corrupt"
  /\ UNCHANGED <<parts, exec, memory, link, finding, unpacking, stale>>

OtherTaskAllocates ==
  /\ scratch = "free"
  /\ scratch' = "reused"
  /\ UNCHANGED <<parts, exec, pc, memory, link, finding, unpacking, loaded, stale>>

OtherTaskFrees ==
  /\ scratch = "reused"
  /\ scratch' = "free"
  /\ UNCHANGED <<parts, exec, pc, memory, link, finding, unpacking, loaded, stale>>

Run ==
  \/ Trampoline \/ FindFirst \/ FindNext \/ FoundAll
  \/ DisjointPayload \/ OverlapPayload \/ Depack \/ DepackFails
  \/ Fixup \/ FixupDone \/ ClearBss \/ NextGroup
  \/ PublishCode \/ DetachScratch \/ FreeScratch

Next == Run \/ Hang \/ UnLoadSeg \/ OtherTaskAllocates \/ OtherTaskFrees

\* The CPU keeps executing the dispatcher; programs need not end.
Spec == Init /\ [][Next]_vars /\ WF_vars(Run)

-----------------------------------------------------------------------------
(* Properties.                                                             *)

InScratch == {"find", "map", "payload", "depack", "fixup", "clear", "publish", "detach", "free"}

\* Every hunk is freed exactly once: scratch, which holds the dispatcher's
\* code, its descriptors and the payloads, after the last of them is used and
\* before the program starts, every resident when AmigaDOS unloads it.
FreedOnce ==
  /\ pc \in InScratch => scratch = "held"
  /\ scratch # "corrupt"
  /\ pc \in {"program", "exited"} => scratch # "held"
  /\ pc = "exited" => loaded = {}

\* No copy, output byte, patch or clear leaves the group's own allocation, and
\* the relocation loop reads stream bytes only, patches code only, and takes
\* for a target only what is one.
WritesStayInGroups ==
  /\ \A w \in stale : w[1] \in Residents /\ w[2] \in DOMAIN memory[w[1]]
  /\ pc = "fixup" =>
       /\ site = 0 \/ site + 4 <= Part.code
       /\ StreamBytes[cursor] \in Residents \cup {End}
       /\ LET length == IF StreamBytes[cursor] = End THEN 1 ELSE GroupRecordLength(StreamBytes, cursor)
          IN  \A a \in cursor .. cursor + length - 1 :
                a \in DOMAIN memory[Here] /\ memory[Here][a].kind = "stream"

\* The program starts on what AmigaDOS would have given it: every region
\* unpacked, its BSS clear, and at each site the address of the region the
\* pointer leads to, added once per relocation.  What it fetches is memory as
\* it is now, not a cache's, wherever Exec offers a way to make sure of that.
AddsAt(r, a) ==
  [t \in Residents |->
     Cardinality({n \in DOMAIN PartOf(r).sites :
                    PartOf(r).sites[n].target = t /\ a - PartOf(r).sites[n].offset \in 0 .. 3})]

Extent(r) == 0 .. PartOf(r).code + PartOf(r).bss - 1

ProgramImage ==
  [r \in Residents |-> [a \in Extent(r) |->
     IF a < PartOf(r).code THEN [kind |-> "code", at |-> a, adds |-> AddsAt(r, a)] ELSE Cell("zero", 0)]]

Fetched(r, a) == IF exec >= 37 /\ <<r, a>> \in stale THEN Cell("stale", a) ELSE memory[r][a]

Abstract == INSTANCE ProgramStart WITH
  residents <- Residents,
  image     <- ProgramImage,
  memory    <- IF pc = "program" THEN [r \in Residents |-> [a \in Extent(r) |-> Fetched(r, a)]] ELSE <<>>,
  state     <- IF pc = "program" THEN "running" ELSE IF pc = "exited" THEN "exited" ELSE "loading",
  owned     <- loaded \cup (IF scratch = "held" THEN {Scratch} ELSE {})

StartsProgram == Abstract!Spec

\* A file whose Depack needs no memory of its own gets to its program.
Starts == (pc = "trampoline" /\ \A n \in DOMAIN parts : ~parts[n].allocates) ~> pc = "program"
=============================================================================
