--------------------------- MODULE RuntimeProofs ---------------------------
(***************************************************************************)
(* Proofs about Runtime, for every set of files and every Exec version:    *)
(* how the scratch hunk and the instruction cache are handed over, for     *)
(* which what the bytes of final hold is not needed; then what they hold,  *)
(* up to the program's first instruction.                                  *)
(***************************************************************************)
EXTENDS Runtime, LayoutTheorems

-----------------------------------------------------------------------------
(* The handover.                                                           *)

\* The scratch hunk is held until FreeMem, and then someone else's for good;
\* nothing leads to it from hunk 0 any more by the time it is freed.
HeldUntilFreed ==
  /\ pc \notin {"program", "exited"} => scratch = "held"
  /\ pc \in {"program", "exited"} => scratch \in {"free", "reused"}
  /\ pc \in {"free", "program", "exited"} => chain = "none"

\* Nothing is written between clearing the cache and the program.
NothingStale == pc \in {"detach", "free", "program"} /\ exec >= 37 => stale = {}

Handover == HeldUntilFreed /\ NothingStale

-----------------------------------------------------------------------------

LEMMA InitHandover == Init => Handover
BY DEF Init, Handover, HeldUntilFreed, NothingStale

\* What the stub does before it hands over, it does with the scratch hunk
\* held, and it leaves the hunk alone.
LEMMA UnpackingHandover ==
  ASSUME Handover,
         \/ Trampoline \/ CheckHeader \/ DisjointPayload \/ OverlapPayload
         \/ Depack \/ DepackFails \/ RelocFixup \/ RelocFixupDone \/ ClearBss
  PROVE  Handover'
<1> USE DEF Handover, HeldUntilFreed, NothingStale
<1>1. CASE Trampoline
  BY <1>1 DEF Trampoline, Goto
<1>2. CASE CheckHeader
  BY <1>2 DEF CheckHeader, Goto
<1>3. CASE DisjointPayload
  BY <1>3 DEF DisjointPayload, Goto
<1>4. CASE OverlapPayload
  BY <1>4 DEF OverlapPayload, Goto
<1>5. CASE Depack
  BY <1>5 DEF Depack, Goto
<1>6. CASE DepackFails
  BY <1>6 DEF DepackFails, Goto
<1>7. CASE RelocFixup
  BY <1>7 DEF RelocFixup
<1>8. CASE RelocFixupDone
  BY <1>8 DEF RelocFixupDone, Goto
<1>9. CASE ClearBss
  BY <1>9 DEF ClearBss
<1>10. QED
  BY <1>1, <1>2, <1>3, <1>4, <1>5, <1>6, <1>7, <1>8, <1>9

LEMMA NextHandover == Handover /\ [Next]_vars => Handover'
<1> SUFFICES ASSUME Handover, [Next]_vars
             PROVE  Handover'
  OBVIOUS
<1>1. CASE \/ Trampoline \/ CheckHeader \/ DisjointPayload \/ OverlapPayload
           \/ Depack \/ DepackFails \/ RelocFixup \/ RelocFixupDone \/ ClearBss
  BY <1>1, UnpackingHandover
<1>2. CASE PublishCode
  BY <1>2 DEF PublishCode, Goto, Handover, HeldUntilFreed, NothingStale
<1>3. CASE DetachScratch
  BY <1>3 DEF DetachScratch, Goto, Handover, HeldUntilFreed, NothingStale
<1>4. CASE FreeScratch
  BY <1>4 DEF FreeScratch, Goto, Handover, HeldUntilFreed, NothingStale
<1>5. CASE UnLoadSeg
  BY <1>5 DEF UnLoadSeg, Goto, Handover, HeldUntilFreed, NothingStale
<1>6. CASE OtherTaskAllocates \/ OtherTaskFrees
  BY <1>6 DEF OtherTaskAllocates, OtherTaskFrees, Handover, HeldUntilFreed, NothingStale
<1>7. CASE Fail \/ UNCHANGED vars
  BY <1>7 DEF Fail, vars, Handover, HeldUntilFreed, NothingStale
<1>8. QED
  BY <1>1, <1>2, <1>3, <1>4, <1>5, <1>6, <1>7 DEF Next, Run

LEMMA HandoverInvariant == Spec => []Handover
BY InitHandover, NextHandover, PTL DEF Spec

-----------------------------------------------------------------------------

\* None of the stub's instructions is executed in memory it has given back
\* (runtime.i:144-159).
THEOREM ScratchOutlivesStub == Spec => []NoUseAfterFree
<1>1. Handover => NoUseAfterFree
  BY DEF Handover, HeldUntilFreed, NoUseAfterFree, InScratch
<1>2. QED
  BY <1>1, HandoverInvariant, PTL

\* The scratch hunk is freed by the stub, and not again by UnLoadSeg, whatever
\* other tasks do with it in between.
THEOREM ScratchFreedOnce == Spec => []FreedOnce
<1>1. Handover => FreedOnce
  BY DEF Handover, HeldUntilFreed, FreedOnce
<1>2. QED
  BY <1>1, HandoverInvariant, PTL

\* From version 37 of Exec on, the program starts with a clean cache.
THEOREM CacheClean == Spec => []CodePublished
<1>1. Handover => CodePublished
  BY DEF Handover, NothingStale, CodePublished
<1>2. QED
  BY <1>1, HandoverInvariant, PTL

-----------------------------------------------------------------------------
(* What a file says of itself.                                             *)

\* The output of Depack and the BSS fit hunk 0 in either layout, and in the
\* overlapping one so does the payload, where it was loaded and where it goes.
LEMMA FileIs ==
  ASSUME file \in Files
  PROVE  /\ file.code \in Nat /\ file.bss \in Nat /\ file.code % 4 = 0 /\ file.bss % 4 = 0
         /\ file.payload \in Nat \ {0} /\ file.margin \in Nat /\ file.overlap \in BOOLEAN
         /\ AreSites(file.sites) /\ Len(file.sites) \in Nat
         /\ \A n \in 1 .. Len(file.sites) : file.sites[n] \in Nat /\ file.sites[n] + 4 <= file.code
         /\ file.stream = EncodeRelocStream(file.sites)
         /\ Len(file.stream) \in Nat \ {0}
         /\ Image \in Images
<1>1. IsFile(file)
  BY FilesAssumption
<1>2. AreSites(file.sites)
  BY <1>1 DEF IsFile, AreSites
<1>3. file.stream = EncodeRelocStream(file.sites)
  BY <1>1 DEF IsFile
<1>4. Len(file.sites) \in Nat
  BY <1>2 DEF AreSites
<1>5. Len(file.stream) \in Nat \ {0}
  <2>1. Len(file.sites) \in 0 .. Len(file.sites)
    BY <1>4
  <2>2. Offset(file.sites, Len(file.sites)) \in Nat /\ Len(file.stream) = Offset(file.sites, Len(file.sites)) + 1
    BY <1>2, <1>3, <2>1, StreamTellsSites
  <2>3. QED
    BY <2>2
<1>6. Image \in Images
  BY <1>1, <1>5 DEF IsFile, Image, Images
<1>7. /\ file.code \in Nat /\ file.bss \in Nat /\ file.code % 4 = 0 /\ file.bss % 4 = 0
      /\ file.payload \in Nat \ {0} /\ file.margin \in Nat /\ file.overlap \in BOOLEAN
  BY <1>1 DEF IsFile
<1>8. \A n \in 1 .. Len(file.sites) : file.sites[n] \in Nat /\ file.sites[n] + 4 <= file.code
  BY <1>1, SMTT(30) DEF IsFile
<1>9. QED
  BY <1>2, <1>3, <1>4, <1>5, <1>6, <1>7, <1>8

LEMMA HunkIs ==
  ASSUME file \in Files
  PROVE  /\ AllocatedSize \in Nat
         /\ file.code + Len(file.stream) <= AllocatedSize
         /\ file.code + file.bss <= AllocatedSize
         /\ DepackedSize(Image) = file.code + Len(file.stream)
         /\ FileHeader.code_data_size = file.code /\ FileHeader.bss_size = file.bss
         /\ file.overlap =>
              LET offset == OverlapPayloadOffset(FileHeader)
              IN  /\ offset \in Nat /\ TrampolineSize \in Nat /\ Align4(file.payload) \in Nat
                  /\ file.payload <= Align4(file.payload)
                  /\ offset + Align4(file.payload) <= AllocatedSize
                  /\ TrampolineSize + Align4(file.payload) <= AllocatedSize
<1>1. Image \in Images /\ file.payload \in Nat /\ file.margin \in Nat /\ file.overlap \in BOOLEAN
  BY FileIs
<1>2. Image.code = file.code /\ Image.bss = file.bss /\ Image.stream = Len(file.stream)
  BY DEF Image
<1>3. DepackedSize(Image) = file.code + Len(file.stream)
  BY <1>2 DEF DepackedSize
<1>4. FileHeader.code_data_size = file.code /\ FileHeader.bss_size = file.bss
  BY <1>2 DEF FileHeader, Header
<1>5. /\ ResidentTailSize(Image) \in Nat
      /\ file.code + Len(file.stream) <= ResidentTailSize(Image)
      /\ file.code + file.bss <= ResidentTailSize(Image)
  BY <1>1, <1>2, <1>3, ResidentTailFacts
<1>6. TrampolineSize \in Nat /\ Align4(TrampolineSize) \in Nat
  BY LayoutAssumption, Align4Rounds
<1>7. AllocatedSize \in Nat /\ ResidentTailSize(Image) <= AllocatedSize
  <2>1. CASE file.overlap
    BY <1>1, <2>1, AllocatedSizeCovers, LayoutAssumption DEF AllocatedSize
  <2>2. CASE ~file.overlap
    BY <1>5, <1>6, <2>2, LargerIsUpperBound DEF AllocatedSize, Hunk0Size
  <2>3. QED
    BY <2>1, <2>2
<1>8. ASSUME file.overlap
      PROVE  LET offset == OverlapPayloadOffset(FileHeader)
             IN  /\ offset \in Nat /\ Align4(file.payload) \in Nat /\ file.payload <= Align4(file.payload)
                 /\ offset + Align4(file.payload) <= AllocatedSize
                 /\ TrampolineSize + Align4(file.payload) <= AllocatedSize
  <2>1. FileHeader = Header(Image, file.payload, file.margin)
    BY <1>8 DEF FileHeader
  <2>2. AllocatedSize = OverlapAllocatedSize(TrampolineSize, file.payload, file.margin, Hunk0Size(Image))
    BY <1>8 DEF AllocatedSize
  <2>3. QED
    BY <1>1, <2>1, <2>2, PayloadOffsetIsSafe, AllocatedSizeCovers, Align4Rounds, LayoutAssumption
<1>9. QED
  <2>1. /\ file.code + Len(file.stream) <= AllocatedSize
        /\ file.code + file.bss <= AllocatedSize
    <3>1. file.code \in Nat /\ file.bss \in Nat /\ Len(file.stream) \in Nat
      BY FileIs
    <3>2. QED
      BY <1>5, <1>7, <3>1
  <2>2. QED
    BY <1>3, <1>4, <1>6, <1>7, <1>8, <2>1

-----------------------------------------------------------------------------
(* The inductive invariant: what final holds.                              *)

Sites == Len(file.sites)

\* How often the first m sites' longwords include the byte at a.
Hits(m, a)    == {n \in 1 .. m : a \in file.sites[n] .. file.sites[n] + 3}
Covered(m, a) == Cardinality(Hits(m, a))

PatchedUpTo(m) ==
  \A a \in 0 .. file.code - 1 : final[a] = [kind |-> "code", at |-> a, relocs |-> Covered(m, a)]

StreamIntact ==
  \A k \in 1 .. Len(file.stream) : final[file.code + k - 1] = Cell("stream", file.stream[k])

Shape ==
  /\ file \in Files
  /\ DOMAIN final = 0 .. AllocatedSize - 1
  /\ stale \subseteq DOMAIN final

AsLoaded ==
  pc \in {"trampoline", "start", "payload"} => \A a \in DOMAIN final : final[a] = LoadedCell(a)

Fed == pc = "depack" => PayloadAt(input)

\* RelocFixup has patched m sites, is at the last of them, and has the rest of
\* the stream before it.
Fixing ==
  pc = "fixup" =>
    /\ HasRelocs(Image) /\ todo = file.bss \div 4
    /\ StreamIntact
    /\ \E m \in 0 .. Sites :
         /\ cursor = file.code + Offset(file.sites, m)
         /\ site = IF m = 0 THEN 0 ELSE file.sites[m]
         /\ PatchedUpTo(m)

Fixed ==
  pc \in {"clear", "detach", "free", "program"} =>
    /\ PatchedUpTo(Sites)
    /\ todo \in 0 .. file.bss \div 4
    /\ \A a \in file.code .. file.code + file.bss - 4 * todo - 1 : final[a] = Cell("zero", 0)
    /\ pc # "clear" => todo = 0

Contents == Shape /\ AsLoaded /\ Fed /\ Fixing /\ Fixed

LEMMA InitContents == Init => Contents
<1> SUFFICES ASSUME Init
             PROVE  Contents
  OBVIOUS
<1>1. Shape
  BY DEF Init, Shape
<1>2. AsLoaded
  BY DEF Init, AsLoaded
<1>3. QED
  BY <1>1, <1>2 DEF Init, Contents, Fed, Fixing, Fixed

\* Writes change no more than the cells written.
LEMMA WriteIs ==
  ASSUME NEW cells, Write(cells)
  PROVE  /\ DOMAIN final' = DOMAIN final
         /\ \A a \in DOMAIN final : final'[a] = IF a \in DOMAIN cells THEN cells[a] ELSE final[a]
         /\ stale' = stale \cup DOMAIN cells
BY DEF Write

LEMMA ShapeKept ==
  ASSUME Shape, NEW cells, Write(cells), DOMAIN cells \subseteq 0 .. AllocatedSize - 1, UNCHANGED file
  PROVE  Shape'
<1>1. AllocatedSize' = AllocatedSize
  BY DEF AllocatedSize, Image
<1>2. DOMAIN final' = DOMAIN final /\ stale' = stale \cup DOMAIN cells
  BY WriteIs
<1>3. QED
  BY <1>1, <1>2 DEF Shape

LEMMA OverlapPayloadContents == Contents /\ OverlapPayload => Contents'
<1> SUFFICES ASSUME Contents, OverlapPayload
             PROVE  Contents'
  OBVIOUS
<1> DEFINE offset == OverlapPayloadOffset(FileHeader)
           moved == Align4(file.payload)
           cells == [a \in offset .. offset + moved - 1 |-> final[a - offset + TrampolineSize]]
<1>1. /\ Shape /\ UNCHANGED file /\ file.overlap /\ pc = "payload" /\ pc' = "depack"
      /\ Write(cells) /\ input' = [hunk |-> "final", at |-> offset]
  BY DEF Contents, OverlapPayload, Goto
<1>2. \A a \in DOMAIN final : final[a] = LoadedCell(a)
  BY <1>1 DEF Contents, AsLoaded
<1>3. /\ offset \in Nat /\ TrampolineSize \in Nat /\ moved \in Nat /\ AllocatedSize \in Nat
      /\ file.payload <= moved /\ file.payload \in Nat
      /\ offset + moved <= AllocatedSize
      /\ TrampolineSize + moved <= AllocatedSize
  BY <1>1, HunkIs, FileIs DEF Shape
<1>4. DOMAIN cells = offset .. offset + moved - 1 /\ \A a \in DOMAIN cells : cells[a] = final[a - offset + TrampolineSize]
  OBVIOUS
<1> HIDE DEF offset, moved, cells
<1>5. DOMAIN final = 0 .. AllocatedSize - 1
  BY <1>1 DEF Shape
<1>6. Shape'
  <2>1. DOMAIN cells \subseteq 0 .. AllocatedSize - 1
    BY <1>3, <1>4
  <2>2. QED
    BY <1>1, <2>1, ShapeKept
<1>7. ASSUME NEW k \in 0 .. file.payload - 1
      PROVE  offset + k \in DOMAIN final' /\ final'[offset + k] = Cell("payload", k)
  <2>1. offset + k \in DOMAIN final /\ offset + k \in DOMAIN cells
    BY <1>3, <1>4, <1>5
  <2>2. DOMAIN final' = DOMAIN final /\ final'[offset + k] = cells[offset + k]
    BY <1>1, <2>1, WriteIs
  <2>3. cells[offset + k] = final[k + TrampolineSize] /\ k + TrampolineSize \in DOMAIN final
    <3> DEFINE a == offset + k
    <3>1. a \in DOMAIN cells /\ a - offset + TrampolineSize = k + TrampolineSize
      BY <1>3, <2>1
    <3>2. k + TrampolineSize \in DOMAIN final
      BY <1>3, <1>5
    <3> HIDE DEF a
    <3>3. cells[a] = final[k + TrampolineSize]
      BY <1>4, <3>1
    <3>4. QED
      BY <3>2, <3>3 DEF a
  <2>4. LoadedCell(k + TrampolineSize) = Cell("payload", k)
    <3> DEFINE a == k + TrampolineSize
    <3>1. a \in TrampolineSize .. TrampolineSize + file.payload - 1 /\ a - TrampolineSize = k
      BY <1>3
    <3> HIDE DEF a
    <3>2. LoadedCell(a) = Cell("payload", k)
      BY <1>1, <3>1 DEF LoadedCell
    <3>3. QED
      BY <3>2 DEF a
  <2>5. QED
    BY <1>2, <2>1, <2>2, <2>3, <2>4
<1>8. PayloadAt(input)'
  <2>1. input'.hunk # "scratch" /\ input'.at = offset /\ file' = file
    BY <1>1
  <2>2. QED
    BY <1>7, <2>1 DEF PayloadAt, Cell
<1>9. QED
  BY <1>1, <1>6, <1>8 DEF Contents, AsLoaded, Fed, Fixing, Fixed

LEMMA CoveredNone == \A a : Covered(0, a) = 0
<1>1. \A a : {n \in 1 .. 0 : a \in file.sites[n] .. file.sites[n] + 3} = {}
  OBVIOUS
<1>2. QED
  BY <1>1, FS_EmptySet DEF Covered, Hits

\* A file without sites has the shortest stream.
LEMMA NoSites ==
  ASSUME file \in Files, ~HasRelocs(Image)
  PROVE  Sites = 0
<1>1. AreSites(file.sites) /\ Sites \in Nat /\ file.stream = EncodeRelocStream(file.sites)
  BY FileIs DEF Sites
<1>2. Len(file.stream) <= 1
  BY FileIs DEF HasRelocs, Image
<1>3. SUFFICES ASSUME Sites # 0
               PROVE  FALSE
  OBVIOUS
<1>4. 0 \in 0 .. Sites - 1 /\ 1 \in 0 .. Sites
  BY <1>1, <1>3
<1> DEFINE length == RecordLength(file.stream, Offset(file.sites, 0) + 1)
<1>5. Offset(file.sites, 0) = 0 /\ Offset(file.sites, 1) < Len(file.stream) /\ Offset(file.sites, 1) \in Nat
  BY <1>1, <1>4, StreamTellsSites DEF Sites
<1>6. Offset(file.sites, 0 + 1) = Offset(file.sites, 0) + length
  BY <1>1, <1>4, StreamTellsSites DEF Sites
<1>7. length \in {1, 5}
  BY DEF RecordLength
<1> HIDE DEF length
<1>8. Offset(file.sites, 1) >= 1
  BY <1>5, <1>6, <1>7
<1>9. Len(file.stream) \in Nat
  BY FileIs
<1>10. QED
  BY <1>2, <1>5, <1>8, <1>9

LEMMA DepackContents == Contents /\ Depack => Contents'
<1> SUFFICES ASSUME Contents, Depack
             PROVE  Contents'
  OBVIOUS
<1> DEFINE cells == [a \in 0 .. DepackedSize(Image) - 1 |-> Output(a)]
<1>1. Shape /\ pc = "depack" /\ UNCHANGED file /\ PayloadAt(input)
  BY DEF Contents, Depack, Fed
<1>2. /\ Write(cells) /\ cursor' = file.code /\ site' = 0 /\ todo' = file.bss \div 4
      /\ pc' = IF HasRelocs(Image) THEN "fixup" ELSE "clear"
  BY <1>1, HunkIs DEF Depack, Goto, Shape
<1>3. /\ file.code \in Nat /\ file.bss \in Nat /\ Len(file.stream) \in Nat /\ AllocatedSize \in Nat /\ Sites \in Nat
      /\ file.code + Len(file.stream) <= AllocatedSize /\ DepackedSize(Image) = file.code + Len(file.stream)
  BY <1>1, FileIs, HunkIs DEF Shape, Sites
<1>4. DOMAIN cells = 0 .. file.code + Len(file.stream) - 1 /\ \A a \in DOMAIN cells : cells[a] = Output(a)
  BY <1>3
<1> HIDE DEF cells
<1>5. Shape'
  <2>1. DOMAIN cells \subseteq 0 .. AllocatedSize - 1
    BY <1>3, <1>4
  <2>2. QED
    BY <1>1, <1>2, <2>1, ShapeKept
<1>6. \A a \in 0 .. file.code + Len(file.stream) - 1 : final'[a] = Output(a)
  <2>1. DOMAIN final = 0 .. AllocatedSize - 1
    BY <1>1 DEF Shape
  <2>2. \A a \in DOMAIN final : final'[a] = IF a \in DOMAIN cells THEN cells[a] ELSE final[a]
    BY <1>2, WriteIs
  <2>3. \A a \in DOMAIN cells : a \in DOMAIN final
    BY <1>3, <1>4, <2>1
  <2>4. \A a \in DOMAIN cells : final'[a] = Output(a)
    BY <1>4, <2>2, <2>3
  <2>5. QED
    BY <1>4, <2>4
<1>7. PatchedUpTo(0)'
  <2> SUFFICES ASSUME NEW a \in 0 .. file.code - 1
               PROVE  final'[a] = [kind |-> "code", at |-> a, relocs |-> Covered(0, a)']
    BY <1>1 DEF PatchedUpTo
  <2>1. final'[a] = Output(a)
    BY <1>3, <1>6
  <2>2. Output(a) = [kind |-> "code", at |-> a, relocs |-> 0]
    BY <1>3 DEF Output, Cell
  <2>3. Covered(0, a)' = 0
    <3>1. Covered(0, a)' = Covered(0, a)
      BY <1>1 DEF Covered, Hits
    <3>2. QED
      BY <3>1, CoveredNone
  <2>4. QED
    BY <2>1, <2>2, <2>3
<1>8. StreamIntact'
  <2> SUFFICES ASSUME NEW k \in 1 .. Len(file.stream)
               PROVE  final'[file.code + k - 1] = Cell("stream", file.stream[k])
    BY <1>1 DEF StreamIntact, Cell
  <2> DEFINE a == file.code + k - 1
  <2>1. a \in 0 .. file.code + Len(file.stream) - 1 /\ ~(a < file.code) /\ a - file.code + 1 = k
    BY <1>3
  <2> HIDE DEF a
  <2>2. Output(a) = Cell("stream", file.stream[k])
    BY <2>1 DEF Output
  <2>3. final'[a] = Cell("stream", file.stream[k])
    BY <1>6, <2>1, <2>2
  <2>4. QED
    BY <2>3 DEF a
<1>9. HasRelocs(Image)' = HasRelocs(Image) /\ Sites' = Sites
  BY <1>1 DEF HasRelocs, Image, Sites
<1>10. CASE HasRelocs(Image)
  <2>1. Offset(file.sites, 0) = 0
    <3>1. AreSites(file.sites)
      BY <1>1, FileIs DEF Shape
    <3>2. QED
      BY <3>1, StreamTellsSites
  <2>2. 0 \in 0 .. Sites' /\ cursor' = file'.code + Offset(file'.sites, 0) /\ site' = 0
    BY <1>1, <1>2, <1>3, <1>9, <2>1
  <2>3. \E m \in 0 .. Sites' :
          /\ cursor' = file'.code + Offset(file'.sites, m)
          /\ site' = IF m = 0 THEN 0 ELSE file'.sites[m]
          /\ PatchedUpTo(m)'
    BY <1>7, <2>2
  <2>4. Fixing'
    BY <1>1, <1>2, <1>8, <1>9, <1>10, <2>3 DEF Fixing
  <2>5. QED
    BY <1>2, <1>5, <1>10, <2>4 DEF Contents, AsLoaded, Fed, Fixed
<1>11. CASE ~HasRelocs(Image)
  <2>1. Sites = 0
    BY <1>1, <1>11, NoSites DEF Shape
  <2>2. todo' \in 0 .. file.bss \div 4 /\ file.bss = 4 * (file.bss \div 4)
    BY <1>1, <1>2, FileIs DEF Shape
  <2>3. \A a \in file'.code .. file'.code + file'.bss - 4 * todo' - 1 : final'[a] = Cell("zero", 0)'
    <3>a. file.bss = 4 * todo'
      BY <1>2, <2>2
    <3>1. file.code + file.bss - 4 * todo' - 1 = file.code - 1
      BY <1>3, <3>a
    <3>2. file.code .. file.code - 1 = {}
      BY <1>3
    <3>3. \A a \in file.code .. file.code + file.bss - 4 * todo' - 1 : final'[a] = Cell("zero", 0)'
      BY <3>1, <3>2
    <3>4. QED
      BY <1>1, <3>3
  <2>4. Fixed'
    BY <1>1, <1>2, <1>7, <1>9, <1>11, <2>1, <2>2, <2>3 DEF Fixed
  <2>5. QED
    BY <1>2, <1>5, <1>11, <2>4 DEF Contents, AsLoaded, Fed, Fixing
<1>12. QED
  BY <1>10, <1>11

\* What RelocFixup finds at its cursor after m records.
LEMMA RecordAtCursor ==
  ASSUME Shape, StreamIntact, NEW m \in 0 .. Sites, cursor = file.code + Offset(file.sites, m)
  PROVE  /\ cursor \in DOMAIN final /\ final[cursor].kind = "stream"
         /\ m = Sites => StreamBytes[cursor] = End /\ RecordLength(StreamBytes, cursor) = 1
         /\ m < Sites =>
              /\ StreamBytes[cursor] # End
              /\ HalfDelta(StreamBytes, cursor) = Delta(file.sites, m + 1)
              /\ cursor + RecordLength(StreamBytes, cursor) = file.code + Offset(file.sites, m + 1)
         /\ \A k \in cursor .. cursor + RecordLength(StreamBytes, cursor) - 1 :
              k \in DOMAIN final /\ final[k].kind = "stream"
<1> DEFINE s == file.stream
           o == Offset(file.sites, m)
<1>1. /\ AreSites(file.sites) /\ s = EncodeRelocStream(file.sites) /\ Sites = Len(file.sites) /\ Sites \in Nat
      /\ Len(s) \in Nat /\ file.code \in Nat /\ AllocatedSize \in Nat
      /\ file.code + Len(s) <= AllocatedSize /\ DOMAIN final = 0 .. AllocatedSize - 1
  BY FileIs, HunkIs DEF Shape, Sites
<1>2. o \in Nat /\ o < Len(s) /\ Len(s) = Offset(file.sites, Sites) + 1 /\ s[Len(s)] = End
  BY <1>1, StreamTellsSites
<1>3. m < Sites =>
        /\ s[o + 1] # End
        /\ HalfDelta(s, o + 1) = Delta(file.sites, m + 1)
        /\ Offset(file.sites, m + 1) = o + RecordLength(s, o + 1)
        /\ Offset(file.sites, m + 1) < Len(s)
  <2> SUFFICES ASSUME m < Sites
               PROVE  /\ s[o + 1] # End
                      /\ HalfDelta(s, o + 1) = Delta(file.sites, m + 1)
                      /\ Offset(file.sites, m + 1) = o + RecordLength(s, o + 1)
                      /\ Offset(file.sites, m + 1) < Len(s)
    OBVIOUS
  <2>1. m \in 0 .. Sites - 1 /\ m + 1 \in 0 .. Sites
    BY <1>1
  <2>2. QED
    BY <1>1, <2>1, StreamTellsSites
<1> HIDE DEF s, o
<1>4. \A k \in 1 .. Len(s) :
        LET a == file.code + k - 1
        IN  a \in DOMAIN final /\ final[a] = Cell("stream", s[k])
  <2>1. \A k \in 1 .. Len(s) : file.code + k - 1 \in 0 .. AllocatedSize - 1
    BY <1>1
  <2>2. QED
    BY <1>1, <2>1 DEF StreamIntact, s
<1>5. ASSUME NEW k \in 1 .. Len(s)
      PROVE  LET a == file.code + k - 1
             IN  a \in DOMAIN final /\ final[a].kind = "stream" /\ StreamBytes[a] = s[k]
  <2> DEFINE a == file.code + k - 1
  <2>1. a \in DOMAIN final /\ final[a] = Cell("stream", s[k])
    BY <1>4
  <2> HIDE DEF a
  <2>2. final[a].kind = "stream" /\ final[a].at = s[k]
    BY <2>1 DEF Cell
  <2>3. StreamBytes[a] = s[k]
    BY <2>1, <2>2 DEF StreamBytes
  <2>4. QED
    BY <2>1, <2>2, <2>3 DEF a
<1> DEFINE length == RecordLength(s, o + 1)
<1>6. length \in {1, 5} /\ (s[o + 1] = End => length = 1)
  BY RadixAssumption DEF RecordLength, End, Escape
<1>7. m = Sites => s[o + 1] = End
  BY <1>2 DEF o
<1>8. o + length <= Len(s)
  <2>1. CASE m = Sites
    BY <1>2, <1>6, <1>7, <2>1
  <2>2. CASE m # Sites
    <3>1. m < Sites
      BY <1>1, <2>2
    <3> HIDE DEF length
    <3>2. o + length < Len(s)
      BY <1>3, <3>1 DEF length
    <3>3. QED
      BY <1>1, <1>2, <1>6, <3>2
  <2>3. QED
    BY <2>1, <2>2
<1> HIDE DEF length
<1>9. \A k \in 0 .. length - 1 :
        /\ cursor + k \in DOMAIN final /\ final[cursor + k].kind = "stream"
        /\ StreamBytes[cursor + k] = s[(o + 1) + k]
  <2> SUFFICES ASSUME NEW k \in 0 .. length - 1
               PROVE  /\ cursor + k \in DOMAIN final /\ final[cursor + k].kind = "stream"
                      /\ StreamBytes[cursor + k] = s[(o + 1) + k]
    OBVIOUS
  <2> DEFINE j == (o + 1) + k
  <2>1. j \in 1 .. Len(s)
    BY <1>1, <1>2, <1>6, <1>8
  <2>2. file.code + j - 1 = cursor + k
    BY <1>1, <1>2, <1>6, SMTT(30) DEF o
  <2> HIDE DEF j
  <2>3. LET a == file.code + j - 1
        IN  a \in DOMAIN final /\ final[a].kind = "stream" /\ StreamBytes[a] = s[j]
    BY <1>5, <2>1
  <2>4. cursor + k \in DOMAIN final /\ final[cursor + k].kind = "stream" /\ StreamBytes[cursor + k] = s[j]
    BY <2>2, <2>3
  <2>5. QED
    BY <2>4 DEF j
<1> DEFINE at == o + 1
<1>a. at \in Int /\ cursor \in Int /\ cursor = file.code + o
  BY <1>1, <1>2 DEF o
<1>b. RecordLength(s, at) = length
  BY DEF length
<1>c. \A k \in 0 .. length - 1 : StreamBytes[cursor + k] = s[at + k]
  BY <1>9
<1> HIDE DEF at
<1>10. /\ StreamBytes[cursor] = s[o + 1]
       /\ RecordLength(StreamBytes, cursor) = length
       /\ HalfDelta(StreamBytes, cursor) = HalfDelta(s, o + 1)
  <2>1. /\ StreamBytes[cursor] = s[at]
        /\ RecordLength(StreamBytes, cursor) = RecordLength(s, at)
        /\ HalfDelta(StreamBytes, cursor) = HalfDelta(s, at)
    <3>1. \A k \in 0 .. RecordLength(s, at) - 1 : StreamBytes[cursor + k] = s[at + k]
      BY <1>b, <1>c
    <3>2. QED
      BY <1>a, <3>1, RecordElsewhere
  <2>2. QED
    BY <1>b, <2>1 DEF at
<1>11. \A k \in cursor .. cursor + RecordLength(StreamBytes, cursor) - 1 :
         k \in DOMAIN final /\ final[k].kind = "stream"
  <2> SUFFICES ASSUME NEW k \in cursor .. cursor + length - 1
               PROVE  k \in DOMAIN final /\ final[k].kind = "stream"
    BY <1>10
  <2> DEFINE i == k - cursor
  <2>1. i \in 0 .. length - 1 /\ cursor + i = k
    <3>1. \A b \in Int, n \in {1, 5} : \A j \in b .. b + n - 1 : j - b \in 0 .. n - 1 /\ b + (j - b) = j
      OBVIOUS
    <3>2. QED
      BY <1>6, <1>a, <3>1
  <2> HIDE DEF i
  <2>2. QED
    BY <1>9, <2>1
<1>12. cursor \in DOMAIN final /\ final[cursor].kind = "stream"
  <2>1. cursor \in cursor .. cursor + RecordLength(StreamBytes, cursor) - 1
    BY <1>6, <1>10, <1>a
  <2>2. QED
    BY <1>11, <2>1
<1>13. m < Sites => cursor + RecordLength(StreamBytes, cursor) = file.code + Offset(file.sites, m + 1)
  <2>1. m < Sites => Offset(file.sites, m + 1) = o + length
    BY <1>3 DEF length
  <2>2. cursor = file.code + o
    BY DEF o
  <2>3. QED
    BY <1>1, <1>2, <1>6, <1>10, <2>1, <2>2, SMTT(30)
<1>14. QED
  BY <1>3, <1>6, <1>7, <1>10, <1>11, <1>12, <1>13

LEMMA HitsAreFinite ==
  ASSUME NEW m \in Int, NEW a
  PROVE  IsFiniteSet(Hits(m, a)) /\ Cardinality(Hits(m, a)) \in Nat
<1>1. IsFiniteSet(1 .. m)
  BY 0 \in Int, 1 \in Int, FS_Interval
<1>2. Hits(m, a) \in SUBSET (1 .. m)
  BY DEF Hits
<1>3. IsFiniteSet(Hits(m, a))
  BY <1>1, <1>2, FS_Subset
<1>4. QED
  BY <1>3, FS_CardinalityType

LEMMA CoveredNext ==
  ASSUME file \in Files, NEW m \in 0 .. Sites - 1, NEW a
  PROVE  Covered(m + 1, a) = Covered(m, a) + IF a \in file.sites[m + 1] .. file.sites[m + 1] + 3 THEN 1 ELSE 0
<1> DEFINE Hit(n) == a \in file.sites[n] .. file.sites[n] + 3
           hits == Hits(m, a)
<1>1. Sites \in Nat /\ m \in Nat
  BY FileIs DEF Sites
<1>2. hits \subseteq 1 .. m
  BY DEF Hits
<1>3. IsFiniteSet(hits) /\ Cardinality(hits) \in Nat
  BY <1>1, HitsAreFinite
<1>4. Covered(m, a) = Cardinality(hits) /\ Covered(m + 1, a) = Cardinality(Hits(m + 1, a))
  BY DEF Covered
<1>a. hits = {n \in 1 .. m : Hit(n)} /\ Hits(m + 1, a) = {n \in 1 .. m + 1 : Hit(n)}
  BY DEF Hits
<1> HIDE DEF Hit, hits
<1>5. Hits(m + 1, a) = IF Hit(m + 1) THEN hits \cup {m + 1} ELSE hits
  <2>1. 1 .. m + 1 = (1 .. m) \cup {m + 1}
    BY <1>1
  <2>2. QED
    BY <1>a, <2>1
<1>6. m + 1 \notin hits
  BY <1>1, <1>2
<1>7. Cardinality(hits \cup {m + 1}) = Cardinality(hits) + 1
  BY <1>3, <1>6, FS_AddElement
<1>8. Covered(m + 1, a) = Covered(m, a) + IF Hit(m + 1) THEN 1 ELSE 0
  <2>1. CASE Hit(m + 1)
    <3>1. Covered(m + 1, a) = Cardinality(hits \cup {m + 1})
      BY <1>4, <1>5, <2>1
    <3>2. QED
      BY <1>4, <1>7, <2>1, <3>1
  <2>2. CASE ~Hit(m + 1)
    <3>1. Covered(m + 1, a) = Cardinality(hits)
      BY <1>4, <1>5, <2>2
    <3>2. QED
      BY <1>3, <1>4, <2>2, <3>1
  <2>3. QED
    BY <2>1, <2>2
<1>9. QED
  BY <1>8 DEF Hit

LEMMA RelocFixupContents == Contents /\ RelocFixup => Contents'
<1> SUFFICES ASSUME Contents, RelocFixup
             PROVE  Contents'
  OBVIOUS
<1>1. Shape /\ pc = "fixup" /\ pc' = "fixup" /\ UNCHANGED <<file, todo>> /\ file \in Files
  BY DEF Contents, RelocFixup, Shape
<1>2. HasRelocs(Image) /\ todo = file.bss \div 4 /\ StreamIntact
  BY <1>1 DEF Contents, Fixing
<1>3. PICK m \in 0 .. Sites :
        /\ cursor = file.code + Offset(file.sites, m)
        /\ site = IF m = 0 THEN 0 ELSE file.sites[m]
        /\ PatchedUpTo(m)
  BY <1>1 DEF Contents, Fixing
<1>4. /\ AreSites(file.sites) /\ Sites = Len(file.sites) /\ Sites \in Nat
      /\ file.code \in Nat /\ AllocatedSize \in Nat /\ Len(file.stream) \in Nat
      /\ file.code + Len(file.stream) <= AllocatedSize
      /\ DOMAIN final = 0 .. AllocatedSize - 1
  BY <1>1, FileIs, HunkIs DEF Sites, Shape
<1>5. m \in 0 .. Sites - 1
  <2>1. m # Sites
    BY <1>1, <1>2, <1>3, RecordAtCursor DEF RelocFixup
  <2>2. QED
    BY <1>4, <2>1
<1> DEFINE patched == site + 2 * HalfDelta(StreamBytes, cursor)
           cells == [a \in patched .. patched + 3 |-> [final[a] EXCEPT !.relocs = @ + 1]]
<1>6. Write(cells) /\ site' = patched /\ cursor' = cursor + RecordLength(StreamBytes, cursor)
  BY DEF RelocFixup
<1>7. /\ HalfDelta(StreamBytes, cursor) = Delta(file.sites, m + 1)
      /\ cursor + RecordLength(StreamBytes, cursor) = file.code + Offset(file.sites, m + 1)
  <2>1. m < Sites
    BY <1>4, <1>5
  <2>2. QED
    BY <1>1, <1>2, <1>3, <2>1, RecordAtCursor
<1>8. patched = file.sites[m + 1] /\ m + 1 \in 1 .. Sites
  <2> DEFINE n == m + 1
  <2>1. n \in 1 .. Sites /\ n - 1 = m /\ (n = 1 <=> m = 0)
    BY <1>4, <1>5
  <2> HIDE DEF n
  <2>2. file.sites[n] = (IF n = 1 THEN 0 ELSE file.sites[n - 1]) + 2 * Delta(file.sites, n)
    BY <1>4, <2>1, DeltaIs
  <2>3. file.sites[n] = site + 2 * Delta(file.sites, n)
    BY <1>3, <2>1, <2>2
  <2>4. QED
    BY <1>7, <2>1, <2>3 DEF n
<1>9. patched \in Nat /\ patched + 4 <= file.code
  BY <1>1, <1>4, <1>8, FileIs
<1> HIDE DEF patched
<1>10. DOMAIN cells = patched .. patched + 3 /\ \A a \in DOMAIN cells : cells[a] = [final[a] EXCEPT !.relocs = @ + 1]
  OBVIOUS
<1> HIDE DEF cells
<1>11. Shape'
  <2>1. DOMAIN cells \subseteq 0 .. AllocatedSize - 1
    BY <1>4, <1>9, <1>10, SMTT(30)
  <2>2. QED
    BY <1>1, <1>6, <2>1, ShapeKept
<1>12. \A a \in 0 .. AllocatedSize - 1 : final'[a] = IF a \in DOMAIN cells THEN cells[a] ELSE final[a]
  BY <1>4, <1>6, WriteIs
<1>13. StreamIntact'
  <2> SUFFICES ASSUME NEW k \in 1 .. Len(file.stream)
               PROVE  final'[file.code + k - 1] = Cell("stream", file.stream[k])
    BY <1>1 DEF StreamIntact, Cell
  <2> DEFINE a == file.code + k - 1
  <2>a. a \in Int /\ file.code <= a /\ a < file.code + Len(file.stream)
    BY <1>4
  <2>b. DOMAIN cells = patched .. patched + 3
    BY <1>10
  <2> HIDE DEF a
  <2>1. a \in 0 .. AllocatedSize - 1 /\ a \notin DOMAIN cells
    BY <1>4, <1>9, <2>a, <2>b
  <2>2. final[a] = Cell("stream", file.stream[k])
    BY <1>2 DEF StreamIntact, a
  <2>3. final'[a] = Cell("stream", file.stream[k])
    BY <1>12, <2>1, <2>2
  <2>4. QED
    BY <2>3 DEF a
<1>14. PatchedUpTo(m + 1)'
  <2> SUFFICES ASSUME NEW a \in 0 .. file.code - 1
               PROVE  final'[a] = [kind |-> "code", at |-> a, relocs |-> Covered(m + 1, a)']
    BY <1>1 DEF PatchedUpTo
  <2>1. Covered(m + 1, a)' = Covered(m + 1, a)
    BY <1>1 DEF Covered, Hits
  <2>2. a \in 0 .. AllocatedSize - 1
    BY <1>4
  <2>3. final[a] = [kind |-> "code", at |-> a, relocs |-> Covered(m, a)]
    BY <1>3 DEF PatchedUpTo
  <2>4. CASE a \in DOMAIN cells
    <3>1. Covered(m + 1, a) = Covered(m, a) + 1
      BY <1>1, <1>5, <1>8, <1>10, <2>4, CoveredNext
    <3>2. cells[a] = [kind |-> "code", at |-> a, relocs |-> Covered(m, a) + 1]
      BY <1>10, <2>3, <2>4
    <3>3. QED
      BY <1>12, <2>1, <2>2, <2>4, <3>1, <3>2
  <2>5. CASE a \notin DOMAIN cells
    <3>a. Covered(m, a) \in Nat
      <4>1. m \in Int
        BY <1>4, <1>5
      <4>2. QED
        BY <4>1, HitsAreFinite DEF Covered
    <3>b. Covered(m + 1, a) = Covered(m, a) + 0
      BY <1>1, <1>5, <1>8, <1>10, <2>5, CoveredNext
    <3>1. Covered(m + 1, a) = Covered(m, a)
      BY <3>a, <3>b
    <3>2. QED
      BY <1>12, <2>1, <2>2, <2>3, <2>5, <3>1
  <2>6. QED
    BY <2>4, <2>5
<1>15. /\ m + 1 \in 0 .. Sites' /\ cursor' = file'.code + Offset(file'.sites, m + 1)
       /\ site' = IF m + 1 = 0 THEN 0 ELSE file'.sites[m + 1]
  <2>1. Sites' = Sites /\ m + 1 # 0 /\ m + 1 \in 0 .. Sites
    BY <1>1, <1>4, <1>5 DEF Sites
  <2>2. QED
    BY <1>1, <1>6, <1>7, <1>8, <2>1 DEF patched
<1>16. HasRelocs(Image)' /\ todo' = file'.bss \div 4
  BY <1>1, <1>2 DEF HasRelocs, Image
<1>17. Fixing'
  <2>1. \E k \in 0 .. Sites' :
          /\ cursor' = file'.code + Offset(file'.sites, k)
          /\ site' = IF k = 0 THEN 0 ELSE file'.sites[k]
          /\ PatchedUpTo(k)'
    BY <1>14, <1>15
  <2>2. QED
    BY <1>13, <1>16, <2>1 DEF Fixing
<1>18. QED
  BY <1>1, <1>11, <1>17 DEF Contents, AsLoaded, Fed, Fixed

LEMMA RelocFixupDoneContents == Contents /\ RelocFixupDone => Contents'
<1> SUFFICES ASSUME Contents, RelocFixupDone
             PROVE  Contents'
  OBVIOUS
<1>1. /\ Shape /\ pc = "fixup" /\ pc' = "clear" /\ UNCHANGED <<file, final, todo, stale>> /\ file \in Files
      /\ StreamBytes[cursor] = End
  BY DEF Contents, RelocFixupDone, Shape, Goto
<1>2. todo = file.bss \div 4 /\ StreamIntact
  BY <1>1 DEF Contents, Fixing
<1>3. PICK m \in 0 .. Sites :
        /\ cursor = file.code + Offset(file.sites, m)
        /\ PatchedUpTo(m)
  BY <1>1 DEF Contents, Fixing
<1>4. /\ Sites \in Nat /\ file.code \in Nat /\ file.bss \in Nat /\ file.bss % 4 = 0
  BY <1>1, FileIs DEF Sites
<1>5. m = Sites
  <2>1. ~(m < Sites)
    BY <1>1, <1>2, <1>3, RecordAtCursor
  <2>2. QED
    BY <1>4, <2>1
<1>6. Shape'
  BY <1>1 DEF Shape, AllocatedSize, Image
<1>7. PatchedUpTo(Sites)'
  <2>1. PatchedUpTo(Sites)
    BY <1>3, <1>5
  <2>2. QED
    BY <1>1, <2>1 DEF PatchedUpTo, Sites, Covered, Hits
<1>8. file.bss = 4 * todo /\ todo \in Nat
  BY <1>2, <1>4
<1>9. \A a \in file.code .. file.code + file.bss - 4 * todo - 1 : final[a] = Cell("zero", 0)
  <2>1. file.code + file.bss - 4 * todo - 1 = file.code - 1
    BY <1>4, <1>8
  <2>2. file.code .. file.code - 1 = {}
    BY <1>4
  <2>3. QED
    BY <2>1, <2>2
<1>10. todo' \in 0 .. file'.bss \div 4
  BY <1>1, <1>2, <1>8
<1>11. Fixed'
  BY <1>1, <1>7, <1>9, <1>10 DEF Fixed, Cell
<1>12. QED
  BY <1>1, <1>6, <1>11 DEF Contents, AsLoaded, Fed, Fixing

LEMMA ClearBssContents == Contents /\ ClearBss => Contents'
<1> SUFFICES ASSUME Contents, ClearBss
             PROVE  Contents'
  OBVIOUS
<1> DEFINE start == file.code + file.bss - 4 * todo
           cells == [a \in start .. start + 3 |-> Cell("zero", 0)]
<1>1. /\ Shape /\ pc = "clear" /\ pc' = "clear" /\ UNCHANGED file /\ file \in Files /\ todo' = todo - 1 /\ todo > 0
      /\ Write(cells)
  BY DEF Contents, ClearBss, Shape
<1>2. /\ PatchedUpTo(Sites)
      /\ todo \in 0 .. file.bss \div 4
      /\ \A a \in file.code .. start - 1 : final[a] = Cell("zero", 0)
  <2>1. Fixed /\ pc = "clear"
    BY DEF Contents, ClearBss
  <2>2. PatchedUpTo(Sites) /\ todo \in 0 .. file.bss \div 4
    BY <2>1 DEF Fixed
  <2>3. \A a \in file.code .. file.code + file.bss - 4 * todo - 1 : final[a] = Cell("zero", 0)
    BY <2>1 DEF Fixed
  <2>4. file.code + file.bss - 4 * todo - 1 = start - 1
    <3>1. file.code \in Int /\ file.bss \in Int /\ todo \in Int
      BY <1>1, <2>2, FileIs
    <3>2. QED
      BY <3>1
  <2>5. QED
    BY <2>2, <2>3, <2>4
<1>3. /\ file.code \in Nat /\ file.bss \in Nat /\ file.bss % 4 = 0 /\ AllocatedSize \in Nat
      /\ file.code + file.bss <= AllocatedSize /\ DOMAIN final = 0 .. AllocatedSize - 1
  BY <1>1, FileIs, HunkIs DEF Shape
<1>4. DOMAIN cells = start .. start + 3 /\ \A a \in DOMAIN cells : cells[a] = Cell("zero", 0)
  OBVIOUS
<1>5. start \in Nat /\ file.code <= start /\ start + 4 <= file.code + file.bss
  <2>1. \A c, b, t \in Nat : b % 4 = 0 /\ t > 0 /\ t <= b \div 4 =>
          /\ c + b - 4 * t \in Nat /\ c <= c + b - 4 * t /\ c + b - 4 * t + 4 <= c + b
    OBVIOUS
  <2>2. todo \in Nat /\ todo <= file.bss \div 4
    BY <1>2, <1>3
  <2>3. QED
    BY <1>1, <1>3, <2>1, <2>2
<1>6. file.code + file.bss - 4 * todo' = start + 4 /\ todo' \in 0 .. file.bss \div 4
  <2>1. todo \in Nat /\ file.bss \div 4 \in Nat
    BY <1>2, <1>3
  <2>2. QED
    BY <1>1, <1>2, <1>3, <2>1, SMTT(30)
<1> HIDE DEF start, cells
<1>7. Shape'
  <2>1. DOMAIN cells \subseteq 0 .. AllocatedSize - 1
    BY <1>3, <1>4, <1>5
  <2>2. QED
    BY <1>1, <2>1, ShapeKept
<1>8. \A a \in 0 .. AllocatedSize - 1 : final'[a] = IF a \in DOMAIN cells THEN cells[a] ELSE final[a]
  BY <1>1, <1>3, WriteIs
<1>9. PatchedUpTo(Sites)'
  <2> SUFFICES ASSUME NEW a \in 0 .. file.code - 1
               PROVE  final'[a] = [kind |-> "code", at |-> a, relocs |-> Covered(Sites, a)]
    BY <1>1 DEF PatchedUpTo, Covered, Hits, Sites
  <2>1. a \in 0 .. AllocatedSize - 1 /\ a \notin DOMAIN cells
    <3>1. DOMAIN cells = start .. start + 3
      BY <1>4
    <3>2. QED
      BY <1>3, <1>5, <3>1
  <2>2. QED
    BY <1>2, <1>8, <2>1 DEF PatchedUpTo
<1>10. \A a \in file'.code .. file'.code + file'.bss - 4 * todo' - 1 : final'[a] = Cell("zero", 0)
  <2>1. DOMAIN cells = start .. start + 3
    BY <1>4
  <2> SUFFICES ASSUME NEW a \in file.code .. start + 3
               PROVE  final'[a] = Cell("zero", 0)
    <3>1. file.code + file.bss - 4 * todo' - 1 = start + 3
      <4>1. \A c, b, u, y \in Int : c + b - u = y + 4 => c + b - u - 1 = y + 3
        OBVIOUS
      <4>2. start \in Int /\ file.code \in Int /\ file.bss \in Int /\ 4 * todo' \in Int
        BY <1>3, <1>5, <1>6
      <4>3. QED
        BY <1>6, <4>1, <4>2
    <3>2. QED
      BY <1>1, <3>1
  <2>2. a \in 0 .. AllocatedSize - 1 /\ (a \in DOMAIN cells \/ a \in file.code .. start - 1)
    BY <1>3, <1>5, <2>1
  <2>3. CASE a \in DOMAIN cells
    BY <1>4, <1>8, <2>2, <2>3
  <2>4. CASE a \notin DOMAIN cells
    <3>1. final[a] = Cell("zero", 0)
      BY <1>2, <2>2, <2>4
    <3>2. QED
      BY <1>8, <2>2, <2>4, <3>1
  <2>5. QED
    BY <2>3, <2>4
<1>11. Fixed'
  BY <1>1, <1>6, <1>9, <1>10 DEF Fixed, Cell
<1>12. QED
  BY <1>1, <1>7, <1>11 DEF Contents, AsLoaded, Fed, Fixing

\* The other steps leave final alone.
LEMMA StillContents ==
  ASSUME Contents, UNCHANGED <<file, final, stale>>
  PROVE  /\ Shape' /\ (PatchedUpTo(Sites) => PatchedUpTo(Sites)')
         /\ (\A a \in DOMAIN final : final[a] = LoadedCell(a)) => (\A a \in DOMAIN final : final[a] = LoadedCell(a))'
<1>1. Shape'
  BY DEF Contents, Shape, AllocatedSize, Image
<1>2. PatchedUpTo(Sites) => PatchedUpTo(Sites)'
  BY DEF PatchedUpTo, Sites, Covered, Hits
<1>3. \A a : LoadedCell(a)' = LoadedCell(a)
  BY DEF LoadedCell, Cell
<1>4. QED
  BY <1>1, <1>2, <1>3

LEMMA BeforeDepackContents ==
  Contents /\ (Trampoline \/ CheckHeader \/ DisjointPayload \/ DepackFails) => Contents'
<1> SUFFICES ASSUME Contents, Trampoline \/ CheckHeader \/ DisjointPayload \/ DepackFails
             PROVE  Contents'
  OBVIOUS
<1>1. UNCHANGED <<file, final, stale>>
  BY DEF Trampoline, CheckHeader, DisjointPayload, DepackFails
<1>2. Shape' /\ ((\A a \in DOMAIN final : final[a] = LoadedCell(a)) => (\A a \in DOMAIN final : final[a] = LoadedCell(a))')
  BY <1>1, StillContents
<1>3. CASE Trampoline
  BY <1>2, <1>3 DEF Trampoline, Goto, Contents, AsLoaded, Fed, Fixing, Fixed
<1>4. CASE CheckHeader
  BY <1>2, <1>4 DEF CheckHeader, Goto, Contents, AsLoaded, Fed, Fixing, Fixed
<1>5. CASE DisjointPayload
  <2>1. PayloadAt(input)'
    BY <1>5 DEF DisjointPayload, PayloadAt
  <2>2. QED
    BY <1>2, <1>5, <2>1 DEF DisjointPayload, Goto, Contents, AsLoaded, Fed, Fixing, Fixed
<1>6. CASE DepackFails
  BY <1>2, <1>6 DEF DepackFails, Goto, Contents, AsLoaded, Fed, Fixing, Fixed
<1>7. QED
  BY <1>3, <1>4, <1>5, <1>6

LEMMA AfterFixupContents ==
  Contents /\ (PublishCode \/ DetachScratch \/ FreeScratch) => Contents'
<1> SUFFICES ASSUME Contents, PublishCode \/ DetachScratch \/ FreeScratch
             PROVE  Contents'
  OBVIOUS
<1>1. /\ UNCHANGED <<file, final, todo>> /\ pc \in {"clear", "detach", "free"} /\ pc' \in {"detach", "free", "program"}
      /\ (pc = "clear" => todo = 0) /\ stale' \subseteq stale
  BY DEF PublishCode, DetachScratch, FreeScratch, Goto
<1>2. Shape'
  BY <1>1 DEF Contents, Shape, AllocatedSize, Image
<1>3. PatchedUpTo(Sites)'
  BY <1>1 DEF Contents, Fixed, PatchedUpTo, Sites, Covered, Hits
<1>4. todo' = 0 /\ todo' \in 0 .. file'.bss \div 4
  BY <1>1 DEF Contents, Fixed
<1>5. \A a \in file'.code .. file'.code + file'.bss - 4 * todo' - 1 : final'[a] = Cell("zero", 0)
  BY <1>1 DEF Contents, Fixed
<1>6. Fixed'
  BY <1>3, <1>4, <1>5 DEF Fixed, Cell
<1>7. QED
  BY <1>1, <1>2, <1>6 DEF Contents, AsLoaded, Fed, Fixing

LEMMA NextContents == Contents /\ [Next]_vars => Contents'
<1> SUFFICES ASSUME Contents, [Next]_vars
             PROVE  Contents'
  OBVIOUS
<1>1. CASE \/ Trampoline \/ CheckHeader \/ DisjointPayload \/ OverlapPayload
           \/ Depack \/ DepackFails
  BY <1>1, BeforeDepackContents, OverlapPayloadContents, DepackContents
<1>2. CASE \/ RelocFixup \/ RelocFixupDone \/ ClearBss \/ PublishCode \/ DetachScratch \/ FreeScratch
  BY <1>2, RelocFixupContents, RelocFixupDoneContents, ClearBssContents, AfterFixupContents
<1>3. CASE UnLoadSeg
  <2>1. UNCHANGED <<file, final, stale>> /\ pc' = "exited"
    BY <1>3 DEF UnLoadSeg, Goto
  <2>2. Shape'
    BY <2>1, StillContents
  <2>3. QED
    BY <2>1, <2>2 DEF Contents, AsLoaded, Fed, Fixing, Fixed
<1>4. CASE OtherTaskAllocates \/ OtherTaskFrees \/ Fail \/ UNCHANGED vars
  <2>1. UNCHANGED <<file, pc, final, input, cursor, site, todo, stale>>
    BY <1>4 DEF OtherTaskAllocates, OtherTaskFrees, Fail, vars
  <2>2. Shape'
    BY <2>1, StillContents
  <2>3. AsLoaded'
    BY <2>1, StillContents DEF Contents, AsLoaded
  <2>4. Fed'
    BY <2>1 DEF Contents, Fed, PayloadAt, Cell
  <2>5. Fixing'
    BY <2>1 DEF Contents, Fixing, HasRelocs, Image, StreamIntact, Cell, PatchedUpTo, Covered, Hits, Sites
  <2>6. Fixed'
    BY <2>1 DEF Contents, Fixed, Cell, PatchedUpTo, Covered, Hits, Sites
  <2>7. QED
    BY <2>2, <2>3, <2>4, <2>5, <2>6 DEF Contents
<1>5. QED
  BY <1>1, <1>2, <1>3, <1>4 DEF Next, Run

LEMMA ContentsInvariant == Spec => []Contents
BY InitContents, NextContents, PTL DEF Spec

-----------------------------------------------------------------------------
(* What follows from it.                                                   *)

\* A file with relocations has a site, and room for it.
LEMMA FirstSite ==
  ASSUME file \in Files, HasRelocs(Image)
  PROVE  Sites >= 1 /\ 4 <= file.code
<1>1. AreSites(file.sites) /\ Sites \in Nat /\ file.stream = EncodeRelocStream(file.sites) /\ Sites = Len(file.sites)
  BY FileIs DEF Sites
<1>2. Sites # 0
  <2>1. Len(file.stream) > 1
    BY DEF HasRelocs, Image
  <2>2. Len(file.stream) = Offset(file.sites, Sites) + 1 /\ Offset(file.sites, 0) = 0
    BY <1>1, StreamTellsSites
  <2>3. QED
    BY <2>1, <2>2
<1>3. 1 \in 1 .. Sites
  BY <1>1, <1>2
<1>4. file.sites[1] \in Nat /\ file.sites[1] + 4 <= file.code /\ file.code \in Nat
  BY <1>1, <1>3, FileIs
<1>5. QED
  BY <1>1, <1>2, <1>4

\* No copy, output byte, patch or clear leaves hunk 0's allocation, and the
\* fixup loop (runtime.i:172-206) reads nothing but the stream and patches
\* nothing but the code, however many sites there are and whatever their
\* distances.
THEOREM WritesStay == Spec => []WritesStayInFinal
<1>1. ASSUME Contents
      PROVE  WritesStayInFinal
  <2>1. stale \subseteq DOMAIN final /\ file \in Files
    BY <1>1 DEF Contents, Shape
  <2>2. ASSUME pc = "fixup"
        PROVE  /\ site + 4 <= file.code
               /\ \A k \in cursor .. cursor + RecordLength(StreamBytes, cursor) - 1 :
                    k \in DOMAIN final /\ final[k].kind = "stream"
    <3>1. Shape /\ StreamIntact /\ HasRelocs(Image)
      BY <1>1, <2>2 DEF Contents, Fixing
    <3>2. PICK m \in 0 .. Sites :
            /\ cursor = file.code + Offset(file.sites, m)
            /\ site = IF m = 0 THEN 0 ELSE file.sites[m]
      BY <1>1, <2>2 DEF Contents, Fixing
    <3>3. site + 4 <= file.code
      <4>1. CASE m = 0
        BY <2>1, <3>1, <3>2, <4>1, FirstSite
      <4>2. CASE m # 0
        <5>1. m \in 1 .. Len(file.sites)
          BY <2>1, <4>2, FileIs DEF Sites
        <5>2. QED
          BY <2>1, <3>2, <4>2, <5>1, FileIs
      <4>3. QED
        BY <4>1, <4>2
    <3>4. QED
      BY <3>1, <3>2, <3>3, RecordAtCursor
  <2>3. QED
    BY <2>1, <2>2 DEF WritesStayInFinal
<1>2. QED
  BY <1>1, ContentsInvariant, PTL

\* Once there is nothing left to clear, final begins with the program.
LEMMA FinalIsProgram ==
  ASSUME Contents, pc \in {"detach", "free", "program"}
  PROVE  [a \in 0 .. file.code + file.bss - 1 |-> final[a]] = ProgramImage
<1>1. /\ PatchedUpTo(Sites) /\ todo = 0 /\ file \in Files
      /\ \A a \in file.code .. file.code + file.bss - 4 * todo - 1 : final[a] = Cell("zero", 0)
  BY DEF Contents, Fixed, Shape
<1>2. file.code \in Nat /\ file.bss \in Nat /\ file.sites \in Seq(Nat)
  BY <1>1, FileIs DEF AreSites
<1>3. \A a \in file.code .. file.code + file.bss - 1 : final[a] = Cell("zero", 0)
  <2>1. file.code + file.bss - 4 * todo - 1 = file.code + file.bss - 1
    BY <1>1, <1>2
  <2>2. QED
    BY <1>1, <2>1
<1>4. \A a : Covering(a) = Covered(Sites, a)
  <2>1. DOMAIN file.sites = 1 .. Sites
    BY <1>2 DEF Sites
  <2>2. QED
    BY <2>1 DEF Covering, Covered, Hits
<1>5. ASSUME NEW a \in 0 .. file.code + file.bss - 1
      PROVE  final[a] = IF a < file.code THEN [kind |-> "code", at |-> a, relocs |-> Covering(a)] ELSE Cell("zero", 0)
  <2>1. CASE a < file.code
    <3>1. a \in 0 .. file.code - 1
      BY <1>2, <2>1
    <3>2. final[a] = [kind |-> "code", at |-> a, relocs |-> Covered(Sites, a)]
      BY <1>1, <3>1 DEF PatchedUpTo
    <3>3. QED
      BY <1>4, <2>1, <3>2
  <2>2. CASE ~(a < file.code)
    <3>1. a \in file.code .. file.code + file.bss - 1
      BY <1>2, <2>2
    <3>2. QED
      BY <1>3, <2>2, <3>1
  <2>3. QED
    BY <2>1, <2>2
<1>6. QED
  BY <1>5 DEF ProgramImage

LEMMA StartsInit == Init => Abstract!Init
BY DEF Init, Abstract!Init

\* The program begins with FreeMem's rts, and exits with UnLoadSeg; all other
\* steps are steps of getting there.
LEMMA StartsNext == Contents /\ Handover /\ [Next]_vars => [Abstract!Next]_Abstract!startVars
<1> SUFFICES ASSUME Contents, Handover, [Next]_vars
             PROVE  [Abstract!Next]_Abstract!startVars
  OBVIOUS
<1>1. CASE FreeScratch
  <2>1. /\ UNCHANGED <<file, final>> /\ pc = "free" /\ pc' = "program" /\ scratch = "held" /\ scratch' = "free"
    BY <1>1 DEF FreeScratch, Goto, Handover, HeldUntilFreed
  <2>2. ProgramImage' = ProgramImage
    BY <2>1 DEF ProgramImage, Covering, Cell
  <2>3. [a \in 0 .. file'.code + file'.bss - 1 |-> final'[a]] = ProgramImage
    BY <2>1, FinalIsProgram
  <2>4. Abstract!Begin
    BY <2>1, <2>2, <2>3 DEF Abstract!Begin
  <2>5. QED
    BY <2>4 DEF Abstract!Next
<1>2. CASE UnLoadSeg
  <2>1. UNCHANGED <<file, final>> /\ pc = "program" /\ pc' = "exited" /\ scratch' # "held"
    BY <1>2 DEF UnLoadSeg, Goto, Handover, HeldUntilFreed
  <2>2. ProgramImage' = ProgramImage
    BY <2>1 DEF ProgramImage, Covering, Cell
  <2>3. Abstract!Exit
    BY <2>1, <2>2 DEF Abstract!Exit
  <2>4. QED
    BY <2>3 DEF Abstract!Next
<1>3. ASSUME UNCHANGED file, scratch' = "held" <=> scratch = "held",
             \/ pc' \notin {"program", "exited"} /\ pc \notin {"program", "exited"}
             \/ UNCHANGED <<pc, final>>
      PROVE  [Abstract!Next]_Abstract!startVars
  <2>1. ProgramImage' = ProgramImage
    BY <1>3 DEF ProgramImage, Covering, Cell
  <2>2. UNCHANGED Abstract!startVars
    BY <1>3, <2>1 DEF Abstract!startVars
  <2>3. QED
    BY <2>2
<1>4. CASE \/ Trampoline \/ CheckHeader \/ DisjointPayload \/ OverlapPayload \/ Depack \/ DepackFails
  BY <1>3, <1>4 DEF Trampoline, CheckHeader, DisjointPayload, OverlapPayload, Depack, DepackFails, Goto
<1>5. CASE \/ RelocFixup \/ RelocFixupDone \/ ClearBss \/ PublishCode \/ DetachScratch
  BY <1>3, <1>5 DEF RelocFixup, RelocFixupDone, ClearBss, PublishCode, DetachScratch, Goto
<1>6. CASE OtherTaskAllocates \/ OtherTaskFrees \/ Fail \/ UNCHANGED vars
  BY <1>3, <1>6 DEF OtherTaskAllocates, OtherTaskFrees, Fail, vars
<1>7. QED
  BY <1>1, <1>2, <1>4, <1>5, <1>6 DEF Next, Run

\* A packed executable does what the original one did: if its program starts,
\* it starts on its relocated code and data and its zeroed BSS, owning no
\* other memory, and what it owns is freed when it exits (Start of runtime.i).
THEOREM ProgramStartsRight == Spec => StartsProgram
<1>1. Spec => Init /\ [][Next]_vars
  BY DEF Spec
<1>2. QED
  BY <1>1, StartsInit, StartsNext, ContentsInvariant, HandoverInvariant, PTL DEF StartsProgram, Abstract!Spec
=============================================================================
