------------------------------- MODULE Flatten -------------------------------
(***************************************************************************)
(* src/flatten.zig: one executable's hunks become one image, every         *)
(* relocation is folded into the image as if it started at address 0, and  *)
(* the places that still need the image's address become the relocation    *)
(* stream.  Each loop of flatten() is an action, one turn a step.          *)
(***************************************************************************)
EXTENDS FlatLayout, RelocStream, FiniteSets

CONSTANTS
  HunkFiles,   \* what hunk.zig may have parsed
  Bases        \* addresses the image may be loaded at

ASSUME HunkFilesAssumption ==
  \A f \in HunkFiles : f \in Seq(Range(f)) /\ \A i \in DOMAIN f : IsHunk(f[i])

\* A word is not wider than the four bytes of an escape.
ASSUME WidthAssumption == Word <= 2 * Longwords

ASSUME BasesAssumption == Bases \subseteq Nat

VARIABLES
  hunks, pc,
  i, k,             \* the hunk, and its relocation, a loop has reached
  code_data_size, bss_size, mem_chip,
  offset,           \* offset or bss_offset of the placing loops
  merge_base,
  bytes, longs,     \* code_data: the origins of its bytes, its relocated longwords
  sites, reloc_stream,
  error

sizes  == <<code_data_size, bss_size, mem_chip>>
image  == <<bytes, longs, sites, reloc_stream>>
vars   == <<hunks, pc, i, k, sizes, offset, merge_base, image, error>>

Init ==
  /\ hunks \in HunkFiles
  /\ pc = "size" /\ i = 1 /\ k = 1
  /\ code_data_size = 0 /\ bss_size = 0 /\ mem_chip = FALSE
  /\ offset = 0
  /\ merge_base = <<>>
  /\ bytes = <<>> /\ longs = <<>> /\ sites = <<>> /\ reloc_stream = <<>>
  /\ error = "none"

Hunk   == hunks[i]
InLoop == i \in DOMAIN hunks
IsBss  == Hunk.kind = "bss"

\* A loop's last turn leads to the next one.
Enter(p, first) == pc' = p /\ i' = 1 /\ k' = 1 /\ offset' = first
Again           == i' = i + 1 /\ UNCHANGED <<pc, k>>

Fails(e) ==
  /\ pc' = "error"
  /\ error' = e
  /\ UNCHANGED <<hunks, i, k, sizes, offset, merge_base, image>>

-----------------------------------------------------------------------------
(* Pass 1.                                                                 *)

SizeHunk ==
  /\ pc = "size" /\ InLoop
  /\ mem_chip' = (mem_chip \/ Hunk.attr = "chip")
  /\ IF IsBss
     THEN bss_size' = bss_size + Hunk.size /\ UNCHANGED code_data_size
     ELSE code_data_size' = code_data_size + Hunk.size /\ UNCHANGED bss_size
  /\ Again
  /\ UNCHANGED <<hunks, offset, merge_base, image, error>>

Overflow == code_data_size + bss_size > Word - 1

RejectSize ==
  /\ pc = "size" /\ ~InLoop
  /\ Overflow
  /\ Fails("Overflow")

SizesDone ==
  /\ pc = "size" /\ ~InLoop
  /\ ~Overflow
  /\ Enter("place", 0)
  /\ UNCHANGED <<hunks, sizes, merge_base, image, error>>

Over(f, g)   == [x \in DOMAIN f \cup DOMAIN g |-> IF x \in DOMAIN f THEN f[x] ELSE g[x]]
Place(h, at) == Over([x \in {h} |-> at], merge_base)

\* Faulty: the next hunk follows this one's data, not its allocation.
PlaceAfterData ==
  /\ pc = "place" /\ InLoop
  /\ IF IsBss
     THEN UNCHANGED <<merge_base, offset>>
     ELSE merge_base' = Place(i, offset) /\ offset' = offset + Hunk.len
  /\ Again
  /\ UNCHANGED <<hunks, sizes, image, error>>

PlaceLoaded ==
  /\ pc = "place" /\ InLoop
  /\ IF IsBss
     THEN UNCHANGED <<merge_base, offset>>
     ELSE merge_base' = Place(i, offset) /\ offset' = offset + Hunk.size
  /\ Again
  /\ UNCHANGED <<hunks, sizes, image, error>>

LoadedPlaced ==
  /\ pc = "place" /\ ~InLoop
  /\ Enter("place_bss", code_data_size)
  /\ UNCHANGED <<hunks, sizes, merge_base, image, error>>

\* Faulty: every BSS hunk gets the first one's place.
PlaceBssOnce ==
  /\ pc = "place_bss" /\ InLoop
  /\ IF IsBss THEN merge_base' = Place(i, offset) ELSE UNCHANGED merge_base
  /\ Again
  /\ UNCHANGED <<hunks, sizes, offset, image, error>>

PlaceBss ==
  /\ pc = "place_bss" /\ InLoop
  /\ IF IsBss
     THEN merge_base' = Place(i, offset) /\ offset' = offset + Hunk.size
     ELSE UNCHANGED <<merge_base, offset>>
  /\ Again
  /\ UNCHANGED <<hunks, sizes, image, error>>

\* The image is allocated and zeroed.
BssPlaced ==
  /\ pc = "place_bss" /\ ~InLoop
  /\ bytes' = [a \in 0 .. code_data_size - 1 |-> Pad]
  /\ Enter("copy", 0)
  /\ UNCHANGED <<hunks, sizes, merge_base, longs, sites, reloc_stream, error>>

-----------------------------------------------------------------------------
(* Pass 2.                                                                 *)

\* Longwords of Hunk, at their offsets in the image.
Moved == [a \in {merge_base[i] + o : o \in DOMAIN Hunk.longs} |-> Hunk.longs[a - merge_base[i]]]

CopyHunk ==
  /\ pc = "copy" /\ InLoop
  /\ IF IsBss
     THEN UNCHANGED <<bytes, longs>>
     ELSE /\ bytes' = Over([a \in merge_base[i] .. merge_base[i] + Hunk.len - 1 |-> <<i, a - merge_base[i]>>],
                           bytes)
          /\ longs' = Over(Moved, longs)
  /\ Again
  /\ UNCHANGED <<hunks, sizes, offset, merge_base, sites, reloc_stream, error>>

CopyDone ==
  /\ pc = "copy" /\ ~InLoop
  /\ Enter("fold", 0)
  /\ UNCHANGED <<hunks, sizes, merge_base, image, error>>

-----------------------------------------------------------------------------
(* Pass 3.                                                                 *)

Reloc == Hunk.relocs[k]

\* Faulty: no check that the longword lies within the hunk's data.
RelocErrorNoRange ==
  IF IsBss                              THEN "UnexpectedBssRelocations"
  ELSE IF Reloc.target > Len(hunks)     THEN "RelocTargetOutOfRange"
  ELSE IF Reloc.offset % 2 # 0          THEN "RelocOffsetNotEven"
  ELSE IF Reloc.offset + 4 > Hunk.size  THEN "RelocOffsetOutOfRange"
  ELSE "none"

\* The first of the loop's checks that the relocation does not pass.
RelocError ==
  IF IsBss                              THEN "UnexpectedBssRelocations"
  ELSE IF Reloc.target > Len(hunks)     THEN "RelocTargetOutOfRange"
  ELSE IF Reloc.offset % 2 # 0          THEN "RelocOffsetNotEven"
  ELSE IF Reloc.offset + 4 > Hunk.len   THEN "RelocOffsetOutOfRange"
  ELSE "none"

RejectReloc ==
  /\ pc = "fold" /\ InLoop /\ k \in DOMAIN Hunk.relocs
  /\ RelocError # "none"
  /\ Fails(RelocError)

\* Faulty: the offset of the hunk that holds the pointer is added.
FoldOwnBase ==
  /\ pc = "fold" /\ InLoop /\ k \in DOMAIN Hunk.relocs
  /\ RelocError = "none"
  /\ LET site == merge_base[i] + Reloc.offset
     IN  /\ longs' = [longs EXCEPT ![site] = (@ + merge_base[i]) % Word]
         /\ sites' = Append(sites, site)
  /\ k' = k + 1
  /\ UNCHANGED <<hunks, pc, i, sizes, offset, merge_base, bytes, reloc_stream, error>>

FoldReloc ==
  /\ pc = "fold" /\ InLoop /\ k \in DOMAIN Hunk.relocs
  /\ RelocError = "none"
  /\ LET site == merge_base[i] + Reloc.offset
     IN  /\ longs' = [longs EXCEPT ![site] = (@ + merge_base[Reloc.target]) % Word]
         /\ sites' = Append(sites, site)
  /\ k' = k + 1
  /\ UNCHANGED <<hunks, pc, i, sizes, offset, merge_base, bytes, reloc_stream, error>>

NextHunk ==
  /\ pc = "fold" /\ InLoop /\ k \notin DOMAIN Hunk.relocs
  /\ i' = i + 1 /\ k' = 1
  /\ UNCHANGED <<hunks, pc, sizes, offset, merge_base, image, error>>

\* Faulty: sites are encoded in the file's order.
EncodeUnsorted ==
  /\ pc = "fold" /\ ~InLoop
  /\ reloc_stream' = EncodeRelocStream(sites)
  /\ pc' = "done"
  /\ UNCHANGED <<hunks, i, k, sizes, offset, merge_base, bytes, longs, sites, error>>

\* std.mem.sort: the n-th place gets the n-th smallest value.
Ascending(s) ==
  [n \in DOMAIN s |->
     CHOOSE v \in Range(s) : /\ Cardinality({m \in DOMAIN s : s[m] < v}) < n
                            /\ n <= Cardinality({m \in DOMAIN s : s[m] <= v})]

Encode ==
  /\ pc = "fold" /\ ~InLoop
  /\ sites' = Ascending(sites)
  /\ reloc_stream' = EncodeRelocStream(sites')
  /\ pc' = "done"
  /\ UNCHANGED <<hunks, i, k, sizes, offset, merge_base, bytes, longs, error>>

\* Each of the allocations on the way may fail.
AllocationFails ==
  /\ \/ pc = "size" /\ i = 1
     \/ pc = "place_bss" /\ ~InLoop
     \/ pc = "fold" /\ InLoop /\ k \in DOMAIN Hunk.relocs /\ RelocError = "none"
     \/ pc = "fold" /\ ~InLoop
  /\ Fails("OutOfMemory")

Work ==
  \/ SizeHunk \/ RejectSize \/ SizesDone
  \/ PlaceLoaded \/ LoadedPlaced \/ PlaceBss \/ BssPlaced
  \/ CopyHunk \/ CopyDone
  \/ RejectReloc \/ FoldReloc \/ NextHunk \/ Encode
  \/ AllocationFails

Returned == pc \in {"done", "error"} /\ UNCHANGED vars

Next == Work \/ Returned

Spec == Init /\ [][Next]_vars

-----------------------------------------------------------------------------
(* Properties.                                                             *)

\* Hunks with bytes fill the image and BSS hunks what follows it, each with
\* its whole allocation, so that no byte has two owners and none has no owner;
\* and every hunk's bytes are in its place, its reserved tail zero.
BytesInPlace ==
  /\ pc \in {"copy", "fold", "done"} =>
       /\ DOMAIN merge_base = DOMAIN hunks
       /\ Tile(hunks, merge_base, LoadedHunks(hunks), 0, code_data_size)
       /\ Tile(hunks, merge_base, BssHunks(hunks), code_data_size, code_data_size + bss_size)
  /\ pc \in {"fold", "done"} =>
    \A h \in LoadedHunks(hunks) : \A n \in 0 .. hunks[h].size - 1 :
      bytes[MergeBase(hunks)[h] + n] = Origin(hunks, h, n)

\* Wherever the image is loaded, once the runtime has added its address at
\* every site it decodes, each relocated longword is what LoadSeg would have
\* made of it with the hunks placed as they are merged; a delta is encoded in
\* bytes because the sites are sorted, whatever order the file has them in.
Relocated(base) ==
  LET decoded == DecodeRelocStream(reloc_stream)
  IN  [a \in DOMAIN longs |->
        (longs[a] + base * Cardinality({n \in DOMAIN decoded : decoded[n] = a})) % Word]

PointersAsLoaded ==
  pc = "done" =>
    /\ Range(reloc_stream) \subseteq 0 .. Radix - 1
    /\ \A base \in Bases : \A h \in LoadedHunks(hunks) : \A r \in Range(hunks[h].relocs) :
      LET at == MergeBase(hunks)
      IN  Relocated(base)[at[h] + r.offset]
            = LoadSegLong(hunks, h, r.offset, [j \in DOMAIN hunks |-> base + at[j]])

\* A file is accepted only if it can be represented, and an error that is
\* returned names a fault the file has.
SomeReloc(Faulty(_, _)) ==
  \E h \in DOMAIN hunks : \E r \in Range(hunks[h].relocs) : Faulty(hunks[h], r)

FaultOf(e) ==
  /\ e = "Overflow"                 => SizeOf(hunks, DOMAIN hunks) >= Word
  /\ e = "UnexpectedBssRelocations" => SomeReloc(LAMBDA h, r : h.kind = "bss")
  /\ e = "RelocTargetOutOfRange"    => SomeReloc(LAMBDA h, r : r.target \notin DOMAIN hunks)
  /\ e = "RelocOffsetNotEven"       => SomeReloc(LAMBDA h, r : r.offset % 2 = 1)
  /\ e = "RelocOffsetOutOfRange"    => SomeReloc(LAMBDA h, r : r.offset + 4 > h.len)

VerdictIsRight ==
  /\ pc = "error" => error # "none" /\ FaultOf(error)
  /\ pc = "done" =>
       /\ SizeOf(hunks, DOMAIN hunks) < Word
       /\ \A h \in DOMAIN hunks : \A r \in Range(hunks[h].relocs) : ValidReloc(hunks, h, r)
=============================================================================
