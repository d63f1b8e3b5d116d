---------------------------- MODULE MemoryGroups ----------------------------
(***************************************************************************)
(* src/memory_groups.zig: a file whose hunks ask for different kinds of    *)
(* memory becomes one image per kind.  Each image is flattened without its *)
(* relocations; these are then folded with bases computed a second time,   *)
(* and their stream names, before every site, the group it points into.    *)
(* Groups count from zero, as the stream's bytes do.                       *)
(***************************************************************************)
EXTENDS FlatLayout, RelocStream, FiniteSets, SequencesExt

CONSTANTS
  GroupedFiles,   \* what hunk.zig may have parsed
  LoadBases        \* addresses a group may be loaded at

GroupedFilesAssumption ==
  \A f \in GroupedFiles : f \in Seq(Range(f)) /\ \A n \in DOMAIN f : IsHunk(f[n])

\* A stream has room for every distance between two sites, and tells the
\* number of a group, of which there are three at most, from its end.
RoomAssumption == LoadBases \subseteq Nat /\ Word <= 2 * Longwords /\ 3 <= End

VARIABLES
  all_hunks, building,
  g, at_hunk, at_reloc,      \* group, hunk and relocation a loop has reached
  attrs, group_ids,
  code_offset, bss_offset,
  bases,
  images,                    \* per group: size of code_data, its longwords, its stream
  group_sites,
  build_error

offsets    == <<code_offset, bss_offset>>
build_vars == <<all_hunks, building, g, at_hunk, at_reloc, attrs, group_ids, offsets, bases, images,
                group_sites, build_error>>

BuildInit ==
  /\ all_hunks \in GroupedFiles
  /\ building = "check" /\ g = 0 /\ at_hunk = 1 /\ at_reloc = 1
  /\ attrs = <<>> /\ group_ids = <<>>
  /\ code_offset = 0 /\ bss_offset = 0
  /\ bases = <<>> /\ images = <<>> /\ group_sites = <<>>
  /\ build_error = "none"

ThisHunk == all_hunks[at_hunk]
HunkLeft == at_hunk \in DOMAIN all_hunks
Mine     == group_ids[at_hunk] = g

BuildFails(e) ==
  /\ building' = "error"
  /\ build_error' = e
  /\ UNCHANGED <<all_hunks, g, at_hunk, at_reloc, attrs, group_ids, offsets, bases, images, group_sites>>

\* On to the next hunk of a loop over all of them.
NextInLoop == at_hunk' = at_hunk + 1 /\ at_reloc' = 1

-----------------------------------------------------------------------------
(* Which hunk belongs to which group.                                      *)

Check ==
  CASE all_hunks = <<>> \/ all_hunks[1].kind = "bss"      -> "InvalidEntryHunk"
    [] SizeOf(all_hunks, DOMAIN all_hunks) > Word - 1     -> "Overflow"
    [] OTHER                                      -> "none"

RejectFile ==
  /\ building = "check"
  /\ Check # "none"
  /\ BuildFails(Check)

AcceptFile ==
  /\ building = "check"
  /\ Check = "none"
  /\ building' = "classify"
  /\ UNCHANGED <<all_hunks, g, at_hunk, at_reloc, attrs, group_ids, offsets, bases, images, group_sites, build_error>>

\* Faulty: a hunk only joins the group opened last.
ClassifyByLast ==
  /\ building = "classify" /\ HunkLeft
  /\ LET known == attrs # <<>> /\ Last(attrs) = ThisHunk.attr
     IN  /\ attrs' = IF known THEN attrs ELSE Append(attrs, ThisHunk.attr)
         /\ group_ids' = Append(group_ids, Len(attrs') - 1)
  /\ NextInLoop
  /\ UNCHANGED <<all_hunks, building, g, offsets, bases, images, group_sites, build_error>>

Classify ==
  /\ building = "classify" /\ HunkLeft
  /\ attrs' = IF Contains(attrs, ThisHunk.attr) THEN attrs ELSE Append(attrs, ThisHunk.attr)
  /\ \E n \in DOMAIN attrs' :
       /\ attrs'[n] = ThisHunk.attr
       /\ group_ids' = Append(group_ids, n - 1)
  /\ NextInLoop
  /\ UNCHANGED <<all_hunks, building, g, offsets, bases, images, group_sites, build_error>>

Classified ==
  /\ building = "classify" /\ ~HunkLeft
  /\ building' = "flatten"
  /\ UNCHANGED <<all_hunks, g, at_hunk, at_reloc, attrs, group_ids, offsets, bases, images, group_sites, build_error>>

-----------------------------------------------------------------------------
(* One image per group, by flatten.                                        *)

\* The group's hunks in the file's order, and where flatten puts hunk j.
Members(grp) ==
  LET S == {j \in DOMAIN all_hunks : group_ids[j] = grp}
  IN  [n \in 1 .. Cardinality(S) |-> CHOOSE j \in S : Cardinality({m \in S : m <= j}) = n]
Subset(grp)   == [n \in DOMAIN Members(grp) |-> all_hunks[Members(grp)[n]]]
PlaceOf(j)    ==
  LET members == Members(group_ids[j])
  IN  MergeBase(Subset(group_ids[j]))[CHOOSE n \in DOMAIN members : members[n] = j]

GroupSize(grp) == SizeOf(Subset(grp), LoadedHunks(Subset(grp)))

GroupLongs(grp) ==
  LET S  == {j \in DOMAIN all_hunks : group_ids[j] = grp}
      at == UNION {{<<j, o>> : o \in DOMAIN all_hunks[j].longs} : j \in S}
  IN  [a \in {PlaceOf(p[1]) + p[2] : p \in at} |->
         LET p == CHOOSE q \in at : PlaceOf(q[1]) + q[2] = a IN all_hunks[p[1]].longs[p[2]]]

FlattenGroup ==
  /\ building = "flatten" /\ g < Len(attrs)
  /\ images' = Append(images, [size |-> GroupSize(g), longs |-> GroupLongs(g), stream |-> <<>>])
  /\ code_offset' = 0 /\ bss_offset' = GroupSize(g)
  /\ building' = "base" /\ at_hunk' = 1
  /\ UNCHANGED <<all_hunks, g, at_reloc, attrs, group_ids, bases, group_sites, build_error>>

SetBase(at) == bases' = [j \in DOMAIN bases \cup {at_hunk} |-> IF j = at_hunk THEN at ELSE bases[j]]

\* Faulty: BSS is taken to follow hunk by hunk, where the file has it.
BaseInFileOrder ==
  /\ building = "base" /\ HunkLeft
  /\ IF Mine
     THEN SetBase(code_offset) /\ code_offset' = code_offset + ThisHunk.size
     ELSE UNCHANGED <<bases, code_offset>>
  /\ NextInLoop
  /\ UNCHANGED <<all_hunks, building, g, attrs, group_ids, bss_offset, images, group_sites, build_error>>

BaseOfHunk ==
  /\ building = "base" /\ HunkLeft
  /\ CASE ~Mine -> UNCHANGED <<bases, offsets>>
       [] Mine /\ ThisHunk.kind = "bss" ->
            /\ SetBase(bss_offset)
            /\ bss_offset' = bss_offset + ThisHunk.size
            /\ UNCHANGED code_offset
       [] OTHER ->
            /\ SetBase(code_offset)
            /\ code_offset' = code_offset + ThisHunk.size
            /\ UNCHANGED bss_offset
  /\ NextInLoop
  /\ UNCHANGED <<all_hunks, building, g, attrs, group_ids, images, group_sites, build_error>>

GroupBased ==
  /\ building = "base" /\ ~HunkLeft
  /\ g' = g + 1
  /\ building' = "flatten"
  /\ UNCHANGED <<all_hunks, at_hunk, at_reloc, attrs, group_ids, offsets, bases, images, group_sites, build_error>>

AllFlattened ==
  /\ building = "flatten" /\ g = Len(attrs)
  /\ g' = 0 /\ at_hunk' = 1 /\ at_reloc' = 1
  /\ building' = "fold"
  /\ UNCHANGED <<all_hunks, attrs, group_ids, offsets, bases, images, group_sites, build_error>>

-----------------------------------------------------------------------------
(* Relocations, group by group.                                            *)

Folding   == building = "fold" /\ g < Len(attrs)
ThisReloc == ThisHunk.relocs[at_reloc]

FoldError ==
  CASE ThisHunk.kind = "bss"            -> "UnexpectedBssRelocations"
    [] ThisReloc.target > Len(all_hunks)    -> "RelocTargetOutOfRange"
    [] ThisReloc.offset % 2 # 0         -> "RelocOffsetNotEven"
    [] ThisReloc.offset + 4 > ThisHunk.len  -> "RelocOffsetOutOfRange"
    [] OTHER                        -> "none"

RejectFold ==
  /\ Folding /\ HunkLeft /\ Mine /\ at_reloc \in DOMAIN ThisHunk.relocs
  /\ FoldError # "none"
  /\ BuildFails(FoldError)

\* Faulty: the site names the group it lies in.
FoldOwnGroup ==
  /\ Folding /\ HunkLeft /\ Mine /\ at_reloc \in DOMAIN ThisHunk.relocs
  /\ FoldError = "none"
  /\ LET at == bases[at_hunk] + ThisReloc.offset
     IN  /\ images' = [images EXCEPT ![g + 1].longs[at] = (@ + bases[ThisReloc.target]) % Word]
         /\ group_sites' = Append(group_sites, [offset |-> at, target |-> g])
  /\ at_reloc' = at_reloc + 1
  /\ UNCHANGED <<all_hunks, building, g, at_hunk, attrs, group_ids, offsets, bases, build_error>>

FoldInGroup ==
  /\ Folding /\ HunkLeft /\ Mine /\ at_reloc \in DOMAIN ThisHunk.relocs
  /\ FoldError = "none"
  /\ LET at == bases[at_hunk] + ThisReloc.offset
     IN  /\ images' = [images EXCEPT ![g + 1].longs[at] = (@ + bases[ThisReloc.target]) % Word]
         /\ group_sites' = Append(group_sites, [offset |-> at, target |-> group_ids[ThisReloc.target]])
  /\ at_reloc' = at_reloc + 1
  /\ UNCHANGED <<all_hunks, building, g, at_hunk, attrs, group_ids, offsets, bases, build_error>>

SkipHunk ==
  /\ Folding /\ HunkLeft
  /\ ~Mine \/ at_reloc \notin DOMAIN ThisHunk.relocs
  /\ NextInLoop
  /\ UNCHANGED <<all_hunks, building, g, attrs, group_ids, offsets, bases, images, group_sites, build_error>>

\* std.mem.sort is stable.
SortByOffset(s) ==
  LET upTo(m) == {l \in DOMAIN s : \/ s[l].offset < s[m].offset
                                   \/ s[l].offset = s[m].offset /\ l <= m}
  IN  [n \in DOMAIN s |-> s[CHOOSE m \in DOMAIN s : Cardinality(upTo(m)) = n]]

EncodeGroup ==
  /\ Folding /\ ~HunkLeft
  /\ images' = [images EXCEPT ![g + 1].stream = EncodeGroupStream(SortByOffset(group_sites))]
  /\ group_sites' = <<>>
  /\ g' = g + 1 /\ at_hunk' = 1 /\ at_reloc' = 1
  /\ UNCHANGED <<all_hunks, building, attrs, group_ids, offsets, bases, build_error>>

Return ==
  /\ building = "fold" /\ g = Len(attrs)
  /\ building' = "done"
  /\ UNCHANGED <<all_hunks, g, at_hunk, at_reloc, attrs, group_ids, offsets, bases, images, group_sites, build_error>>

\* Each of the allocations on the way may fail, flatten's among them.
BuildCannotGrow ==
  /\ \/ building = "classify"
     \/ building = "flatten" /\ g < Len(attrs)
     \/ Folding
  /\ BuildFails("OutOfMemory")

BuildNext ==
  \/ RejectFile \/ AcceptFile \/ Classify \/ Classified
  \/ FlattenGroup \/ BaseOfHunk \/ GroupBased \/ AllFlattened
  \/ RejectFold \/ FoldInGroup \/ SkipHunk \/ EncodeGroup \/ Return
  \/ BuildCannotGrow
  \/ building \in {"done", "error"} /\ UNCHANGED build_vars

BuildSpec == BuildInit /\ [][BuildNext]_build_vars

-----------------------------------------------------------------------------
(* Properties.                                                             *)

Groups == 0 .. Len(attrs) - 1

\* Each hunk keeps the kind of memory it asked for, one group per kind; the
\* bases computed here are where flatten put the hunks; and the program is
\* entered at the start of group 0: its first hunk.
BasesAgree ==
  building \in {"fold", "done"} =>
    /\ \A j \in DOMAIN all_hunks : attrs[group_ids[j] + 1] = all_hunks[j].attr
    /\ IsInjective(attrs)
    /\ \A j \in DOMAIN all_hunks : bases[j] = PlaceOf(j)
    /\ group_ids[1] = 0 /\ bases[1] = 0

\* Wherever the groups are loaded, each relocated longword ends up as LoadSeg
\* would have made it with the hunks placed as they are grouped; in
\* particular pointers from one kind of memory into another.
PointersAcrossGroups ==
  building = "done" =>
    \A at \in [Groups -> LoadBases] : \A j \in LoadedHunks(all_hunks) : \A r \in Range(all_hunks[j].relocs) :
      LET mine    == images[group_ids[j] + 1]
          decoded == DecodeGroupStream(mine.stream)
          site    == PlaceOf(j) + r.offset
          here    == {n \in DOMAIN decoded : decoded[n].offset = site}
      IN  (mine.longs[site] + SumFunction([n \in here |-> at[decoded[n].target]])) % Word
            = LoadSegLong(all_hunks, j, r.offset, [t \in DOMAIN all_hunks |-> at[group_ids[t]] + PlaceOf(t)])
=============================================================================
