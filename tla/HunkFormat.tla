----------------------------- MODULE HunkFormat -----------------------------
(***************************************************************************)
(* AmigaDOS load files, and the two functions that write them:             *)
(* writeHunkExecutable of container.zig and build of mixed_container.zig.  *)
(*                                                                         *)
(* A file is a sequence of longwords, each split into the two bits that    *)
(* may carry a memory type or advice and the 30 bits below them.           *)
(***************************************************************************)
EXTENDS Integers, SequencesExt

W(value)          == [flags |-> 0, value |-> value]
Tagged(fl, value) == [flags |-> fl, value |-> value]

HUNK_CODE    == 1001
HUNK_DATA    == 1002
HUNK_BSS     == 1003
HUNK_RELOC32 == 1004
HUNK_SYMBOL  == 1008
HUNK_DEBUG   == 1009
HUNK_END     == 1010
HUNK_HEADER  == 1011
HUNK_OVERLAY == 1013
HUNK_LIB     == 1018
HUNK_INDEX   == 1019

Kinds ==
  [type \in {HUNK_CODE, HUNK_DATA, HUNK_BSS} |->
     CASE type = HUNK_CODE -> "code" [] type = HUNK_DATA -> "data" [] OTHER -> "bss"]

MemAttrs == <<"any", "chip", "fast", "extended">>

-----------------------------------------------------------------------------
(* The packer's own files.  A part is a hunk of memory type attr and so    *)
(* many longwords, of which data is on disk, already padded.               *)

AttrBits(attr) == CHOOSE n \in 0 .. 2 : MemAttrs[n + 1] = attr

HunkBody(data) == <<W(HUNK_CODE), W(Len(data))>> \o data \o <<W(HUNK_END)>>

\* writeHunkExecutable, and the end of build: header, table, bodies.
WriteHunkExecutable(parts) ==
  <<W(HUNK_HEADER), W(0), W(Len(parts)), W(0), W(Len(parts) - 1)>>
    \o [n \in DOMAIN parts |-> Tagged(AttrBits(parts[n].attr), parts[n].longs)]
    \o FlattenSeq([n \in DOMAIN parts |-> HunkBody(parts[n].data)])

\* The file that is, as a linker's.
Written(parts) ==
  [names |-> <<>>,
   hunks |-> [n \in DOMAIN parts |->
                [type |-> HUNK_CODE, advice |-> 0, attr |-> parts[n].attr, allocated |-> parts[n].longs,
                 size |-> Len(parts[n].data), data |-> parts[n].data, blocks |-> <<>>]]]

-----------------------------------------------------------------------------
(* What linkers write: names of libraries, and hunks.  A hunk of a type,   *)
(* with advice for the loader, has a size in memory (allocated), one of    *)
(* its own, data unless it is BSS, and blocks.  An entry of a list is a    *)
(* hunk and the offsets that refer to it, or a symbol's name and value.    *)

Longword    == [flags : 0 .. 3, value : Nat]
ListEntries == {entry \in Seq(Longword) : Len(entry) >= 2}
TrailBlocks ==
  [type : {HUNK_RELOC32, HUNK_SYMBOL}, entries : Seq(ListEntries)]
    \cup [type : {HUNK_DEBUG}, data : Seq(Longword)]

LinkedHunks ==
  {h \in [type : DOMAIN Kinds, advice : 0 .. 3, attr : {"any", "chip", "fast"}, allocated : Nat,
          size : Nat, data : Seq(Longword), blocks : Seq(TrailBlocks)] :
     h.size <= h.allocated /\ Len(h.data) = IF h.type = HUNK_BSS THEN 0 ELSE h.size}

LinkedFiles == [names : Seq(Seq(Longword) \ {<<>>}), hunks : Seq(LinkedHunks) \ {<<>>}]

Counted(words) == <<W(Len(words))>> \o words
NamesWords(names) == FlattenSeq([n \in DOMAIN names |-> Counted(names[n])])

EntryWords(entry) == <<W(Len(entry) - 1)>> \o entry
EntriesWords(entries) == FlattenSeq([n \in DOMAIN entries |-> EntryWords(entries[n])])

BlockWords(block) ==
  <<W(block.type)>> \o IF block.type = HUNK_DEBUG THEN Counted(block.data)
                       ELSE EntriesWords(block.entries) \o <<W(0)>>
BlocksWords(blocks) == FlattenSeq([n \in DOMAIN blocks |-> BlockWords(blocks[n])])

HunkWords(h) ==
  <<Tagged(h.advice, h.type), W(h.size)>> \o h.data \o BlocksWords(h.blocks) \o <<W(HUNK_END)>>
HunksWords(hunks) == FlattenSeq([n \in DOMAIN hunks |-> HunkWords(hunks[n])])

LoadFile(f) ==
  <<W(HUNK_HEADER)>> \o NamesWords(f.names) \o <<W(0)>>
    \o <<W(Len(f.hunks)), W(0), W(Len(f.hunks) - 1)>>
    \o [n \in DOMAIN f.hunks |-> Tagged(AttrBits(f.hunks[n].attr), f.hunks[n].allocated)]
    \o HunksWords(f.hunks)

\* What is in the file for who reads it.
EntryRelocs(entry) == [n \in 1 .. Len(entry) - 1 |-> [target |-> entry[1], offset |-> entry[n + 1]]]
EntriesRelocs(entries) == FlattenSeq([n \in DOMAIN entries |-> EntryRelocs(entries[n])])
BlockRelocs(block) == IF block.type = HUNK_RELOC32 THEN EntriesRelocs(block.entries) ELSE <<>>
BlocksRelocs(blocks) == FlattenSeq([n \in DOMAIN blocks |-> BlockRelocs(blocks[n])])

HunkOf(h) ==
  [kind |-> Kinds[h.type], mem_attr |-> h.attr, data |-> h.data, size_bytes |-> 4 * h.size,
   allocated_size |-> 4 * h.allocated, relocs |-> BlocksRelocs(h.blocks)]
HunksOf(f) == [n \in DOMAIN f.hunks |-> HunkOf(f.hunks[n])]
=============================================================================
