------------------------------- MODULE MCHost -------------------------------
(***************************************************************************)
(* What execram does to an executable before and after compressing it, on  *)
(* small files: reading the load file (HunkFile), merging its hunks into   *)
(* one image (Flatten) or into one per kind of memory (MemoryGroups), and  *)
(* writing the packed file and finding everything in it again              *)
(* (PackedFile).  The parts are functions that share nothing: a behaviour  *)
(* is one part at work on one of its inputs, while the variables of the    *)
(* others keep a value that means nothing.                                 *)
(***************************************************************************)
EXTENDS Flatten, HunkFile, MemoryGroups, PackedFile

VARIABLE part

ASSUME ReaderAssumption == FilesAssumption
ASSUME GroupsAssumption == GroupedFilesAssumption /\ RoomAssumption
ASSUME PackedAssumption == PackedFileAssumption

-----------------------------------------------------------------------------
(* Flatten: files of two and three small hunks with up to two relocations  *)
(* each, in any order; with one fault of each kind; and with sizes that    *)
(* just fit a word, or just do not.                                        *)

Loaded(size, len) == [kind |-> "code", attr |-> "any", size |-> size, len |-> len,
                      relocs |-> <<>>, longs |-> [o \in {x \in {0, 4} : x + 4 <= len} |-> IF o = 0 THEN 4 ELSE Word - 4]]
Bss(size)         == [kind |-> "bss", attr |-> "chip", size |-> size, len |-> 0,
                      relocs |-> <<>>, longs |-> <<>>]

Shapes == {Loaded(8, 8), Loaded(12, 8), Loaded(8, 4), Loaded(0, 0), Bss(8), Bss(0)}

RelocsIn(h, targets) == [offset : {o \in {0, 4} : o + 4 <= h.len}, target : targets]

\* h with up to most relocations, in any order and perhaps of one longword.
WithRelocs(h, targets, most) ==
  {[h EXCEPT !.relocs = rs] : rs \in UNION {[1 .. n -> RelocsIn(h, targets)] : n \in 0 .. most}}

Pairs ==
  UNION {{<<a, b>> : a \in WithRelocs(x, 1 .. 2, 2), b \in WithRelocs(y, 1 .. 2, 1)}
         : x \in Shapes, y \in Shapes}

Triples ==
  UNION {{<<a, Bss(4), b>> : a \in WithRelocs(x, 1 .. 3, 1), b \in WithRelocs(y, 1 .. 3, 2)}
         : x \in {Bss(4), Loaded(12, 8)}, y \in {Loaded(8, 8), Loaded(8, 4)}}

Bad(h, o, t) == [h EXCEPT !.relocs = <<[offset |-> o, target |-> t]>>]

Malformed ==
  {<<Loaded(8, 8), Bad(Bss(8), 0, 1)>>, <<Bad(Loaded(8, 8), 4, 3), Bss(8)>>,
   <<Bad(Loaded(8, 8), 3, 1)>>, <<Bad(Loaded(8, 4), 4, 1)>>, <<Bad(Loaded(12, 8), 6, 1)>>,
   <<Bad(Loaded(0, 0), 0, 1), Loaded(8, 8)>>}

Large == {<<Loaded(40, 8), Bss(Word - 44)>>, <<Loaded(40, 8), Bss(Word - 40)>>,
          <<Loaded(Word - 4, 8), Bad(Loaded(8, 8), 0, 1)>>}

MCFlattened == Pairs \cup Triples \cup Malformed \cup Large

-----------------------------------------------------------------------------
(* MemoryGroups: files of three and four hunks of up to three kinds of     *)
(* memory, with relocations within and across groups, and faulty files.    *)

GroupLoaded(a, size, len) ==
  [kind |-> "data", attr |-> a, size |-> size, len |-> len, relocs |-> <<>>,
   longs |-> [o \in {x \in {0, 4, 12} : x + 4 <= len} |-> IF o = 4 THEN Word - 4 ELSE o]]
GroupBss(a, size) ==
  [kind |-> "bss", attr |-> a, size |-> size, len |-> 0, relocs |-> <<>>, longs |-> <<>>]

With(h, rs) == [h EXCEPT !.relocs = rs]
At(o, t)    == [offset |-> o, target |-> t]

Attrs == {"any", "chip", "fast"}

\* Up to two relocations of hunk h, at its ends, in both orders.
RelocLists(h, targets) ==
  LET single == {At(o, t) : o \in DOMAIN h.longs, t \in targets}
  IN  {<<>>} \cup {<<r>> : r \in single}
        \cup {<<At(h.len - 4, t), At(0, u)>> : t \in targets, u \in targets}

Threes ==
  {<<With(GroupLoaded(a, 16, 16), rs), GroupLoaded(b, 12, 4), GroupBss(c, 8)>> :
     a \in Attrs, b \in Attrs, c \in Attrs, rs \in RelocLists(GroupLoaded("any", 16, 16), 1 .. 3)}

Fours ==
  {<<GroupLoaded(a, 8, 8), GroupBss(b, 4), With(GroupLoaded(c, 8, 8), rs), GroupLoaded(d, 4, 4)>> :
     a \in {"any", "chip"}, b \in {"chip", "fast"}, c \in {"any", "chip"}, d \in {"any", "fast"},
     rs \in RelocLists(GroupLoaded("any", 8, 8), 1 .. 4)}

FaultyGroups ==
  {<<>>, <<GroupBss("any", 4), GroupLoaded("any", 4, 4)>>,
   <<GroupLoaded("any", 40, 4), GroupBss("any", Word - 40), GroupBss("any", 4)>>,
   <<GroupLoaded("any", 4, 4), With(GroupBss("chip", 8), <<At(0, 1)>>)>>,
   <<With(GroupLoaded("any", 8, 8), <<At(0, 2)>>), With(GroupLoaded("fast", 8, 8), <<At(1, 1)>>)>>,
   <<With(GroupLoaded("any", 8, 8), <<At(4, 3)>>), GroupLoaded("fast", 8, 8)>>,
   <<With(GroupLoaded("chip", 8, 4), <<At(4, 1)>>)>>}

MCGrouped == Threes \cup Fours \cup FaultyGroups

-----------------------------------------------------------------------------
(* HunkFile: small files of the packer and of a linker, each of them cut   *)
(* at every place and with every longword replaced by each of some values  *)
(* that mean something somewhere.                                          *)

Longs(n) == [m \in 1 .. n |-> W(100 + m)]
PartOf(attr, size, n) == [attr |-> attr, longs |-> size, data |-> Longs(n)]

Own ==
  {<<PartOf(attr, size, 1), PartOf("any", 2, 2)>> : attr \in {"any", "chip"}, size \in {1, 4}}
  \cup {<<PartOf("chip", 2, 0), PartOf("any", 1, 1), PartOf("fast", 3, 2)>>}

OwnFiles == {[words |-> WriteHunkExecutable(p), written |-> Written(p)] : p \in Own}

\* As a linker writes them: names, advisory bits, several groups of
\* relocations, symbols and debug data, a reserved tail, BSS.
Linked ==
  [words |->
     <<W(HUNK_HEADER), W(1), W(77), W(0), W(3), W(0), W(2), Tagged(1, 3), W(2), Tagged(2, 2)>>
     \o <<Tagged(1, HUNK_CODE), W(2), W(4), W(0),
          W(HUNK_RELOC32), W(1), W(1), W(0), W(2), W(2), W(4), W(0), W(0),
          W(HUNK_SYMBOL), W(1), W(88), W(0), W(0), W(HUNK_DEBUG), W(2), W(5), W(6), W(HUNK_END)>>
     \o <<W(HUNK_BSS), W(2), W(HUNK_END)>>
     \o <<W(HUNK_DATA), W(1), W(8), W(HUNK_RELOC32), W(0), W(HUNK_END)>>,
   written |->
     [names |-> << <<W(77)>> >>,
      hunks |->
        <<[type |-> HUNK_CODE, advice |-> 1, attr |-> "chip", allocated |-> 3, size |-> 2,
           data |-> <<W(4), W(0)>>,
           blocks |-> <<[type |-> HUNK_RELOC32, entries |-> << <<W(1), W(0)>>, <<W(2), W(4), W(0)>> >>],
                        [type |-> HUNK_SYMBOL, entries |-> << <<W(88), W(0)>> >>],
                        [type |-> HUNK_DEBUG, data |-> <<W(5), W(6)>>]>>],
          [type |-> HUNK_BSS, advice |-> 0, attr |-> "any", allocated |-> 2, size |-> 2,
           data |-> <<>>, blocks |-> <<>>],
          [type |-> HUNK_DATA, advice |-> 0, attr |-> "fast", allocated |-> 2, size |-> 1,
           data |-> <<W(8)>>, blocks |-> <<[type |-> HUNK_RELOC32, entries |-> <<>>]>>]>>]]

SoundFiles == OwnFiles \cup {Linked}

As(f, words, whole, altered) == [words |-> words, written |-> f.written, whole |-> whole, altered |-> altered]

CutFiles == {As(f, SubSeq(f.words, 1, n), FALSE, FALSE) : f \in {Linked}, n \in 0 .. Len(Linked.words) - 1}
       \cup UNION {{As(f, SubSeq(f.words, 1, n), FALSE, FALSE) : n \in 0 .. Len(f.words) - 1} : f \in OwnFiles}

\* More bytes after the last hunk are not looked at.
ExtendedFiles == {As(f, f.words \o <<W(HUNK_OVERLAY)>>, TRUE, FALSE) : f \in SoundFiles}

Values == {W(0), W(1), W(2), W(5), Tagged(2, 1), Tagged(3, 0), W(HUNK_CODE), W(HUNK_BSS), W(HUNK_RELOC32),
           W(HUNK_SYMBOL), W(HUNK_DEBUG), W(HUNK_END), W(HUNK_OVERLAY)}

AlteredFiles == UNION {{As(f, [f.words EXCEPT ![n] = v], TRUE, TRUE) : n \in DOMAIN f.words, v \in Values} : f \in SoundFiles}

MCFiles == {As(f, f.words, TRUE, FALSE) : f \in SoundFiles} \cup CutFiles \cup ExtendedFiles \cup AlteredFiles

-----------------------------------------------------------------------------
(* PackedFile: one image, and one to three regions, with payloads of every *)
(* length mod 4; and files of others.                                      *)

MagicBytes == <<69, 120, 67, 114>>

\* Every stub has the header's magic number within, to compare it with.
MCTrampoline == <<1, 2, 3, 4, 5, 6>>
MCMixedStub  == <<11, 12>> \o MagicBytes \o <<13, 14, 15, 16>>
MCStubs ==
  <<0, FALSE>> :> [bytes |-> <<21, 22>> \o MagicBytes \o <<23, 24>>, depack |-> 6]
    @@ <<0, TRUE>> :> [bytes |-> <<31, 32>> \o MagicBytes \o <<33, 34, 35, 36>>, depack |-> 8]
    @@ <<7, FALSE>> :> [bytes |-> <<21, 41>> \o MagicBytes \o <<42, 43>>, depack |-> 7]

PayloadOf(n, first) == [m \in 1..n |-> first + m]

SingleImages ==
  {[code |-> 8, bss |-> 0, stream |-> 1], [code |-> 4, bss |-> 300, stream |-> 2],
   [code |-> 70000, bss |-> 4, stream |-> 7]}

Singles ==
  [attr : {"any", "chip"}, image : SingleImages, payload : {PayloadOf(n, 100) : n \in {3, 4, 5}},
   margin : {0, 8}, overlap : BOOLEAN]

RegionsOf(attr, first) ==
  {[attr |-> attr, image |-> [code |-> 4, bss |-> 0, stream |-> 5], payload |-> PayloadOf(n, first),
    margin |-> 3, overlap |-> o] : n \in {1, 4}, o \in BOOLEAN}
  \cup {[attr |-> attr, image |-> [code |-> 0, bss |-> 8, stream |-> 1], payload |-> PayloadOf(2, first),
         margin |-> 0, overlap |-> FALSE]}

PartLists(grouped) ==
  IF grouped
  THEN {<<p>> : p \in RegionsOf("fast", 100)}
       \cup RegionsOf("any", 100) \X RegionsOf("chip", 200)
       \cup RegionsOf("chip", 100) \X RegionsOf("any", 200) \X RegionsOf("fast", 0)
  ELSE {<<p>> : p \in Singles}

MCJobs ==
  UNION {[parts : PartLists(grouped), grouped : {grouped}, backend : {stub[1]}, flash : {stub[2]},
          killtwitch : BOOLEAN] : grouped \in BOOLEAN, stub \in DOMAIN MCStubs}

\* Nothing at all; a stub alone; a stub whose header is cut short, or not one,
\* or has hunks too many; a dispatcher with no region, or too few hunks or
\* descriptors; a program with the magic number somewhere; and two that have
\* all info looks at.
Code(data) == [attr |-> "any", size |-> Len(data), data |-> data]
StubBytes == MCStubs[<<0, FALSE>>].bytes
Magic(n) == MagicBytes \o [m \in 1 .. n - 4 |-> 0]
Grouped(n, count) == [Magic(n) EXCEPT ![5] = 1, ![40] = count]

MCOthers ==
  {<<>>, <<Code(StubBytes)>>, <<Code(<<1, 2>>), Code(StubBytes \o Magic(28))>>,
   <<Code(<<1, 2>>), Code(StubBytes \o [m \in 1 .. 36 |-> 0])>>,
   <<Code(<<1, 2>>), Code(StubBytes \o Magic(36)), Code(<<3, 4>>)>>,
   <<Code(<<1, 2>>), Code(<<9, 9>> \o Magic(36))>>,
   <<Code(<<1, 2>>), Code(StubBytes \o Magic(36))>>}
  \cup {<<Code(<<1, 2>>), Code(MCMixedStub \o Grouped(n, c))>> : n \in {40, 48, 96}, c \in {0, 2, 4}}
  \cup {<<Code(<<1, 2>>), Code(MCMixedStub \o Grouped(n, 1))>> : n \in {92, 96}}

-----------------------------------------------------------------------------
(* The parts, one at a time.                                               *)

\* Nothing to do: flatten has returned with nothing.
FlattenIdle ==
  /\ hunks = <<>> /\ pc = "idle" /\ i = 0 /\ k = 0
  /\ code_data_size = 0 /\ bss_size = 0 /\ mem_chip = FALSE /\ offset = 0
  /\ merge_base = <<>> /\ bytes = <<>> /\ longs = <<>> /\ sites = <<>> /\ reloc_stream = <<>>
  /\ error = "none"

ReaderIdle ==
  /\ file = 0 /\ reading = "idle" /\ want = 0 /\ pos = 0 /\ table_size = 0 /\ table = 0
  /\ hunk = 0 /\ parsed = <<>> /\ parse_error = "none"

GroupsIdle ==
  /\ all_hunks = <<>> /\ building = "idle" /\ g = 0 /\ at_hunk = 0 /\ at_reloc = 0
  /\ attrs = <<>> /\ group_ids = <<>> /\ code_offset = 0 /\ bss_offset = 0
  /\ bases = <<>> /\ images = <<>> /\ group_sites = <<>> /\ build_error = "none"

PackedIdle == stage = "idle" /\ file_hunks = <<>> /\ job = 0 /\ scratch = 0 /\ report = 0 /\ found = 0

HostInit ==
  \/ part = "flatten" /\ Init /\ ReaderIdle /\ GroupsIdle /\ PackedIdle
  \/ part = "reader" /\ ParseInit /\ FlattenIdle /\ GroupsIdle /\ PackedIdle
  \/ part = "groups" /\ BuildInit /\ FlattenIdle /\ ReaderIdle /\ PackedIdle
  \/ part = "packed" /\ FileInit /\ FlattenIdle /\ ReaderIdle /\ GroupsIdle

HostNext ==
  /\ UNCHANGED part
  /\ \/ part = "flatten" /\ Next /\ UNCHANGED <<parse_vars, build_vars, file_vars>>
     \/ part = "reader"  /\ ParseNext /\ UNCHANGED <<vars, build_vars, file_vars>>
     \/ part = "groups"  /\ BuildNext /\ UNCHANGED <<vars, parse_vars, file_vars>>
     \/ part = "packed"  /\ FileNext /\ UNCHANGED <<vars, parse_vars, build_vars>>

HostSpec == HostInit /\ [][HostNext]_<<part, vars, parse_vars, build_vars, file_vars>>
=============================================================================
