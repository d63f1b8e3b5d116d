----------------------------- MODULE PackedFile -----------------------------
(***************************************************************************)
(* A packed file from the inside: where its writers (container.zig and     *)
(* mixed_container.zig) put stub, header, descriptors and payloads, byte   *)
(* by byte, and what the three that read it find there: the stub of a      *)
(* single image (Start of runtime.i), the dispatcher of several (mixed.s)  *)
(* and execram info (info.zig).  None of them shares code with another;    *)
(* what holds them together are offsets.  That the file's hunks are read   *)
(* back as they were written is HunkFile's.                                *)
(***************************************************************************)
EXTENDS ContainerLayout, Integers, Sequences, SequencesExt, FiniteSetsExt, Functions

CONSTANTS
  Jobs,         \* what is to be packed, and how
  Others,       \* files of others, as sequences of hunks, for info to tell apart
  Trampoline,   \* the bytes of trampoline.s,
  Stubs,        \* of the stubs, by backend and flash, with the offset of their Depack
  MixedStub     \* and of mixed.s

HEADER_SIZE       == 36   \* container.zig
MIXED_HEADER_SIZE == 44   \* mixed_container.zig
DESC_SIZE         == 52
INFO_HEADER_SIZE  == 32   \* info.zig
MAGIC             == 256 * (256 * (256 * 69 + 120) + 67) + 114   \* "ExCr"

VARIABLES
  job,          \* a job, or the file of someone else
  stage,
  scratch,      \* the scratch hunk of a grouped file as far as it is built
  file_hunks,   \* the file's hunks: memory type, allocated bytes, bytes on disk
  report,       \* what info prints
  found         \* what the code in the file finds

file_vars == <<job, stage, scratch, file_hunks, report, found>>

-----------------------------------------------------------------------------
(* Bytes.                                                                  *)

Zeros(m) == [k \in 1..m |-> 0]
PadTo4(bytes) == bytes \o Zeros(Align4(Len(bytes)) - Len(bytes))

\* A big-endian number's bytes, counted from its last.
Up(value) == value \div 256
ByteOf(value, place) ==
  <<value, Up(value), Up(Up(value)), Up(Up(Up(value)))>>[place + 1] % 256

\* Fields are triples of offset, width and value, written side by side.
PutAll(bytes, base, fields) ==
  LET Holds(f, k) == k - base - f[1] \in 1..f[2]
      FieldAt(k)  == CHOOSE f \in fields : Holds(f, k)
  IN  [k \in DOMAIN bytes |->
         IF \E f \in fields : Holds(f, k)
         THEN ByteOf(FieldAt(k)[3], base + FieldAt(k)[1] + FieldAt(k)[2] - k)
         ELSE bytes[k]]

Get(bytes, at, width) ==
  LET Then(high, k) == 256 * high + bytes[at + k]
  IN  CASE width = 1 -> bytes[at + 1]
        [] width = 2 -> Then(bytes[at + 1], 2)
        [] OTHER     -> Then(Then(Then(bytes[at + 1], 2), 3), 4)

FLAG_MEM_CHIP   == 1
FLAG_HAS_RELOCS == 2
FLAG_FLASH      == 4
FLAG_OVERLAP    == 8
FLAG_KILLTWITCH == 16
FlagIf(condition, flag) == IF condition THEN flag ELSE 0
HasFlag(flags, flag) == (flags \div flag) % 2 = 1

FlashFlags(j) == FlagIf(j.flash, FLAG_FLASH) + FlagIf(j.flash /\ j.killtwitch, FLAG_KILLTWITCH)

FileHunk(attr, size, data) == [attr |-> attr, size |-> size, data |-> PadTo4(data)]

-----------------------------------------------------------------------------
(* A file of one image: buildContainer, buildOverlapHunk0Body,             *)
(* buildPackedExecutable.                                                  *)

StubOf(j) == Stubs[<<j.backend, j.flash>>]

HeaderFields(j) ==
  LET p == j.parts[1]
  IN  {<<0, 4, MAGIC>>, <<5, 1, 3>>, <<6, 1, j.backend>>,
       <<7, 1, FlagIf(p.attr = "chip", FLAG_MEM_CHIP) + FlagIf(HasRelocs(p.image), FLAG_HAS_RELOCS)
                + FlashFlags(j) + FlagIf(p.overlap, FLAG_OVERLAP)>>,
       <<8, 2, HEADER_SIZE>>,
       <<12, 4, p.image.code>>, <<16, 4, p.image.bss>>,
       <<20, 4, IF HasRelocs(p.image) THEN p.image.stream ELSE 0>>,
       <<24, 4, Len(p.payload)>>, <<28, 4, IF p.overlap THEN p.margin ELSE 0>>,
       <<32, 4, Len(Trampoline)>>}

ContainerHeader(j) == PutAll(Zeros(HEADER_SIZE), 0, HeaderFields(j))

Container(j) ==
  StubOf(j).bytes \o ContainerHeader(j) \o (IF j.parts[1].overlap THEN <<>> ELSE j.parts[1].payload)

SingleFile(j) ==
  LET p        == j.parts[1]
      resident == Hunk0Size(p.image)
  IN  <<IF p.overlap
        THEN FileHunk(p.attr, OverlapAllocatedSize(Len(Trampoline), Len(p.payload), p.margin, resident),
                      Trampoline \o p.payload)
        ELSE FileHunk(p.attr, resident, Trampoline),
        FileHunk("any", Align4(Len(Container(j))), Container(j))>>

WriteSingle ==
  /\ stage = "write" /\ ~job.grouped
  /\ file_hunks' = SingleFile(job)
  /\ stage' = "start"
  /\ UNCHANGED <<job, scratch, report, found>>

-----------------------------------------------------------------------------
(* A file of several images: mixed_container.build.                        *)

PrefixOf(m) == IF m = 1 THEN Trampoline ELSE <<>>

TablesSize(count) == MIXED_HEADER_SIZE + DESC_SIZE * count
DescriptorAt(m) == Len(MixedStub) + MIXED_HEADER_SIZE + DESC_SIZE * (m - 1)

Allocation(parts, m) ==
  LET p        == parts[m]
      resident == Larger(ResidentTailSize(p.image), Align4(Len(PrefixOf(m))))
  IN  IF p.overlap THEN OverlapAllocatedSize(Len(PrefixOf(m)), Len(p.payload), p.margin, resident)
                   ELSE resident

TotalOf(parts, size(_)) == SumFunction([m \in DOMAIN parts |-> size(parts[m])])

-----------------------------------------------------------------------------
(* What is packed: a job's parts are images with their payload; a single   *)
(* one is packed without the dispatcher unless grouped.  All sizes are     *)
(* those of the file's 32-bit fields, or the packer stops.                 *)

Byte == 0..255
LongValues == {v \in Nat : Up(Up(Up(v))) < 128}

Parts ==
  [attr : {"any", "chip", "fast"}, image : Images, payload : Seq(Byte) \ {<<>>}, margin : Nat,
   overlap : BOOLEAN]

IsJob(j) ==
  /\ j \in [parts : Seq(Parts), grouped : BOOLEAN, backend : Byte, flash : BOOLEAN, killtwitch : BOOLEAN]
  /\ Len(j.parts) \in IF j.grouped THEN 1..3 ELSE {1}
  /\ <<j.backend, j.flash>> \in DOMAIN Stubs

ScratchBound(j) ==
  Len(MixedStub) + TablesSize(Len(j.parts)) + Len(Stubs[<<j.backend, j.flash>>].bytes)
    + TotalOf(j.parts, LAMBDA p : 3 + Len(p.payload))

FitsFields(j) ==
  /\ \A m \in DOMAIN j.parts :
       LET p == j.parts[m]
       IN  {p.image.code, p.image.bss, p.image.stream, Len(p.payload), p.margin,
            Allocation(j.parts, m)} \subseteq LongValues
  /\ {TotalOf(j.parts, LAMBDA p : p.image.code), TotalOf(j.parts, LAMBDA p : p.image.bss),
      TotalOf(j.parts, LAMBDA p : p.image.stream), TotalOf(j.parts, LAMBDA p : Len(p.payload)),
      ScratchBound(j)} \subseteq LongValues

\* The stubs end with "even", and none begins with another.
PackedFileAssumption ==
  /\ TrampolineSize = Len(Trampoline) /\ HeaderSize = HEADER_SIZE
  /\ \A j \in Jobs : IsJob(j) /\ FitsFields(j)
  /\ Others \subseteq Seq([attr : {"any", "chip", "fast"}, size : Nat, data : Seq(Byte)])
  /\ \A s \in DOMAIN Stubs : Stubs[s].bytes \in Seq(Byte) /\ Stubs[s].depack \in 0..Len(Stubs[s].bytes)
  /\ {Trampoline, MixedStub} \subseteq Seq(Byte)
  /\ LET all == {Stubs[s].bytes : s \in DOMAIN Stubs} \cup {MixedStub}
     IN  \A a, b \in all : Len(a) % 2 = 0 /\ (IsPrefix(a, b) => a = b)
  /\ Len(Trampoline) % 2 = 0 /\ Len(Trampoline) \in LongValues

-----------------------------------------------------------------------------
(* Writing a file of several images, region by region.                     *)

Body(j, m) == IF j.parts[m].overlap THEN PrefixOf(m) \o j.parts[m].payload ELSE PrefixOf(m)

BeginGrouped ==
  /\ stage = "write" /\ job.grouped
  /\ scratch' = MixedStub \o Zeros(TablesSize(Len(job.parts))) \o StubOf(job).bytes
  /\ stage' = "parts"
  /\ UNCHANGED <<job, file_hunks, report, found>>

Descriptor(j, m, input) ==
  LET p == j.parts[m]
  IN  {<<0, 4, MAGIC>>, <<4, 1, 1>>, <<6, 1, j.backend>>,
       <<7, 1, FlagIf(p.attr = "chip", FLAG_MEM_CHIP) + FLAG_HAS_RELOCS
                + FlagIf(p.overlap, FLAG_OVERLAP) + FlashFlags(j)>>,
       <<8, 2, DESC_SIZE>>,
       <<12, 4, p.image.code>>, <<16, 4, p.image.bss>>, <<20, 4, p.image.stream>>,
       <<24, 4, Len(p.payload)>>, <<28, 4, p.margin>>, <<32, 4, Len(PrefixOf(m))>>,
       <<40, 4, input>>,
       <<44, 4, IF p.overlap THEN Allocation(j.parts, m) - Align4(Len(p.payload)) ELSE 0>>,
       <<48, 4, Allocation(j.parts, m)>>}

\* Faulty: where the payload goes is noted before the scratch hunk is padded.
AddPartUnpadded ==
  /\ stage = "parts" /\ Len(file_hunks) < Len(job.parts)
  /\ LET m     == Len(file_hunks) + 1
         p     == job.parts[m]
     IN  /\ scratch' = PutAll(IF p.overlap THEN scratch ELSE PadTo4(scratch) \o p.payload,
                              DescriptorAt(m),
                              Descriptor(job, m, IF p.overlap THEN Len(PrefixOf(m)) ELSE Len(scratch)))
         /\ file_hunks' = Append(file_hunks, FileHunk(p.attr, Allocation(job.parts, m), Body(job, m)))
  /\ UNCHANGED <<job, stage, report, found>>

\* One iteration of the loop over the parts.
AddPart ==
  /\ stage = "parts" /\ Len(file_hunks) < Len(job.parts)
  /\ LET m     == Len(file_hunks) + 1
         p     == job.parts[m]
         input == IF p.overlap THEN Len(PrefixOf(m)) ELSE Align4(Len(scratch))
     IN  /\ scratch' = PutAll(IF p.overlap THEN scratch ELSE PadTo4(scratch) \o p.payload,
                              DescriptorAt(m), Descriptor(job, m, input))
         /\ file_hunks' = Append(file_hunks, FileHunk(p.attr, Allocation(job.parts, m), Body(job, m)))
  /\ UNCHANGED <<job, stage, report, found>>

MixedHeader(j) ==
  {<<0, 4, MAGIC>>, <<4, 1, 1>>, <<6, 1, j.backend>>, <<7, 1, FlashFlags(j)>>,
   <<8, 2, MIXED_HEADER_SIZE>>,
   <<12, 4, TotalOf(j.parts, LAMBDA p : p.image.code)>>,
   <<16, 4, TotalOf(j.parts, LAMBDA p : p.image.bss)>>,
   <<20, 4, TotalOf(j.parts, LAMBDA p : p.image.stream)>>,
   <<24, 4, TotalOf(j.parts, LAMBDA p : Len(p.payload))>>,
   <<36, 4, Len(j.parts)>>,
   <<40, 4, Len(MixedStub) + TablesSize(Len(j.parts)) + StubOf(j).depack>>}

WriteGrouped ==
  /\ stage = "parts" /\ Len(file_hunks) = Len(job.parts)
  /\ LET body == PutAll(scratch, Len(MixedStub), MixedHeader(job))
     IN  file_hunks' = InsertAt(file_hunks, 2, FileHunk("any", Align4(Len(body)), body))
  /\ scratch' = <<>>
  /\ stage' = "start"
  /\ UNCHANGED <<job, report, found>>

-----------------------------------------------------------------------------
(* The code in the file, once LoadSeg has loaded it: registers and offsets *)
(* only; what happens then is the business of Runtime and MixedRuntime.    *)

\* Of the hunk from an offset, as many bytes as compressed_size says.
Payload(hunk, at, header, base) == SubSeq(hunk.data, at + 1, at + Get(header, base + 24, 4))

Fields(data, base) ==
  [code  |-> Get(data, base + 12, 4), bss |-> Get(data, base + 16, 4),
   flags |-> Get(data, base + 7, 1)]

\* What the runtime computes from its header (OverlapPayloadOffset).
RuntimeHeader(data, base) ==
  [code_data_size    |-> Get(data, base + 12, 4), bss_size        |-> Get(data, base + 16, 4),
   reloc_stream_size |-> Get(data, base + 20, 4), compressed_size |-> Get(data, base + 24, 4),
   safety_margin     |-> Get(data, base + 28, 4), trampoline_size |-> Get(data, base + 32, 4)]

\* Start: the header is at the stub's end.
StartSingle ==
  /\ stage = "start" /\ ~job.grouped
  /\ LET data == file_hunks[2].data
         base == Len(StubOf(job).bytes)
         overlap == HasFlag(Get(data, base + 7, 1), FLAG_OVERLAP)
         sound   == Get(data, base, 4) = MAGIC /\ Get(data, base + 4, 1) = 0   \* or Fail
         region  == [fields  |-> Fields(data, base),
                     payload |-> IF overlap
                                 THEN Payload(file_hunks[1], Get(data, base + 32, 4), data, base)
                                 ELSE Payload(file_hunks[2], base + Get(data, base + 8, 2), data, base),
                     at      |-> IF overlap THEN OverlapPayloadOffset(RuntimeHeader(data, base))
                                 ELSE base + Get(data, base + 8, 2)]
     IN  found' = [regions |-> IF sound THEN <<region>> ELSE <<>>, depack |-> StubOf(job).bytes]
  /\ stage' = "info"
  /\ UNCHANGED <<job, scratch, file_hunks, report>>

\* The group's resident hunk: the scratch hunk comes second.
ResidentHunk(file, m) == file[IF m = 1 THEN 1 ELSE m + 1]

\* The dispatcher: one group after the other, all by the same Depack.
StartGrouped ==
  /\ stage = "start" /\ job.grouped
  /\ LET data    == file_hunks[2].data
         header  == Len(MixedStub)
         desc(m) == header + 44 + 52 * (m - 1)
         input(m) == Get(data, desc(m) + 40, 4)
         overlap(m) == HasFlag(Get(data, desc(m) + 7, 1), FLAG_OVERLAP)
         region(m) == [fields  |-> Fields(data, desc(m)),
                       payload |-> Payload(IF overlap(m) THEN ResidentHunk(file_hunks, m) ELSE file_hunks[2],
                                           input(m), data, desc(m)),
                       at      |-> IF overlap(m) THEN Get(data, desc(m) + 44, 4) ELSE input(m)]
     IN  found' = [regions |-> [m \in 1..Get(data, header + 36, 4) |-> region(m)],
                   depack  |-> SubSeq(data, Get(data, header + 40, 4) + 1, Len(data))]
  /\ stage' = "info"
  /\ UNCHANGED <<job, scratch, file_hunks, report>>

-----------------------------------------------------------------------------
(* execram info: printInfo, locateHeader.                                  *)

KnownStubs == {Stubs[s].bytes : s \in DOMAIN Stubs} \cup {MixedStub}

container_data == file_hunks[IF Len(file_hunks) >= 2 THEN 2 ELSE 1].data
Matching == {stub \in KnownStubs : IsPrefix(stub, container_data)}

\* Faulty: the header is where its magic number is first found.
HeaderAtMagic ==
  Min({at \in 0..(Len(container_data) - 4) : Get(container_data, at, 4) = MAGIC})

HeaderOffset == Len(CHOOSE stub \in Matching : TRUE)

version_major == Get(container_data, HeaderOffset + 4, 1)
RegionCount   == Get(container_data, HeaderOffset + 36, 4)

\* The first check that fails, in the order they are made.
InfoError ==
  IF file_hunks = <<>> THEN "NotARecognizedHunkLayout"
  ELSE IF Matching = {} THEN "UnrecognizedStub"
  ELSE IF Len(container_data) < HeaderOffset + INFO_HEADER_SIZE THEN "TruncatedHeader"
  ELSE IF Get(container_data, HeaderOffset, 4) # MAGIC THEN "BadMagic"
  ELSE IF version_major # 1
       THEN IF Len(file_hunks) > 2 THEN "NotARecognizedHunkLayout" ELSE "none"
  ELSE IF Len(container_data) < HeaderOffset + MIXED_HEADER_SIZE THEN "TruncatedHeader"
  ELSE IF RegionCount \notin 1..3 \/ Len(file_hunks) # RegionCount + 1 THEN "NotARecognizedHunkLayout"
  ELSE IF Len(container_data) < HeaderOffset + MIXED_HEADER_SIZE + RegionCount * DESC_SIZE
       THEN "TruncatedHeader" ELSE "none"

Refuse ==
  /\ stage = "info" /\ InfoError # "none"
  /\ report' = [error |-> InfoError]
  /\ stage' = "done"
  /\ UNCHANGED <<job, scratch, file_hunks, found>>

ReportSingle ==
  /\ stage = "info" /\ InfoError = "none" /\ version_major # 1
  /\ LET at == HeaderOffset
         field(offset, width) == Get(container_data, at + offset, width)
     IN  report' = [error |-> "none", backend |-> field(6, 1), flags |-> field(7, 1),
                    header_size |-> field(8, 2), code |-> field(12, 4), bss |-> field(16, 4),
                    stream |-> field(20, 4), compressed |-> field(24, 4), margin |-> field(28, 4)]
  /\ stage' = "done"
  /\ UNCHANGED <<job, scratch, file_hunks, found>>

ReportGrouped ==
  /\ stage = "info" /\ InfoError = "none" /\ version_major = 1
  /\ LET at   == HeaderOffset
         flags(m) == Get(container_data, at + MIXED_HEADER_SIZE + (m - 1) * DESC_SIZE + 7, 1)
     IN  report' = [error |-> "none", backend |-> Get(container_data, at + 6, 1),
                    regions |-> [m \in 1..RegionCount |->
                                   [attr |-> ResidentHunk(file_hunks, m).attr,
                                    size |-> ResidentHunk(file_hunks, m).size,
                                    overlap |-> HasFlag(flags(m), FLAG_OVERLAP)]],
                    compressed |-> Get(container_data, at + 24, 4)]
  /\ stage' = "done"
  /\ UNCHANGED <<job, scratch, file_hunks, found>>

-----------------------------------------------------------------------------

FileInit ==
  /\ \/ job \in Jobs /\ stage = "write" /\ file_hunks = <<>>
     \/ job \in {[other |-> file] : file \in Others} /\ stage = "info" /\ file_hunks = job.other
  /\ scratch = <<>> /\ report = <<>> /\ found = <<>>

FileNext ==
  \/ WriteSingle \/ BeginGrouped \/ AddPart \/ WriteGrouped
  \/ StartSingle \/ StartGrouped
  \/ Refuse \/ ReportSingle \/ ReportGrouped
  \/ stage = "done" /\ UNCHANGED file_vars

FileSpec == FileInit /\ [][FileNext]_file_vars

-----------------------------------------------------------------------------
(* Properties                                                              *)

Packed == "parts" \in DOMAIN job

\* What the code at work has to find of part m: the image's sizes, the whole
\* payload, and a place for it at an even address; in place, one within its
\* hunk, behind prefix and margin.
FindsPart(j, file, m, region) ==
  LET p == j.parts[m]
  IN  /\ region.fields.code = p.image.code /\ region.fields.bss = p.image.bss
      /\ HasFlag(region.fields.flags, FLAG_HAS_RELOCS) <=> j.grouped \/ HasRelocs(p.image)
      /\ HasFlag(region.fields.flags, FLAG_KILLTWITCH) <=> j.flash /\ j.killtwitch
      /\ region.payload = p.payload
      /\ region.at % 2 = 0
      /\ p.overlap => /\ Len(PrefixOf(m)) <= region.at /\ p.margin <= region.at
                      /\ region.at + Align4(Len(p.payload)) <= ResidentHunk(file, m).size

CodeFindsAll(j, file, finding) ==
  /\ Len(finding.regions) = Len(j.parts)
  /\ \A m \in DOMAIN j.parts : FindsPart(j, file, m, finding.regions[m])
  /\ j.grouped => IsPrefix(SubSeq(StubOf(j).bytes, StubOf(j).depack + 1, Len(StubOf(j).bytes)), finding.depack)

InfoTellsAll(j, told) ==
  LET p == j.parts[1]
  IN  /\ told.error = "none" /\ told.backend = j.backend
      /\ IF j.grouped
         THEN /\ Len(told.regions) = Len(j.parts)
              /\ \A m \in DOMAIN j.parts : /\ told.regions[m].attr = j.parts[m].attr
                                         /\ told.regions[m].overlap = j.parts[m].overlap
                                         /\ told.regions[m].size = Allocation(j.parts, m)
              /\ told.compressed = TotalOf(j.parts, LAMBDA q : Len(q.payload))
         ELSE /\ told.code = p.image.code /\ told.bss = p.image.bss
              /\ told.compressed = Len(p.payload) /\ told.header_size = HEADER_SIZE
              /\ HasFlag(told.flags, FLAG_OVERLAP) <=> p.overlap
              /\ HasFlag(told.flags, FLAG_FLASH) <=> j.flash
              /\ HasFlag(told.flags, FLAG_MEM_CHIP) <=> p.attr = "chip"
              /\ told.margin = IF p.overlap THEN p.margin ELSE 0

\* A file that has all info reports on: behind a stub it knows a header, and
\* if that is of several regions, their resident hunks and descriptors.
IsWhole(file) ==
  LET data == file[IF Len(file) >= 2 THEN 2 ELSE 1].data
  IN  /\ file # <<>>
      /\ \E stub \in KnownStubs :
           LET at    == Len(stub)
               count == Get(data, at + 36, 4)
           IN  /\ IsPrefix(stub, data) /\ at + INFO_HEADER_SIZE <= Len(data)
               /\ Get(data, at, 4) = MAGIC
               /\ IF Get(data, at + 4, 1) = 1
                  THEN /\ at + MIXED_HEADER_SIZE <= Len(data)
                       /\ count \in 1..3 /\ Len(file) = count + 1
                       /\ at + TablesSize(count) <= Len(data)
                  ELSE Len(file) <= 2

\* The writers, the code they put in the file and info agree on every offset:
\* the code finds each payload whole, at an even address, and the sizes it
\* was packed with (runtime.i:48-100, mixed.s:12-66 against container.zig:99
\* and mixed_container.zig:33); info reports every file the packer writes as
\* it is, and refuses those of others that lack a part (info.zig:101-200).
ReadersAgree ==
  stage = "done" =>
    IF Packed THEN CodeFindsAll(job, file_hunks, found) /\ InfoTellsAll(job, report)
    ELSE report.error = "none" <=> IsWhole(job.other)
=============================================================================
