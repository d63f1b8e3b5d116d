# execram: a TLA+ model

execram turns an AmigaDOS executable into a smaller one that unpacks itself.
A host program (Zig, `src/src/`) parses the executable, flattens its hunks into
one image, compresses it and writes a new executable of two hunks; 68000 code
(`src/stubs/`) unpacks it in memory when AmigaDOS loads it.  This directory
models the program in TLA+, checks small instances with TLC and proves the
results that matter most with TLAPS.  Paths below are relative to the
repository.

## Inventory

| part | state it keeps | operations | interacts with | what makes it correct |
|---|---|---|---|---|
| hunk reader `src/hunk.zig` | cursor into the file, list of hunks | `parse`, `readReloc32Block`, `skipSymbolTable` | main | what it returns is what the file describes; anything else is an error |
| flattener `src/flatten.zig` | hunk bases, code bytes, relocation sites | `flatten`, `encodeRelocStream` | main, memory groups | every pointer of the flat image points, once relocated, where the original's did |
| memory groups `src/memory_groups.zig` | group per hunk, offset in the group | `needed`, `build` | flattener, mixed container | the same across groups of different memory types |
| backend zx0 `src/backends/zx0_vendor`, `salvador_vendor/expand.c` | a pool of counted blocks that outlives the call; two arrays of best parses | `optimize`, `compress`, `salvador_decompress` | packer, ZX0 depackers | the stream fits the buffer reckoned for it, and both decoders unpack the input |
| backend shrinkler `src/backends/shrinkler_vendor` | suffix array, counted edges in a heap and by offset, adaptive contexts, an interval | match finder, parser, LZ coder, range coder | packer, Shrinkler depacker | the parse spells the input; host and Amiga ask for each bit in the context it was coded in |
| backend inflate `src/backends/zopfli_vendor` | counts, code lengths, bits of a block | package-merge, `EncodeTree`, `AddLZ77Data` | packer, inflate depacker | codes are complete and within the limit, and the Amiga rebuilds them |
| backend lz4 `src/backends/lz4_vendor` | a window of prices, each with its last step; matches to write | `LZ4HC_compress_optimal`, `LZ4HC_encodeSequence`, `LZ4_decompress_safe` | packer, LZ4 depackers | no match begins or ends too near the end, so that copies in chunks stay inside every buffer |
| backends store, salvador, zultra, libdeflate | none of execram's | compress, decompress | packer | decompress(compress(x)) = x, checked at run time |
| margin measurement `src/musashi_bench.zig` | emulated memory, highest payload offset read, margin | memory callbacks, `measureOverlapMargin` | packer, 68000 emulator | with payload and output this far apart the depacker can run in place |
| packer `src/main.zig` | candidate outputs per backend, chosen layout | `pack`, `bench`, `info` | all of the above | writes a file only if every step succeeded, and the best one it tried |
| container writer `src/container.zig` | none | `buildContainer`, `writeHunkExecutable`, size formulas | packer, runtime (header fields) | packer and runtime compute the same layout |
| mixed container `src/mixed_container.zig` | region descriptors | `build` | memory groups, mixed runtime | each group lands in its memory type |
| runtime `stubs/common/runtime.i`, `trampoline.s` | registers, hunk 0, scratch hunk 1, segment chain | `Start`, `OverlapPayloadOffset`, `OverlapMovePayload`, `RelocFixup` | AmigaDOS loader, Exec, Depack | the program starts on exactly the memory LoadSeg would have given it, and the scratch hunk is freed once |
| mixed runtime `stubs/common/mixed.s` | base of every region | per group: depack, relocate, clear | as above | as above, with pointers between groups |
| depackers `stubs/{store,lz4,zx0,inflate,shrinkler}` | input and output pointers, bit buffer, tables, contexts on the stack | `Depack` | runtime | write exactly the output; in place, never over unread input |
| info `src/info.zig` | none | `locateHeader`, `printInfo` | packed files | finds the header of any file the packer wrote |

`bench` packs with the same functions and writes no file; `build.zig`, `tools/`,
the tests and the vendored emulator carry no logic of the packed program.

Interactions worth knowing before reading on:

- The **header** is the contract between packer and runtime: sizes, margin and
  flags go through it, and the runtime recomputes from it what the packer
  already decided.
- **Hunk 0** is written by four parties in turn: LoadSeg, the payload's move,
  Depack, and the relocation and clearing loops; in the overlap layout Depack's
  input, its output, the relocation stream and the program's BSS share it.
- The **scratch hunk** holds the code that frees it, and AmigaDOS keeps a chain
  of hunks that it will free again if nobody takes the scratch hunk out.
- Each **compressed format is implemented three times**, in three languages: by
  a compressor, by the decoder the host checks the result with, and by the
  depacker that ships.  Only the first two ever meet on the host.
- There is one thread in each half.  What runs beside the stub is the rest of
  AmigaDOS: another task may own freed memory at once, and UnLoadSeg comes when
  the program has ended.

What is hard here, and hard to test, is therefore order and space: reads and
writes of one memory in an order a compressor decides; sizes computed twice by
different code; memory given up while in use; shared nodes that are counted and
reused; positions of bytes, bits and pointers that two programs must agree on.
`PROJECT.json` lists these hazards line by line.

## Modules

| module | models | state and actions in the code's terms |
|---|---|---|
| `ContainerLayout` | size formulas of `container.zig`, `main.zig` and `runtime.i` | operators only: `OverlapAllocatedSize` is the packer's, `RuntimeAllocatedSize` the runtime's |
| `DepackContract` | `runtime.i`'s contract of Depack | abstract: a growing set of output bytes in place, then a return with all of them |
| `InPlaceDepack` | `musashi_bench.zig`'s measurement, `buildPackedExecutable`, LoadSeg, `OverlapMovePayload`, Depack in place | one decoder run is executed twice, read by read and write by write: once measured on separate buffers, once in hunk 0; cells record where their byte comes from |
| `InPlaceDepackProofs` | | proofs about it |
| `DepackTraces` | `store`, LZ4 (small), ZX0 and inflate depackers | the order of payload reads and output writes for a given stream |
| `RelocStream` | `encodeRelocStream`, `RelocFixup`; the same of the format with several regions | encoder and decoder as functions on sequences of bytes |
| `ProgramStart` | what LoadSeg would have given the program | abstract: a program is loading, then runs on its image owning its hunks and nothing else, then exits owning none |
| `Runtime` | `trampoline.s`, `runtime.i` | one action per step of `Start`; a relocation record, a cleared longword and each call are steps; AmigaDOS and other tasks are actions |
| `RuntimeProofs` | | proofs about it |
| `MixedRuntime` | `mixed.s` | the same for several regions, found by their links first |
| `MixedRuntimeProofs` | | proofs about it |
| `HunkFormat` | the load files `container.zig` and `mixed_container.zig` write | operators only; and, as reference definitions, a grammar of what linkers write (`LoadFile`) and the hunks that are in it (`HunksOf`) |
| `HunkFile` | `hunk.zig` | one action per read of the cursor, or per run of reads nothing comes between, and one per error |
| `FlatLayout` | the merged layout | reference definitions: where merging must put a hunk, and what LoadSeg makes of a relocated longword |
| `LayoutTheorems` | | theorems about `ContainerLayout`, `FlatLayout` and `RelocStream`, for all sizes, executables and sites; and what the proofs share: induction, sums over finite sets, relocating a word, ranks in a sorted list |
| `Flatten` | `flatten.zig` | one action per iteration of each loop, one per error |
| `FlattenProofs` | | proofs about it: layout, bytes and verdicts; then relocated longwords |
| `MemoryGroups` | `memory_groups.zig` | the same; flattening one group is one action |
| `HostProofs` | | proofs about `HunkFile` and `MemoryGroups` |
| `Pack` | `cmdPack`, `packBest`, `packWithBackend`, `packMemoryGroups`, `mixed_container.zig` | one action per step that may fail; history variable `tried` |
| `PackProofs` | | proofs about it |
| `PackedFile` | `buildContainer`, `mixed_container.build`, the headers' readers in `runtime.i`, `mixed.s` and `info.zig` | the file byte by byte, then what each reader finds at its own offsets |
| `Zx0Format` | what the ZX0 format fixes: Elias gamma codes, costs, the offset limit | operators only |
| `Zx0Optimize` | `zx0_vendor/optimize.c`, `memory.c` | one action per branch of the inner loop; blocks, their counts and the ghost list |
| `Zx0Codec` | `compress.c`, `shim.c`, `compressWithBackend` around them | one action per block written; then the two decoders' runs |
| `Zx0Expand` | `salvador_vendor/expand.c` | the host's decoder, step by step, as a function of the stream |
| `Unzx0` | `unzx0_68000.s`, `unzx0_68000_fast.s` | the depackers' basic blocks on registers `d0`-`d2`, `a0`-`a2` |
| `Lz4Codec` | the optimal parser and the writer of `lz4hc.c`, `lz4.zig`, `compressWithBackend` around them; `LZ4_decompress_generic` in the three builds its preprocessor tells apart; `lz4_smallest.asm`, `lz4_normal.asm`, `lz4_fastest.asm` | one action per place weighed and per sequence written; then a build of the host's decoder, between its labels and with the chunks it copies, and a variant of the depacker, by literals and by match |
| `RangeCoder` | `RangeCoder.h`, `RangeDecoder.h`, `GetBit` of `ShrinklerDecompress.s` | one action per bit coded, per doubling of the interval, per step of `finish`, per bit read and per bit decoded on each side |
| `ShrinklerProofs` | | proofs about it |
| `ShrinklerLZ` | `LZEncoder.h`, `Coder.h`, `LZDecoder.h`, `Decoder.h`, the loop of `ShrinklerDecompress.s` | symbols as bits in contexts; the Amiga's contexts are words of its stack |
| `Matches` | what `MatchFinder.h` promises | reference definitions |
| `MatchFinder` | `MatchFinder.h` | `beginMatching` and `nextMatch` with their two walks over the suffix array |
| `LZParser` | `LZParser.h`, `Heap.h`, `packData` of `Pack.h` | one action per edge made, per position, per iteration; edges live in cells, the heap is an array and the places in it |
| `InflateMatch` | `symbols.h` of zopfli; `build_base_extrabits`, `decode_loop` of `inflate_core.s` | a match as symbols and bits, and its copy |
| `InflateTables` | `ZopfliLengthsToSymbols`; `build_code`, `stream_next_symbol` | one action per symbol entered into the two-level table |
| `InflateHeader` | `EncodeTree`; `dynamic_huffman`, `static_huffman` | one action per run written and per length read |
| `CodeLengths` | `katajainen.c`, `OptimizeHuffmanForRle` | one action per step of the boundary package-merge and of the smoothing |

`MC*` modules only define small inputs and say which parts a run takes.
Definitions marked *Faulty* are plausible bugs of one definition each:
replacing the definition by its faulty form must break a property, and does.
`PROJECT.json` lists one for each property.

How they compose: `Runtime` and `MixedRuntime` take Depack and the payload's
move as single steps; `InPlaceDepack` is what justifies that, byte by byte.
`HunkFile` yields what `Flatten` starts from.  `Flatten` and `MemoryGroups`
produce the streams, through `RelocStream`, that `Runtime` and `MixedRuntime`
consume.  `Pack` and `MemoryGroups` produce regions as
`MixedRuntime` finds them; `PackedFile` is how they are written down.  `Zx0Codec` EXTENDS the
optimizer with its pool and instantiates both decoders.  `MatchFinder` delivers what `Matches` defines and
`LZParser` searches, `ShrinklerLZ` spells the parse and `RangeCoder` carries
its bits.  `CodeLengths` gives lengths, `InflateHeader` carries them,
`InflateTables` decodes with them what `InflateMatch` copies.

### What is abstracted

- **Bytes are origins** in the models of the runtime.  A cell says "payload
  byte 3" or "code byte 7, address added once".  That the payload decodes is
  `Pack`'s self-check, which the code also performs at run time.
- **A decoder is the order of its accesses** in `InPlaceDepack`: any such
  order, and those `DepackTraces` finds for the real ones.
- **Word and Radix.**  An address is a number modulo `Word` (2^32 in the code)
  and a byte of a relocation stream a digit below `Radix` (256): sums overflow
  and deltas are escaped at the same places, only sooner.
- **Longwords** of a load file are two flag bits and the 30 bits below them, so
  that a memory type, an advisory bit and a count too large for the file are
  told apart.  One to three bytes after the last whole longword are left out.
- **Lengths of stubs** are constants; those of the runs are a few bytes, so
  that the trampoline, the header and the payload matter as much as they can.
- **Widths of the compressed formats.**  ZX0's byte (`ByteBits`), the range
  coder's registers and bytes and how fast its contexts learn, Shrinkler's
  literals, and the first level of inflate's tables are constants, and every number of the
  code that stems from them is computed from them.  A ZX0 byte of two bits
  meets the offset limit, the end marker and the depackers' 16-bit counters on
  inputs of a dozen bytes.  `InflateMatch`, `InflateHeader`,
  `CodeLengths` and the LZ4 modules have the real widths, save that LZ4's parser weighs
  12 places at once (`LZ4_OPT_NUM`, 4096 in the code).
- **Costs.**  Shrinkler's parser asks a coder that only measures; the model
  reads the costs from a table (`SizeTables`), constant during one iteration as in the code.
- LZ4's match finder may report any of the longest matches (`FoundAt`): the code
  reports the one its chains lead to first.
- `computeSuffixArray` is modelled by its result, sorting in katajainen.c and
  the match finder's bookkeeping of `min_pos` by theirs.

## Runs

| run | what it covers | bounds, and why they are enough |
|---|---|---|
| `inplace` | the measured margin keeps Depack's contract in place | every decoder that never steps back over payloads up to 5 bytes and outputs up to 9, every interleaving and every skipped byte: payloads of every residue modulo 4, longer and shorter than the output; and the real depackers' orders, with literals, matches and lengths either side of each format's extension byte, inflate with a prefetched bit buffer and with fixed and dynamic trees |
| `inflate_rewind` | **violated**: a stored block after a long match | the shortest such streams, shifted through all bit positions |
| `runtime` | from LoadSeg to exit, both layouts | all pairs of sites of images of 4 and 12 bytes, BSS shorter and longer than the stream, a delta needing several escape digits, unsound headers, failing allocation |
| `runtime_allocates` | **violated**: "no AllocMem call exists anywhere in the runtime" | the same files |
| `mixed_runtime` | the same for one to three regions | every mixture of layouts, pointers within, forwards and backwards between regions, a region of BSS alone |
| `host` | reading, merging, grouping, writing and finding again | *reader*: five files of the packer and one of a linker with names, advisory bits, two groups of relocations, symbols, debug data, a reserved tail and BSS, each cut at every longword, with a longword more, and with every longword replaced by each of thirteen values; *flatten*: all pairs of six shapes of hunk (full, reserved tail, empty, BSS) with up to two relocations in any order, triples with BSS in front and in the middle, one file per error, sums one longword below and at the limit; *groups*: three and four hunks, full, with a reserved tail and BSS, over assignments of three memory types, relocations to every hunk, twice of one longword among them, and one file per error; *packed*: one image and one to three regions in both layouts, plain and flashing, payloads of every length mod 4, and files of others, two of which `info` must report and sixteen refuse |
| `pack` | choice and verification of the output | one and two regions, one and two backends, every option, every step failing; sizes either side of where the layouts cost the same |
| `pack_margin_on_disk` | **violated**: a comment and the help text on the overlap layout's file size | the same |
| `compressors` | ZX0 and LZ4 from end to end; Shrinkler's four parts | *zx0*: every input of up to eight bytes of two values and of six of three, and every pair of inputs of five bytes packed in one process, so that blocks are given out again after any history of five bytes; inputs at the largest offset; *lz4*: texts of five words of five bytes, chosen so that matches of every offset up to 20 meet, overlap and reach the end, and windows are left and cut off; and blocks whose literals, lengths and offsets lie either side of each value that the format or a decoder treats in a way of its own (15, 255 more, chunks of 8, 16, 32 and 64, the last 64 bytes); *coder*: every sequence of up to 11 bits, before four pairs of bytes in the memory behind the data; *lz*: every text of up to six symbols at both parities; *finder*: every text of eight letters of two, with and without patience; *parser*: every set of matches a finder could report on seven letters, three cost tables, room for four edges, skipping, two iterations |
| `zx0_long_run` | **violated**: a length that does not fit `dbf`'s word | 18 equal bytes, where a word is four bits |
| `deflate` | zopfli's blocks, read by the Amiga | *match*: every length, every distance up to 2048, and eight around each multiple of 512 up to the limit of zopfli and libdeflate; *tables*: every complete code of four symbols within two bits, then every one of six within five, so that tables have both levels and follow one another in memory; *header*: gaps and runs either side of 3, 6, 10, 11 and 138; runs of one to sixteen equal lengths at the end of the literals' and lengths' table that go on for one to sixteen distances, so that the run's first length, a repetition's middle or its end comes last of the one table; all eight choices of run symbols; *codes*: every histogram of seven counts of three values, limits of three and of seven bits |
| `inflate_far_match` | **violated**: the farthest match of DEFLATE | distances 32760 to 32768 |

`host`, `compressors` and `deflate` hold several models that share nothing: a
behaviour chooses a `part` at the start and is a behaviour of that part's
specification to its end, while the other parts' variables keep one value.  A
property of a part is stated for the behaviours of that part; each run
therefore answers the questions its parts would answer in runs of their own.

`inplace` and `compressors` switch deadlock checking off: their runs end
when Depack, or the last decoder, returns, and the models have nothing more to
do.  Everywhere else a final state is a step of its own.

Fairness is assumed only in `Runtime` and `MixedRuntime`: weak fairness of
`Run`, the steps of the stub itself.  A 68000 does not stop executing, and the
stub waits for nobody: no step of it is disabled by another task.  Nothing is
assumed about the program's exit or other tasks.  `Starts` then says that
the stub's loops end.  In all other modules loops are bounded by the input,
and nothing is claimed about progress.

### Properties, by the question they answer

- *Is the margin right?* `ReadsOriginalPayload`, `KeepsContract` (refinement of
  `DepackContract`); `MoveKeepsPayload` for the copy that precedes it;
  `AccessesStayInHunk`, `SizesAgree` for the space it happens in.
- *Does the program start on what LoadSeg would have given it?*
  `StartsProgram` (refinement of `ProgramStart`) and `Starts`;
  `WritesStayInFinal`, `WritesStayInGroups` on the way.
- *Is memory given back properly?* `NoUseAfterFree`, `FreedOnce`.
- *Are the instructions executed the ones just written?* `CodePublished`, and in
  `MixedRuntime` `StartsProgram`, whose program runs on a clean cache.
- *Is a file read as it was written?* `ReadsBack`; `HunksAreSound` for files
  that are damaged and accepted all the same; `ReadersAgree` for header,
  descriptors and payloads inside a packed one, and for files that only begin like one.
- *Is merging right?* `BytesInPlace`, `PointersAsLoaded`, `VerdictIsRight`;
  `BasesAgree`, `PointersAcrossGroups`.
- *Is the right file written?* `OutputIsBest`, `OutputVerified`,
  `AutoNeedsLeastMemory`, `MemoryClassesKept`.
- *Are nodes that are shared, counted and reused still what their holders take
  them for?* `ParsesAreSound` (zx0's blocks), `EdgesAreCounted` (Shrinkler's
  edges), `LengthsMakeCodes` (the nodes of package-merge).
- *Is what is written what was chosen?* `HostAccepts`, `ParseIsWhatItCosts`,
  `ReportsMatches`.
- *Does the Amiga read what the host checked?* `AmigaAgrees` (ZX0);
  `BlockComesBack` (LZ4, with the buffers of both sides);
  `BitsComeBack`, `DecodersRead` (Shrinkler); `LengthsComeBack`,
  `DecodesSymbols`, `MatchIsCopied` (inflate; each of them also says that the
  Amiga takes as many bits as were written).

## Proofs

TLAPS proves, for every value of the constants and every set of files that
satisfies the modules' named assumptions:

- `InPlaceDepackProofs!TypeCorrect`: types, for any decoder at all.
- `LayoutIsSafe`: the space of the move and of the accesses, and the alignment
  of the moved payload, for any decoder at all.
- `SizesNeverDrift`: packer and runtime compute the same size of hunk 0.  The
  header stores 0 for a stream of one byte, so the formulas differ there; they
  agree because the terminator is also written by the measured run, which makes
  the margin at least its share.  The proof carries that as `WritesCovered`.
- `MarginSuffices`, `MoveIsLossless`, `InPlaceKeepsContract`: under
  `ForwardJobs` (no decoder of the set steps its input back).
- `RuntimeProofs!ScratchOutlivesStub`, `ScratchFreedOnce`, `CacheClean`: the
  hand-over, for every file, every Exec version and any behaviour of other tasks.
- `RuntimeProofs!WritesStay`, `ProgramStartsRight`: for every file the packer may
  have written, in either layout, no write leaves hunk 0, and the stub
  implements `ProgramStart`.
- `MixedRuntimeProofs!HunksFreedOnce`, `RegionWritesStay`, `RegionsStartRight`:
  the same for any number of regions, in any mixture of layouts.
- `LayoutTheorems!StreamReadsBack`: `RelocFixup` visits exactly the sites
  `encodeRelocStream` was given, for every radix and every ascending list of
  even sites below twice what an escape holds; `GroupStreamReadsBack` the same
  for a stream with targets.
- `FlattenProofs!HunksTileImage`, `VerdictsAreRight`,
  `PointersAreLoaded`: all that the run `host` checks of merging,
  for every executable with any number of hunks, longwords and relocations.
- `HostProofs!AcceptedHunksAreSound`: whatever the file, the hunks `parse`
  returns are what the steps after it take for granted.
- `HostProofs!WrittenIsReadBack`: from every load file of that grammar, with any
  names, hunks, relocations, symbols and debug blocks, and whatever follows it,
  `parse` gives back the hunks it was written from; and it takes no file cut short for
  a whole one.  `OwnFilesAreLoadFiles`: the packer's own files are such files, for any
  parts, which is what `info` relies on.
- `HostProofs!BasesAreRight`: the second computation of the bases in
  `memory_groups.zig` agrees with `flatten`'s, for every executable with any
  mixture of memory kinds.
- `HostProofs!PointersAreRight`: wherever the groups are loaded, each relocated
  longword, a pointer into another kind of memory among them, ends up as LoadSeg
  would have made it.
- `PackProofs!SmallestIsWritten`, `OnlyVerifiedIsWritten`, `AutoIsOptimal`,
  `MemoryKindIsKept`: all that the run `pack` checks, for any number of
  regions and backends, all sizes, margins and failures.
- `PackProofs!FilesAreRead`: for every stub, image, payload and mixture of layouts
  whose sizes fit the fields they are written to, the stub of a single image, the
  dispatcher of several and `info` each find in the packed file, at the offsets they
  know, what the two writers put there; and of any other file `info` reports if and
  only if nothing is missing of what it reads (`IsWhole`).
- `ShrinklerProofs!BitsAreRight`: both of Shrinkler's decoders give back every
  sequence of bits, coded in any contexts, for every width of the registers and
  of a byte.
- `LayoutTheorems!PayloadOffsetIsSafe`: the payload offset's bounds and
  alignment for every image, payload length and margin.

The assumptions on constants are those of the code: sizes of stubs and of the
header (`LayoutAssumption`), what a reader of files accepts (`IsFile`,
`IsHunk`), `Word > 0`, a byte with at least three values,
`WidthAssumption`: an escape holds every half of an address, as four bytes
hold 31 bits of 32; `FilesAssumption` of the reader: a file that is not altered
is a load file with perhaps more after it or, if it is cut short, a strict prefix
of one; `PackedFileAssumption`: the bytes of the stubs are of even length and none begins
with another, a job has one part, or up to three if it is grouped, and the sizes
in its fields stay below 2^31; and `WidthsAssumption` of the range coder: registers of two
bits or more and `ADJUST_SHIFT` at least 2 (16 and 4 in the code).  With a shift
of 1 a context may reach a probability that leaves one of the bits no room,
against which `code` asserts; `LearnedStays` shows that from 2 on it cannot.

**Induction.**  Whatever rests on a recursive function or on a sum is proved by
induction over the natural numbers.  The library states induction for an
operator; `LayoutTheorems!SetInduction` states it for a set, which a first-order
prover can use, and derives it from the well-foundedness of `<`.

**The argument for the margin.**  `ReadsOriginalPayload` is not inductive: that
the bytes read so far were right says nothing about the next.  `IInv` adds what
the margin is for.  While measuring, `MeasuredSoFar` ties `maxConsumed` to the
highest offset read, and `MarginLeads` says of each pair of a write and a
*later* read that the read's offset plus the margin lies above the write.  For a
forward decoder the later read is above everything consumed before, so the
margin computed at the write is enough for all reads after it; this is the one
place where `ForwardJobs` is needed, and the place where inflate's rewind breaks
the argument.  Once loaded, `MoveKeepsPayload` follows the copy: bytes not yet
copied are at their source, others at their destination, neither overwritten
because the destination is not below the source.  In the run in place
`UnreadPayloadIntact` says that what is still to be read is where the move put
it, and a write keeps it so by `MarginLeads` and the payload offset's lower
bound; `WrittenOutputIntact` does the same for the output and gives the
refinement.

**The argument for the hand-over.**  `NoUseAfterFree` and `FreedOnce` follow
from `HeldUntilFreed`: the scratch hunk is held before `FreeScratch`, nobody's
or another task's after it, and hunk 0's link is cut by then, so that UnLoadSeg
cannot reach it.  `NothingStale` says that no write comes after the cache is
cleared.

**The argument for the fixup loop.**  `WritesStayInFinal` and `StartsProgram`
rest on one invariant, `Contents`.  Its part `Fixing` says that there is a
number `m` of sites such that the stub has read `m` records (its cursor is at
`Offset(sites, m)`), is at site `m`, has the rest of the stream unharmed before
it, and that each byte of the code carries one address for each of the first
`m` sites that cover it.  `LayoutTheorems!StreamTellsSites` says what
lies at that offset: a record with the next distance, or the terminator if no site is left.  That
the patches never touch the stream is part of the same induction.  In the
overlapping layout the stream and the payload's place follow from
`LayoutTheorems`.

**The argument for several regions.**  `MixedRuntimeProofs!Contents` gives each
region a stage: those before the group at work are finished, those after it are
as loaded, and the one at work goes through the stages of `Runtime`.  Every
write goes to the group at work (`WriteIs`), so that all others keep what their
stage says (`OthersStay`); `Fixing` is stated with `GroupOffset`, and counts the
addresses added to a byte per target.  That the group at work is the one whose
descriptor is read needs `Found`: while the chain is followed, the hunks found
are the residents in their order.  The chain itself is in `Linked`; that
following it from the first resident reaches all residents, and the scratch hunk
no longer, is an induction over the links (`ChainIsResidents`).

**The argument for merging.**  `Merged` says of each loop which hunks it has
passed: the running offset is the sum of *their* sizes (`Placed`), their bytes
are in place and all others' still zero (`Copied`), their relocations have passed
each check (`Verified`).  That places are disjoint and tile the image is then
a fact about sums over the hunks before a hunk.  For pointers
`Linked` adds, for each longword, the sum of the target addresses of the
relocations folded *so far* modulo `Word` and how often its site was
noted.  Sites are counted and not compared, because a longword may be relocated
twice and the sort may turn equal sites around; `AscendingSorts` shows
that sorting keeps the counts.  In the end the runtime adds the address once per
site, LoadSeg once per relocation, and `SumOfShifted` and `WrapsOnce` equate the two.

**The argument for the reader.**  `ReaderInvariant` says how many longwords the
next step takes (`Takes`), and that the hunk being read is sound as soon as its
body is.  The length is compared with the table's size before the body is taken,
in one step of the code; nothing after it touches either.

For files that are not altered, `Track` says that what is left of the load file
from the cursor on is always the words of what is left to read (`Coming`): the
names, the range and the table (`NamesThen`, `RangeThen`, `SizesThen`), the
hunks not yet begun (`HunksThen`), and, within a hunk, its body, its blocks and
the entries of its list (`BodyThen`, `BlocksThen`, `EntriesThen`).  Each of them
starts with the words the next step takes (`Faces`), so that the branch taken is
the one for what was written, and no error but `Truncated` is raised.
`IsLeft` adds that the relocations read so far, followed by those still to come,
are the hunk's.  `SeesAhead` is where the file comes in: as far as it reaches it
agrees with its load file.  At the end nothing is left (`AtDone`), so the cursor is
behind the load file's last word, which a file cut short does not reach.

**The argument for the groups.**  `BasesSoFar` says which hunks have a base: all
those of the groups before `g`, and those of group `g` before hunk `i`; and that
the two running offsets are sums over the latter.  `PartOfExecutable` shows that
merging a group's hunks alone (`flatten` of the subset) gives the same sums over
the whole file's hunks: the subset's order is the file's.
`FoldInvariant` says of each hunk which of its relocations are folded
(`Handled`): all in the groups before `g`, all of those before hunk `i` in group
`g`, and of hunk `i` those before `k`.  These, and no others, are added to its
longwords (`AreFolded`) and named in the list of sites, or, once the group is
encoded, in what its stream decodes to (`AreNamed`).  `AreNamed` is stated as a
sum over all functions from groups to addresses: that does not depend on the
order of the sites, so it survives sorting (`SortingKeeps`), and it is what the
runtime adds.  A site is one hunk's own (`SiteIsOwn`) because hunks of a group
do not overlap, so that folding one relocation changes nothing for another hunk.
`RoomAssumption` says that a stream has room for every distance within an image
and tells the number of a group from its end.

**The argument for the packer.**  `PackInv` says what `cmdPack` has in hand at each
point: results all of which decode but the one about to be checked
(`ResultsDecode`), files made of nothing else and with room for what
they store (`FilesAreSound`), and a best file that is the least of those `tried`
(`BestIsSmallest`).  `AutoIsOptimal` compares the choice made region by region with any
set of regions; the scratch hunk's padding, which joins them, cancels
because each payload is padded by itself.

**The argument for the range coder.**  A `Trail` is the set of all intervals the
coder has been in: each leads to the next, by doubling or by a bit.  In front of
it are the intervals through which the decoders, which start with size 1, get to
where the coder starts.  `CoderAt` says that what the coder has written, with
its register, is the low end of the trail's last interval; a carry finds a zero
to stop at because the interval's upper end never passes the next power of two
(`CarryFits`, `AddBitAdds`).  `Halves` is the invariant of `finish`; when
it ends, every number that continues the data, whatever follows it, lies in the
last interval (`FinishLands`).  So it does in every interval before
(`TrailLands`), and this is all a decoder needs: the host's keeps the least of
these numbers and the span up to the greatest (`HostAt`), which is why its
assertion holds; the Amiga's keeps the one that the bytes in memory form
(`AmigaAt`), in a register where the last bits of a byte stand before a mark
(`Holds`).  A decoder that has a bit to come is not at the trail's end, so there
is an interval to go to, the one of the bit that was coded (`TrailLeads`).
`CoderInv` speaks of all numbers that continue the data, so that TLC cannot
evaluate it; the run `compressors` checks what follows from it.

**The argument for the packed file.**  A number below 2^31 is the four bytes
`put` makes of it, in the order the readers take them (`FieldReads`).  `PutAll`
writes fields that lie side by side, so each is read back whatever the others hold
(`PutReads`), and bytes outside the fields' region keep their value.  `PackedInv` follows the writer of several regions: while parts
are added, the scratch hunk begins with dispatcher, tables and stub (`HoldsFrame`)
and every part added so far has its descriptor, its payload behind the padding, and its
resident hunk (`HoldsPart`, `HoldsAll`).  A part added later changes none
of these: it writes into its own descriptor and appends the rest.  The file, once
written, is of one of two forms (`IsSingle`, `IsGrouped`), from which what stub,
dispatcher and `info` read follows.  `info` finds the header behind the stub it
recognizes, and that stub is the one written because no stub begins with another
(`OneStubMatches`).  `OtherInv` says of other files what `info` has found.
`ReadersAgree` asks of a payload in place that it end within its hunk, behind prefix
and margin: that it ends flush with it is `SizesAgree`, which needs a measured margin.

Only model-checked: liveness (`Starts`), which needs ENABLED;
`EdgesAreCounted` of the parser; and the other compressors and their decoders, most of whose modules define what they
write by recursion.

## What the checks found

- `inflate_core.s:255`: before a stored block inflate returns prefetched bytes
  by stepping its input pointer back, and reads them a second time.  The
  measurement takes the highest offset read for consumed, so its margin can be
  one byte short.  `inflate_rewind` shows a stream for which the last byte of a
  match overwrites a byte of the stored block's length.  Whether a packed file
  is affected depends on rounding: the margin must be a multiple of four and
  decide hunk 0's size.
- `unzx0_68000.s:47`: lengths have 32 bits but both copy loops count with
  `dbf`, so a match or a run of literals longer than 65536 is copied modulo 2^16 by the
  plain depacker too (`zx0_long_run`), while `docs/algorithm-notes/zx0.md:68`
  ascribes such a limit to the fast variant alone.  The host's decoder copies all
  of it, so the pack-time check passes.
- `inflate_core.s:418`: the distance is subtracted as a word from an address
  register, which extends its sign; a distance of 32768 is copied from ahead
  (`inflate_far_match`).  zopfli and libdeflate stop one short of it; zultra
  does not.
- `main.zig:912` and the help text at `main.zig:226` describe an overlap layout
  that stores the margin as zero bytes; `buildOverlapHunk0Body` no longer does.
- `docs/memory-lifecycle.md:137` says that nothing in the runtime calls
  AllocMem; inflate's Depack does, and hangs if it gets nothing.

Met while modelling, and stated by no run:

- `hunk.zig:11-16` says that "resident-library headers with actual names" are
  "rejected with a clear error rather than silently mishandled"; `parse` skips
  the names (`hunk.zig:126-134`, whose own comment says so) and accepts the
  file, whose packed form has none.  The grammar of load files (`LinkedFiles`)
  has names and `ReadsBack` follows the code: it demands that the hunks of such a file
  be read as they were written, and its holding says nothing for `hunk.zig:11-16`.
- `container.zig:134` stores a stream length of 0 for an image without
  relocations, whose payload still ends with the stream's terminator: Depack
  then writes one byte more than `docs/format-spec.md:198` and `info.zig:82`
  say, and `tools/bench/main.zig:116` expects a byte too few.
- `Heap.h:57` fills the gap of a removed edge with the last one and sifts it
  down only; the next edge given up need not be the least favourable
  (`LZParser.h:25`).  The parse may be longer for it, never wrong.
- `MatchFinder.h:177` bounds what is collected, not what has been: a match may
  be reported that is farther away than a longer one, against `MatchFinder.h:7`.
- `ShrinklerDecompress.s:70` allows one byte to be read beyond the data; the
  decoder may fetch two.  `Behind` gives each a value of its own, and
  `BitsAreRight` shows that neither matters.
- zx0's optimizer ends a run of literals where the byte agrees with the one an
  offset back, for every offset, so that its parse can be a bit or two longer than
  the shortest, which `docs/algorithm-notes/zx0.md:45` says it finds.
- `flatten` accepts a file whose first hunk is BSS, and the merged program is
  then entered at its first loaded hunk, while `memory_groups.build` rejects the
  same file; `packBest` gives up on all backends when one returns an error.

## Assumptions

- Relocations do not partially overlap: two sites are the same longword or four
  bytes apart.  `FlatLayout` represents code as longwords at their offsets.
- A hunk's data is as long as its body and not longer than its allocation
  (`IsHunk`): `HunksAreSound` says that `parse` returns no other.
- Depack writes every byte of its output (`IsJob`): the self-check compares all
  of it before a file is written.  That the stub's assembly does what the host's
  decoder does is checked for ZX0, LZ4, Shrinkler's layers and zopfli's blocks,
  and assumed for store and the streams of the other compressors.
- Registers the stub keeps across Depack are preserved, as `runtime.i:34` asks.
- Shrinkler's output starts at an even address, as LoadSeg's memory does.

## Not modelled

- The emulator (`musashi_vendor`, with its floating point): `InPlaceDepack`
  models the callbacks through which execram watches it.
- The compressors of salvador, zultra and libdeflate, LZ4's match finder, and how
  zopfli chooses matches and block boundaries: vendored heuristics.  Whatever they choose,
  execram checks that it decodes, and `Pack` models that check and its failure.
- The flash variants of the stubs: the same streams, with writes to custom-chip
  registers.
- The host's inflate decoder (libdeflate's).  Of LZ4, what execram does not call: the
  other compressors, dictionaries, streams, partial decoding; and the tests for
  pointers that wrap around.
- Option parsing, messages, `bench`'s tables, the build.

Nine tenths of the lines in the repository are the vendored code named first;
the map covers most of execram's own.

## Plan

Done: the overlap layout end to end; both runtimes; reading, flattening and grouping;
the packer's choices; the packed file and its readers; ZX0, LZ4, Shrinkler and
zopfli's blocks from compressor to depacker.  Proved for every value of the
constants: everything the overlap layout, the runtimes, the hunk reader, the flattener, the
groups, the packer's choices, the packed file's writers and readers, and Shrinkler's
range coder promise.  Left to prove: `EdgesAreCounted` of `LZParser`, with the heap's
places and counts as invariants of its operations.

The compressors' remaining properties say what recursive definitions (the bytes a
compressor writes, the ones a decoder makes of them) compute for every input.  That is
induction over data, which stays with TLC.
