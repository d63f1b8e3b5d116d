-------------------------------- MODULE Pack --------------------------------
(***************************************************************************)
(* execram pack (src/main.zig): from a parsed executable to the file that  *)
(* is written.  Every backend asked for compresses every region, each      *)
(* result is decompressed and compared, measured and laid out; the         *)
(* smallest file wins.  A compressor's output is known by its length, the  *)
(* margin and the time measured for it, and whether it decodes.            *)
(***************************************************************************)
EXTENDS ContainerLayout, Integers, FiniteSets, SequencesExt

CONSTANTS
  Inputs,          \* executables: per kind of memory they use, its attr and image
  Options,         \* command lines
  PayloadSizes, Margins, Seconds,      \* what compressing a region may give
  StubSize, FlashSize, DispatcherSize  \* lengths of the assembled stubs

IsInput(c) ==
  /\ c \in Seq(Range(c)) \ {<<>>}
  /\ \A n \in DOMAIN c : c[n].attr \in {"any", "chip", "fast"} /\ c[n].image \in Images
  /\ \A m, n \in DOMAIN c : m # n => c[m].attr # c[n].attr

ASSUME PackAssumption ==
  /\ \A c \in Inputs : IsInput(c)
  /\ \A o \in Options :
       /\ o.overlap \in {"on", "off", "auto"} /\ o.flash \in {"on", "off", "auto"}
       /\ o.mem \in {"none", "chip", "fast"}
       /\ o.names \in Seq(Range(o.names)) \ {<<>>}
  /\ PayloadSizes \subseteq Nat \ {0} /\ Margins \subseteq Nat /\ Seconds \subseteq Nat
  /\ {StubSize, FlashSize, DispatcherSize} \subseteq Nat

VARIABLES
  input, options,
  pc,
  regions,      \* what is compressed on its own: one image, or one per kind of memory
  n,            \* names[n] is the backend at work
  compressed,   \* its results so far, one per region
  best,         \* the smallest file so far, in a sequence of at most one
  tried,        \* history: every file built
  out           \* the output path holds its "old" content, "part" of best, or "best"

vars == <<input, options, pc, regions, n, compressed, best, tried, out>>

Init ==
  /\ input \in Inputs
  /\ options \in Options
  /\ pc = "parse"
  /\ regions = <<>> /\ n = 1 /\ compressed = <<>>
  /\ best = <<>> /\ tried = {}
  /\ out = "old"

Fails == pc' = "failed" /\ UNCHANGED <<input, options, regions, n, compressed, best, tried, out>>

-----------------------------------------------------------------------------
(* Regions.                                                                *)

Total(f(_)) == SumFunction([m \in DOMAIN input |-> f(input[m])])

\* Faulty: a program that wants fast memory throughout is not told apart.
NeededIfDifferent == \E m \in DOMAIN input : input[m].attr # input[1].attr

Needed == \E m \in DOMAIN input : input[m].attr # input[1].attr \/ input[m].attr = "fast"

Grouped == options.mem = "none" /\ Needed

\* flatten's single image of all hunks.  Its stream has a record per site of
\* the groups' and one terminator.
Merged ==
  [attr  |-> CASE options.mem = "chip" -> "chip"
               [] options.mem = "fast" -> "any"
               [] OTHER -> IF \E m \in DOMAIN input : input[m].attr = "chip" THEN "chip" ELSE "any",
   image |-> [code   |-> Total(LAMBDA c : c.image.code),
              bss    |-> Total(LAMBDA c : c.image.bss),
              stream |-> 1 + Total(LAMBDA c : c.image.stream - 1)]]

Layout ==
  /\ pc = "parse"
  /\ regions' = IF Grouped THEN input ELSE <<Merged>>
  /\ pc' = "compress"
  /\ UNCHANGED <<input, options, n, compressed, best, tried, out>>

\* Reading, parsing, flattening or grouping returns an error.
InputRejected == pc = "parse" /\ Fails

-----------------------------------------------------------------------------
(* One backend on one region: compressWithBackend.                         *)

Compress ==
  /\ pc = "compress" /\ Len(compressed) < Len(regions)
  /\ \E len \in PayloadSizes, decodes \in BOOLEAN :
       compressed' = Append(compressed, [len |-> len, decodes |-> decodes, margin |-> 0, seconds |-> 0])
  /\ pc' = "verify"
  /\ UNCHANGED <<input, options, regions, n, best, tried, out>>

\* No such backend, or its compressor returns an error.
CompressFails == pc = "compress" /\ Len(compressed) < Len(regions) /\ Fails

\* Faulty: a mismatch is reported and the result used all the same.
SelfCheckWarns ==
  /\ pc = "verify"
  /\ pc' = "measure"
  /\ UNCHANGED <<input, options, regions, n, compressed, best, tried, out>>

SelfCheck ==
  /\ pc = "verify"
  /\ Last(compressed).decodes
  /\ pc' = "measure"
  /\ UNCHANGED <<input, options, regions, n, compressed, best, tried, out>>

SelfCheckFails == pc = "verify" /\ ~Last(compressed).decodes /\ Fails

Measure ==
  /\ pc = "measure"
  /\ \E margin \in Margins, seconds \in Seconds :
       compressed' = [compressed EXCEPT ![Len(compressed)].margin = margin,
                                        ![Len(compressed)].seconds = seconds]
  /\ pc' = "compress"
  /\ UNCHANGED <<input, options, regions, n, best, tried, out>>

\* The emulated stub faults, runs out of cycles or has no Depack.
MeasureFails == pc = "measure" /\ Fails

-----------------------------------------------------------------------------
(* The files that can be made of regions: buildPackedExecutable, and       *)
(* packGroupsBackend with mixed_container.zig.                             *)

UseFlash ==
  \/ options.flash = "on"
  \/ options.flash = "auto" /\ SumFunction([r \in DOMAIN compressed |-> compressed[r].seconds]) > 1

Stub == IF UseFlash THEN FlashSize ELSE StubSize

\* Only the first region starts with the trampoline.
Prefix(r)   == IF r = 1 THEN TrampolineSize ELSE 0

\* Faulty: room for the image alone.
ResidentOfImage(r) == ResidentTailSize(regions[r].image)

Resident(r) == Larger(ResidentTailSize(regions[r].image), Align4(Prefix(r)))
Overlapped(r) ==
  OverlapAllocatedSize(Prefix(r), compressed[r].len, compressed[r].margin, Resident(r))

Hunk(attr, size, body) == [attr |-> attr, size |-> size, body |-> body]

RegionHunk(r, overlaps) ==
  Hunk(regions[r].attr,
       IF r \in overlaps THEN Overlapped(r) ELSE Resident(r),
       Prefix(r) + IF r \in overlaps THEN compressed[r].len ELSE 0)

Payloads(overlaps) ==
  SumFunction([r \in DOMAIN regions \ overlaps |-> Align4(compressed[r].len)])

\* Stub, header and payload; or dispatcher, header, descriptors, stub and
\* every payload on a longword of its own.
ScratchBody(overlaps) ==
  IF Grouped
  THEN Align4(DispatcherSize + 44 + 52 * Len(regions) + Stub) + Payloads(overlaps)
  ELSE Stub + HeaderSize + IF 1 \in overlaps THEN 0 ELSE compressed[1].len

File(overlaps) ==
  LET scratch == ScratchBody(overlaps)
  IN  [ hunks    |-> <<RegionHunk(1, overlaps), Hunk("any", Align4(scratch), scratch)>>
                       \o [r \in 1 .. Len(regions) - 1 |-> RegionHunk(r + 1, overlaps)],
        overlaps |-> overlaps,
        payloads |-> compressed ]

\* Longwords: five, the table, and three per hunk around its padded body.
FileSize(file) ==
  4 * (5 + 4 * Len(file.hunks))
    + SumFunction([h \in DOMAIN file.hunks |-> Align4(file.hunks[h].body)])

Peak(file) == SumFunction([h \in DOMAIN file.hunks |-> file.hunks[h].size])

\* Faulty: the margin is not part of what an overlapped region costs.
OverlapPaysOffNoMargin(r) ==
  OverlapAllocatedSize(Prefix(r), compressed[r].len, 0, Resident(r))
    < Resident(r) + Align4(compressed[r].len)

OverlapPaysOff(r) ==
  IF Grouped
  THEN Overlapped(r) < Resident(r) + Align4(compressed[r].len)
  ELSE Overlapped(r) + Align4(Stub + HeaderSize)
         < Resident(r) + Align4(Stub + HeaderSize + compressed[r].len)

ChosenOverlaps ==
  CASE options.overlap = "on"   -> DOMAIN regions
    [] options.overlap = "off"  -> {}
    [] options.overlap = "auto" -> {r \in DOMAIN regions : OverlapPaysOff(r)}

\* Faulty: the last file built is kept.
KeepLast ==
  /\ pc = "compress" /\ Len(compressed) = Len(regions)
  /\ best' = <<File(ChosenOverlaps)>>
  /\ tried' = tried \cup {File(ChosenOverlaps)}
  /\ n' = n + 1
  /\ compressed' = <<>>
  /\ pc' = IF n = Len(options.names) THEN "write" ELSE "compress"
  /\ UNCHANGED <<input, options, regions, out>>

\* A candidate replaces the best one only if it is smaller.
Candidate ==
  /\ pc = "compress" /\ Len(compressed) = Len(regions)
  /\ LET file == File(ChosenOverlaps)
     IN  /\ best' = IF best = <<>> \/ FileSize(file) < FileSize(best[1]) THEN <<file>> ELSE best
         /\ tried' = tried \cup {file}
  /\ n' = n + 1
  /\ compressed' = <<>>
  /\ pc' = IF n = Len(options.names) THEN "write" ELSE "compress"
  /\ UNCHANGED <<input, options, regions, out>>

Write ==
  /\ pc = "write"
  /\ out' = "best"
  /\ pc' = "done"
  /\ UNCHANGED <<input, options, regions, n, compressed, best, tried>>

\* The file is opened and truncated before it is written.
WriteFails ==
  /\ pc = "write"
  /\ out' \in {"old", "part"}
  /\ pc' = "failed"
  /\ UNCHANGED <<input, options, regions, n, compressed, best, tried>>

Next ==
  \/ Layout \/ InputRejected
  \/ Compress \/ CompressFails \/ SelfCheck \/ SelfCheckFails \/ Measure \/ MeasureFails
  \/ Candidate \/ Write \/ WriteFails
  \/ pc \in {"done", "failed"} /\ UNCHANGED vars

Spec == Init /\ [][Next]_vars

-----------------------------------------------------------------------------
(* Properties.                                                             *)

\* Whatever fails, the output path holds its old content or a file that every
\* backend was tried for and none made smaller; only a failing write itself
\* can leave part of one.
OutputIsBest ==
  /\ pc \notin {"done", "failed"} => out = "old"
  /\ pc = "done" =>
       /\ out = "best"
       /\ n = Len(options.names) + 1
       /\ \A file \in tried : FileSize(best[1]) <= FileSize(file)
  /\ out = "part" => pc = "failed" /\ n = Len(options.names) + 1

\* No payload is written that was not seen to decode to its region, and every
\* hunk declares room for its body, as writeHunkExecutable asserts.
OutputVerified ==
  pc = "done" =>
    /\ \A r \in DOMAIN best[1].payloads : best[1].payloads[r].decodes
    /\ \A h \in Range(best[1].hunks) : h.size % 4 = 0 /\ h.size >= h.body

\* The layout chosen region by region is, with --overlap=auto, the one that
\* needs the least memory among all layouts of these payloads.
AutoNeedsLeastMemory ==
  pc = "compress" /\ Len(compressed) = Len(regions) /\ options.overlap = "auto" =>
    \A overlaps \in SUBSET DOMAIN regions : Peak(File(ChosenOverlaps)) <= Peak(File(overlaps))

\* What the comment in cmdBench and its help text say of the overlap layout:
\* its file carries the margin as zero bytes (two hunks' rounding aside).  It does not:
\* buildOverlapHunk0Body writes trampoline and payload, whatever the margin.
MarginOnDisk ==
  pc = "compress" /\ Len(compressed) = Len(regions) =>
    FileSize(File(DOMAIN regions))
      >= FileSize(File({})) + SumFunction([r \in DOMAIN compressed |-> compressed[r].margin]) - 8

\* Unless the user overrides it, every region's resident hunk is in the kind
\* of memory its hunks asked for.
MemoryClassesKept ==
  pc = "done" /\ options.mem = "none" =>
    LET residents == RemoveAt(best[1].hunks, 2)
    IN  IF Len(residents) = Len(input)
        THEN \A r \in DOMAIN input : residents[r].attr = input[r].attr
        ELSE \A r \in DOMAIN input : input[r].attr = residents[1].attr
=============================================================================
