----------------------------- MODULE PackProofs -----------------------------
(***************************************************************************)
(* Proofs about Pack and PackedFile: about the packer's choice, for every  *)
(* executable, every command line, and every length, margin and time a     *)
(* compressor may yield; and about the file it writes, that those who read *)
(* it, stub, dispatcher and execram info, find in its bytes what was put   *)
(* there, for every job whose sizes fit their fields.                      *)
(***************************************************************************)
EXTENDS Pack, PackedFile, LayoutTheorems

-----------------------------------------------------------------------------
(* Regions.                                                                *)

Divided == IF Grouped THEN input ELSE <<Merged>>

LEMMA TotalIsNat ==
  ASSUME input \in Inputs, NEW f, DOMAIN f = DOMAIN input, \A m \in DOMAIN input : f[m] \in Nat
  PROVE  SumFunction(f) \in Nat
<1>1. IsFiniteSet(DOMAIN input)
  <2>1. DOMAIN input = 1 .. Len(input) /\ Len(input) \in Nat
    BY PackAssumption DEF IsInput
  <2>2. QED
    BY <2>1, FS_Interval
<1>2. QED
  BY <1>1, SumIsNat DEF SumFunction

LEMMA MergedIsImage ==
  ASSUME input \in Inputs
  PROVE  Merged.image \in Images
<1>1. \A m \in DOMAIN input : input[m].image \in Images
  BY PackAssumption DEF IsInput
<1>2. \A m \in DOMAIN input :
        /\ input[m].image.code \in Nat
        /\ input[m].image.bss \in Nat
        /\ input[m].image.stream - 1 \in Nat
  BY <1>1 DEF Images
<1>3. SumFunction([m \in DOMAIN input |-> input[m].image.code]) \in Nat
  BY <1>2, TotalIsNat
<1>4. SumFunction([m \in DOMAIN input |-> input[m].image.bss]) \in Nat
  BY <1>2, TotalIsNat
<1>5. SumFunction([m \in DOMAIN input |-> input[m].image.stream - 1]) \in Nat
  BY <1>2, TotalIsNat
<1>6. QED
  BY <1>3, <1>4, <1>5 DEF Merged, Images, Total

LEMMA RegionsAre ==
  ASSUME input \in Inputs, regions = Divided
  PROVE  /\ Len(regions) \in Nat \ {0}
         /\ DOMAIN regions = 1 .. Len(regions)
         /\ \A r \in DOMAIN regions : regions[r].image \in Images
<1>1. CASE Grouped
  BY <1>1, PackAssumption DEF Divided, IsInput
<1>2. CASE ~Grouped
  BY <1>2, MergedIsImage DEF Divided
<1>3. QED
  BY <1>1, <1>2

-----------------------------------------------------------------------------
(* Results and hunks.                                                      *)

Results == [len : Nat, decodes : BOOLEAN, margin : Nat, seconds : Nat]

\* What a file is made from once a backend has compressed every region.
Complete ==
  /\ input \in Inputs
  /\ regions = Divided
  /\ compressed \in Seq(Results)
  /\ Len(compressed) = Len(regions)

LEMMA ResultsAre ==
  ASSUME Complete
  PROVE  /\ DOMAIN compressed = DOMAIN regions
         /\ \A r \in DOMAIN regions : /\ compressed[r] \in Results
                                      /\ compressed[r].len \in Nat
                                      /\ compressed[r].margin \in Nat
<1>1. DOMAIN regions = 1 .. Len(regions)
  BY RegionsAre DEF Complete
<1>2. compressed \in Seq(Results) /\ Len(compressed) = Len(regions)
  BY DEF Complete
<1>3. DOMAIN compressed = DOMAIN regions /\ \A r \in DOMAIN regions : compressed[r] \in Results
  BY <1>1, <1>2
<1>4. QED
  BY <1>3 DEF Results

LEMMA PrefixIsNat == ASSUME NEW r PROVE Prefix(r) \in Nat
BY LayoutAssumption DEF Prefix

\* A region's hunk has room for what is stored in it, in either layout.
LEMMA RegionSizes ==
  ASSUME Complete, NEW r \in DOMAIN regions
  PROVE  /\ Resident(r) \in Nat /\ Resident(r) % 4 = 0 /\ Prefix(r) <= Resident(r)
         /\ Overlapped(r) \in Nat /\ Overlapped(r) % 4 = 0
         /\ Prefix(r) + compressed[r].len <= Overlapped(r)
<1>1. ResidentTailSize(regions[r].image) \in Nat
  BY RegionsAre, ResidentTailFacts DEF Complete
<1>2. ResidentTailSize(regions[r].image) % 4 = 0
  <2>1. regions[r].image.code \in Nat /\ regions[r].image.bss \in Nat /\ regions[r].image.stream \in Nat
    BY RegionsAre DEF Complete, Images
  <2>2. Larger(regions[r].image.bss, regions[r].image.stream) \in Nat
    BY <2>1, LargerIsNat
  <2>3. regions[r].image.code + Larger(regions[r].image.bss, regions[r].image.stream) \in Nat
    BY <2>1, <2>2
  <2>4. QED
    BY <2>3, Align4Rounds DEF ResidentTailSize
<1>3. Prefix(r) \in Nat /\ Align4(Prefix(r)) \in Nat /\ Align4(Prefix(r)) % 4 = 0 /\ Prefix(r) <= Align4(Prefix(r))
  BY PrefixIsNat, Align4Rounds
<1>4. Resident(r) \in Nat /\ Resident(r) % 4 = 0 /\ Prefix(r) <= Resident(r)
  <2>1. Resident(r) = Larger(ResidentTailSize(regions[r].image), Align4(Prefix(r)))
    BY DEF Resident
  <2>2. \/ Resident(r) = ResidentTailSize(regions[r].image) /\ Align4(Prefix(r)) <= Resident(r)
        \/ Resident(r) = Align4(Prefix(r))
    BY <1>1, <1>3, <2>1 DEF Larger
  <2>3. QED
    BY <1>1, <1>2, <1>3, <2>2
<1>5. compressed[r].len \in Nat /\ compressed[r].margin \in Nat
  BY ResultsAre
<1>6. /\ Overlapped(r) \in Nat /\ Overlapped(r) % 4 = 0
      /\ Prefix(r) + Align4(compressed[r].len) <= Overlapped(r)
  BY <1>3, <1>4, <1>5, OverlapSizeCovers DEF Overlapped
<1>7. Align4(compressed[r].len) \in Nat /\ compressed[r].len <= Align4(compressed[r].len)
  BY <1>5, Align4Rounds
<1>8. Prefix(r) + compressed[r].len <= Overlapped(r)
  BY <1>3, <1>5, <1>6, <1>7
<1>9. QED
  BY <1>3, <1>4, <1>6, <1>8

LEMMA PayloadsAre ==
  ASSUME Complete, NEW overlaps \in SUBSET DOMAIN regions
  PROVE  Payloads(overlaps) \in Nat
<1> DEFINE f == [r \in DOMAIN regions \ overlaps |-> Align4(compressed[r].len)]
<1>1. IsFiniteSet(DOMAIN regions \ overlaps)
  <2>1. IsFiniteSet(DOMAIN regions)
    BY RegionsAre, FS_Interval DEF Complete
  <2>2. QED
    BY <2>1, FS_Subset
<1>2. \A r \in DOMAIN regions \ overlaps : f[r] \in Nat
  BY ResultsAre, Align4Rounds
<1>3. SumFunctionOnSet(f, DOMAIN f) \in Nat
  <2>1. DOMAIN f = DOMAIN regions \ overlaps
    OBVIOUS
  <2> HIDE DEF f
  <2>2. QED
    BY <1>1, <1>2, <2>1, SumIsNat
<1>4. QED
  BY <1>3 DEF Payloads, SumFunction

LEMMA StubIsNat == Stub \in Nat
BY PackAssumption DEF Stub

\* What surrounds the payloads of the scratch hunk.
Frame == IF Grouped THEN Align4(DispatcherSize + 44 + 52 * Len(regions) + Stub) ELSE Stub + HeaderSize

LEMMA FrameIsNat == ASSUME Complete PROVE Frame \in Nat
<1>1. Len(regions) \in Nat /\ DispatcherSize \in Nat /\ HeaderSize \in Nat /\ Stub \in Nat
  BY RegionsAre, StubIsNat, PackAssumption, LayoutAssumption DEF Complete
<1>2. DispatcherSize + 44 + 52 * Len(regions) + Stub \in Nat
  BY <1>1
<1>3. QED
  BY <1>1, <1>2, Align4Rounds DEF Frame

LEMMA ScratchIsNat ==
  ASSUME Complete, NEW overlaps \in SUBSET DOMAIN regions
  PROVE  ScratchBody(overlaps) \in Nat
<1>1. 1 \in DOMAIN regions
  BY RegionsAre DEF Complete
<1>2. Frame \in Nat /\ Payloads(overlaps) \in Nat /\ compressed[1].len \in Nat
  BY <1>1, FrameIsNat, PayloadsAre, ResultsAre
<1>3. ScratchBody(overlaps) =
        Frame + IF Grouped THEN Payloads(overlaps) ELSE IF 1 \in overlaps THEN 0 ELSE compressed[1].len
  BY StubIsNat, LayoutAssumption, <1>2 DEF ScratchBody, Frame
<1>4. QED
  BY <1>2, <1>3

HunkIsSound(h) ==
  /\ h.size \in Nat /\ h.body \in Nat
  /\ h.size % 4 = 0 /\ h.size >= h.body

\* The hunk of region r is the first or the one behind it.
LEMMA HunksAre ==
  ASSUME Complete, NEW overlaps \in SUBSET DOMAIN regions
  PROVE  LET written == File(overlaps).hunks
         IN  /\ DOMAIN written = 1 .. Len(regions) + 1
             /\ Len(written) = Len(regions) + 1
             /\ written[1] = RegionHunk(1, overlaps)
             /\ written[2] = Hunk("any", Align4(ScratchBody(overlaps)), ScratchBody(overlaps))
             /\ \A r \in DOMAIN regions : r # 1 => written[r + 1] = RegionHunk(r, overlaps)
<1> DEFINE first == <<RegionHunk(1, overlaps), Hunk("any", Align4(ScratchBody(overlaps)), ScratchBody(overlaps))>>
           others == [r \in 1 .. Len(regions) - 1 |-> RegionHunk(r + 1, overlaps)]
<1>1. File(overlaps).hunks = first \o others
  BY DEF File
<1>2. Len(regions) \in Nat \ {0} /\ DOMAIN regions = 1 .. Len(regions)
  BY RegionsAre DEF Complete
<1>3. Len(first) = 2 /\ DOMAIN first = 1 .. 2 /\ Len(others) = Len(regions) - 1 /\ DOMAIN others = 1 .. Len(regions) - 1
  BY <1>2
<1>4. QED
  BY <1>1, <1>2, <1>3

LEMMA FileIsSound ==
  ASSUME Complete, NEW overlaps \in SUBSET DOMAIN regions
  PROVE  LET file == File(overlaps)
         IN  /\ \A h \in Range(file.hunks) : HunkIsSound(h)
             /\ FileSize(file) \in Nat
<1> DEFINE written == File(overlaps).hunks
           padded == [h \in DOMAIN written |-> Align4(written[h].body)]
<1>1. \A r \in DOMAIN regions : HunkIsSound(RegionHunk(r, overlaps))
  <2> SUFFICES ASSUME NEW r \in DOMAIN regions
               PROVE  HunkIsSound(RegionHunk(r, overlaps))
    OBVIOUS
  <2>1. Prefix(r) \in Nat /\ compressed[r].len \in Nat
    BY PrefixIsNat, ResultsAre
  <2>2. QED
    BY <2>1, RegionSizes DEF HunkIsSound, RegionHunk, Hunk
<1>2. HunkIsSound(Hunk("any", Align4(ScratchBody(overlaps)), ScratchBody(overlaps)))
  BY ScratchIsNat, Align4Rounds DEF HunkIsSound, Hunk
<1>3. DOMAIN written = 1 .. Len(regions) + 1 /\ Len(written) = Len(regions) + 1
  BY HunksAre
<1>4. Len(regions) \in Nat \ {0} /\ DOMAIN regions = 1 .. Len(regions)
  BY RegionsAre DEF Complete
<1>5. \A h \in DOMAIN written : HunkIsSound(written[h])
  <2> SUFFICES ASSUME NEW h \in DOMAIN written
               PROVE  HunkIsSound(written[h])
    OBVIOUS
  <2>1. CASE h \in {1, 2}
    BY <1>1, <1>2, <1>4, <2>1, HunksAre
  <2>2. CASE h \notin {1, 2}
    <3>1. h - 1 \in DOMAIN regions /\ h - 1 # 1 /\ (h - 1) + 1 = h
      BY <1>3, <1>4, <2>2
    <3>2. written[(h - 1) + 1] = RegionHunk(h - 1, overlaps)
      BY <3>1, HunksAre
    <3>3. QED
      BY <1>1, <3>1, <3>2
  <2>3. QED
    BY <2>1, <2>2
<1>6. \A h \in Range(written) : HunkIsSound(h)
  BY <1>5 DEF Range
<1>7. SumFunction(padded) \in Nat
  <2>1. \A h \in DOMAIN padded : padded[h] \in Nat
    BY <1>5, Align4Rounds DEF HunkIsSound
  <2>2. IsFiniteSet(DOMAIN padded)
    BY <1>3, <1>4, FS_Interval
  <2>3. SumFunctionOnSet(padded, DOMAIN padded) \in Nat
    <3> HIDE DEF padded
    <3> QED
      BY <2>1, <2>2, SumIsNat
  <2>4. QED
    BY <2>3 DEF SumFunction
<1>8. FileSize(File(overlaps)) \in Nat
  <2>1. FileSize(File(overlaps)) = 4 * (5 + 4 * Len(written)) + SumFunction(padded)
    BY DEF FileSize
  <2>2. QED
    BY <1>3, <1>4, <1>7, <2>1
<1>9. QED
  BY <1>6, <1>8

-----------------------------------------------------------------------------
(* The inductive invariant.                                                *)

\* What cmdPack has in hand at each of its points.
Progress ==
  /\ input \in Inputs /\ options \in Options
  /\ pc \in {"parse", "compress", "verify", "measure", "write", "done", "failed"}
  /\ pc = "parse" => n = 1 /\ compressed = <<>> /\ best = <<>> /\ tried = {}
  /\ pc \in {"compress", "verify", "measure"} => n \in 1 .. Len(options.names)
  /\ pc \in {"write", "done"} => n = Len(options.names) + 1
  /\ pc \in {"compress", "verify", "measure", "write", "done"} => regions = Divided

\* All results but one that is yet to be checked are known to decode.
ResultsDecode ==
  pc \in {"compress", "verify", "measure"} =>
    /\ compressed \in Seq(Results) /\ Len(compressed) <= Len(regions)
    /\ pc \in {"verify", "measure"} => compressed # <<>>
    /\ \A r \in DOMAIN compressed : compressed[r].decodes \/ (pc = "verify" /\ r = Len(compressed))

\* Every file was made of results that decode, and describes every region.
IsSound(file) ==
  /\ FileSize(file) \in Nat
  /\ \A h \in Range(file.hunks) : HunkIsSound(h)
  /\ \A r \in DOMAIN file.payloads : file.payloads[r].decodes
  /\ Len(file.hunks) = Len(regions) + 1 /\ DOMAIN file.hunks = 1 .. Len(regions) + 1
  /\ file.hunks[1].attr = regions[1].attr
  /\ \A r \in DOMAIN regions : r # 1 => file.hunks[r + 1].attr = regions[r].attr

FilesAreSound == pc # "failed" => \A file \in tried : IsSound(file)

\* The file kept is one of those built, and none is smaller.
BestIsSmallest ==
  pc # "failed" =>
    /\ n > 1 => tried # {}
    /\ IF tried = {} THEN best = <<>>
       ELSE \E file \in tried : /\ best = <<file>>
                               /\ \A other \in tried : FileSize(file) <= FileSize(other)

\* The output path is touched last.
OutputLast ==
  /\ pc \notin {"done", "failed"} => out = "old"
  /\ pc = "done" => out = "best"
  /\ out = "part" => pc = "failed" /\ n = Len(options.names) + 1
  /\ out \in {"old", "part", "best"}

PackInv == Progress /\ ResultsDecode /\ FilesAreSound /\ BestIsSmallest /\ OutputLast

LEMMA InitPack == Init => PackInv
BY DEF Init, PackInv, Progress, ResultsDecode, FilesAreSound, BestIsSmallest, OutputLast

LEMMA ProgressStep == Progress /\ [Next]_vars => Progress'
<1> SUFFICES ASSUME Progress, [Next]_vars
             PROVE  Progress'
  OBVIOUS
<1> USE DEF Progress
<1>1. CASE Layout
  <2>1. Len(options.names) \in Nat \ {0}
    BY PackAssumption
  <2>2. Divided' = Divided
    BY <1>1 DEF Layout, Divided, Grouped, Needed, Merged, Total
  <2>3. regions' = Divided
    BY <1>1 DEF Layout, Divided
  <2>4. QED
    BY <1>1, <2>1, <2>2, <2>3 DEF Layout
<1>2. ASSUME UNCHANGED <<input, options, regions>>, pc # "parse"
      PROVE  (regions = Divided) => (regions' = Divided')
  BY <1>2 DEF Divided, Grouped, Needed, Merged, Total
<1>3. CASE Compress
  BY <1>2, <1>3 DEF Compress
<1>4. CASE SelfCheck
  BY <1>2, <1>4 DEF SelfCheck
<1>5. CASE Measure
  BY <1>2, <1>5 DEF Measure
<1>6. CASE Candidate
  <2>1. Len(options.names) \in Nat /\ n \in 1 .. Len(options.names)
    BY <1>6, PackAssumption DEF Candidate
  <2>2. QED
    BY <1>2, <1>6, <2>1 DEF Candidate
<1>7. CASE Write
  BY <1>2, <1>7 DEF Write
<1>8. CASE WriteFails
  BY <1>8 DEF WriteFails
<1>9. CASE InputRejected \/ CompressFails \/ SelfCheckFails \/ MeasureFails
  BY <1>9 DEF InputRejected, CompressFails, SelfCheckFails, MeasureFails, Fails
<1>10. CASE UNCHANGED vars
  BY <1>2, <1>10 DEF vars
<1>11. QED
  BY <1>1, <1>3, <1>4, <1>5, <1>6, <1>7, <1>8, <1>9, <1>10 DEF Next

LEMMA ResultsStep == Progress /\ ResultsDecode /\ [Next]_vars => ResultsDecode'
<1> SUFFICES ASSUME Progress, ResultsDecode, [Next]_vars
             PROVE  ResultsDecode'
  OBVIOUS
<1>0. pc \in {"compress", "verify", "measure"} => Len(regions) \in Nat \ {0}
  BY RegionsAre DEF Progress
<1>1. CASE Layout
  <2>1. compressed' = <<>> /\ regions' = Divided
    BY <1>1 DEF Layout, Progress, Divided
  <2>2. Len(regions') \in Nat
    BY <2>1, PackAssumption DEF Progress, Divided, IsInput
  <2>3. pc' = "compress"
    BY <1>1 DEF Layout
  <2>4. QED
    BY <2>1, <2>2, <2>3 DEF ResultsDecode
<1>2. CASE Compress
  <2>1. PICK len \in PayloadSizes, decodes \in BOOLEAN :
          compressed' = Append(compressed, [len |-> len, decodes |-> decodes, margin |-> 0, seconds |-> 0])
    BY <1>2 DEF Compress
  <2>2. [len |-> len, decodes |-> decodes, margin |-> 0, seconds |-> 0] \in Results
    BY PackAssumption DEF Results
  <2> DEFINE r == [len |-> len, decodes |-> decodes, margin |-> 0, seconds |-> 0]
  <2>3. compressed' = Append(compressed, r) /\ r \in Results
    BY <2>1, <2>2
  <2> HIDE DEF r
  <2>4. /\ compressed \in Seq(Results) /\ Len(compressed) < Len(regions) /\ Len(regions) \in Nat
        /\ \A m \in DOMAIN compressed : compressed[m].decodes
        /\ pc' = "verify" /\ regions' = regions
    BY <1>0, <1>2 DEF Compress, ResultsDecode
  <2>5. /\ compressed' \in Seq(Results) /\ Len(compressed') = Len(compressed) + 1 /\ compressed' # <<>>
        /\ \A m \in DOMAIN compressed' : m = Len(compressed') \/ (m \in DOMAIN compressed /\ compressed'[m] = compressed[m])
    BY <2>3, <2>4
  <2>6. QED
    BY <2>4, <2>5 DEF ResultsDecode
<1>3. CASE SelfCheck
  BY <1>3 DEF SelfCheck, ResultsDecode, Last
<1>4. CASE Measure
  <2>1. PICK margin \in Margins, seconds \in Seconds :
          compressed' = [compressed EXCEPT ![Len(compressed)].margin = margin,
                                           ![Len(compressed)].seconds = seconds]
    BY <1>4 DEF Measure
  <2>2. margin \in Nat /\ seconds \in Nat
    BY PackAssumption
  <2>3. /\ compressed \in Seq(Results) /\ Len(compressed) <= Len(regions) /\ compressed # <<>>
        /\ \A m \in DOMAIN compressed : compressed[m].decodes
        /\ pc' = "compress" /\ regions' = regions
    BY <1>4 DEF Measure, ResultsDecode
  <2>4. /\ DOMAIN compressed = 1 .. Len(compressed) /\ Len(compressed) \in Nat \ {0}
        /\ \A m \in DOMAIN compressed : compressed[m] \in Results
    BY <2>3
  <2> DEFINE last == compressed[Len(compressed)]
             measured == [last EXCEPT !.margin = margin, !.seconds = seconds]
  <2>5. compressed' = [compressed EXCEPT ![Len(compressed)] = measured]
    BY <2>1, <2>4
  <2>6. measured \in Results /\ measured.decodes = last.decodes
    <3>1. last \in Results
      BY <2>4
    <3> HIDE DEF last
    <3>2. QED
      BY <2>2, <3>1 DEF Results
  <2> HIDE DEF measured
  <2>7. /\ compressed' \in Seq(Results) /\ Len(compressed') = Len(compressed)
        /\ \A m \in DOMAIN compressed' : compressed'[m].decodes = compressed[m].decodes /\ m \in DOMAIN compressed
    BY <2>3, <2>4, <2>5, <2>6
  <2>8. QED
    BY <2>3, <2>7 DEF ResultsDecode
<1>5. CASE Candidate
  BY <1>0, <1>5 DEF Candidate, ResultsDecode
<1>6. CASE Write \/ WriteFails \/ InputRejected \/ CompressFails \/ SelfCheckFails \/ MeasureFails
  BY <1>6 DEF Write, WriteFails, InputRejected, CompressFails, SelfCheckFails, MeasureFails, Fails, ResultsDecode
<1>7. CASE UNCHANGED vars
  BY <1>7 DEF vars, ResultsDecode
<1>8. QED
  BY <1>1, <1>2, <1>3, <1>4, <1>5, <1>6, <1>7 DEF Next

LEMMA ChosenOverlapsAre ==
  ASSUME options \in Options
  PROVE  ChosenOverlaps \in SUBSET DOMAIN regions
BY PackAssumption DEF ChosenOverlaps

\* The file a backend's results are made into.
LEMMA CandidateIsSound ==
  ASSUME Progress, ResultsDecode, pc = "compress", Len(compressed) = Len(regions)
  PROVE  IsSound(File(ChosenOverlaps))
<1> DEFINE file == File(ChosenOverlaps)
<1>1. Complete
  BY DEF Complete, Progress, ResultsDecode
<1>2. ChosenOverlaps \in SUBSET DOMAIN regions
  BY ChosenOverlapsAre DEF Progress
<1>3. file.payloads = compressed
  BY DEF File
<1>4. \A r \in DOMAIN file.payloads : file.payloads[r].decodes
  BY <1>3 DEF ResultsDecode
<1>5. (\A h \in Range(file.hunks) : HunkIsSound(h)) /\ FileSize(file) \in Nat
  BY <1>1, <1>2, FileIsSound
<1>6. \A r \in DOMAIN regions : RegionHunk(r, ChosenOverlaps).attr = regions[r].attr
  BY DEF RegionHunk, Hunk
<1>7. 1 \in DOMAIN regions
  BY <1>1, RegionsAre DEF Complete
<1>8. QED
  BY <1>1, <1>2, <1>4, <1>5, <1>6, <1>7, HunksAre DEF IsSound

LEMMA FilesStep == Progress /\ ResultsDecode /\ FilesAreSound /\ [Next]_vars => FilesAreSound'
<1> SUFFICES ASSUME Progress, ResultsDecode, FilesAreSound, [Next]_vars
             PROVE  FilesAreSound'
  OBVIOUS
<1>1. ASSUME UNCHANGED regions
      PROVE  \A file : IsSound(file) => IsSound(file)'
  BY <1>1 DEF IsSound, HunkIsSound, FileSize
<1>2. CASE Layout
  BY <1>2 DEF Layout, FilesAreSound, Progress
<1>3. CASE Candidate
  <2> DEFINE file == File(ChosenOverlaps)
  <2>1. IsSound(file)
    BY <1>3, CandidateIsSound DEF Candidate
  <2>2. tried' = tried \cup {file} /\ pc = "compress" /\ regions' = regions
    BY <1>3 DEF Candidate
  <2>3. \A f \in tried' : IsSound(f)
    BY <2>1, <2>2 DEF FilesAreSound
  <2> HIDE DEF file
  <2>4. QED
    BY <1>1, <2>2, <2>3 DEF FilesAreSound
<1>4. CASE Compress \/ SelfCheck \/ Measure \/ Write \/ UNCHANGED vars
  <2>1. tried' = tried /\ UNCHANGED regions /\ (pc' # "failed" => pc # "failed")
    BY <1>4 DEF Compress, SelfCheck, Measure, Write, vars
  <2>2. QED
    BY <1>1, <2>1 DEF FilesAreSound
<1>5. CASE WriteFails \/ InputRejected \/ CompressFails \/ SelfCheckFails \/ MeasureFails
  BY <1>5 DEF WriteFails, InputRejected, CompressFails, SelfCheckFails, MeasureFails, Fails, FilesAreSound
<1>6. QED
  BY <1>2, <1>3, <1>4, <1>5 DEF Next

LEMMA BestStep ==
  Progress /\ ResultsDecode /\ FilesAreSound /\ BestIsSmallest /\ [Next]_vars => BestIsSmallest'
<1> SUFFICES ASSUME Progress, ResultsDecode, FilesAreSound, BestIsSmallest, [Next]_vars
             PROVE  BestIsSmallest'
  OBVIOUS
<1> DEFINE size(file) == FileSize(file)
<1>1. CASE Candidate
  <2> DEFINE file == File(ChosenOverlaps)
  <2>1. /\ best' = IF best = <<>> \/ size(file) < size(best[1]) THEN <<file>> ELSE best
        /\ tried' = tried \cup {file} /\ pc = "compress"
    BY <1>1 DEF Candidate
  <2>2. size(file) \in Nat /\ \A f \in tried : size(f) \in Nat
    BY <1>1, <2>1, CandidateIsSound DEF Candidate, FilesAreSound, IsSound
  <2>3. \A f : size(f)' = size(f)
    BY DEF FileSize
  <2> HIDE DEF file, size
  <2>4. CASE tried = {}
    <3>1. best' = <<file>> /\ tried' = {file}
      BY <2>1, <2>4 DEF BestIsSmallest
    <3>2. QED
      BY <2>2, <3>1 DEF BestIsSmallest, size
  <2>5. CASE tried # {}
    <3>1. PICK f \in tried : best = <<f>> /\ \A other \in tried : size(f) <= size(other)
      BY <2>1, <2>5 DEF BestIsSmallest, size
    <3>2. best # <<>> /\ best[1] = f
      BY <3>1
    <3>3. CASE size(file) < size(f)
      <4>1. best' = <<file>>
        BY <2>1, <3>2, <3>3
      <4>2. \A other \in tried' : size(file) <= size(other)
        BY <2>1, <2>2, <3>1, <3>3
      <4>3. QED
        BY <2>1, <4>1, <4>2 DEF BestIsSmallest, size
    <3>4. CASE ~(size(file) < size(f))
      <4>1. best' = <<f>>
        BY <2>1, <3>1, <3>2, <3>4
      <4>2. \A other \in tried' : size(f) <= size(other)
        BY <2>1, <2>2, <3>1, <3>4
      <4>3. QED
        BY <2>1, <4>1, <4>2 DEF BestIsSmallest, size
    <3>5. QED
      BY <3>3, <3>4
  <2>6. QED
    BY <2>4, <2>5
<1>2. CASE Layout \/ Compress \/ SelfCheck \/ Measure \/ Write \/ UNCHANGED vars
  <2>1. tried' = tried /\ best' = best /\ n' = n /\ (pc' # "failed" => pc # "failed")
    BY <1>2 DEF Layout, Compress, SelfCheck, Measure, Write, vars
  <2>2. QED
    BY <2>1 DEF BestIsSmallest, FileSize
<1>3. CASE WriteFails \/ InputRejected \/ CompressFails \/ SelfCheckFails \/ MeasureFails
  BY <1>3 DEF WriteFails, InputRejected, CompressFails, SelfCheckFails, MeasureFails, Fails, BestIsSmallest
<1>4. QED
  BY <1>1, <1>2, <1>3 DEF Next

LEMMA OutputStep == Progress /\ OutputLast /\ [Next]_vars => OutputLast'
<1> SUFFICES ASSUME Progress, OutputLast, [Next]_vars
             PROVE  OutputLast'
  OBVIOUS
<1>1. CASE Layout \/ Compress \/ SelfCheck \/ Measure \/ Candidate
  BY <1>1 DEF Layout, Compress, SelfCheck, Measure, Candidate, OutputLast
<1>2. CASE Write
  BY <1>2 DEF Write, OutputLast
<1>3. CASE WriteFails
  BY <1>3 DEF WriteFails, OutputLast, Progress
<1>4. CASE InputRejected \/ CompressFails \/ SelfCheckFails \/ MeasureFails
  BY <1>4 DEF InputRejected, CompressFails, SelfCheckFails, MeasureFails, Fails, OutputLast
<1>5. CASE UNCHANGED vars
  BY <1>5 DEF vars, OutputLast
<1>6. QED
  BY <1>1, <1>2, <1>3, <1>4, <1>5 DEF Next

LEMMA PackInvariance == Spec => []PackInv
<1>1. PackInv /\ [Next]_vars => PackInv'
  BY ProgressStep, ResultsStep, FilesStep, BestStep, OutputStep DEF PackInv
<1>2. QED
  BY InitPack, <1>1, PTL DEF Spec

\* cmdPack (src/main.zig) opens the output path only after the last backend,
\* with the smallest of all files built.
THEOREM SmallestIsWritten == Spec => []OutputIsBest
<1>1. PackInv => OutputIsBest
  <2> SUFFICES ASSUME PackInv
               PROVE  OutputIsBest
    OBVIOUS
  <2>1. ASSUME pc = "done"
        PROVE  \A file \in tried : FileSize(best[1]) <= FileSize(file)
    <3>1. CASE tried = {}
      BY <3>1
    <3>2. CASE tried # {}
      <4>1. PICK f \in tried : best = <<f>> /\ \A other \in tried : FileSize(f) <= FileSize(other)
        BY <2>1, <3>2 DEF PackInv, BestIsSmallest
      <4>2. best[1] = f
        BY <4>1
      <4>3. QED
        BY <4>1, <4>2
    <3>3. QED
      BY <3>1, <3>2
  <2>2. QED
    BY <2>1 DEF PackInv, Progress, OutputLast, OutputIsBest
<1>2. QED
  BY PackInvariance, <1>1, PTL

\* When cmdPack is done, a file has been built, and the one kept is among them.
LEMMA BestIsSound ==
  ASSUME PackInv, pc = "done"
  PROVE  IsSound(best[1])
<1>1. Len(options.names) \in Nat \ {0} /\ n > 1
  BY PackAssumption DEF PackInv, Progress
<1>2. PICK f \in tried : best = <<f>>
  BY <1>1 DEF PackInv, BestIsSmallest
<1>3. best[1] = f /\ IsSound(f)
  BY <1>2 DEF PackInv, FilesAreSound
<1>4. QED
  BY <1>3

\* The self-check of compressWithBackend stands between every payload and the
\* file, and both layouts declare hunks that hold their bodies, which
\* writeHunkExecutable asserts.
THEOREM OnlyVerifiedIsWritten == Spec => []OutputVerified
<1>1. PackInv => OutputVerified
  BY BestIsSound DEF OutputVerified, IsSound, HunkIsSound
<1>2. QED
  BY PackInvariance, <1>1, PTL

\* Whether the regions are packed apart (memory_groups.zig's needed) or merged
\* by flatten.zig, no hunk ends up in a kind of memory it did not ask for,
\* however many kinds the executable has.
THEOREM MemoryKindIsKept == Spec => []MemoryClassesKept
<1>1. PackInv => MemoryClassesKept
  <2> SUFFICES ASSUME PackInv, pc = "done", options.mem = "none"
               PROVE  LET residents == RemoveAt(best[1].hunks, 2)
                      IN  IF Len(residents) = Len(input)
                          THEN \A r \in DOMAIN input : residents[r].attr = input[r].attr
                          ELSE \A r \in DOMAIN input : input[r].attr = residents[1].attr
    BY DEF MemoryClassesKept
  <2> DEFINE written == best[1].hunks
             residents == RemoveAt(written, 2)
  <2>1. input \in Inputs /\ regions = Divided
    BY DEF PackInv, Progress
  <2>2. Len(regions) \in Nat \ {0} /\ DOMAIN regions = 1 .. Len(regions)
    BY <2>1, RegionsAre
  <2>3. /\ Len(written) = Len(regions) + 1 /\ DOMAIN written = 1 .. Len(regions) + 1
        /\ written[1].attr = regions[1].attr
        /\ \A r \in DOMAIN regions : r # 1 => written[r + 1].attr = regions[r].attr
    BY BestIsSound DEF IsSound
  <2>4. Len(residents) = Len(regions) /\ \A r \in DOMAIN regions : residents[r].attr = regions[r].attr
    <3> HIDE DEF written
    <3>1. residents = SubSeq(written, 1, 1) \o SubSeq(written, 3, Len(written))
      BY DEF RemoveAt
    <3>2. /\ Len(SubSeq(written, 1, 1)) = 1 /\ SubSeq(written, 1, 1)[1] = written[1]
          /\ Len(SubSeq(written, 3, Len(written))) = Len(regions) - 1
          /\ \A r \in 1 .. Len(regions) - 1 : SubSeq(written, 3, Len(written))[r] = written[r + 2]
      BY <2>2, <2>3
    <3>3. Len(residents) = Len(regions) /\ residents[1] = written[1]
          /\ \A r \in 2 .. Len(regions) : residents[r] = written[r + 1]
      BY <2>2, <2>3, <3>1, <3>2
    <3>4. QED
      BY <2>2, <2>3, <3>3
  <2> HIDE DEF residents
  <2>5. DOMAIN input = 1 .. Len(input) /\ Len(input) \in Nat \ {0}
    BY <2>1, PackAssumption DEF IsInput
  <2>6. CASE Grouped
    <3>1. regions = input
      BY <2>1, <2>6 DEF Divided
    <3>2. QED
      BY <2>4, <3>1 DEF residents
  <2>7. CASE ~Grouped
    <3>1. \A m \in DOMAIN input : input[m].attr = input[1].attr /\ input[m].attr # "fast"
      BY <2>7 DEF Grouped, Needed
    <3>2. \A m \in DOMAIN input : input[m].attr \in {"any", "chip"}
      BY <2>1, <3>1, PackAssumption DEF IsInput
    <3>3. regions = <<Merged>>
      BY <2>1, <2>7 DEF Divided
    <3>4. Merged.attr = IF \E m \in DOMAIN input : input[m].attr = "chip" THEN "chip" ELSE "any"
      BY DEF Merged
    <3>5. \A m \in DOMAIN input : input[m].attr = Merged.attr
      BY <3>1, <3>2, <3>4
    <3>6. residents[1].attr = Merged.attr /\ Len(residents) = 1
      BY <2>4, <3>3
    <3>7. Len(input) = 1 => \A r \in DOMAIN input : residents[r].attr = input[r].attr
      BY <2>5, <3>5, <3>6
    <3>8. QED
      BY <3>5, <3>6, <3>7 DEF residents
  <2>8. QED
    BY <2>6, <2>7
<1>2. QED
  BY PackInvariance, <1>1, PTL

-----------------------------------------------------------------------------
(* The choice of the layout.                                               *)

Sizes(overlaps) == [r \in 1 .. Len(regions) |-> RegionHunk(r, overlaps).size]

LEMMA SizesAre ==
  ASSUME Complete, NEW overlaps \in SUBSET DOMAIN regions
  PROVE  /\ DOMAIN regions = 1 .. Len(regions) /\ Len(regions) \in Nat \ {0}
         /\ IsFiniteSet(1 .. Len(regions))
         /\ \A r \in 1 .. Len(regions) :
              /\ Sizes(overlaps)[r] = IF r \in overlaps THEN Overlapped(r) ELSE Resident(r)
              /\ Overlapped(r) \in Nat /\ Resident(r) \in Nat
              /\ Sizes(overlaps)[r] \in Nat
<1>1. DOMAIN regions = 1 .. Len(regions) /\ Len(regions) \in Nat \ {0}
  BY RegionsAre DEF Complete
<1>2. IsFiniteSet(1 .. Len(regions))
  BY <1>1, FS_Interval
<1>3. QED
  BY <1>1, <1>2, RegionSizes DEF Sizes, RegionHunk, Hunk

\* The scratch hunk is declared a whole number of longwords, besides the regions'.
LEMMA PeakIs ==
  ASSUME Complete, NEW overlaps \in SUBSET DOMAIN regions
  PROVE  Peak(File(overlaps)) =
           Align4(ScratchBody(overlaps)) + SumFunctionOnSet(Sizes(overlaps), 1 .. Len(regions))
<1> DEFINE written == File(overlaps).hunks
           all == [h \in DOMAIN written |-> written[h].size]
           k == Len(regions)
<1>1. k \in Nat \ {0} /\ DOMAIN regions = 1 .. k
  BY SizesAre
<1>2. IsNumeric(Sizes(overlaps), 1 .. k)
  BY SizesAre DEF IsNumeric
<1>3. DOMAIN written = 1 .. k + 1
  BY HunksAre
<1>4. all[1] = Sizes(overlaps)[1] /\ \A r \in 2 .. k : all[r + 1] = Sizes(overlaps)[r]
  <2>1. written[1] = RegionHunk(1, overlaps) /\ \A r \in 2 .. k : written[r + 1] = RegionHunk(r, overlaps)
    BY <1>1, HunksAre
  <2> HIDE DEF written
  <2>2. QED
    BY <1>1, <1>3, <2>1 DEF Sizes
<1>5. all[2] = Align4(ScratchBody(overlaps)) /\ all[2] \in Int
  <2>1. written[2].size = Align4(ScratchBody(overlaps))
    <3>1. written[2] = Hunk("any", Align4(ScratchBody(overlaps)), ScratchBody(overlaps))
      BY HunksAre
    <3> HIDE DEF written
    <3>2. QED
      BY <3>1 DEF Hunk
  <2>2. Align4(ScratchBody(overlaps)) \in Nat
    BY ScratchIsNat, Align4Rounds
  <2> HIDE DEF written
  <2>3. QED
    BY <1>1, <1>3, <2>1, <2>2
<1>6. Peak(File(overlaps)) = SumFunctionOnSet(all, 1 .. k + 1)
  <2>1. DOMAIN all = 1 .. k + 1
    BY <1>3
  <2>2. Peak(File(overlaps)) = SumFunctionOnSet(all, DOMAIN all)
    BY DEF Peak, SumFunction
  <2>3. QED
    BY <2>1, <2>2
<1> HIDE DEF all, k
<1>7. SumFunctionOnSet(all, 1 .. k + 1) = all[2] + SumFunctionOnSet(Sizes(overlaps), 1 .. k)
  BY <1>1, <1>2, <1>4, <1>5, SumWithoutSecond
<1>8. QED
  BY <1>5, <1>6, <1>7 DEF k

\* What a region adds to the file's memory: its hunk, and its payload if that
\* is stored in the scratch hunk.
Costs(overlaps) ==
  [r \in 1 .. Len(regions) |->
     IF r \in overlaps THEN Overlapped(r) ELSE Resident(r) + Align4(compressed[r].len)]

LEMMA CostsAre ==
  ASSUME Complete, NEW overlaps \in SUBSET DOMAIN regions
  PROVE  /\ IsNumeric(Costs(overlaps), 1 .. Len(regions))
         /\ SumFunctionOnSet(Costs(overlaps), 1 .. Len(regions)) \in Nat
<1>1. \A r \in 1 .. Len(regions) : Costs(overlaps)[r] \in Nat
  <2> SUFFICES ASSUME NEW r \in 1 .. Len(regions)
               PROVE  Costs(overlaps)[r] \in Nat
    OBVIOUS
  <2>1. Overlapped(r) \in Nat /\ Resident(r) \in Nat /\ r \in DOMAIN regions
    BY SizesAre
  <2>2. Align4(compressed[r].len) \in Nat
    BY <2>1, ResultsAre, Align4Rounds
  <2>3. QED
    BY <2>1, <2>2 DEF Costs
<1>2. QED
  BY <1>1, SizesAre, SumIsNat, SMTT(30) DEF IsNumeric

LEMMA PayloadsAreStored ==
  ASSUME Complete, NEW overlaps \in SUBSET DOMAIN regions
  PROVE  /\ Payloads(overlaps) \in Nat /\ Payloads(overlaps) % 4 = 0
         /\ SumFunctionOnSet(Costs(overlaps), 1 .. Len(regions)) =
              Payloads(overlaps) + SumFunctionOnSet(Sizes(overlaps), 1 .. Len(regions))
<1> DEFINE D == 1 .. Len(regions)
           stored == [r \in D |-> IF r \in overlaps THEN 0 ELSE Align4(compressed[r].len)]
           padded == [r \in D \ overlaps |-> Align4(compressed[r].len)]
<1>1. D = DOMAIN regions /\ IsFiniteSet(D) /\ overlaps \in SUBSET D
  BY SizesAre
<1>2. \A r \in D : Align4(compressed[r].len) \in Nat /\ Align4(compressed[r].len) % 4 = 0
  BY <1>1, ResultsAre, Align4Rounds
<1>3. \A r \in D : stored[r] \in Nat
  BY <1>2
<1>4. \A r \in D \ overlaps : padded[r] \in Nat /\ padded[r] % 4 = 0 /\ padded[r] = stored[r]
  BY <1>2
<1>5. \A r \in overlaps : stored[r] = 0
  BY <1>1
<1>6. Payloads(overlaps) = SumFunctionOnSet(padded, D \ overlaps)
  <2>1. DOMAIN padded = D \ overlaps
    OBVIOUS
  <2>2. Payloads(overlaps) = SumFunctionOnSet(padded, DOMAIN padded)
    BY <1>1 DEF Payloads, SumFunction
  <2>3. QED
    BY <2>1, <2>2
<1>7. \A r \in D : Costs(overlaps)[r] = stored[r] + Sizes(overlaps)[r] /\ Sizes(overlaps)[r] \in Nat
  <2> SUFFICES ASSUME NEW r \in D
               PROVE  Costs(overlaps)[r] = stored[r] + Sizes(overlaps)[r] /\ Sizes(overlaps)[r] \in Nat
    OBVIOUS
  <2>1. /\ Sizes(overlaps)[r] = IF r \in overlaps THEN Overlapped(r) ELSE Resident(r)
        /\ Overlapped(r) \in Nat /\ Resident(r) \in Nat
    BY SizesAre
  <2>2. QED
    BY <1>2, <2>1 DEF Costs
<1> HIDE DEF stored, padded, D
<1>8. IsFiniteSet(D \ overlaps) /\ IsFiniteSet(overlaps)
  BY <1>1, FS_Subset
<1>9. Payloads(overlaps) \in Nat /\ Payloads(overlaps) % 4 = 0
  BY <1>4, <1>6, <1>8, SumOfMultiples
<1>10. SumFunctionOnSet(stored, D) = SumFunctionOnSet(stored, overlaps) + SumFunctionOnSet(stored, D \ overlaps)
  BY <1>1, <1>3, SumOfPart
<1>11. SumFunctionOnSet(stored, overlaps) = 0
  BY <1>5, <1>8, SumOfZeros
<1>12. SumFunctionOnSet(stored, D \ overlaps) = Payloads(overlaps)
  <2>1. IsNumeric(padded, D \ overlaps)
    BY <1>4 DEF IsNumeric
  <2>2. SumFunctionOnSet(padded, D \ overlaps) = SumFunctionOnSet(stored, D \ overlaps)
    BY <1>4, <1>8, <2>1, SumsAgree
  <2>3. QED
    BY <1>6, <2>2
<1>13. SumFunctionOnSet(Costs(overlaps), D) = SumFunctionOnSet(stored, D) + SumFunctionOnSet(Sizes(overlaps), D)
  <2>1. IsNumeric(stored, D) /\ IsNumeric(Sizes(overlaps), D)
    BY <1>3, <1>7 DEF IsNumeric
  <2>2. QED
    BY <1>1, <1>7, <2>1, SumOfSums
<1>14. SumFunctionOnSet(Costs(overlaps), D) = Payloads(overlaps) + SumFunctionOnSet(Sizes(overlaps), D)
  BY <1>9, <1>10, <1>11, <1>12, <1>13
<1>15. QED
  BY <1>9, <1>14 DEF D

\* Grouped, the scratch hunk's padded payloads add up region by region.
LEMMA GroupedPeak ==
  ASSUME Complete, Grouped, NEW overlaps \in SUBSET DOMAIN regions
  PROVE  Peak(File(overlaps)) = Frame + SumFunctionOnSet(Costs(overlaps), 1 .. Len(regions))
<1>1. ScratchBody(overlaps) = Frame + Payloads(overlaps)
  BY DEF ScratchBody, Frame
<1>2. Frame \in Nat /\ Frame % 4 = 0
  <2>1. Frame = Align4(DispatcherSize + 44 + 52 * Len(regions) + Stub)
    BY DEF Frame
  <2>2. DispatcherSize + 44 + 52 * Len(regions) + Stub \in Nat
    <3>1. DispatcherSize \in Nat /\ Len(regions) \in Nat /\ Stub \in Nat
      BY PackAssumption, SizesAre, StubIsNat
    <3>2. QED
      BY <3>1
  <2>3. QED
    BY <2>1, <2>2, Align4Rounds
<1>3. Payloads(overlaps) \in Nat /\ Payloads(overlaps) % 4 = 0
  BY PayloadsAreStored
<1>4. Align4(ScratchBody(overlaps)) = Frame + Payloads(overlaps)
  <2>1. Frame + Payloads(overlaps) \in Nat /\ (Frame + Payloads(overlaps)) % 4 = 0
    <3>1. \A a, b \in Nat : a % 4 = 0 /\ b % 4 = 0 => a + b \in Nat /\ (a + b) % 4 = 0
      OBVIOUS
    <3>2. QED
      BY <1>2, <1>3, <3>1
  <2>2. QED
    BY <1>1, <2>1, Align4Fixed
<1>5. SumFunctionOnSet(Sizes(overlaps), 1 .. Len(regions)) \in Nat
  BY SizesAre, SumIsNat
<1>6. QED
  BY <1>2, <1>3, <1>4, <1>5, PeakIs, PayloadsAreStored

\* Ungrouped there is one region.
LEMMA UngroupedPeak ==
  ASSUME Complete, ~Grouped, NEW overlaps \in SUBSET DOMAIN regions
  PROVE  Peak(File(overlaps)) =
           IF 1 \in overlaps
           THEN Overlapped(1) + Align4(Stub + HeaderSize)
           ELSE Resident(1) + Align4(Stub + HeaderSize + compressed[1].len)
<1>1. Len(regions) = 1
  BY DEF Complete, Divided
<1>2. 1 \in DOMAIN regions /\ 1 .. Len(regions) = {1}
  BY <1>1, SizesAre
<1>3. Overlapped(1) \in Nat /\ Resident(1) \in Nat
      /\ Sizes(overlaps)[1] = IF 1 \in overlaps THEN Overlapped(1) ELSE Resident(1)
  BY <1>2, SizesAre
<1>4. SumFunctionOnSet(Sizes(overlaps), 1 .. Len(regions)) = Sizes(overlaps)[1]
  <2>1. Sizes(overlaps)[1] \in Int
    BY <1>3
  <2>2. SumFunctionOnSet(Sizes(overlaps), {1}) = Sizes(overlaps)[1]
    BY <2>1, SumOfSingleton
  <2>3. QED
    BY <1>2, <2>2
<1>5. Peak(File(overlaps)) = Align4(ScratchBody(overlaps)) + Sizes(overlaps)[1]
  BY <1>4, PeakIs
<1>6. compressed[1].len \in Nat /\ Stub \in Nat /\ HeaderSize \in Nat
  BY <1>2, ResultsAre, StubIsNat, LayoutAssumption
<1>7. ScratchBody(overlaps) = IF 1 \in overlaps THEN Stub + HeaderSize ELSE Stub + HeaderSize + compressed[1].len
  BY <1>6 DEF ScratchBody
<1>8. Align4(ScratchBody(overlaps)) \in Nat
  BY ScratchIsNat, Align4Rounds
<1>9. CASE 1 \in overlaps
  BY <1>3, <1>5, <1>7, <1>8, <1>9
<1>10. CASE 1 \notin overlaps
  BY <1>3, <1>5, <1>7, <1>8, <1>10
<1>11. QED
  BY <1>9, <1>10

\* packGroupsBackend and buildPackedExecutable decide region by region
\* (worthOverlapping): no other choice for these payloads takes less memory,
\* whatever the sizes, margins, rounding and number of regions.
THEOREM AutoIsOptimal == Spec => []AutoNeedsLeastMemory
<1>1. PackInv => AutoNeedsLeastMemory
  <2> SUFFICES ASSUME PackInv, pc = "compress", Len(compressed) = Len(regions), options.overlap = "auto",
                      NEW overlaps \in SUBSET DOMAIN regions
               PROVE  Peak(File(ChosenOverlaps)) <= Peak(File(overlaps))
    BY DEF AutoNeedsLeastMemory
  <2>1. Complete
    BY DEF PackInv, Progress, ResultsDecode, Complete
  <2>2. ChosenOverlaps = {r \in DOMAIN regions : OverlapPaysOff(r)}
    BY DEF ChosenOverlaps
  <2>3. ChosenOverlaps \in SUBSET DOMAIN regions
    BY <2>2
  <2>4. CASE Grouped
    <3> DEFINE D == 1 .. Len(regions)
    <3>1. IsFiniteSet(D) /\ D = DOMAIN regions
      BY <2>1, SizesAre
    <3>2. \A r \in D : Costs(ChosenOverlaps)[r] <= Costs(overlaps)[r]
      <4> SUFFICES ASSUME NEW r \in D
                   PROVE  Costs(ChosenOverlaps)[r] <= Costs(overlaps)[r]
        OBVIOUS
      <4>1. r \in ChosenOverlaps <=> Overlapped(r) < Resident(r) + Align4(compressed[r].len)
        BY <2>2, <2>4, <3>1 DEF OverlapPaysOff
      <4>2. Overlapped(r) \in Nat /\ Resident(r) \in Nat
        BY <2>1, SizesAre
      <4>3. Align4(compressed[r].len) \in Nat
        BY <2>1, <3>1, ResultsAre, Align4Rounds
      <4>4. QED
        BY <4>1, <4>2, <4>3 DEF Costs
    <3>3. IsNumeric(Costs(ChosenOverlaps), D) /\ IsNumeric(Costs(overlaps), D)
      BY <2>1, <2>3, CostsAre
    <3>4. SumFunctionOnSet(Costs(ChosenOverlaps), D) <= SumFunctionOnSet(Costs(overlaps), D)
      <4> HIDE DEF D
      <4>1. QED
        BY <3>1, <3>2, <3>3, SumIsMonotonic
    <3>5. /\ SumFunctionOnSet(Costs(ChosenOverlaps), D) \in Nat
          /\ SumFunctionOnSet(Costs(overlaps), D) \in Nat /\ Frame \in Nat
      BY <2>1, <2>3, CostsAre, FrameIsNat
    <3>6. /\ Peak(File(ChosenOverlaps)) = Frame + SumFunctionOnSet(Costs(ChosenOverlaps), D)
          /\ Peak(File(overlaps)) = Frame + SumFunctionOnSet(Costs(overlaps), D)
      BY <2>1, <2>3, <2>4, GroupedPeak
    <3>7. QED
      BY <3>4, <3>5, <3>6
  <2>5. CASE ~Grouped
    <3> DEFINE with == Overlapped(1) + Align4(Stub + HeaderSize)
               without == Resident(1) + Align4(Stub + HeaderSize + compressed[1].len)
    <3>1. 1 \in DOMAIN regions
      BY <2>1, RegionsAre DEF Complete
    <3>2. 1 \in ChosenOverlaps <=> with < without
      BY <2>2, <2>5, <3>1 DEF OverlapPaysOff
    <3>3. with \in Nat /\ without \in Nat
      <4>1. /\ Overlapped(1) \in Nat /\ Resident(1) \in Nat /\ compressed[1].len \in Nat
            /\ Stub \in Nat /\ HeaderSize \in Nat
        BY <2>1, <3>1, RegionSizes, ResultsAre, StubIsNat, LayoutAssumption
      <4>2. Stub + HeaderSize \in Nat /\ Stub + HeaderSize + compressed[1].len \in Nat
        BY <4>1
      <4>3. Align4(Stub + HeaderSize) \in Nat /\ Align4(Stub + HeaderSize + compressed[1].len) \in Nat
        BY <4>2, Align4Rounds
      <4>4. QED
        BY <4>1, <4>3
    <3>4. /\ Peak(File(ChosenOverlaps)) = IF 1 \in ChosenOverlaps THEN with ELSE without
          /\ Peak(File(overlaps)) = IF 1 \in overlaps THEN with ELSE without
      BY <2>1, <2>3, <2>5, UngroupedPeak
    <3> HIDE DEF with, without
    <3>5. QED
      BY <3>2, <3>3, <3>4
  <2>6. QED
    BY <2>4, <2>5
<1>2. QED
  BY PackInvariance, <1>1, PTL

-----------------------------------------------------------------------------
(* The packed file: numbers and their bytes, fields, and what is left as   *)
(* it was where none is written.                                           *)

LEMMA UpIs ==
  ASSUME NEW v \in Nat
  PROVE  Up(v) \in Nat /\ v % 256 \in Byte /\ v % 256 \in Nat /\ v = 256 * Up(v) + (v % 256)
BY SMT DEF Up, Byte

LEMMA ByteOfIs ==
  ASSUME NEW v
  PROVE  /\ ByteOf(v, 0) = v % 256 /\ ByteOf(v, 1) = Up(v) % 256
         /\ ByteOf(v, 2) = Up(Up(v)) % 256 /\ ByteOf(v, 3) = Up(Up(Up(v))) % 256
BY SMT DEF ByteOf

LEMMA LongIs ==
  ASSUME NEW v \in LongValues
  PROVE  v \in Nat /\ Up(Up(Up(v))) \in 0 .. 127
<1>1. v \in Nat /\ Up(Up(Up(v))) < 128
  BY Zenon DEF LongValues
<1>2. Up(v) \in Nat /\ Up(Up(v)) \in Nat /\ Up(Up(Up(v))) \in Nat
  BY <1>1, UpIs, Zenon
<1>3. QED
  BY <1>1, <1>2

LEMMA LongSplits ==
  ASSUME NEW v \in LongValues
  PROVE  /\ Up(v) \in Nat /\ v = 256 * Up(v) + (v % 256) /\ v % 256 \in Nat
         /\ Up(Up(v)) \in Nat /\ Up(v) = 256 * Up(Up(v)) + (Up(v) % 256) /\ Up(v) % 256 \in Nat
         /\ Up(Up(v)) = 256 * Up(Up(Up(v))) + (Up(Up(v)) % 256) /\ Up(Up(v)) % 256 \in Nat
         /\ Up(Up(Up(v))) \in 0 .. 127
<1>1. v \in Nat /\ Up(Up(Up(v))) \in 0 .. 127
  BY LongIs, Zenon
<1>2. Up(v) \in Nat
  BY <1>1, UpIs, Zenon
<1>3. Up(Up(v)) \in Nat
  BY <1>2, UpIs, Zenon
<1>4. v = 256 * Up(v) + (v % 256) /\ v % 256 \in Nat
  BY <1>1, UpIs, Zenon
<1>5. Up(v) = 256 * Up(Up(v)) + (Up(v) % 256) /\ Up(v) % 256 \in Nat
  BY <1>2, UpIs, Zenon
<1>6. Up(Up(v)) = 256 * Up(Up(Up(v))) + (Up(Up(v)) % 256) /\ Up(Up(v)) % 256 \in Nat
  BY <1>3, UpIs, Zenon
<1>7. QED
  BY <1>1, <1>2, <1>3, <1>4, <1>5, <1>6, Zenon

LEMMA ByteOfIsByte ==
  ASSUME NEW v \in LongValues, NEW place \in 0 .. 3
  PROVE  ByteOf(v, place) \in Byte
<1>1. v \in Nat /\ Up(v) \in Nat /\ Up(Up(v)) \in Nat /\ Up(Up(Up(v))) \in Nat
  BY LongIs, UpIs
<1>2. \A k \in Nat : k % 256 \in Byte
  BY UpIs, Zenon
<1>3. place = 0 \/ place = 1 \/ place = 2 \/ place = 3
  OBVIOUS
<1>4. ByteOf(v, 0) \in Byte /\ ByteOf(v, 1) \in Byte /\ ByteOf(v, 2) \in Byte /\ ByteOf(v, 3) \in Byte
  <2>1. /\ ByteOf(v, 0) = v % 256 /\ ByteOf(v, 1) = Up(v) % 256
        /\ ByteOf(v, 2) = Up(Up(v)) % 256 /\ ByteOf(v, 3) = Up(Up(Up(v))) % 256
    BY ByteOfIs, Zenon
  <2>2. QED
    BY <1>1, <1>2, <2>1
<1>5. QED
  BY <1>3, <1>4

\* A value fits into a field.
Fits(v, width) ==
  /\ v \in LongValues
  /\ width = 1 => v < 256
  /\ width = 2 => Up(v) < 256

\* The bytes from an offset are a value's.
Spelled(bytes, at, width, v) ==
  Fits(v, width) /\ \A k \in 1 .. width : bytes[at + k] = ByteOf(v, width - k)

LEMMA FieldReads ==
  ASSUME NEW bytes, NEW at \in Nat, NEW width \in {1, 2, 4}, NEW v, Spelled(bytes, at, width, v)
  PROVE  Get(bytes, at, width) = v
<1> SUFFICES ASSUME Fits(v, width), \A k \in 1 .. width : bytes[at + k] = ByteOf(v, width - k)
             PROVE  Get(bytes, at, width) = v
  BY Zenon DEF Spelled
<1>1. v \in Nat /\ v \in LongValues
  BY LongIs, Zenon DEF Fits
<1>0. \A k \in Nat : k < 256 => k % 256 = k
  OBVIOUS
<1>2. CASE width = 1
  <2>1. bytes[at + 1] = v % 256
    BY <1>2, ByteOfIs
  <2>2. v < 256
    BY <1>2 DEF Fits
  <2>3. QED
    BY <1>0, <1>1, <1>2, <2>1, <2>2 DEF Get
<1>3. CASE width = 2
  <2>1. bytes[at + 1] = Up(v) % 256 /\ bytes[at + 2] = v % 256
    BY <1>3, ByteOfIs
  <2>2. Up(v) < 256
    BY <1>3, Zenon DEF Fits
  <2>3. Up(v) % 256 = Up(v)
    BY <1>0, <1>1, <2>2, UpIs
  <2>4. 256 * bytes[at + 1] + bytes[at + 2] = v
    <3>1. v = 256 * Up(v) + (v % 256)
      BY <1>1, UpIs
    <3>2. QED
      BY <2>1, <2>3, <3>1
  <2>5. QED
    BY <1>3, <2>4 DEF Get
<1>4. CASE width = 4
  <2>3. /\ ByteOf(v, 0) = v % 256 /\ ByteOf(v, 1) = Up(v) % 256
        /\ ByteOf(v, 2) = Up(Up(v)) % 256 /\ ByteOf(v, 3) = Up(Up(Up(v))) % 256
    BY ByteOfIs, Zenon
  <2> DEFINE a == Up(v)
             b == Up(Up(v))
             c == Up(Up(Up(v)))
  <2>1. /\ a \in Nat /\ v = 256 * a + (v % 256) /\ v % 256 \in Nat
        /\ b \in Nat /\ a = 256 * b + (a % 256) /\ a % 256 \in Nat
        /\ b = 256 * c + (b % 256) /\ b % 256 \in Nat /\ c \in 0 .. 127
    BY <1>1, LongSplits
  <2>2. bytes[at + 1] = c % 256 /\ bytes[at + 2] = b % 256 /\ bytes[at + 3] = a % 256 /\ bytes[at + 4] = v % 256
    <3>1. /\ bytes[at + 1] = ByteOf(v, 3) /\ bytes[at + 2] = ByteOf(v, 2)
          /\ bytes[at + 3] = ByteOf(v, 1) /\ bytes[at + 4] = ByteOf(v, 0)
      BY <1>4
    <3>2. ByteOf(v, 0) = v % 256 /\ ByteOf(v, 1) = a % 256 /\ ByteOf(v, 2) = b % 256 /\ ByteOf(v, 3) = c % 256
      BY <2>3
    <3> HIDE DEF a, b, c
    <3>3. QED
      BY <3>1, <3>2
  <2> HIDE DEF a, b, c
  <2>4. c % 256 = c
    BY <2>1
  <2>5. 256 * (256 * (256 * bytes[at + 1] + bytes[at + 2]) + bytes[at + 3]) + bytes[at + 4] = v
    BY <2>1, <2>2, <2>4
  <2>6. QED
    BY <1>4, <2>5 DEF Get
<1>5. QED
  BY <1>2, <1>3, <1>4

IsField(f) == f[1] \in Nat /\ f[2] \in {1, 2, 4} /\ Fits(f[3], f[2])

LEMMA FieldIs ==
  ASSUME NEW f, IsField(f)
  PROVE  \E o \in Nat, w \in {1, 2, 4}, v \in LongValues : f[1] = o /\ f[2] = w /\ f[3] = v /\ Fits(v, w)
<1>1. Fits(f[3], f[2]) /\ f[1] \in Nat /\ f[2] \in {1, 2, 4}
  BY Zenon DEF IsField
<1>2. f[3] \in LongValues
  BY <1>1, Zenon DEF Fits
<1>3. QED
  BY <1>1, <1>2, Zenon

Apart(f, g) == f[1] + f[2] <= g[1] \/ g[1] + g[2] <= f[1]

\* They lie side by side within so many bytes.
AreFields(fields, size) ==
  /\ \A f \in fields : IsField(f) /\ f[1] + f[2] <= size
  /\ \A f, g \in fields : f = g \/ Apart(f, g)

HasFields(bytes, base, fields) == \A f \in fields : Get(bytes, base + f[1], f[2]) = f[3]

\* b is a as far as a goes, but for size bytes from base on.
SameBut(a, b, base, size) ==
  /\ Len(b) >= Len(a)
  /\ \A k \in 1 .. Len(a) : k <= base \/ k > base + size => b[k] = a[k]

\* Two fields of a byte are one.
LEMMA OneCovers ==
  ASSUME NEW size \in Nat, NEW fields, AreFields(fields, size), NEW f \in fields, NEW g \in fields,
         NEW at \in Int, at - f[1] \in 1 .. f[2], at - g[1] \in 1 .. g[2]
  PROVE  f = g
<1>1. IsField(f) /\ IsField(g) /\ (f = g \/ Apart(f, g))
  BY Zenon DEF AreFields
<1>2. PICK o \in Nat, w \in {1, 2, 4} : f[1] = o /\ f[2] = w
  BY <1>1, FieldIs
<1>3. PICK p \in Nat, x \in {1, 2, 4} : g[1] = p /\ g[2] = x
  BY <1>1, FieldIs
<1>4. at - o \in 1 .. w /\ at - p \in 1 .. x
  BY <1>2, <1>3, Zenon
<1>5. ~(o + w <= p \/ p + x <= o)
  BY <1>4
<1>6. QED
  BY <1>1, <1>2, <1>3, <1>5, Zenon DEF Apart

\* What is written at k.
LEMMA PutIs ==
  ASSUME NEW bytes \in Seq(Byte), NEW base \in Nat, NEW size \in Nat, NEW fields, AreFields(fields, size),
         base + size <= Len(bytes)
  PROVE  /\ DOMAIN PutAll(bytes, base, fields) = 1 .. Len(bytes)
         /\ \A f \in fields : \A k \in 1 .. Len(bytes) : k - base - f[1] \in 1 .. f[2] =>
              PutAll(bytes, base, fields)[k] = ByteOf(f[3], base + f[1] + f[2] - k)
         /\ \A k \in 1 .. Len(bytes) :
              (\A f \in fields : ~(k - base - f[1] \in 1 .. f[2])) => PutAll(bytes, base, fields)[k] = bytes[k]
<1> DEFINE Covers(f, k) == k - base - f[1] \in 1 .. f[2]
           At(k) == CHOOSE f \in fields : Covers(f, k)
           Written(f, k) == ByteOf(f[3], base + f[1] + f[2] - k)
           put == [k \in DOMAIN bytes |->
                     IF \E f \in fields : Covers(f, k) THEN Written(At(k), k) ELSE bytes[k]]
<1>1. PutAll(bytes, base, fields) = put
  BY Zenon DEF PutAll
<1>2. DOMAIN bytes = 1 .. Len(bytes) /\ Len(bytes) \in Nat
  OBVIOUS
<1>3. ASSUME NEW f \in fields, NEW k \in 1 .. Len(bytes), Covers(f, k)
      PROVE  put[k] = Written(f, k)
  <2>1. \A g \in fields : Covers(g, k) => g = f
    <3>1. k - base \in Int
      BY <1>2
    <3> HIDE DEF put, Written, At
    <3>2. QED
      BY <1>3, <3>1, OneCovers, Zenon
  <2> HIDE DEF Covers, Written
  <2>2. At(k) = f
    BY <1>3, <2>1, Zenon
  <2> HIDE DEF At
  <2>3. QED
    BY <1>2, <1>3, <2>2, Zenon
<1>4. ASSUME NEW k \in 1 .. Len(bytes), \A f \in fields : ~Covers(f, k)
      PROVE  put[k] = bytes[k]
  <2> HIDE DEF Covers, Written, At
  <2>1. QED
    BY <1>2, <1>4, Zenon
<1>5. DOMAIN put = 1 .. Len(bytes)
  <2> HIDE DEF Covers, Written, At
  <2>1. QED
    BY <1>2, Zenon
<1> HIDE DEF put
<1>6. QED
  BY <1>1, <1>3, <1>4, <1>5, Zenon

LEMMA PutReads ==
  ASSUME NEW bytes \in Seq(Byte), NEW base \in Nat, NEW size \in Nat, NEW fields, AreFields(fields, size),
         base + size <= Len(bytes)
  PROVE  /\ PutAll(bytes, base, fields) \in Seq(Byte)
         /\ Len(PutAll(bytes, base, fields)) = Len(bytes)
         /\ HasFields(PutAll(bytes, base, fields), base, fields)
         /\ SameBut(bytes, PutAll(bytes, base, fields), base, size)
<1> DEFINE put == PutAll(bytes, base, fields)
<1>1. PICK len \in Nat : len = Len(bytes) /\ base + size <= len
  OBVIOUS
<1>2. /\ DOMAIN put = 1 .. len
      /\ \A f \in fields : \A k \in 1 .. len : k - base - f[1] \in 1 .. f[2] =>
           put[k] = ByteOf(f[3], base + f[1] + f[2] - k)
      /\ \A k \in 1 .. len : (\A f \in fields : ~(k - base - f[1] \in 1 .. f[2])) => put[k] = bytes[k]
  <2> HIDE DEF put
  <2>1. /\ DOMAIN put = 1 .. Len(bytes)
        /\ \A f \in fields : \A k \in 1 .. Len(bytes) : k - base - f[1] \in 1 .. f[2] =>
             put[k] = ByteOf(f[3], base + f[1] + f[2] - k)
        /\ \A k \in 1 .. Len(bytes) : (\A f \in fields : ~(k - base - f[1] \in 1 .. f[2])) => put[k] = bytes[k]
    BY PutIs DEF put
  <2>2. QED
    BY <1>1, <2>1, Zenon
<1>3. put = [k \in 1 .. len |-> put[k]]
  BY <1>2, Zenon DEF PutAll
<1>4. \A k \in 1 .. len : bytes[k] \in Byte
  BY <1>1
<1> HIDE DEF put
<1>5. ASSUME NEW f \in fields
      PROVE  \E o \in Nat, w \in {1, 2, 4}, v \in LongValues :
               f[1] = o /\ f[2] = w /\ f[3] = v /\ Fits(v, w) /\ o + w <= size
  <2>1. IsField(f) /\ f[1] + f[2] <= size
    BY Zenon DEF AreFields
  <2>2. QED
    BY <2>1, FieldIs, Zenon
<1>6. \A k \in 1 .. len : put[k] \in Byte
  <2> SUFFICES ASSUME NEW k \in 1 .. len, NEW f \in fields, k - base - f[1] \in 1 .. f[2]
               PROVE  put[k] \in Byte
    BY <1>2, <1>4, Zenon
  <2>1. PICK o \in Nat, w \in {1, 2, 4}, v \in LongValues : f[1] = o /\ f[2] = w /\ f[3] = v
    BY <1>5, Zenon
  <2>2. k - base - o \in 1 .. w /\ put[k] = ByteOf(v, base + o + w - k)
    BY <1>2, <2>1, Zenon
  <2>3. base + o + w - k \in 0 .. 3
    BY <1>1, <2>2
  <2>4. QED
    BY <2>2, <2>3, ByteOfIsByte, Zenon
<1>7. ASSUME NEW f \in fields
      PROVE  Get(put, base + f[1], f[2]) = f[3]
  <2>1. PICK o \in Nat, w \in {1, 2, 4}, v \in LongValues :
          f[1] = o /\ f[2] = w /\ f[3] = v /\ Fits(v, w) /\ o + w <= size
    BY <1>5, Zenon
  <2>2. ASSUME NEW k \in 1 .. w
        PROVE  put[base + o + k] = ByteOf(v, w - k)
    <3>1. PICK at \in 1 .. len : at = base + o + k
      BY <1>1, <2>1
    <3>2. at - base - o \in 1 .. w /\ base + o + w - at = w - k
      BY <1>1, <3>1
    <3>3. QED
      BY <1>2, <2>1, <3>1, <3>2, Zenon
  <2>3. PICK at \in Nat : at = base + o
    OBVIOUS
  <2>4. Get(put, at, w) = v
    <3>1. \A k \in 1 .. w : put[at + k] = ByteOf(v, w - k)
      BY <2>2, <2>3, Zenon
    <3>2. Spelled(put, at, w, v)
      BY <2>1, <3>1, Zenon DEF Spelled
    <3>3. QED
      BY <3>2, FieldReads, Zenon
  <2>5. QED
    BY <2>1, <2>3, <2>4, Zenon
<1>8. put \in Seq(Byte) /\ Len(put) = len
  BY <1>2, <1>3, <1>6
<1>9. ASSUME NEW k \in 1 .. len, k <= base \/ k > base + size
      PROVE  put[k] = bytes[k]
  <2> SUFFICES ASSUME NEW f \in fields, k - base - f[1] \in 1 .. f[2]
               PROVE  FALSE
    BY <1>2, Zenon
  <2>1. PICK o \in Nat, w \in {1, 2, 4} : f[1] = o /\ f[2] = w /\ o + w <= size
    BY <1>5, Zenon
  <2>2. k - base - o \in 1 .. w
    BY <2>1, Zenon
  <2>3. QED
    BY <1>1, <1>9, <2>1, <2>2
<1>10. QED
  <2>1. Len(put) >= Len(bytes)
    BY <1>1, <1>8
  <2>2. HasFields(put, base, fields)
    BY <1>7, Zenon DEF HasFields
  <2>3. SameBut(bytes, put, base, size)
    BY <1>1, <1>9, <2>1, Zenon DEF SameBut
  <2>4. QED
    BY <1>1, <1>8, <2>2, <2>3, Zenon DEF put

\* So many bytes of b are those of a.
Same(a, at, b, other, size) == \A k \in 1 .. size : b[other + k] = a[at + k]

LEMMA GetMoves ==
  ASSUME NEW a, NEW b, NEW at \in Nat, NEW other \in Nat, NEW width \in {1, 2, 4},
         Same(a, at, b, other, width)
  PROVE  Get(b, other, width) = Get(a, at, width)
<1>1. CASE width = 1
  <2>1. b[other + 1] = a[at + 1]
    BY <1>1 DEF Same
  <2>2. QED
    BY <1>1, <2>1 DEF Get
<1>2. CASE width = 2
  <2>1. b[other + 1] = a[at + 1] /\ b[other + 2] = a[at + 2]
    BY <1>2 DEF Same
  <2>2. QED
    BY <1>2, <2>1 DEF Get
<1>3. CASE width = 4
  <2>1. /\ b[other + 1] = a[at + 1] /\ b[other + 2] = a[at + 2]
        /\ b[other + 3] = a[at + 3] /\ b[other + 4] = a[at + 4]
    BY <1>3 DEF Same
  <2>2. QED
    BY <1>3, <2>1 DEF Get
<1>4. QED
  BY <1>1, <1>2, <1>3

LEMMA FieldsMove ==
  ASSUME NEW a, NEW b, NEW at \in Nat, NEW other \in Nat, NEW size \in Nat, NEW fields,
         AreFields(fields, size), HasFields(a, at, fields), Same(a, at, b, other, size)
  PROVE  HasFields(b, other, fields)
<1> SUFFICES ASSUME NEW f \in fields
             PROVE  Get(b, other + f[1], f[2]) = f[3]
  BY DEF HasFields
<1>1. IsField(f) /\ f[1] + f[2] <= size /\ Get(a, at + f[1], f[2]) = f[3]
  BY Zenon DEF AreFields, HasFields
<1>2. PICK o \in Nat, w \in {1, 2, 4} : f[1] = o /\ f[2] = w
  BY <1>1, FieldIs, Zenon
<1>3. o + w <= size /\ Get(a, at + o, w) = f[3]
  BY <1>1, <1>2, Zenon
<1>4. PICK p \in Nat, q \in Nat : p = other + o /\ q = at + o
  OBVIOUS
<1>5. ASSUME NEW k \in 1 .. w
      PROVE  b[p + k] = a[q + k]
  <2>1. PICK i \in 1 .. size : i = o + k
    BY <1>3
  <2>2. p + k = other + i /\ q + k = at + i
    BY <1>4, <2>1
  <2>3. QED
    BY <2>1, <2>2, Zenon DEF Same
<1>6. Same(a, q, b, p, w)
  BY <1>5, Zenon DEF Same
<1>7. Get(b, p, w) = Get(a, q, w)
  BY <1>6, GetMoves
<1>8. QED
  BY <1>2, <1>3, <1>4, <1>7, Zenon

LEMMA PadIs ==
  ASSUME NEW bytes \in Seq(Byte)
  PROVE  /\ PadTo4(bytes) \in Seq(Byte) /\ Len(PadTo4(bytes)) = Align4(Len(bytes))
         /\ Len(bytes) \in Nat /\ Len(bytes) <= Align4(Len(bytes)) /\ Align4(Len(bytes)) <= Len(bytes) + 3
         /\ Align4(Len(bytes)) % 4 = 0
         /\ \A k \in 1 .. Len(bytes) : PadTo4(bytes)[k] = bytes[k]
<1>1. PICK len \in Nat, padded \in Nat :
        len = Len(bytes) /\ padded = Align4(len) /\ len <= padded /\ padded <= len + 3 /\ padded % 4 = 0
  BY Align4Rounds
<1>2. Zeros(padded - len) \in Seq(Byte) /\ Len(Zeros(padded - len)) = padded - len
  BY <1>1 DEF Zeros, Byte
<1>3. PICK zeros \in Seq(Byte) : zeros = Zeros(padded - len) /\ Len(zeros) = padded - len
  BY <1>2
<1>4. PadTo4(bytes) = bytes \o zeros
  BY <1>1, <1>3, Zenon DEF PadTo4
<1>5. /\ bytes \o zeros \in Seq(Byte) /\ Len(bytes \o zeros) = padded
      /\ \A k \in 1 .. len : (bytes \o zeros)[k] = bytes[k]
  BY <1>1, <1>3
<1>6. QED
  BY <1>1, <1>4, <1>5, Zenon

\* t begins with s.
Begins(s, t) == Len(s) <= Len(t) /\ \A k \in 1 .. Len(s) : t[k] = s[k]

LEMMA PrefixIs ==
  ASSUME NEW s \in Seq(Byte), NEW t \in Seq(Byte)
  PROVE  IsPrefix(s, t) <=> Begins(s, t)
<1>1. PICK len \in Nat : len = Len(s)
  OBVIOUS
<1>2. CASE len <= Len(t)
  <2>1. SubSeq(s, 1, len) = [k \in 1 .. len |-> s[k]] /\ SubSeq(t, 1, len) = [k \in 1 .. len |-> t[k]]
    BY <1>1, <1>2
  <2>2. SubSeq(s, 1, len) = SubSeq(t, 1, len) <=> \A k \in 1 .. len : t[k] = s[k]
    BY <2>1
  <2>3. QED
    BY <1>1, <1>2, <2>2 DEF IsPrefix, Begins
<1>3. CASE ~(len <= Len(t))
  BY <1>1, <1>3 DEF IsPrefix, Begins
<1>4. QED
  BY <1>2, <1>3

LEMMA BeginsJoin ==
  ASSUME NEW a \in Seq(Byte), NEW b \in Seq(Byte)
  PROVE  /\ a \o b \in Seq(Byte) /\ Len(a \o b) = Len(a) + Len(b) /\ Begins(a, a \o b)
         /\ \A k \in 1 .. Len(b) : (a \o b)[Len(a) + k] = b[k]
BY DEF Begins

LEMMA ByteFits == ASSUME NEW v \in Byte PROVE Fits(v, 1) /\ Fits(v, 2) /\ Fits(v, 4)
<1>1. v \in Nat /\ v < 256
  BY DEF Byte
<1>2. Up(v) = 0
  BY <1>1, SMT DEF Up
<1>3. Up(0) = 0
  BY SMT DEF Up
<1>4. v \in LongValues
  BY <1>1, <1>2, <1>3 DEF LongValues
<1>5. QED
  BY <1>1, <1>2, <1>4 DEF Fits

LEMMA LongFits == ASSUME NEW v \in LongValues PROVE Fits(v, 4)
BY DEF Fits

LEMMA MagicFits == Fits(MAGIC, 4)
<1>1. MAGIC \in Nat /\ Up(MAGIC) = 256 * (256 * 69 + 120) + 67
  BY SMT DEF MAGIC, Up
<1>2. Up(256 * (256 * 69 + 120) + 67) = 256 * 69 + 120
  BY SMT DEF Up
<1>3. Up(256 * 69 + 120) = 69
  BY SMT DEF Up
<1>4. MAGIC \in LongValues
  BY <1>1, <1>2, <1>3 DEF LongValues
<1>5. QED
  BY <1>4, LongFits

LEMMA TripleReads ==
  ASSUME NEW bytes, NEW base, NEW fields, HasFields(bytes, base, fields),
         NEW o, NEW w, NEW v, <<o, w, v>> \in fields
  PROVE  Get(bytes, base + o, w) = v
<1> DEFINE f == <<o, w, v>>
<1>1. f[1] = o /\ f[2] = w /\ f[3] = v
  OBVIOUS
<1>2. Get(bytes, base + f[1], f[2]) = f[3]
  BY Zenon DEF HasFields
<1> HIDE DEF f
<1>3. QED
  BY <1>1, <1>2, Zenon

LEMMA HeaderLayout ==
  ASSUME NEW a, NEW b, NEW c, NEW d, NEW e, NEW v, NEW w, NEW x, NEW y, NEW z, NEW t,
         Fits(a, 4), Fits(b, 1), Fits(c, 1), Fits(d, 1), Fits(e, 2), Fits(v, 4), Fits(w, 4), Fits(x, 4), Fits(y, 4),
         Fits(z, 4), Fits(t, 4)
  PROVE  AreFields({<<0, 4, a>>, <<5, 1, b>>, <<6, 1, c>>, <<7, 1, d>>, <<8, 2, e>>, <<12, 4, v>>, <<16, 4, w>>,
                    <<20, 4, x>>, <<24, 4, y>>, <<28, 4, z>>, <<32, 4, t>>}, 36)
<1> DEFINE fields == {<<0, 4, a>>, <<5, 1, b>>, <<6, 1, c>>, <<7, 1, d>>, <<8, 2, e>>, <<12, 4, v>>, <<16, 4, w>>,
                      <<20, 4, x>>, <<24, 4, y>>, <<28, 4, z>>, <<32, 4, t>>}
<1>1. \A f \in fields : IsField(f) /\ f[1] + f[2] <= 36
  BY DEF IsField
<1>2. \A f, g \in fields : f = g \/ Apart(f, g)
  BY DEF Apart
<1>3. QED
  BY <1>1, <1>2, Zenon DEF AreFields

LEMMA DescriptorLayout ==
  ASSUME NEW a, NEW b, NEW c, NEW d, NEW e, NEW v, NEW w, NEW x, NEW y, NEW z, NEW t, NEW u, NEW r, NEW s,
         Fits(a, 4), Fits(b, 1), Fits(c, 1), Fits(d, 1), Fits(e, 2), Fits(v, 4), Fits(w, 4), Fits(x, 4), Fits(y, 4),
         Fits(z, 4), Fits(t, 4), Fits(u, 4), Fits(r, 4), Fits(s, 4)
  PROVE  AreFields({<<0, 4, a>>, <<4, 1, b>>, <<6, 1, c>>, <<7, 1, d>>, <<8, 2, e>>, <<12, 4, v>>, <<16, 4, w>>,
                    <<20, 4, x>>, <<24, 4, y>>, <<28, 4, z>>, <<32, 4, t>>, <<40, 4, u>>, <<44, 4, r>>,
                    <<48, 4, s>>}, 52)
<1> DEFINE fields == {<<0, 4, a>>, <<4, 1, b>>, <<6, 1, c>>, <<7, 1, d>>, <<8, 2, e>>, <<12, 4, v>>, <<16, 4, w>>,
                    <<20, 4, x>>, <<24, 4, y>>, <<28, 4, z>>, <<32, 4, t>>, <<40, 4, u>>, <<44, 4, r>>,
                    <<48, 4, s>>}
<1>1. \A f \in fields : IsField(f) /\ f[1] + f[2] <= 52
  BY DEF IsField
<1>2. \A f, g \in fields : f = g \/ Apart(f, g)
  BY DEF Apart
<1>3. QED
  BY <1>1, <1>2, Zenon DEF AreFields

LEMMA MixedHeaderLayout ==
  ASSUME NEW a, NEW b, NEW c, NEW d, NEW e, NEW v, NEW w, NEW x, NEW y, NEW z, NEW t,
         Fits(a, 4), Fits(b, 1), Fits(c, 1), Fits(d, 1), Fits(e, 2), Fits(v, 4), Fits(w, 4), Fits(x, 4), Fits(y, 4),
         Fits(z, 4), Fits(t, 4)
  PROVE  AreFields({<<0, 4, a>>, <<4, 1, b>>, <<6, 1, c>>, <<7, 1, d>>, <<8, 2, e>>, <<12, 4, v>>, <<16, 4, w>>,
                    <<20, 4, x>>, <<24, 4, y>>, <<36, 4, z>>, <<40, 4, t>>}, 44)
<1> DEFINE fields == {<<0, 4, a>>, <<4, 1, b>>, <<6, 1, c>>, <<7, 1, d>>, <<8, 2, e>>, <<12, 4, v>>, <<16, 4, w>>,
                      <<20, 4, x>>, <<24, 4, y>>, <<36, 4, z>>, <<40, 4, t>>}
<1>1. \A f \in fields : IsField(f) /\ f[1] + f[2] <= 44
  BY DEF IsField
<1>2. \A f, g \in fields : f = g \/ Apart(f, g)
  BY DEF Apart
<1>3. QED
  BY <1>1, <1>2, Zenon DEF AreFields

-----------------------------------------------------------------------------
(* Jobs, their stubs, their parts, and the fields written for them.        *)

LEMMA JobIs ==
  ASSUME PackedFileAssumption, NEW j \in Jobs
  PROVE  /\ j.parts \in Seq(Parts) /\ Len(j.parts) \in 1 .. 3 /\ j.grouped \in BOOLEAN
         /\ DOMAIN j.parts = 1 .. Len(j.parts)
         /\ (~j.grouped => Len(j.parts) = 1)
         /\ j.backend \in Byte /\ j.flash \in BOOLEAN /\ j.killtwitch \in BOOLEAN
         /\ StubOf(j).bytes \in Seq(Byte) /\ StubOf(j).depack \in 0 .. Len(StubOf(j).bytes)
         /\ StubOf(j).bytes \in KnownStubs
         /\ Trampoline \in Seq(Byte) /\ MixedStub \in Seq(Byte) /\ MixedStub \in KnownStubs
         /\ Len(Trampoline) % 2 = 0 /\ Len(Trampoline) \in LongValues
         /\ TrampolineSize = Len(Trampoline)
         /\ "parts" \in DOMAIN j
<1>1. IsJob(j)
  BY Zenon DEF PackedFileAssumption
<1>2. j \in [parts : Seq(Parts), grouped : BOOLEAN, backend : Byte, flash : BOOLEAN, killtwitch : BOOLEAN]
  BY <1>1, Zenon DEF IsJob
<1>3. /\ j.parts \in Seq(Parts) /\ j.grouped \in BOOLEAN /\ j.backend \in Byte
      /\ j.flash \in BOOLEAN /\ j.killtwitch \in BOOLEAN /\ "parts" \in DOMAIN j
  BY <1>2
<1>4. Len(j.parts) \in 1 .. 3 /\ (~j.grouped => Len(j.parts) = 1)
  BY <1>1, <1>3 DEF IsJob
<1>5. <<j.backend, j.flash>> \in DOMAIN Stubs
  BY <1>1, Zenon DEF IsJob
<1>6. StubOf(j).bytes \in Seq(Byte) /\ StubOf(j).depack \in 0 .. Len(StubOf(j).bytes) /\ StubOf(j).bytes \in KnownStubs
  BY <1>5, Zenon DEF PackedFileAssumption, StubOf, KnownStubs
<1>7. /\ Trampoline \in Seq(Byte) /\ MixedStub \in Seq(Byte)
      /\ Len(Trampoline) % 2 = 0 /\ Len(Trampoline) \in LongValues /\ TrampolineSize = Len(Trampoline)
  BY Zenon DEF PackedFileAssumption
<1>8. MixedStub \in KnownStubs
  BY Zenon DEF KnownStubs
<1>9. DOMAIN j.parts = 1 .. Len(j.parts)
  BY <1>3
<1>10. QED
  BY <1>3, <1>4, <1>6, <1>7, <1>8, <1>9, Zenon 

LEMMA StubsAre ==
  ASSUME PackedFileAssumption, NEW a \in KnownStubs, NEW b \in KnownStubs
  PROVE  a \in Seq(Byte) /\ Len(a) % 2 = 0 /\ (IsPrefix(a, b) => a = b)
<1>1. Len(a) % 2 = 0 /\ (IsPrefix(a, b) => a = b)
  BY Zenon DEF PackedFileAssumption, KnownStubs
<1>2. a \in Seq(Byte)
  BY Zenon DEF PackedFileAssumption, KnownStubs
<1>3. QED
  BY <1>1, <1>2

\* A file begins with one stub only.
LEMMA OneStubMatches ==
  ASSUME PackedFileAssumption, NEW data \in Seq(Byte), NEW stub \in KnownStubs, Begins(stub, data)
  PROVE  \A other \in KnownStubs : IsPrefix(other, data) <=> other = stub
<1> SUFFICES ASSUME NEW other \in KnownStubs
             PROVE  IsPrefix(other, data) <=> other = stub
  OBVIOUS
<1>1. stub \in Seq(Byte) /\ other \in Seq(Byte)
  BY StubsAre
<1>2. IsPrefix(stub, data)
  BY <1>1, PrefixIs
<1>3. ASSUME IsPrefix(other, data)
      PROVE  other = stub
  <2>1. Begins(other, data)
    BY <1>1, <1>3, PrefixIs
  <2>2. PICK l \in Nat, o \in Nat : l = Len(stub) /\ o = Len(other)
    BY <1>1
  <2>3. CASE l <= o
    <3>1. Begins(stub, other)
      BY <2>1, <2>2, <2>3 DEF Begins
    <3>2. QED
      BY <1>1, <3>1, PrefixIs, StubsAre
  <2>4. CASE o <= l
    <3>1. Begins(other, stub)
      BY <2>1, <2>2, <2>4 DEF Begins
    <3>2. QED
      BY <1>1, <3>1, PrefixIs, StubsAre
  <2>5. QED
    BY <2>2, <2>3, <2>4
<1>4. QED
  BY <1>2, <1>3

LEMMA LessIsLong ==
  ASSUME NEW v \in LongValues, NEW w \in Nat, w <= v
  PROVE  w \in LongValues
<1>1. \A x, y \in Nat : x <= y => Up(x) <= Up(y)
  BY SMT DEF Up
<1>2. v \in Nat /\ Up(v) \in Nat /\ Up(w) \in Nat /\ Up(Up(v)) \in Nat /\ Up(Up(w)) \in Nat
  BY LongIs, UpIs
<1>3. Up(Up(Up(w))) <= Up(Up(Up(v)))
  BY <1>1, <1>2
<1>4. Up(Up(Up(w))) \in Nat /\ Up(Up(Up(v))) \in 0 .. 127
  BY <1>2, UpIs, LongIs
<1>5. QED
  BY <1>3, <1>4 DEF LongValues

LEMMA PartIs ==
  ASSUME PackedFileAssumption, NEW j \in Jobs, NEW m \in 1 .. Len(j.parts)
  PROVE  LET p == j.parts[m]
         IN  /\ p.image \in Images /\ p.payload \in Seq(Byte) /\ Len(p.payload) \in Nat \ {0}
             /\ p.margin \in Nat /\ p.overlap \in BOOLEAN /\ p.attr \in {"any", "chip", "fast"}
             /\ {p.image.code, p.image.bss, p.image.stream, Len(p.payload), p.margin,
                 Allocation(j.parts, m)} \subseteq LongValues
<1> DEFINE p == j.parts[m]
<1>1. j.parts \in Seq(Parts) /\ DOMAIN j.parts = 1 .. Len(j.parts) /\ FitsFields(j)
  BY JobIs, Zenon DEF PackedFileAssumption
<1>2. p \in Parts
  BY <1>1
<1>3. {p.image.code, p.image.bss, p.image.stream, Len(p.payload), p.margin,
       Allocation(j.parts, m)} \subseteq LongValues
  BY <1>1, Zenon DEF FitsFields
<1> HIDE DEF p
<1>4. /\ p.image \in Images /\ p.payload \in Seq(Byte) \ {<<>>} /\ p.margin \in Nat /\ p.overlap \in BOOLEAN
      /\ p.attr \in {"any", "chip", "fast"}
  BY <1>2 DEF Parts
<1>5. Len(p.payload) \in Nat \ {0}
  BY <1>4
<1>6. QED
  BY <1>3, <1>4, <1>5, Zenon DEF p

LEMMA PrefixIsBytes ==
  ASSUME PackedFileAssumption, NEW m \in Nat
  PROVE  /\ PrefixOf(m) \in Seq(Byte) /\ Len(PrefixOf(m)) \in LongValues /\ Len(PrefixOf(m)) \in Nat
         /\ Len(PrefixOf(m)) % 2 = 0
<1>1. Trampoline \in Seq(Byte) /\ Len(Trampoline) \in LongValues /\ Len(Trampoline) % 2 = 0
  BY Zenon DEF PackedFileAssumption
<1>2. CASE m = 1
  BY <1>1, <1>2 DEF PrefixOf
<1>3. CASE m # 1
  <2>1. PrefixOf(m) = <<>> /\ <<>> \in Seq(Byte) /\ Len(<<>>) = 0
    BY <1>3 DEF PrefixOf
  <2>2. 0 \in LongValues
    <3>1. 0 \in Byte
      BY DEF Byte
    <3>2. QED
      BY <3>1, ByteFits, Zenon DEF Fits
  <2>3. QED
    BY <2>1, <2>2
<1>4. QED
  BY <1>2, <1>3

LEMMA AllocationCovers ==
  ASSUME PackedFileAssumption, NEW j \in Jobs, NEW m \in 1 .. Len(j.parts), j.parts[m].overlap
  PROVE  /\ Allocation(j.parts, m) \in Nat /\ Allocation(j.parts, m) % 4 = 0
         /\ Len(PrefixOf(m)) + Align4(Len(j.parts[m].payload)) <= Allocation(j.parts, m)
         /\ j.parts[m].margin + Align4(Len(j.parts[m].payload)) <= Allocation(j.parts, m)
<1> DEFINE p == j.parts[m]
           prefix == Len(PrefixOf(m))
           tail == ResidentTailSize(p.image)
           resident == Larger(tail, Align4(prefix))
<1>1. m \in Nat
  OBVIOUS
<1>2. prefix \in Nat /\ Align4(prefix) \in Nat
  BY <1>1, PrefixIsBytes, Align4Rounds
<1>3. p.image \in Images /\ Len(p.payload) \in Nat /\ p.margin \in Nat
  BY PartIs
<1>4. tail \in Nat
  BY <1>3, ResidentTailFacts
<1> HIDE DEF prefix, tail
<1>5. resident \in Nat
  BY <1>2, <1>4, LargerIsNat
<1>6. Allocation(j.parts, m) = OverlapAllocatedSize(prefix, Len(p.payload), p.margin, resident)
  BY DEF Allocation, prefix, tail
<1> HIDE DEF resident
<1>7. /\ Allocation(j.parts, m) \in Nat /\ Allocation(j.parts, m) % 4 = 0
      /\ prefix + Align4(Len(p.payload)) <= Allocation(j.parts, m)
      /\ p.margin + Align4(Len(p.payload)) <= Allocation(j.parts, m)
  <2>1. PICK payload \in Nat, margin \in Nat : payload = Len(p.payload) /\ margin = p.margin
    BY <1>3, Zenon
  <2>2. Allocation(j.parts, m) = OverlapAllocatedSize(prefix, payload, margin, resident)
    BY <1>6, <2>1, Zenon
  <2>3. LET all == OverlapAllocatedSize(prefix, payload, margin, resident)
        IN  /\ all \in Nat /\ all % 4 = 0
            /\ prefix + Align4(payload) <= all
            /\ margin + Align4(payload) <= all
    BY <1>2, <1>5, OverlapSizeCovers
  <2>4. QED
    BY <2>1, <2>2, <2>3, Zenon
<1>8. QED
  BY <1>7, Zenon DEF prefix

LEMMA FlagsTell ==
  ASSUME NEW a \in {0, FLAG_MEM_CHIP}, NEW b \in {0, FLAG_HAS_RELOCS}, NEW c \in {0, FLAG_OVERLAP},
         NEW d \in {0, FLAG_FLASH}, NEW e \in {0, FLAG_KILLTWITCH}, NEW flags, flags = a + b + c + d + e
  PROVE  /\ flags \in Byte
         /\ HasFlag(flags, FLAG_MEM_CHIP) <=> a # 0
         /\ HasFlag(flags, FLAG_HAS_RELOCS) <=> b # 0
         /\ HasFlag(flags, FLAG_OVERLAP) <=> c # 0
         /\ HasFlag(flags, FLAG_FLASH) <=> d # 0
         /\ HasFlag(flags, FLAG_KILLTWITCH) <=> e # 0
BY DEF FLAG_MEM_CHIP, FLAG_HAS_RELOCS, FLAG_OVERLAP, FLAG_FLASH, FLAG_KILLTWITCH, HasFlag, Byte

LEMMA FlagIs ==
  ASSUME NEW c \in BOOLEAN, NEW flag \in Nat \ {0}
  PROVE  FlagIf(c, flag) \in {0, flag} /\ (FlagIf(c, flag) # 0 <=> c)
BY DEF FlagIf

\* What a flag byte of the packer tells.
FlagsAre(j, flags, chip, relocs, overlap) ==
  /\ flags \in Byte
  /\ HasFlag(flags, FLAG_MEM_CHIP) <=> chip
  /\ HasFlag(flags, FLAG_HAS_RELOCS) <=> relocs
  /\ HasFlag(flags, FLAG_OVERLAP) <=> overlap
  /\ HasFlag(flags, FLAG_FLASH) <=> j.flash
  /\ HasFlag(flags, FLAG_KILLTWITCH) <=> j.flash /\ j.killtwitch

LEMMA FlagsAreTold ==
  ASSUME PackedFileAssumption, NEW j \in Jobs,
         NEW chip \in BOOLEAN, NEW relocs \in BOOLEAN, NEW overlap \in BOOLEAN
  PROVE  /\ FlagsAre(j, FlagIf(chip, FLAG_MEM_CHIP) + FlagIf(relocs, FLAG_HAS_RELOCS) + FlashFlags(j)
                       + FlagIf(overlap, FLAG_OVERLAP), chip, relocs, overlap)
         /\ FlagsAre(j, FlagIf(chip, FLAG_MEM_CHIP) + FLAG_HAS_RELOCS + FlagIf(overlap, FLAG_OVERLAP)
                       + FlashFlags(j), chip, TRUE, overlap)
         /\ FlashFlags(j) \in Byte
<1> DEFINE a == FlagIf(chip, FLAG_MEM_CHIP)
           b == FlagIf(relocs, FLAG_HAS_RELOCS)
           c == FlagIf(overlap, FLAG_OVERLAP)
           d == FlagIf(j.flash, FLAG_FLASH)
           e == FlagIf(j.flash /\ j.killtwitch, FLAG_KILLTWITCH)
<1>1. {FLAG_MEM_CHIP, FLAG_HAS_RELOCS, FLAG_OVERLAP, FLAG_FLASH, FLAG_KILLTWITCH} \subseteq Nat \ {0}
  BY DEF FLAG_MEM_CHIP, FLAG_HAS_RELOCS, FLAG_OVERLAP, FLAG_FLASH, FLAG_KILLTWITCH
<1>2. j.flash \in BOOLEAN /\ (j.flash /\ j.killtwitch) \in BOOLEAN
  BY JobIs
<1>3. a \in {0, FLAG_MEM_CHIP} /\ (a # 0 <=> chip) /\ b \in {0, FLAG_HAS_RELOCS} /\ (b # 0 <=> relocs)
  BY <1>1, FlagIs
<1>4. c \in {0, FLAG_OVERLAP} /\ (c # 0 <=> overlap)
  BY <1>1, FlagIs
<1>5. d \in {0, FLAG_FLASH} /\ (d # 0 <=> j.flash)
  BY <1>1, <1>2, FlagIs
<1>6. e \in {0, FLAG_KILLTWITCH} /\ (e # 0 <=> j.flash /\ j.killtwitch)
  BY <1>1, <1>2, FlagIs
<1>7. FlashFlags(j) = d + e
  BY Zenon DEF FlashFlags
<1> HIDE DEF a, b, c, d, e
<1>8. a \in Nat /\ b \in Nat /\ c \in Nat /\ d \in Nat /\ e \in Nat /\ FLAG_HAS_RELOCS \in Nat
  BY <1>1, <1>3, <1>4, <1>5, <1>6
<1>9. FlagsAre(j, a + b + FlashFlags(j) + c, chip, relocs, overlap)
  <2>1. a + b + FlashFlags(j) + c = a + b + c + d + e
    BY <1>7, <1>8
  <2>2. /\ a + b + c + d + e \in Byte
        /\ HasFlag(a + b + c + d + e, FLAG_MEM_CHIP) <=> a # 0
        /\ HasFlag(a + b + c + d + e, FLAG_HAS_RELOCS) <=> b # 0
        /\ HasFlag(a + b + c + d + e, FLAG_OVERLAP) <=> c # 0
        /\ HasFlag(a + b + c + d + e, FLAG_FLASH) <=> d # 0
        /\ HasFlag(a + b + c + d + e, FLAG_KILLTWITCH) <=> e # 0
    BY <1>3, <1>4, <1>5, <1>6, FlagsTell
  <2>3. QED
    BY <1>3, <1>4, <1>5, <1>6, <2>1, <2>2, Zenon DEF FlagsAre
<1>10. FlagsAre(j, a + FLAG_HAS_RELOCS + c + FlashFlags(j), chip, TRUE, overlap)
  <2>1. a + FLAG_HAS_RELOCS + c + FlashFlags(j) = a + FLAG_HAS_RELOCS + c + d + e
    BY <1>7, <1>8
  <2>2. PICK r \in {0, FLAG_HAS_RELOCS} : r = FLAG_HAS_RELOCS /\ r # 0
    BY <1>1
  <2> DEFINE sum == a + r + c + d + e
  <2>3. /\ sum \in Byte
        /\ HasFlag(sum, FLAG_MEM_CHIP) <=> a # 0
        /\ HasFlag(sum, FLAG_HAS_RELOCS) <=> r # 0
        /\ HasFlag(sum, FLAG_OVERLAP) <=> c # 0
        /\ HasFlag(sum, FLAG_FLASH) <=> d # 0
        /\ HasFlag(sum, FLAG_KILLTWITCH) <=> e # 0
    BY <1>3, <1>4, <1>5, <1>6, <2>2, FlagsTell
  <2>4. QED
    BY <1>3, <1>4, <1>5, <1>6, <2>1, <2>2, <2>3, Zenon DEF FlagsAre
<1>11. FlashFlags(j) \in Byte
  BY <1>5, <1>6, <1>7 DEF FLAG_FLASH, FLAG_KILLTWITCH, Byte
<1>12. QED
  BY <1>9, <1>10, <1>11, Zenon DEF a, b, c

LEMMA SmallFields ==
  {1, 3} \subseteq Byte /\ HEADER_SIZE \in Byte /\ DESC_SIZE \in Byte /\ MIXED_HEADER_SIZE \in Byte /\ 0 \in Byte
BY DEF HEADER_SIZE, DESC_SIZE, MIXED_HEADER_SIZE, Byte

LEMMA SingleFields ==
  ASSUME PackedFileAssumption, NEW j \in Jobs, ~j.grouped
  PROVE  /\ AreFields(HeaderFields(j), 36)
         /\ \E flags \in Byte : /\ <<7, 1, flags>> \in HeaderFields(j)
                                /\ FlagsAre(j, flags, j.parts[1].attr = "chip",
                                            HasRelocs(j.parts[1].image), j.parts[1].overlap)
<1> DEFINE p == j.parts[1]
           flags == FlagIf(p.attr = "chip", FLAG_MEM_CHIP) + FlagIf(HasRelocs(p.image), FLAG_HAS_RELOCS)
                      + FlashFlags(j) + FlagIf(p.overlap, FLAG_OVERLAP)
           stream == IF HasRelocs(p.image) THEN p.image.stream ELSE 0
           margin == IF p.overlap THEN p.margin ELSE 0
<1>1. 1 \in 1 .. Len(j.parts) /\ j.backend \in Byte /\ Len(Trampoline) \in LongValues
  <2>1. Len(j.parts) \in 1 .. 3 /\ j.backend \in Byte /\ Len(Trampoline) \in LongValues
    BY JobIs, Zenon
  <2>2. PICK count \in 1 .. 3 : count = Len(j.parts)
    BY <2>1
  <2>3. 1 \in 1 .. count
    OBVIOUS
  <2>4. QED
    BY <2>1, <2>2, <2>3, Zenon
<1>2. {p.image.code, p.image.bss, p.image.stream, Len(p.payload), p.margin} \subseteq LongValues
  <2>1. {p.image.code, p.image.bss, p.image.stream, Len(p.payload), p.margin,
         Allocation(j.parts, 1)} \subseteq LongValues
    BY <1>1, PartIs, Zenon
  <2>2. QED
    BY <2>1
<1>3. p.overlap \in BOOLEAN
  BY <1>1, PartIs, Zenon
<1>4. FlagsAre(j, flags, p.attr = "chip", HasRelocs(p.image), p.overlap)
  <2>1. (p.attr = "chip") \in BOOLEAN /\ HasRelocs(p.image) \in BOOLEAN
    BY DEF HasRelocs
  <2>2. QED
    BY <1>3, <2>1, FlagsAreTold, Zenon
<1>5. flags \in Byte
  BY <1>4, Zenon DEF FlagsAre
<1>6. Fits(0, 4)
  BY SmallFields, ByteFits
<1>7. Fits(stream, 4) /\ Fits(margin, 4)
  <2>1. Fits(p.image.stream, 4) /\ Fits(p.margin, 4)
    BY <1>2, LongFits
  <2>2. QED
    BY <1>6, <2>1, Zenon
<1>8. HeaderFields(j) =
        {<<0, 4, MAGIC>>, <<5, 1, 3>>, <<6, 1, j.backend>>, <<7, 1, flags>>, <<8, 2, HEADER_SIZE>>,
         <<12, 4, p.image.code>>, <<16, 4, p.image.bss>>, <<20, 4, stream>>, <<24, 4, Len(p.payload)>>,
         <<28, 4, margin>>, <<32, 4, Len(Trampoline)>>}
  BY Zenon DEF HeaderFields
<1> HIDE DEF flags, stream, margin, p
<1>9. /\ Fits(3, 1) /\ Fits(j.backend, 1) /\ Fits(flags, 1) /\ Fits(HEADER_SIZE, 2) /\ Fits(p.image.code, 4)
      /\ Fits(p.image.bss, 4) /\ Fits(Len(p.payload), 4) /\ Fits(Len(Trampoline), 4)
  BY <1>1, <1>2, <1>5, SmallFields, ByteFits, LongFits
<1>10. AreFields(HeaderFields(j), 36)
  <2>1. AreFields(
          {<<0, 4, MAGIC>>, <<5, 1, 3>>, <<6, 1, j.backend>>, <<7, 1, flags>>, <<8, 2, HEADER_SIZE>>,
           <<12, 4, p.image.code>>, <<16, 4, p.image.bss>>, <<20, 4, stream>>, <<24, 4, Len(p.payload)>>,
           <<28, 4, margin>>, <<32, 4, Len(Trampoline)>>}, 36)
    BY <1>7, <1>9, MagicFits, HeaderLayout, Zenon
  <2>2. QED
    BY <1>8, <2>1, Zenon
<1>11. <<7, 1, flags>> \in HeaderFields(j)
  BY <1>8
<1>12. QED
  BY <1>4, <1>5, <1>10, <1>11 DEF p

LEMMA DescriptorFields ==
  ASSUME PackedFileAssumption, NEW j \in Jobs, NEW m \in 1 .. Len(j.parts), NEW place \in LongValues
  PROVE  /\ AreFields(Descriptor(j, m, place), 52)
         /\ \E flags \in Byte : /\ <<7, 1, flags>> \in Descriptor(j, m, place)
                                /\ FlagsAre(j, flags, j.parts[m].attr = "chip", TRUE, j.parts[m].overlap)
<1> DEFINE p == j.parts[m]
           flags == FlagIf(p.attr = "chip", FLAG_MEM_CHIP) + FLAG_HAS_RELOCS
                      + FlagIf(p.overlap, FLAG_OVERLAP) + FlashFlags(j)
           load == IF p.overlap THEN Allocation(j.parts, m) - Align4(Len(p.payload)) ELSE 0
<1>1. j.backend \in Byte /\ m \in Nat
  BY JobIs
<1>2. {p.image.code, p.image.bss, p.image.stream, Len(p.payload), p.margin, Allocation(j.parts, m)} \subseteq LongValues
  BY PartIs, Zenon
<1>3. p.overlap \in BOOLEAN /\ Len(p.payload) \in Nat
  BY PartIs, Zenon
<1>4. FlagsAre(j, flags, p.attr = "chip", TRUE, p.overlap)
  <2>1. (p.attr = "chip") \in BOOLEAN /\ TRUE \in BOOLEAN
    OBVIOUS
  <2>2. QED
    BY <1>3, <2>1, FlagsAreTold, Zenon
<1>5. flags \in Byte
  BY <1>4, Zenon DEF FlagsAre
<1>6. Fits(0, 4)
  BY SmallFields, ByteFits
<1>7. Fits(load, 4)
  <2>1. CASE p.overlap
    <3>1. PICK all \in LongValues : all = Allocation(j.parts, m)
      BY <1>2
    <3>2. PICK moved \in Nat : moved = Align4(Len(p.payload))
      BY <1>3, Align4Rounds
    <3>3. Len(PrefixOf(m)) + moved <= all /\ Len(PrefixOf(m)) \in Nat
      BY <1>1, <2>1, <3>1, <3>2, AllocationCovers, PrefixIsBytes
    <3>4. all \in Nat
      BY LongIs
    <3>5. all - moved \in Nat /\ all - moved <= all
      BY <3>3, <3>4
    <3>6. all - moved \in LongValues
      BY <3>4, <3>5, LessIsLong
    <3>7. QED
      BY <2>1, <3>1, <3>2, <3>6, LongFits, Zenon
  <2>2. CASE ~p.overlap
    BY <1>6, <2>2, Zenon
  <2>3. QED
    BY <2>1, <2>2
<1>8. Descriptor(j, m, place) =
        {<<0, 4, MAGIC>>, <<4, 1, 1>>, <<6, 1, j.backend>>, <<7, 1, flags>>, <<8, 2, DESC_SIZE>>,
         <<12, 4, p.image.code>>, <<16, 4, p.image.bss>>, <<20, 4, p.image.stream>>, <<24, 4, Len(p.payload)>>,
         <<28, 4, p.margin>>, <<32, 4, Len(PrefixOf(m))>>, <<40, 4, place>>, <<44, 4, load>>,
         <<48, 4, Allocation(j.parts, m)>>}
  BY Zenon DEF Descriptor
<1> HIDE DEF flags, load, p
<1>9. /\ Fits(1, 1) /\ Fits(j.backend, 1) /\ Fits(flags, 1) /\ Fits(DESC_SIZE, 2) /\ Fits(p.image.code, 4)
      /\ Fits(p.image.bss, 4) /\ Fits(p.image.stream, 4) /\ Fits(Len(p.payload), 4) /\ Fits(p.margin, 4)
      /\ Fits(Len(PrefixOf(m)), 4) /\ Fits(place, 4) /\ Fits(Allocation(j.parts, m), 4)
  BY <1>1, <1>2, <1>5, SmallFields, ByteFits, LongFits, PrefixIsBytes
<1>10. AreFields(Descriptor(j, m, place), 52)
  <2>1. AreFields(
          {<<0, 4, MAGIC>>, <<4, 1, 1>>, <<6, 1, j.backend>>, <<7, 1, flags>>, <<8, 2, DESC_SIZE>>,
           <<12, 4, p.image.code>>, <<16, 4, p.image.bss>>, <<20, 4, p.image.stream>>, <<24, 4, Len(p.payload)>>,
           <<28, 4, p.margin>>, <<32, 4, Len(PrefixOf(m))>>, <<40, 4, place>>, <<44, 4, load>>,
           <<48, 4, Allocation(j.parts, m)>>}, 52)
    BY <1>7, <1>9, MagicFits, DescriptorLayout, ZenonT(100)
  <2>2. QED
    BY <1>8, <2>1, Zenon
<1>11. <<7, 1, flags>> \in Descriptor(j, m, place)
  BY <1>8
<1>12. QED
  BY <1>4, <1>5, <1>10, <1>11 DEF p

-----------------------------------------------------------------------------
(* Where things are in the scratch hunk: behind the dispatcher the tables, *)
(* the decoder, and the payloads, one after the other.                     *)

Count(j)   == Len(j.parts)
Decoder(j) == Len(MixedStub) + TablesSize(Count(j))
Behind(j)  == Decoder(j) + Len(StubOf(j).bytes)

Room(j) == [m \in DOMAIN j.parts |-> 3 + Len(j.parts[m].payload)]

\* With the first k parts it is at most this long.
Bound(j, k) == Behind(j) + SumFunctionOnSet(Room(j), 1 .. k)

LEMMA ScratchSizes ==
  ASSUME PackedFileAssumption, NEW j \in Jobs
  PROVE  /\ Len(MixedStub) \in Nat /\ Len(MixedStub) % 2 = 0 /\ Count(j) \in 1 .. 3 /\ Count(j) \in Nat
         /\ TablesSize(Count(j)) = 44 + 52 * Count(j)
         /\ Decoder(j) \in Nat /\ Decoder(j) = Len(MixedStub) + 44 + 52 * Count(j)
         /\ Len(StubOf(j).bytes) \in Nat
         /\ Behind(j) \in Nat /\ Behind(j) = Len(MixedStub) + 44 + 52 * Count(j) + Len(StubOf(j).bytes)
         /\ Len(StubOf(j).bytes) % 2 = 0
<1>1. /\ MixedStub \in Seq(Byte) /\ StubOf(j).bytes \in Seq(Byte) /\ Count(j) \in 1 .. 3
      /\ MixedStub \in KnownStubs /\ StubOf(j).bytes \in KnownStubs
  BY JobIs, Zenon DEF Count
<1>2. Len(MixedStub) % 2 = 0 /\ Len(StubOf(j).bytes) % 2 = 0
  BY <1>1, StubsAre, Zenon
<1>3. Len(MixedStub) \in Nat /\ Len(StubOf(j).bytes) \in Nat
  BY <1>1
<1>4. PICK count \in 1 .. 3, mixed \in Nat, stub \in Nat :
        count = Count(j) /\ mixed = Len(MixedStub) /\ stub = Len(StubOf(j).bytes)
  BY <1>1, <1>3
<1>5. TablesSize(count) = 44 + 52 * count
  BY DEF TablesSize, MIXED_HEADER_SIZE, DESC_SIZE
<1>6. Decoder(j) = mixed + TablesSize(count) /\ Behind(j) = Decoder(j) + stub
  BY <1>4, Zenon DEF Decoder, Behind
<1>7. Decoder(j) = mixed + 44 + 52 * count /\ Behind(j) = mixed + 44 + 52 * count + stub
  BY <1>5, <1>6
<1>8. Decoder(j) \in Nat /\ Behind(j) \in Nat /\ count \in Nat
  BY <1>7
<1>9. QED
  BY <1>1, <1>2, <1>3, <1>4, <1>5, <1>7, <1>8, Zenon

LEMMA RoomIs ==
  ASSUME PackedFileAssumption, NEW j \in Jobs
  PROVE  /\ DOMAIN Room(j) = 1 .. Count(j)
         /\ \A m \in 1 .. Count(j) : Room(j)[m] = 3 + Len(j.parts[m].payload) /\ Room(j)[m] \in Nat
<1>1. DOMAIN j.parts = 1 .. Count(j)
  BY JobIs, Zenon DEF Count
<1>2. \A m \in 1 .. Count(j) : Len(j.parts[m].payload) \in Nat
  BY PartIs, Zenon DEF Count
<1>3. QED
  BY <1>1, <1>2 DEF Room

LEMMA BoundIs ==
  ASSUME PackedFileAssumption, NEW j \in Jobs
  PROVE  /\ Bound(j, 0) = Behind(j)
         /\ \A k \in 0 .. Count(j) : Bound(j, k) \in Nat /\ Bound(j, k) \in LongValues
         /\ \A k \in 1 .. Count(j) : Bound(j, k) = Bound(j, k - 1) + 3 + Len(j.parts[k].payload)
         /\ Behind(j) \in LongValues
<1>1. PICK count \in 1 .. 3, behind \in Nat : count = Count(j) /\ behind = Behind(j)
  BY ScratchSizes
<1> DEFINE room == Room(j)
<1>2. /\ DOMAIN room = 1 .. count
      /\ \A m \in 1 .. count : room[m] = 3 + Len(j.parts[m].payload) /\ room[m] \in Nat
  BY <1>1, RoomIs, Zenon
<1>3. \A k : Bound(j, k) = behind + SumFunctionOnSet(room, 1 .. k)
  BY <1>1, Zenon DEF Bound
<1>4. SumFunctionOnSet(room, 1 .. count) + behind \in LongValues
  <2>1. ScratchBound(j) \in LongValues
    BY Zenon DEF PackedFileAssumption, FitsFields
  <2>2. ScratchBound(j) = behind + SumFunction(room)
    BY <1>1, Zenon DEF ScratchBound, Behind, Decoder, Count, StubOf, TotalOf, Room
  <2>3. SumFunction(room) = SumFunctionOnSet(room, 1 .. count)
    BY <1>2, Zenon DEF SumFunction
  <2>4. SumFunctionOnSet(room, 1 .. count) \in Nat
    BY <1>2, FirstCount, SumIsNat
  <2>5. QED
    BY <2>1, <2>2, <2>3, <2>4
<1> HIDE DEF room
<1>5. ASSUME NEW k \in 0 .. count
      PROVE  /\ SumFunctionOnSet(room, 1 .. k) \in Nat
             /\ SumFunctionOnSet(room, 1 .. k) <= SumFunctionOnSet(room, 1 .. count)
  <2>1. 1 .. k \in SUBSET (1 .. count) /\ IsFiniteSet(1 .. count)
    BY FirstCount
  <2>2. /\ SumFunctionOnSet(room, 1 .. count)
             = SumFunctionOnSet(room, 1 .. k) + SumFunctionOnSet(room, (1 .. count) \ (1 .. k))
        /\ SumFunctionOnSet(room, 1 .. k) \in Nat
        /\ SumFunctionOnSet(room, (1 .. count) \ (1 .. k)) \in Nat
    BY <1>2, <2>1, SumOfPart
  <2>3. QED
    BY <2>2
<1>6. ASSUME NEW k \in 1 .. count
      PROVE  Bound(j, k) = Bound(j, k - 1) + 3 + Len(j.parts[k].payload)
  <2>1. 1 .. k = (1 .. k - 1) \cup {k} /\ k \notin 1 .. k - 1 /\ k - 1 \in 0 .. count
    BY <1>1
  <2>2. IsFiniteSet(1 .. k - 1)
    BY <2>1, FirstCount
  <2>3. IsNumeric(room, (1 .. k - 1) \cup {k})
    BY <1>2, <2>1 DEF IsNumeric
  <2>4. SumFunctionOnSet(room, 1 .. k) = SumFunctionOnSet(room, 1 .. k - 1) + room[k]
    BY <2>1, <2>2, <2>3, SumOfOneMore
  <2>5. PICK len \in Nat : len = Len(j.parts[k].payload)
    BY <1>1, PartIs DEF Count
  <2>6. room[k] = 3 + len /\ SumFunctionOnSet(room, 1 .. k - 1) \in Nat
    BY <1>2, <1>5, <2>1, <2>5
  <2>7. QED
    BY <1>3, <2>4, <2>5, <2>6
<1>7. ASSUME NEW k \in 0 .. count
      PROVE  Bound(j, k) \in Nat /\ Bound(j, k) \in LongValues
  <2>1. PICK s \in Nat, all \in Nat :
          s = SumFunctionOnSet(room, 1 .. k) /\ all = SumFunctionOnSet(room, 1 .. count) /\ s <= all
    BY <1>5
  <2>2. behind + s \in Nat /\ behind + s <= all + behind /\ all + behind \in LongValues
    BY <1>4, <2>1
  <2>3. behind + s \in LongValues
    BY <2>2, LessIsLong
  <2>4. QED
    BY <1>3, <2>1, <2>2, <2>3, Zenon
<1>8. Bound(j, 0) = behind
  <2>1. 1 .. 0 = {}
    OBVIOUS
  <2>2. SumFunctionOnSet(room, 1 .. 0) = 0
    BY <2>1, SumEmpty, Zenon
  <2>3. QED
    BY <1>3, <2>2
<1>9. behind \in LongValues
  <2>1. 0 \in 0 .. count
    OBVIOUS
  <2>2. QED
    BY <1>7, <1>8, <2>1, Zenon
<1>10. QED
  BY <1>1, <1>6, <1>7, <1>8, <1>9, Zenon

LEMMA MixedFields ==
  ASSUME PackedFileAssumption, NEW j \in Jobs
  PROVE  AreFields(MixedHeader(j), 44)
<1> DEFINE code   == TotalOf(j.parts, LAMBDA p : p.image.code)
           bss    == TotalOf(j.parts, LAMBDA p : p.image.bss)
           stream == TotalOf(j.parts, LAMBDA p : p.image.stream)
           packed == TotalOf(j.parts, LAMBDA p : Len(p.payload))
           depack == Len(MixedStub) + TablesSize(Len(j.parts)) + StubOf(j).depack
<1>1. {code, bss, stream, packed} \subseteq LongValues
  BY Zenon DEF PackedFileAssumption, FitsFields
<1>2. depack \in LongValues
  <2>1. PICK d \in Nat : d = Decoder(j)
    BY ScratchSizes
  <2>2. PICK s \in Nat : s = Len(StubOf(j).bytes)
    BY ScratchSizes
  <2>3. StubOf(j).depack \in 0 .. s
    BY <2>2, JobIs, Zenon
  <2>4. depack = d + StubOf(j).depack
    BY <2>1, Zenon DEF Decoder, Count
  <2>5. Behind(j) = d + s
    BY <2>1, <2>2, Zenon DEF Behind
  <2>6. depack \in Nat /\ depack <= d + s
    <3> HIDE DEF depack
    <3>1. QED
      BY <2>3, <2>4
  <2>7. Behind(j) \in LongValues
    BY BoundIs, Zenon
  <2> HIDE DEF depack
  <2>8. QED
    BY <2>5, <2>6, <2>7, LessIsLong
<1>3. j.backend \in Byte /\ FlashFlags(j) \in Byte
  <2>1. TRUE \in BOOLEAN
    OBVIOUS
  <2>2. QED
    BY <2>1, JobIs, FlagsAreTold, Zenon
<1>4. Count(j) \in Byte
  <2>1. PICK count \in 1 .. 3 : count = Count(j)
    BY ScratchSizes, Zenon
  <2>2. QED
    BY <2>1 DEF Byte
<1>5. MixedHeader(j) =
        {<<0, 4, MAGIC>>, <<4, 1, 1>>, <<6, 1, j.backend>>, <<7, 1, FlashFlags(j)>>, <<8, 2, MIXED_HEADER_SIZE>>,
         <<12, 4, code>>, <<16, 4, bss>>, <<20, 4, stream>>, <<24, 4, packed>>, <<36, 4, Count(j)>>,
         <<40, 4, depack>>}
  BY Zenon DEF MixedHeader, Count
<1> HIDE DEF code, bss, stream, packed, depack
<1>6. /\ Fits(1, 1) /\ Fits(j.backend, 1) /\ Fits(FlashFlags(j), 1) /\ Fits(MIXED_HEADER_SIZE, 2) /\ Fits(code, 4)
      /\ Fits(bss, 4) /\ Fits(stream, 4) /\ Fits(packed, 4) /\ Fits(Count(j), 4) /\ Fits(depack, 4)
  <2>1. {1, j.backend, FlashFlags(j), MIXED_HEADER_SIZE, Count(j)} \subseteq Byte
    BY <1>3, <1>4, SmallFields
  <2>2. {code, bss, stream, packed, depack} \subseteq LongValues
    BY <1>1, <1>2
  <2>3. QED
    BY <2>1, <2>2, ByteFits, LongFits
<1>7. AreFields(
        {<<0, 4, MAGIC>>, <<4, 1, 1>>, <<6, 1, j.backend>>, <<7, 1, FlashFlags(j)>>, <<8, 2, MIXED_HEADER_SIZE>>,
         <<12, 4, code>>, <<16, 4, bss>>, <<20, 4, stream>>, <<24, 4, packed>>, <<36, 4, Count(j)>>,
         <<40, 4, depack>>}, 44)
  BY <1>6, MagicFits, MixedHeaderLayout, Zenon
<1>8. QED
  BY <1>5, <1>7, Zenon

-----------------------------------------------------------------------------
(* The scratch hunk as it grows: the decoder, the descriptors and the      *)
(* payloads already there stay as they are.                                *)

\* The scratch hunk has dispatcher and decoder where they belong.
HoldsFrame(j, data) ==
  /\ data \in Seq(Byte) /\ Behind(j) <= Len(data)
  /\ Begins(MixedStub, data)
  /\ Same(StubOf(j).bytes, 0, data, Decoder(j), Len(StubOf(j).bytes))

\* A payload in the scratch hunk, behind the decoder.
HoldsPayload(j, data, payload, place) ==
  /\ place % 4 = 0 /\ Behind(j) <= place /\ place + Len(payload) <= Len(data)
  /\ Same(payload, 0, data, place, Len(payload))

HoldsPart(j, data, m) ==
  \E place \in LongValues :
    /\ HasFields(data, DescriptorAt(m), Descriptor(j, m, place))
    /\ IF j.parts[m].overlap THEN place = Len(PrefixOf(m))
                             ELSE HoldsPayload(j, data, j.parts[m].payload, place)

LEMMA PlacesAre ==
  ASSUME PackedFileAssumption, NEW j \in Jobs
  PROVE  /\ Len(MixedStub) \in Nat /\ Decoder(j) \in Nat /\ Len(StubOf(j).bytes) \in Nat /\ Behind(j) \in Nat
         /\ Behind(j) = Decoder(j) + Len(StubOf(j).bytes) /\ Decoder(j) <= Behind(j)
         /\ Len(MixedStub) + 44 <= Decoder(j) /\ Len(MixedStub) <= Decoder(j)
         /\ Decoder(j) = Len(MixedStub) + 44 + 52 * Count(j)
<1>0. /\ Len(MixedStub) \in Nat /\ Decoder(j) \in Nat /\ Len(StubOf(j).bytes) \in Nat /\ Behind(j) \in Nat
      /\ Decoder(j) = Len(MixedStub) + 44 + 52 * Count(j) /\ Count(j) \in 1 .. 3
  BY ScratchSizes, Zenon
<1>1. PICK count \in 1 .. 3 : count = Count(j)
  BY <1>0, Zenon
<1>2. PICK mixed \in Nat : mixed = Len(MixedStub)
  BY <1>0, Zenon
<1>3. PICK decoder \in Nat : decoder = Decoder(j)
  BY <1>0, Zenon
<1>4. PICK stub \in Nat : stub = Len(StubOf(j).bytes)
  BY <1>0, Zenon
<1>5. decoder = mixed + 44 + 52 * count /\ Behind(j) = decoder + stub
  BY <1>0, <1>1, <1>2, <1>3, <1>4, Zenon DEF Behind
<1>6. decoder <= decoder + stub /\ mixed + 44 <= decoder /\ mixed <= decoder
  BY <1>5
<1>7. QED
  BY <1>0, <1>1, <1>2, <1>3, <1>4, <1>5, <1>6, Zenon

LEMMA DescriptorIsAt ==
  ASSUME PackedFileAssumption, NEW j \in Jobs, NEW m \in 1 .. Count(j)
  PROVE  /\ DescriptorAt(m) \in Nat /\ DescriptorAt(m) = Len(MixedStub) + 44 + 52 * (m - 1)
         /\ Len(MixedStub) + 44 <= DescriptorAt(m) /\ DescriptorAt(m) + 52 <= Decoder(j)
         /\ \A k \in 1 .. Count(j) :
              k # m => DescriptorAt(k) + 52 <= DescriptorAt(m) \/ DescriptorAt(m) + 52 <= DescriptorAt(k)
<1>1. PICK count \in 1 .. 3, mixed \in Nat : count = Count(j) /\ mixed = Len(MixedStub)
  BY ScratchSizes
<1>2. Decoder(j) = mixed + 44 + 52 * count
  BY <1>1, ScratchSizes
<1>3. \A k \in 1 .. count : DescriptorAt(k) = mixed + 44 + 52 * (k - 1)
  BY <1>1 DEF DescriptorAt, MIXED_HEADER_SIZE, DESC_SIZE
<1>4. m \in 1 .. count
  BY <1>1
<1>5. ASSUME NEW k \in 1 .. count, k # m
      PROVE  DescriptorAt(k) + 52 <= DescriptorAt(m) \/ DescriptorAt(m) + 52 <= DescriptorAt(k)
  <2>1. k + 1 <= m \/ m + 1 <= k
    BY <1>4, <1>5
  <2>2. QED
    BY <1>3, <1>4, <1>5, <2>1
<1>6. DescriptorAt(m) + 52 <= Decoder(j)
  BY <1>2, <1>3, <1>4
<1>7. DescriptorAt(m) \in Nat /\ mixed + 44 <= DescriptorAt(m)
  BY <1>3, <1>4
<1>8. QED
  BY <1>1, <1>3, <1>4, <1>5, <1>6, <1>7, Zenon

\* What lies apart from the bytes written stays.
LEMMA SameStays ==
  ASSUME NEW a, Len(a) \in Nat, NEW b, NEW base \in Nat, NEW size \in Nat, SameBut(a, b, base, size),
         NEW from \in Nat, NEW len \in Nat, from + len <= Len(a), from + len <= base \/ base + size <= from
  PROVE  Same(a, from, b, from, len)
<1> SUFFICES ASSUME NEW k \in 1 .. len
             PROVE  b[from + k] = a[from + k]
  BY Zenon DEF Same
<1>1. PICK at \in Nat : at = from + k
  OBVIOUS
<1>2. at \in 1 .. Len(a) /\ (at <= base \/ at > base + size)
  BY <1>1
<1>3. QED
  BY <1>1, <1>2 DEF SameBut

LEMMA SameOfSame ==
  ASSUME NEW a, NEW b, NEW c, NEW at, NEW from \in Nat, NEW len, Same(a, at, b, from, len), Same(b, from, c, from, len)
  PROVE  Same(a, at, c, from, len)
BY Zenon DEF Same

LEMMA FrameStays ==
  ASSUME PackedFileAssumption, NEW j \in Jobs, NEW a, NEW b \in Seq(Byte), HoldsFrame(j, a),
         NEW base \in Nat, NEW size \in Nat, SameBut(a, b, base, size),
         Len(MixedStub) <= base, base + size <= Decoder(j)
  PROVE  HoldsFrame(j, b)
<1>1. PICK mixed \in Nat, decoder \in Nat, stub \in Nat, behind \in Nat :
        /\ mixed = Len(MixedStub) /\ decoder = Decoder(j) /\ stub = Len(StubOf(j).bytes)
        /\ behind = Behind(j) /\ behind = decoder + stub /\ mixed <= decoder
  BY PlacesAre, Zenon
<1>2. a \in Seq(Byte) /\ behind <= Len(a) /\ Len(a) <= Len(b)
  BY <1>1, Zenon DEF HoldsFrame, SameBut
<1>3. PICK la \in Nat, lb \in Nat : la = Len(a) /\ lb = Len(b)
  BY <1>2
<1>4. behind <= lb
  BY <1>2, <1>3
<1>5. Begins(MixedStub, b)
  <2>1. Same(a, 0, b, 0, mixed)
    <3>1. 0 + mixed <= la /\ 0 + mixed <= base
      BY <1>1, <1>2, <1>3
    <3>2. QED
      BY <1>3, <3>1, SameStays
  <2>2. mixed <= lb /\ \A k \in 1 .. mixed : a[k] = MixedStub[k]
    BY <1>1, <1>4, <1>3 DEF HoldsFrame, Begins
  <2>3. \A k \in 1 .. mixed : b[k] = a[k]
    BY <2>1 DEF Same
  <2>4. QED
    BY <1>1, <1>3, <2>2, <2>3 DEF Begins
<1>6. Same(StubOf(j).bytes, 0, b, decoder, stub)
  <2>1. decoder + stub <= la /\ base + size <= decoder
    BY <1>1, <1>2, <1>3
  <2>2. Same(a, decoder, b, decoder, stub)
    BY <1>3, <2>1, SameStays
  <2>3. Same(StubOf(j).bytes, 0, a, decoder, stub)
    BY <1>1, Zenon DEF HoldsFrame
  <2>4. QED
    BY <2>2, <2>3, SameOfSame
<1>7. QED
  BY <1>1, <1>3, <1>4, <1>5, <1>6, Zenon DEF HoldsFrame

LEMMA PayloadStays ==
  ASSUME PackedFileAssumption, NEW j \in Jobs, NEW a \in Seq(Byte), NEW b \in Seq(Byte),
         NEW base \in Nat, NEW size \in Nat, SameBut(a, b, base, size), base + size <= Behind(j),
         NEW payload \in Seq(Byte), NEW place \in Nat, HoldsPayload(j, a, payload, place)
  PROVE  HoldsPayload(j, b, payload, place)
<1>1. PICK la \in Nat, lb \in Nat, len \in Nat, behind \in Nat :
        la = Len(a) /\ lb = Len(b) /\ len = Len(payload) /\ behind = Behind(j)
  <2>1. Len(a) \in Nat /\ Len(b) \in Nat /\ Len(payload) \in Nat
    OBVIOUS
  <2>2. QED
    BY <2>1, ScratchSizes, Zenon
<1>2. place % 4 = 0 /\ behind <= place /\ place + len <= la /\ Same(payload, 0, a, place, len) /\ la <= lb
  BY <1>1, Zenon DEF HoldsPayload, SameBut
<1>3. Same(a, place, b, place, len)
  <2>1. base + size <= place
    BY <1>1, <1>2
  <2>2. QED
    BY <1>1, <1>2, <2>1, SameStays
<1>4. Same(payload, 0, b, place, len)
  BY <1>2, <1>3, SameOfSame
<1>5. place + len <= lb
  BY <1>2
<1>6. QED
  BY <1>1, <1>2, <1>4, <1>5, Zenon DEF HoldsPayload

LEMMA PartStays ==
  ASSUME PackedFileAssumption, NEW j \in Jobs, NEW a \in Seq(Byte), NEW b \in Seq(Byte), Behind(j) <= Len(a),
         NEW base \in Nat, NEW size \in Nat, SameBut(a, b, base, size), base + size <= Behind(j),
         NEW m \in 1 .. Count(j), HoldsPart(j, a, m),
         DescriptorAt(m) + 52 <= base \/ base + size <= DescriptorAt(m)
  PROVE  HoldsPart(j, b, m)
<1>1. PICK place \in LongValues :
        /\ HasFields(a, DescriptorAt(m), Descriptor(j, m, place))
        /\ IF j.parts[m].overlap THEN place = Len(PrefixOf(m))
                                 ELSE HoldsPayload(j, a, j.parts[m].payload, place)
  BY Zenon DEF HoldsPart
<1>2. PICK at \in Nat : at = DescriptorAt(m)
  BY DescriptorIsAt
<1>3. m \in 1 .. Len(j.parts) /\ place \in Nat
  BY LongIs, Zenon DEF Count
<1>4. Same(a, at, b, at, 52)
  <2>1. PICK d \in Nat, behind \in Nat : d = Decoder(j) /\ behind = Behind(j) /\ d <= behind
    BY PlacesAre, Zenon
  <2>2. PICK la \in Nat : la = Len(a)
    OBVIOUS
  <2>6. at + 52 <= d /\ behind <= la
    BY <1>2, <2>1, <2>2, DescriptorIsAt, Zenon
  <2>3. at + 52 <= la
    BY <2>1, <2>6
  <2>4. at + 52 <= base \/ base + size <= at
    BY <1>2, Zenon
  <2>5. QED
    BY <2>2, <2>3, <2>4, SameStays
<1>5. HasFields(b, at, Descriptor(j, m, place))
  <2>1. AreFields(Descriptor(j, m, place), 52)
    BY <1>3, DescriptorFields, Zenon
  <2>2. QED
    BY <1>1, <1>2, <1>4, <2>1, FieldsMove
<1>6. CASE j.parts[m].overlap
  BY <1>1, <1>2, <1>5, <1>6, Zenon DEF HoldsPart
<1>7. CASE ~j.parts[m].overlap
  <2>1. HoldsPayload(j, a, j.parts[m].payload, place) /\ j.parts[m].payload \in Seq(Byte)
    BY <1>1, <1>3, <1>7, PartIs, Zenon
  <2>2. HoldsPayload(j, b, j.parts[m].payload, place)
    BY <1>3, <2>1, PayloadStays
  <2>3. QED
    BY <1>1, <1>2, <1>5, <1>7, <2>2, Zenon DEF HoldsPart
<1>8. QED
  BY <1>6, <1>7

LEMMA ZerosAre ==
  ASSUME NEW m \in Nat
  PROVE  Zeros(m) \in Seq(Byte) /\ Len(Zeros(m)) = m /\ \A k \in 1 .. m : Zeros(m)[k] = 0
BY DEF Zeros, Byte

LEMMA FrameBegins ==
  ASSUME PackedFileAssumption, NEW j \in Jobs,
         NEW data, data = MixedStub \o Zeros(TablesSize(Len(j.parts))) \o StubOf(j).bytes
  PROVE  HoldsFrame(j, data) /\ Len(data) = Behind(j)
<1>1. MixedStub \in Seq(Byte) /\ StubOf(j).bytes \in Seq(Byte)
  BY JobIs, Zenon
<1>2. PICK tables \in Nat : tables = TablesSize(Len(j.parts))
  <2>1. PICK count \in 1 .. 3 : count = Count(j)
    BY ScratchSizes, Zenon
  <2>2. TablesSize(count) = 44 + 52 * count
    BY <2>1, ScratchSizes, Zenon
  <2>3. TablesSize(count) \in Nat
    BY <2>2
  <2>4. QED
    BY <2>1, <2>3, Zenon DEF Count
<1>3. PICK zeros \in Seq(Byte) : zeros = Zeros(tables) /\ Len(zeros) = tables
  BY ZerosAre
<1>4. PICK front \in Seq(Byte) :
        front = MixedStub \o zeros /\ Len(front) = Len(MixedStub) + Len(zeros) /\ Begins(MixedStub, front)
  BY <1>1, BeginsJoin
<1>5. PICK stub \in Seq(Byte) : stub = StubOf(j).bytes
  BY <1>1, Zenon
<1>6. data = front \o stub
  BY <1>2, <1>3, <1>4, <1>5, Zenon
<1>7. /\ data \in Seq(Byte) /\ Len(data) = Len(front) + Len(stub) /\ Begins(front, data)
      /\ \A k \in 1 .. Len(stub) : data[Len(front) + k] = stub[k]
  BY <1>6, BeginsJoin
<1>8. PICK f \in Nat, s \in Nat, m \in Nat : f = Len(front) /\ s = Len(stub) /\ m = Len(MixedStub) /\ m <= f
  <2>1. Len(front) \in Nat /\ Len(stub) \in Nat /\ Len(MixedStub) \in Nat /\ Len(MixedStub) <= Len(front)
    BY <1>1, <1>4 DEF Begins
  <2>2. QED
    BY <2>1, Zenon
<1>9. f = Decoder(j) /\ Behind(j) = f + s
  BY <1>2, <1>3, <1>4, <1>5, <1>8, Zenon DEF Decoder, Behind, Count
<1>10. Begins(MixedStub, data)
  <2>1. \A k \in 1 .. m : front[k] = MixedStub[k]
    BY <1>4, <1>8 DEF Begins
  <2>2. \A k \in 1 .. f : data[k] = front[k]
    BY <1>7, <1>8 DEF Begins
  <2>3. m <= Len(data) /\ \A k \in 1 .. m : data[k] = MixedStub[k]
    <3>1. m <= Len(data)
      BY <1>7, <1>8
    <3>2. \A k \in 1 .. m : k \in 1 .. f
      BY <1>8
    <3>3. QED
      BY <2>1, <2>2, <3>1, <3>2, Zenon
  <2>4. QED
    BY <1>8, <2>3, Zenon DEF Begins
<1>11. Same(stub, 0, data, f, s)
  <2>1. \A k \in 1 .. s : data[f + k] = stub[k]
    BY <1>7, <1>8, Zenon
  <2>3. \A k \in 1 .. s : 0 + k = k
    OBVIOUS
  <2>2. QED
    BY <2>1, <2>3, Zenon DEF Same
<1>12. Behind(j) <= Len(data)
  BY <1>7, <1>8, <1>9
<1>13. QED
  BY <1>5, <1>7, <1>8, <1>9, <1>10, <1>11, <1>12, Zenon DEF HoldsFrame

LEMMA BeginsIsSame ==
  ASSUME NEW a \in Seq(Byte), NEW b \in Seq(Byte), Begins(a, b), NEW base \in Nat, NEW size \in Nat
  PROVE  SameBut(a, b, base, size)
BY DEF Begins, SameBut

\* What an iteration of the loop over the parts makes of the scratch hunk.
Extended(j, m, data) == IF j.parts[m].overlap THEN data ELSE PadTo4(data) \o j.parts[m].payload
InputOf(j, m, data) == IF j.parts[m].overlap THEN Len(PrefixOf(m)) ELSE Align4(Len(data))
Added(j, m, data) == PutAll(Extended(j, m, data), DescriptorAt(m), Descriptor(j, m, InputOf(j, m, data)))

HoldsUpTo(j, data, count) ==
  /\ HoldsFrame(j, data) /\ Len(data) <= Bound(j, count)
  /\ \A k \in 1 .. count : HoldsPart(j, data, k)

LEMMA BeginsItself == ASSUME NEW a \in Seq(Byte) PROVE Begins(a, a)
BY DEF Begins

\* A payload appended lies behind the decoder, at a multiple of four.
LEMMA PayloadIsAppended ==
  ASSUME PackedFileAssumption, NEW j \in Jobs, NEW data \in Seq(Byte), Behind(j) <= Len(data),
         NEW payload \in Seq(Byte)
  PROVE  /\ PadTo4(data) \o payload \in Seq(Byte) /\ Begins(data, PadTo4(data) \o payload)
         /\ Len(PadTo4(data) \o payload) = Align4(Len(data)) + Len(payload)
         /\ HoldsPayload(j, PadTo4(data) \o payload, payload, Align4(Len(data)))
<1>1. PICK len \in Nat, at \in Nat, padded \in Seq(Byte), size \in Nat, behind \in Nat :
        len = Len(data) /\ at = Align4(Len(data)) /\ padded = PadTo4(data) /\ size = Len(payload) /\ behind = Behind(j)
  <2>1. PadTo4(data) \in Seq(Byte) /\ Len(data) \in Nat /\ Len(payload) \in Nat
    BY PadIs
  <2>2. Align4(Len(data)) \in Nat
    BY <2>1, Align4Rounds
  <2>3. Behind(j) \in Nat
    BY ScratchSizes, Zenon
  <2>4. QED
    BY <2>1, <2>2, <2>3, Zenon
<1>2. Len(padded) = at /\ len <= at /\ at % 4 = 0 /\ \A k \in 1 .. len : padded[k] = data[k]
  BY <1>1, PadIs
<1>3. PICK whole \in Seq(Byte) :
        /\ whole = padded \o payload /\ Len(whole) = Len(padded) + Len(payload) /\ Begins(padded, whole)
        /\ \A k \in 1 .. Len(payload) : whole[Len(padded) + k] = payload[k]
  BY BeginsJoin
<1>4. Len(whole) = at + size /\ \A k \in 1 .. size : whole[at + k] = payload[k]
  BY <1>1, <1>2, <1>3
<1>5. \A k \in 1 .. at : whole[k] = padded[k]
  BY <1>2, <1>3 DEF Begins
<1>6. Begins(data, whole)
  BY <1>1, <1>2, <1>4, <1>5 DEF Begins
<1>7. Same(payload, 0, whole, at, size)
  <2>1. \A k \in 1 .. size : whole[at + k] = payload[0 + k]
    BY <1>4
  <2>2. QED
    BY <2>1, Zenon DEF Same
<1>8. behind <= at /\ at + size <= Len(whole)
  BY <1>1, <1>2, <1>4
<1>9. HoldsPayload(j, whole, payload, at)
  BY <1>1, <1>2, <1>7, <1>8, Zenon DEF HoldsPayload
<1>10. QED
  BY <1>1, <1>3, <1>4, <1>6, <1>9, Zenon

LEMMA PartIsExtended ==
  ASSUME PackedFileAssumption, NEW j \in Jobs, NEW m \in 1 .. Count(j), NEW data \in Seq(Byte), Behind(j) <= Len(data),
         Len(data) <= Bound(j, m - 1)
  PROVE  /\ Extended(j, m, data) \in Seq(Byte) /\ Begins(data, Extended(j, m, data))
         /\ Len(Extended(j, m, data)) <= Bound(j, m)
         /\ InputOf(j, m, data) \in LongValues
         /\ IF j.parts[m].overlap THEN InputOf(j, m, data) = Len(PrefixOf(m))
            ELSE HoldsPayload(j, Extended(j, m, data), j.parts[m].payload, InputOf(j, m, data))
<1>1. m \in Nat /\ m \in 1 .. Len(j.parts) /\ m \in 0 .. Count(j) /\ m - 1 \in 0 .. Count(j)
  <2>1. Count(j) \in Nat
    BY ScratchSizes, Zenon
  <2>2. QED
    BY <2>1 DEF Count
<1>2. PICK payload \in Seq(Byte), size \in Nat : payload = j.parts[m].payload /\ size = Len(payload)
  <2>1. j.parts[m].payload \in Seq(Byte)
    BY <1>1, PartIs, Zenon
  <2>2. Len(j.parts[m].payload) \in Nat
    BY <2>1
  <2>3. QED
    BY <2>1, <2>2, Zenon
<1>3. PICK before \in Nat, after \in LongValues, len \in Nat :
        before = Bound(j, m - 1) /\ after = Bound(j, m) /\ len = Len(data)
  <2>1. Bound(j, m - 1) \in Nat /\ Bound(j, m) \in LongValues /\ Len(data) \in Nat
    BY <1>1, BoundIs
  <2>2. QED
    BY <2>1, Zenon
<1>4. after = before + 3 + size /\ len <= before /\ after \in Nat
  BY <1>2, <1>3, BoundIs, LongIs, Zenon
<1>5. CASE j.parts[m].overlap
  <2>1. Extended(j, m, data) = data /\ InputOf(j, m, data) = Len(PrefixOf(m))
    BY <1>5, Zenon DEF Extended, InputOf
  <2>2. Len(PrefixOf(m)) \in LongValues
    BY <1>1, PrefixIsBytes, Zenon
  <2>3. len <= after
    BY <1>4
  <2>4. QED
    BY <1>3, <1>5, <2>1, <2>2, <2>3, BeginsItself, Zenon
<1>6. CASE ~j.parts[m].overlap
  <2>1. Extended(j, m, data) = PadTo4(data) \o payload /\ InputOf(j, m, data) = Align4(Len(data))
    BY <1>2, <1>6, Zenon DEF Extended, InputOf
  <2>2. PICK at \in Nat : at = Align4(Len(data)) /\ at <= len + 3
    <3>1. Align4(len) \in Nat /\ Align4(len) <= len + 3
      BY Align4Rounds
    <3>2. QED
      BY <1>3, <3>1, Zenon
  <2>3. /\ Extended(j, m, data) \in Seq(Byte) /\ Begins(data, Extended(j, m, data))
        /\ Len(Extended(j, m, data)) = at + size
        /\ HoldsPayload(j, Extended(j, m, data), payload, at)
    <3>1. /\ PadTo4(data) \o payload \in Seq(Byte) /\ Begins(data, PadTo4(data) \o payload)
          /\ Len(PadTo4(data) \o payload) = Align4(Len(data)) + Len(payload)
          /\ HoldsPayload(j, PadTo4(data) \o payload, payload, Align4(Len(data)))
      BY PayloadIsAppended
    <3>2. QED
      BY <1>2, <2>1, <2>2, <3>1, Zenon
  <2>4. at <= after /\ at + size <= after
    BY <1>4, <2>2
  <2>5. at \in LongValues
    BY <2>4, LessIsLong
  <2>6. QED
    BY <1>2, <1>3, <1>6, <2>1, <2>2, <2>3, <2>4, <2>5, Zenon
<1>7. QED
  BY <1>5, <1>6

LEMMA PartIsAdded ==
  ASSUME PackedFileAssumption, NEW j \in Jobs, NEW m \in 1 .. Count(j), NEW data, HoldsUpTo(j, data, m - 1)
  PROVE  HoldsUpTo(j, Added(j, m, data), m)
<1> DEFINE longer == Extended(j, m, data)
           fields == Descriptor(j, m, InputOf(j, m, data))
<1>1. /\ data \in Seq(Byte) /\ Behind(j) <= Len(data) /\ HoldsFrame(j, data) /\ Len(data) <= Bound(j, m - 1)
      /\ \A k \in 1 .. m - 1 : HoldsPart(j, data, k)
  BY Zenon DEF HoldsUpTo, HoldsFrame
<1>2. /\ longer \in Seq(Byte) /\ Begins(data, longer) /\ Len(longer) <= Bound(j, m)
      /\ InputOf(j, m, data) \in LongValues
      /\ IF j.parts[m].overlap THEN InputOf(j, m, data) = Len(PrefixOf(m))
         ELSE HoldsPayload(j, longer, j.parts[m].payload, InputOf(j, m, data))
  BY <1>1, PartIsExtended, Zenon
<1>3. PICK place \in LongValues : place = InputOf(j, m, data)
  BY <1>2, Zenon
<1>4. AreFields(fields, 52)
  <2>1. m \in 1 .. Len(j.parts)
    BY Zenon DEF Count
  <2>2. QED
    BY <1>3, <2>1, DescriptorFields, Zenon
<1> HIDE DEF longer, fields
<1>5. PICK at \in Nat, mixed \in Nat, decoder \in Nat, behind \in Nat :
        at = DescriptorAt(m) /\ mixed = Len(MixedStub) /\ decoder = Decoder(j) /\ behind = Behind(j)
  BY DescriptorIsAt, PlacesAre, Zenon
<1>6. mixed <= at /\ at + 52 <= decoder /\ decoder <= behind
  <2>1. mixed + 44 <= at /\ at + 52 <= decoder /\ decoder <= behind
    BY <1>5, DescriptorIsAt, PlacesAre, Zenon
  <2>2. QED
    BY <2>1
<1>7. HoldsFrame(j, longer)
  <2>1. SameBut(data, longer, mixed, 0)
    BY <1>1, <1>2, BeginsIsSame
  <2>2. mixed + 0 <= decoder
    BY <1>6
  <2>3. Len(MixedStub) <= mixed /\ mixed + 0 <= Decoder(j)
    BY <1>5, <2>2
  <2>4. QED
    BY <1>1, <1>2, <2>1, <2>3, FrameStays
<1>8. behind <= Len(longer)
  BY <1>5, <1>7, Zenon DEF HoldsFrame
<1>9. PICK whole \in Seq(Byte) : whole = Added(j, m, data)
  <2>1. at + 52 <= Len(longer)
    BY <1>2, <1>6, <1>8
  <2>2. PutAll(longer, at, fields) \in Seq(Byte)
    BY <1>2, <1>4, <2>1, PutReads
  <2>3. Added(j, m, data) = PutAll(longer, at, fields)
    BY <1>5, Zenon DEF Added, longer, fields
  <2>4. QED
    BY <2>2, <2>3, Zenon
<1>10. Len(whole) = Len(longer) /\ HasFields(whole, at, fields) /\ SameBut(longer, whole, at, 52)
  <2>1. at + 52 <= Len(longer)
    BY <1>2, <1>6, <1>8
  <2>2. /\ Len(PutAll(longer, at, fields)) = Len(longer)
        /\ HasFields(PutAll(longer, at, fields), at, fields)
        /\ SameBut(longer, PutAll(longer, at, fields), at, 52)
    BY <1>2, <1>4, <2>1, PutReads
  <2>3. whole = PutAll(longer, at, fields)
    BY <1>5, <1>9, Zenon DEF Added, longer, fields
  <2>4. QED
    BY <2>2, <2>3, Zenon
<1>11. HoldsFrame(j, whole)
  <2>1. Len(MixedStub) <= at /\ at + 52 <= Decoder(j)
    BY <1>5, <1>6
  <2>2. QED
    BY <1>7, <1>10, <2>1, FrameStays
<1>12. HoldsPart(j, whole, m)
  <2>1. CASE j.parts[m].overlap
    BY <1>2, <1>3, <1>5, <1>10, <2>1, Zenon DEF HoldsPart, fields
  <2>2. CASE ~j.parts[m].overlap
    <3>1. HoldsPayload(j, longer, j.parts[m].payload, place)
      BY <1>2, <1>3, <2>2, Zenon
    <3>2. at + 52 <= behind
      BY <1>6
    <3>3. j.parts[m].payload \in Seq(Byte) /\ place \in Nat
      <4>1. m \in 1 .. Len(j.parts)
        BY Zenon DEF Count
      <4>2. QED
        BY <4>1, PartIs, LongIs, Zenon
    <3>4. at + 52 <= Behind(j)
      BY <1>5, <3>2, Zenon
    <3>5. HoldsPayload(j, whole, j.parts[m].payload, place)
      BY <1>2, <1>10, <3>1, <3>3, <3>4, PayloadStays
    <3>6. QED
      BY <1>3, <1>5, <1>10, <2>2, <3>5, Zenon DEF HoldsPart, fields
  <2>3. QED
    BY <2>1, <2>2
<1>13. ASSUME NEW k \in 1 .. m, k # m
       PROVE  HoldsPart(j, whole, k)
  <2>1. k \in 1 .. m - 1 /\ k \in 1 .. Count(j)
    <3>1. PICK count \in Nat : count = Count(j)
      BY ScratchSizes, Zenon
    <3>2. m \in 1 .. count
      BY <3>1
    <3>3. k \in 1 .. m - 1 /\ k \in 1 .. count
      BY <1>13, <3>2
    <3>4. QED
      BY <3>1, <3>3
  <2>2. HoldsPart(j, data, k)
    BY <1>1, <2>1
  <2>3. PICK other \in Nat : other = DescriptorAt(k)
    BY <2>1, DescriptorIsAt, Zenon
  <2>4. other + 52 <= at \/ at + 52 <= other
    BY <1>5, <1>13, <2>1, <2>3, DescriptorIsAt, Zenon
  <2>5. HoldsPart(j, longer, k)
    <3>1. SameBut(data, longer, 0, 0)
      BY <1>1, <1>2, BeginsIsSame
    <3>2. 0 + 0 <= behind /\ 0 + 0 <= other
      OBVIOUS
    <3>3. 0 + 0 <= Behind(j) /\ 0 + 0 <= DescriptorAt(k)
      BY <1>5, <2>3, <3>2
    <3>4. QED
      BY <1>1, <1>2, <2>1, <2>2, <3>1, <3>3, PartStays
  <2>6. at + 52 <= Behind(j) /\ Behind(j) <= Len(longer)
    BY <1>5, <1>6, <1>8
  <2>7. DescriptorAt(k) + 52 <= at \/ at + 52 <= DescriptorAt(k)
    BY <2>3, <2>4, Zenon
  <2>8. QED
    BY <1>2, <1>10, <2>1, <2>5, <2>6, <2>7, PartStays
<1>14. QED
  BY <1>2, <1>9, <1>10, <1>11, <1>12, <1>13, Zenon DEF HoldsUpTo

\* The finished scratch hunk.
HoldsAll(j, data) ==
  /\ HoldsFrame(j, data)
  /\ HasFields(data, Len(MixedStub), MixedHeader(j))
  /\ \A m \in 1 .. Count(j) : HoldsPart(j, data, m)

LEMMA HeaderIsPut ==
  ASSUME PackedFileAssumption, NEW j \in Jobs, NEW data, HoldsUpTo(j, data, Count(j))
  PROVE  HoldsAll(j, PutAll(data, Len(MixedStub), MixedHeader(j)))
<1> DEFINE fields == MixedHeader(j)
<1>1. data \in Seq(Byte) /\ HoldsFrame(j, data) /\ \A k \in 1 .. Count(j) : HoldsPart(j, data, k)
  BY Zenon DEF HoldsUpTo, HoldsFrame
<1>2. PICK mixed \in Nat, decoder \in Nat, behind \in Nat, len \in Nat :
        mixed = Len(MixedStub) /\ decoder = Decoder(j) /\ behind = Behind(j) /\ len = Len(data)
  <2>1. Len(data) \in Nat
    BY <1>1
  <2>2. QED
    BY <2>1, PlacesAre, Zenon
<1>3. mixed + 44 <= decoder /\ decoder <= behind /\ behind <= len
  BY <1>1, <1>2, PlacesAre, Zenon DEF HoldsFrame
<1>4. mixed + 44 <= len /\ mixed + 44 <= behind
  BY <1>3
<1>5. AreFields(fields, 44)
  BY MixedFields, Zenon
<1> HIDE DEF fields
<1>6. PICK whole \in Seq(Byte) :
        /\ whole = PutAll(data, mixed, fields) /\ Len(whole) = len
        /\ HasFields(whole, mixed, fields) /\ SameBut(data, whole, mixed, 44)
  <2>1. mixed + 44 <= Len(data)
    BY <1>2, <1>4, Zenon
  <2>2. /\ PutAll(data, mixed, fields) \in Seq(Byte) /\ Len(PutAll(data, mixed, fields)) = Len(data)
        /\ HasFields(PutAll(data, mixed, fields), mixed, fields)
        /\ SameBut(data, PutAll(data, mixed, fields), mixed, 44)
    BY <1>1, <1>5, <2>1, PutReads
  <2>3. QED
    BY <1>2, <2>2, Zenon
<1>7. HoldsFrame(j, whole)
  <2>1. Len(MixedStub) <= mixed /\ mixed + 44 <= Decoder(j)
    BY <1>2, <1>3
  <2>2. QED
    BY <1>1, <1>6, <2>1, FrameStays
<1>8. ASSUME NEW m \in 1 .. Count(j)
      PROVE  HoldsPart(j, whole, m)
  <2>1. Len(MixedStub) + 44 <= DescriptorAt(m)
    BY DescriptorIsAt, Zenon
  <2>2. mixed + 44 <= DescriptorAt(m) /\ mixed + 44 <= Behind(j) /\ Behind(j) <= Len(data)
    BY <1>2, <1>3, <1>4, <2>1, Zenon
  <2>3. QED
    BY <1>1, <1>6, <2>2, PartStays
<1>9. QED
  BY <1>2, <1>6, <1>7, <1>8, Zenon DEF HoldsAll, fields

LEMMA AllStays ==
  ASSUME PackedFileAssumption, NEW j \in Jobs, NEW a, NEW b \in Seq(Byte), HoldsAll(j, a), Begins(a, b)
  PROVE  HoldsAll(j, b)
<1>1. /\ a \in Seq(Byte) /\ HoldsFrame(j, a) /\ \A k \in 1 .. Count(j) : HoldsPart(j, a, k)
      /\ HasFields(a, Len(MixedStub), MixedHeader(j))
  BY Zenon DEF HoldsAll, HoldsFrame
<1>2. PICK mixed \in Nat, decoder \in Nat, behind \in Nat, len \in Nat :
        mixed = Len(MixedStub) /\ decoder = Decoder(j) /\ behind = Behind(j) /\ len = Len(a)
  <2>1. Len(a) \in Nat
    BY <1>1
  <2>2. QED
    BY <2>1, PlacesAre, Zenon
<1>3. mixed + 44 <= decoder /\ decoder <= behind /\ behind <= len
  BY <1>1, <1>2, PlacesAre, Zenon DEF HoldsFrame
<1>4. mixed + 0 <= decoder /\ mixed + 44 <= len
  BY <1>3
<1>5. HoldsFrame(j, b)
  <2>1. SameBut(a, b, mixed, 0)
    BY <1>1, BeginsIsSame
  <2>2. Len(MixedStub) <= mixed /\ mixed + 0 <= Decoder(j)
    BY <1>2, <1>4
  <2>3. QED
    BY <1>1, <2>1, <2>2, FrameStays
<1>6. HasFields(b, mixed, MixedHeader(j))
  <2>1. Same(a, mixed, b, mixed, 44)
    <3>1. SameBut(a, b, 0, 0) /\ 0 + 0 <= mixed
      BY <1>1, BeginsIsSame
    <3>2. mixed + 44 <= Len(a)
      BY <1>2, <1>4, Zenon
    <3>3. QED
      BY <1>1, <3>1, <3>2, SameStays
  <2>2. QED
    BY <1>1, <1>2, <2>1, MixedFields, FieldsMove
<1>7. ASSUME NEW m \in 1 .. Count(j)
      PROVE  HoldsPart(j, b, m)
  <2>1. SameBut(a, b, 0, 0)
    BY <1>1, BeginsIsSame
  <2>2. PICK at \in Nat : at = DescriptorAt(m)
    BY DescriptorIsAt, Zenon
  <2>3. 0 + 0 <= at /\ 0 + 0 <= behind
    OBVIOUS
  <2>4. 0 + 0 <= DescriptorAt(m) /\ 0 + 0 <= Behind(j) /\ Behind(j) <= Len(a)
    BY <1>2, <1>3, <2>2, <2>3
  <2>5. QED
    BY <1>1, <2>1, <2>4, PartStays
<1>8. QED
  BY <1>2, <1>5, <1>6, <1>7, Zenon DEF HoldsAll

-----------------------------------------------------------------------------
(* What is read back from a header, a descriptor, and the bytes they point *)
(* to.                                                                     *)

\* What the bytes of a descriptor, read at its place, tell.
DescriptorTells(j, m, data, at, place) ==
  LET p == j.parts[m]
  IN  /\ Get(data, at + 12, 4) = p.image.code /\ Get(data, at + 16, 4) = p.image.bss
      /\ Get(data, at + 24, 4) = Len(p.payload) /\ Get(data, at + 40, 4) = place
      /\ Get(data, at + 44, 4) = IF p.overlap THEN Allocation(j.parts, m) - Align4(Len(p.payload)) ELSE 0
      /\ FlagsAre(j, Get(data, at + 7, 1), p.attr = "chip", TRUE, p.overlap)

LEMMA DescriptorIsRead ==
  ASSUME PackedFileAssumption, NEW j \in Jobs, NEW m \in 1 .. Len(j.parts), NEW place \in LongValues,
         NEW data, NEW at, HasFields(data, at, Descriptor(j, m, place))
  PROVE  DescriptorTells(j, m, data, at, place)
<1> DEFINE p == j.parts[m]
           fields == Descriptor(j, m, place)
           load == IF p.overlap THEN Allocation(j.parts, m) - Align4(Len(p.payload)) ELSE 0
<1>1. /\ <<12, 4, p.image.code>> \in fields /\ <<16, 4, p.image.bss>> \in fields
      /\ <<24, 4, Len(p.payload)>> \in fields /\ <<40, 4, place>> \in fields /\ <<44, 4, load>> \in fields
  BY Zenon DEF Descriptor
<1>2. PICK flags \in Byte : /\ <<7, 1, flags>> \in fields
                            /\ FlagsAre(j, flags, p.attr = "chip", TRUE, p.overlap)
  BY DescriptorFields, Zenon
<1> HIDE DEF fields, load, p
<1>3. HasFields(data, at, fields)
  BY Zenon DEF fields
<1>a. \A o, w, v : <<o, w, v>> \in fields => Get(data, at + o, w) = v
  BY <1>3, TripleReads
<1>4. /\ Get(data, at + 12, 4) = p.image.code /\ Get(data, at + 16, 4) = p.image.bss
      /\ Get(data, at + 24, 4) = Len(p.payload) /\ Get(data, at + 40, 4) = place /\ Get(data, at + 44, 4) = load
      /\ Get(data, at + 7, 1) = flags
  BY <1>1, <1>2, <1>a
<1>5. QED
  BY <1>2, <1>4, Zenon DEF DescriptorTells, p, load

HeaderTells(j, data, at) ==
  LET p == j.parts[1]
  IN  /\ Get(data, at + 0, 4) = MAGIC /\ Get(data, at + 6, 1) = j.backend /\ Get(data, at + 8, 2) = HEADER_SIZE
      /\ Get(data, at + 12, 4) = p.image.code /\ Get(data, at + 16, 4) = p.image.bss
      /\ Get(data, at + 20, 4) = IF HasRelocs(p.image) THEN p.image.stream ELSE 0
      /\ Get(data, at + 24, 4) = Len(p.payload)
      /\ Get(data, at + 28, 4) = IF p.overlap THEN p.margin ELSE 0
      /\ Get(data, at + 32, 4) = Len(Trampoline)
      /\ FlagsAre(j, Get(data, at + 7, 1), p.attr = "chip", HasRelocs(p.image), p.overlap)

LEMMA HeaderIsRead ==
  ASSUME PackedFileAssumption, NEW j \in Jobs, ~j.grouped, NEW data, NEW at, HasFields(data, at, HeaderFields(j))
  PROVE  HeaderTells(j, data, at)
<1> DEFINE p == j.parts[1]
           fields == HeaderFields(j)
           stream == IF HasRelocs(p.image) THEN p.image.stream ELSE 0
           margin == IF p.overlap THEN p.margin ELSE 0
<1>1. /\ <<0, 4, MAGIC>> \in fields /\ <<6, 1, j.backend>> \in fields /\ <<8, 2, HEADER_SIZE>> \in fields
      /\ <<12, 4, p.image.code>> \in fields /\ <<16, 4, p.image.bss>> \in fields /\ <<20, 4, stream>> \in fields
      /\ <<24, 4, Len(p.payload)>> \in fields /\ <<28, 4, margin>> \in fields /\ <<32, 4, Len(Trampoline)>> \in fields
  BY Zenon DEF HeaderFields
<1>2. PICK flags \in Byte : /\ <<7, 1, flags>> \in fields
                            /\ FlagsAre(j, flags, p.attr = "chip", HasRelocs(p.image), p.overlap)
  BY SingleFields, Zenon
<1> HIDE DEF fields, stream, margin, p
<1>3. HasFields(data, at, fields)
  BY Zenon DEF fields
<1>a. \A o, w, v : <<o, w, v>> \in fields => Get(data, at + o, w) = v
  BY <1>3, TripleReads
<1>4. /\ Get(data, at + 0, 4) = MAGIC /\ Get(data, at + 6, 1) = j.backend /\ Get(data, at + 8, 2) = HEADER_SIZE
      /\ Get(data, at + 12, 4) = p.image.code /\ Get(data, at + 16, 4) = p.image.bss
      /\ Get(data, at + 20, 4) = stream /\ Get(data, at + 24, 4) = Len(p.payload) /\ Get(data, at + 28, 4) = margin
      /\ Get(data, at + 32, 4) = Len(Trampoline) /\ Get(data, at + 7, 1) = flags
  BY <1>1, <1>2, <1>a
<1>5. QED
  BY <1>2, <1>4, Zenon DEF HeaderTells, p, stream, margin

MixedHeaderTells(j, data, at) ==
  /\ Get(data, at + 0, 4) = MAGIC /\ Get(data, at + 4, 1) = 1 /\ Get(data, at + 6, 1) = j.backend
  /\ Get(data, at + 24, 4) = TotalOf(j.parts, LAMBDA p : Len(p.payload))
  /\ Get(data, at + 36, 4) = Len(j.parts)
  /\ Get(data, at + 40, 4) = Decoder(j) + StubOf(j).depack

LEMMA MixedHeaderIsRead ==
  ASSUME PackedFileAssumption, NEW j \in Jobs, NEW data, NEW at, HasFields(data, at, MixedHeader(j))
  PROVE  MixedHeaderTells(j, data, at)
<1> DEFINE fields == MixedHeader(j)
           packed == TotalOf(j.parts, LAMBDA p : Len(p.payload))
           depack == Decoder(j) + StubOf(j).depack
<1>1. /\ <<0, 4, MAGIC>> \in fields /\ <<4, 1, 1>> \in fields /\ <<6, 1, j.backend>> \in fields
      /\ <<24, 4, packed>> \in fields /\ <<36, 4, Len(j.parts)>> \in fields /\ <<40, 4, depack>> \in fields
  BY Zenon DEF MixedHeader, Decoder, Count
<1> HIDE DEF fields, packed, depack
<1>2. HasFields(data, at, fields)
  BY Zenon DEF fields
<1>a. \A o, w, v : <<o, w, v>> \in fields => Get(data, at + o, w) = v
  BY <1>2, TripleReads
<1>3. /\ Get(data, at + 0, 4) = MAGIC /\ Get(data, at + 4, 1) = 1 /\ Get(data, at + 6, 1) = j.backend
      /\ Get(data, at + 24, 4) = packed /\ Get(data, at + 36, 4) = Len(j.parts) /\ Get(data, at + 40, 4) = depack
  BY <1>1, <1>a
<1>4. QED
  BY <1>3, Zenon DEF MixedHeaderTells, packed, depack

LEMMA PayloadIsFound ==
  ASSUME NEW payload \in Seq(Byte), NEW data \in Seq(Byte), NEW at \in Nat,
         Same(payload, 0, data, at, Len(payload)), at + Len(payload) <= Len(data)
  PROVE  SubSeq(data, at + 1, at + Len(payload)) = payload
<1>1. PICK len \in Nat, all \in Nat : len = Len(payload) /\ all = Len(data)
  OBVIOUS
<1>2. \A k \in 1 .. len : data[at + k] = payload[k]
  <2>1. \A k \in 1 .. len : data[at + k] = payload[0 + k]
    BY <1>1 DEF Same
  <2>2. QED
    BY <2>1
<1>3. at + len <= all
  BY <1>1
<1>4. SubSeq(data, at + 1, at + len) = [k \in 1 .. len |-> data[at + k]]
  BY <1>1, <1>3
<1>5. payload = [k \in 1 .. len |-> payload[k]]
  BY <1>1
<1>6. QED
  BY <1>1, <1>2, <1>4, <1>5

LEMMA BodyIs ==
  ASSUME PackedFileAssumption, NEW j \in Jobs, NEW m \in 1 .. Len(j.parts)
  PROVE  /\ Body(j, m) \in Seq(Byte) /\ PadTo4(Body(j, m)) \in Seq(Byte)
         /\ j.parts[m].overlap =>
              SubSeq(PadTo4(Body(j, m)), Len(PrefixOf(m)) + 1, Len(PrefixOf(m)) + Len(j.parts[m].payload))
                = j.parts[m].payload
<1>1. PICK prefix \in Seq(Byte) : prefix = PrefixOf(m)
  BY PrefixIsBytes
<1>2. PICK payload \in Seq(Byte) : payload = j.parts[m].payload
  BY PartIs, Zenon
<1>3. CASE ~j.parts[m].overlap
  <2>1. Body(j, m) = prefix
    BY <1>1, <1>3, Zenon DEF Body
  <2>2. QED
    BY <1>3, <2>1, PadIs
<1>4. CASE j.parts[m].overlap
  <2>1. PICK body \in Seq(Byte) :
          /\ body = prefix \o payload /\ Len(body) = Len(prefix) + Len(payload)
          /\ \A k \in 1 .. Len(payload) : body[Len(prefix) + k] = payload[k]
    BY BeginsJoin
  <2>2. Body(j, m) = body
    BY <1>1, <1>2, <1>4, <2>1, Zenon DEF Body
  <2>3. PICK padded \in Seq(Byte) :
          padded = PadTo4(body) /\ Len(body) <= Len(padded) /\ \A k \in 1 .. Len(body) : padded[k] = body[k]
    BY PadIs
  <2>4. PICK p \in Nat, len \in Nat : p = Len(prefix) /\ len = Len(payload)
    OBVIOUS
  <2>5. \A k \in 1 .. len : padded[p + k] = payload[k]
    <3>1. Len(body) = p + len
      BY <2>1, <2>4
    <3>2. \A k \in 1 .. len : p + k \in 1 .. p + len
      OBVIOUS
    <3>3. \A k \in 1 .. len : padded[p + k] = body[p + k]
      BY <2>3, <3>1, <3>2, Zenon
    <3>4. \A k \in 1 .. len : body[p + k] = payload[k]
      BY <2>1, <2>4, Zenon
    <3>5. QED
      BY <3>3, <3>4, Zenon
  <2>6. Same(payload, 0, padded, p, len)
    <3>1. \A k \in 1 .. len : 0 + k = k
      OBVIOUS
    <3>2. QED
      BY <2>5, <3>1, Zenon DEF Same
  <2>7. p + len <= Len(padded)
    BY <2>1, <2>3, <2>4
  <2>8. SubSeq(padded, p + 1, p + len) = payload
    BY <2>4, <2>6, <2>7, PayloadIsFound, Zenon
  <2>9. QED
    BY <1>1, <1>2, <2>2, <2>3, <2>4, <2>8, Zenon
<1>5. QED
  BY <1>3, <1>4

-----------------------------------------------------------------------------
(* A file of one image: what is written, and what its stub finds.          *)

SingleSize(j) ==
  LET p == j.parts[1]
  IN  IF p.overlap THEN OverlapAllocatedSize(Len(Trampoline), Len(p.payload), p.margin, Hunk0Size(p.image))
                   ELSE Hunk0Size(p.image)

\* The container of a single image.
HoldsSingle(j, data) ==
  LET base == Len(StubOf(j).bytes)
      p    == j.parts[1]
  IN  /\ data \in Seq(Byte) /\ base + 36 <= Len(data) /\ Begins(StubOf(j).bytes, data)
      /\ HasFields(data, base, HeaderFields(j)) /\ Get(data, base + 4, 1) = 0
      /\ ~p.overlap => /\ Same(p.payload, 0, data, base + 36, Len(p.payload))
                       /\ base + 36 + Len(p.payload) <= Len(data)

IsSingle(j, file) ==
  /\ Len(file) = 2
  /\ file[1] = FileHunk(j.parts[1].attr, SingleSize(j), Body(j, 1))
  /\ HoldsSingle(j, file[2].data)

IsGrouped(j, file) ==
  /\ Len(file) = Count(j) + 1
  /\ HoldsAll(j, file[2].data)
  /\ \A m \in 1 .. Count(j) :
       ResidentHunk(file, m) = FileHunk(j.parts[m].attr, Allocation(j.parts, m), Body(j, m))

LEMMA FirstPartIs ==
  ASSUME PackedFileAssumption, NEW j \in Jobs
  PROVE  1 \in 1 .. Len(j.parts) /\ 1 \in Nat /\ PrefixOf(1) = Trampoline
<1>1. PICK count \in 1 .. 3 : count = Len(j.parts)
  BY JobIs, Zenon
<1>2. 1 \in 1 .. count
  OBVIOUS
<1>3. PrefixOf(1) = Trampoline
  BY DEF PrefixOf
<1>4. QED
  BY <1>1, <1>2, <1>3

LEMMA HeaderIsPutInZeros ==
  ASSUME PackedFileAssumption, NEW j \in Jobs, ~j.grouped
  PROVE  /\ ContainerHeader(j) \in Seq(Byte) /\ Len(ContainerHeader(j)) = 36
         /\ HasFields(ContainerHeader(j), 0, HeaderFields(j)) /\ ContainerHeader(j)[5] = 0
<1>1. AreFields(HeaderFields(j), 36)
  BY SingleFields, Zenon
<1>2. PICK zeros \in Seq(Byte) : zeros = Zeros(36) /\ Len(zeros) = 36 /\ \A k \in 1 .. 36 : zeros[k] = 0
  BY ZerosAre
<1>3. ContainerHeader(j) = PutAll(zeros, 0, HeaderFields(j))
  BY <1>2, Zenon DEF ContainerHeader, HEADER_SIZE
<1>4. 0 + 36 <= Len(zeros)
  BY <1>2
<1>8. 0 \in Nat /\ 36 \in Nat
  OBVIOUS
<1>5. /\ PutAll(zeros, 0, HeaderFields(j)) \in Seq(Byte)
      /\ Len(PutAll(zeros, 0, HeaderFields(j))) = Len(zeros)
      /\ HasFields(PutAll(zeros, 0, HeaderFields(j)), 0, HeaderFields(j))
  BY <1>1, <1>4, <1>8, PutReads
<1>6. PutAll(zeros, 0, HeaderFields(j))[5] = 0
  <2>1. ASSUME NEW f \in HeaderFields(j)
        PROVE  ~(5 - 0 - f[1] \in 1 .. f[2])
    BY <2>1 DEF HeaderFields
  <2>2. 5 \in 1 .. Len(zeros)
    BY <1>2
  <2>3. PutAll(zeros, 0, HeaderFields(j))[5] = zeros[5]
    <3>1. /\ DOMAIN PutAll(zeros, 0, HeaderFields(j)) = 1 .. Len(zeros)
          /\ \A f \in HeaderFields(j) : \A k \in 1 .. Len(zeros) : k - 0 - f[1] \in 1 .. f[2] =>
               PutAll(zeros, 0, HeaderFields(j))[k] = ByteOf(f[3], 0 + f[1] + f[2] - k)
          /\ \A k \in 1 .. Len(zeros) :
               (\A f \in HeaderFields(j) : ~(k - 0 - f[1] \in 1 .. f[2]))
                 => PutAll(zeros, 0, HeaderFields(j))[k] = zeros[k]
      BY <1>1, <1>4, <1>8, PutIs, Zenon
    <3>2. QED
      BY <2>1, <2>2, <3>1, Zenon
  <2>4. QED
    BY <1>2, <2>3
<1>7. QED
  BY <1>2, <1>3, <1>5, <1>6, Zenon

LEMMA SingleIsWritten ==
  ASSUME PackedFileAssumption, NEW j \in Jobs, ~j.grouped
  PROVE  IsSingle(j, SingleFile(j))
<1> DEFINE p == j.parts[1]
           rest == IF p.overlap THEN <<>> ELSE p.payload
<1>1. PICK stub \in Seq(Byte) : stub = StubOf(j).bytes
  BY JobIs, Zenon
<1>2. PICK header \in Seq(Byte) :
        /\ header = ContainerHeader(j) /\ Len(header) = 36 /\ HasFields(header, 0, HeaderFields(j)) /\ header[5] = 0
  BY HeaderIsPutInZeros, Zenon
<1>3. PICK payload \in Seq(Byte) : payload = p.payload
  BY FirstPartIs, PartIs, Zenon
<1>4. rest \in Seq(Byte)
  BY <1>3
<1> HIDE DEF rest, p
<1>5. PICK front \in Seq(Byte) :
        /\ front = stub \o header /\ Len(front) = Len(stub) + 36 /\ Begins(stub, front)
        /\ \A k \in 1 .. 36 : front[Len(stub) + k] = header[k]
  <2>1. /\ stub \o header \in Seq(Byte) /\ Len(stub \o header) = Len(stub) + Len(header) /\ Begins(stub, stub \o header)
        /\ \A k \in 1 .. Len(header) : (stub \o header)[Len(stub) + k] = header[k]
    BY BeginsJoin
  <2>2. QED
    BY <1>2, <2>1, Zenon
<1>6. PICK whole \in Seq(Byte) :
        /\ whole = front \o rest /\ Len(whole) = Len(front) + Len(rest) /\ Begins(front, whole)
        /\ \A k \in 1 .. Len(rest) : whole[Len(front) + k] = rest[k]
  BY <1>4, BeginsJoin
<1>7. Container(j) = whole
  BY <1>1, <1>2, <1>5, <1>6, Zenon DEF Container, rest, p
<1>8. PICK data \in Seq(Byte) :
        data = PadTo4(whole) /\ Len(whole) <= Len(data) /\ \A k \in 1 .. Len(whole) : data[k] = whole[k]
  BY PadIs
<1>9. PICK base \in Nat, size \in Nat, all \in Nat :
        base = Len(stub) /\ size = Len(rest) /\ all = Len(data)
  <2>1. Len(stub) \in Nat /\ Len(rest) \in Nat /\ Len(data) \in Nat
    BY <1>4
  <2>2. QED
    BY <2>1, Zenon
<1>10. Len(whole) = base + 36 + size /\ base + 36 + size <= all /\ base + 36 <= all /\ base <= all
  <2>1. Len(whole) = base + 36 + size
    BY <1>5, <1>6, <1>9, Zenon
  <2>2. base + 36 + size <= all
    BY <1>8, <1>9, <2>1, Zenon
  <2>3. base + 36 <= all /\ base <= all
    BY <2>2
  <2>4. QED
    BY <2>1, <2>2, <2>3
<1>11. \A k \in 1 .. base + 36 : data[k] = front[k]
  <2>1. \A k \in 1 .. base + 36 : whole[k] = front[k]
    BY <1>5, <1>6, <1>9, Zenon DEF Begins
  <2>2. \A k \in 1 .. base + 36 : k \in 1 .. base + 36 + size
    OBVIOUS
  <2>3. \A k \in 1 .. base + 36 : data[k] = whole[k]
    BY <1>8, <1>10, <2>2, Zenon
  <2>4. QED
    BY <2>1, <2>3, Zenon
<1>12. Begins(stub, data)
  <2>1. \A k \in 1 .. base : k \in 1 .. base + 36
    OBVIOUS
  <2>2. \A k \in 1 .. base : front[k] = stub[k]
    BY <1>5, <1>9, Zenon DEF Begins
  <2>3. QED
    BY <1>9, <1>10, <1>11, <2>1, <2>2, Zenon DEF Begins
<1>13. \A k \in 1 .. 36 : data[base + k] = header[k]
  <2>1. \A k \in 1 .. 36 : base + k \in 1 .. base + 36
    OBVIOUS
  <2>2. QED
    BY <1>5, <1>9, <1>11, <2>1, Zenon
<1>14. HasFields(data, base, HeaderFields(j))
  <2>1. Same(header, 0, data, base, 36)
    <3>1. \A k \in 1 .. 36 : 0 + k = k
      OBVIOUS
    <3>2. QED
      BY <1>13, <3>1, Zenon DEF Same
  <2>2. AreFields(HeaderFields(j), 36)
    BY SingleFields, Zenon
  <2>3. QED
    BY <1>2, <2>1, <2>2, FieldsMove
<1>15. Get(data, base + 4, 1) = 0
  <2>3. 5 \in 1 .. 36 /\ base + 4 + 1 = base + 5
    OBVIOUS
  <2>1. data[base + 5] = 0 /\ base + 4 + 1 = base + 5
    BY <1>2, <1>13, <2>3, Zenon
  <2>2. QED
    BY <2>1 DEF Get
<1>16. ASSUME ~p.overlap
       PROVE  Same(payload, 0, data, base + 36, size) /\ size = Len(payload)
  <2>1. rest = payload
    BY <1>3, <1>16, Zenon DEF rest
  <2>2. \A k \in 1 .. size : whole[base + 36 + k] = payload[k]
    BY <1>5, <1>6, <1>9, <2>1, Zenon
  <2>3. \A k \in 1 .. size : base + 36 + k \in 1 .. base + 36 + size
    OBVIOUS
  <2>4. \A k \in 1 .. size : data[base + 36 + k] = payload[k]
    BY <1>8, <1>10, <2>2, <2>3, Zenon
  <2>5. \A k \in 1 .. size : 0 + k = k
    OBVIOUS
  <2>6. QED
    BY <1>9, <2>1, <2>4, <2>5, Zenon DEF Same
<1>17. HoldsSingle(j, data)
  BY <1>1, <1>3, <1>9, <1>10, <1>12, <1>14, <1>15, <1>16, Zenon DEF HoldsSingle, p
<1>18. /\ Len(SingleFile(j)) = 2
       /\ SingleFile(j)[1] = FileHunk(p.attr, SingleSize(j), Body(j, 1))
       /\ SingleFile(j)[2].data = data
  <2>1. /\ Len(SingleFile(j)) = 2
        /\ SingleFile(j)[1] = IF p.overlap
                  THEN FileHunk(p.attr, OverlapAllocatedSize(Len(Trampoline), Len(p.payload), p.margin,
                                                             Hunk0Size(p.image)),
                                Trampoline \o p.payload)
                  ELSE FileHunk(p.attr, Hunk0Size(p.image), Trampoline)
        /\ SingleFile(j)[2] = FileHunk("any", Align4(Len(Container(j))), Container(j))
    BY DEF SingleFile, p
  <2>2. Body(j, 1) = IF p.overlap THEN Trampoline \o p.payload ELSE Trampoline
    BY FirstPartIs, Zenon DEF Body, p
  <2>3. SingleFile(j)[2].data = PadTo4(Container(j))
    BY <2>1 DEF FileHunk
  <2>4. CASE p.overlap
    BY <1>7, <1>8, <2>1, <2>2, <2>3, <2>4, Zenon DEF SingleSize, p
  <2>5. CASE ~p.overlap
    BY <1>7, <1>8, <2>1, <2>2, <2>3, <2>5, Zenon DEF SingleSize, p
  <2>6. QED
    BY <2>4, <2>5
<1>19. QED
  BY <1>17, <1>18, Zenon DEF IsSingle, p

\* What Start of a single image computes.
SingleRegion(j, file) ==
  LET data    == file[2].data
      base    == Len(StubOf(j).bytes)
      overlap == HasFlag(Get(data, base + 7, 1), FLAG_OVERLAP)
  IN  [fields  |-> Fields(data, base),
       payload |-> IF overlap
                   THEN Payload(file[1], Get(data, base + 32, 4), data, base)
                   ELSE Payload(file[2], base + Get(data, base + 8, 2), data, base),
       at      |-> IF overlap THEN OverlapPayloadOffset(RuntimeHeader(data, base))
                   ELSE base + Get(data, base + 8, 2)]

LEMMA FieldsAre ==
  ASSUME NEW data, NEW base
  PROVE  /\ Fields(data, base).code = Get(data, base + 12, 4) /\ Fields(data, base).bss = Get(data, base + 16, 4)
         /\ Fields(data, base).flags = Get(data, base + 7, 1)
BY DEF Fields

LEMMA SingleIsFound ==
  ASSUME PackedFileAssumption, NEW j \in Jobs, ~j.grouped, NEW file, IsSingle(j, file)
  PROVE  FindsPart(j, file, 1, SingleRegion(j, file))
<1> DEFINE p == j.parts[1]
           data == file[2].data
           base == Len(StubOf(j).bytes)
           region == SingleRegion(j, file)
           overlap == HasFlag(Get(data, base + 7, 1), FLAG_OVERLAP)
           inPlace == Payload(file[1], Get(data, base + 32, 4), data, base)
           apart == Payload(file[2], base + Get(data, base + 8, 2), data, base)
           offset == OverlapPayloadOffset(RuntimeHeader(data, base))
<1>1. /\ data \in Seq(Byte) /\ HasFields(data, base, HeaderFields(j))
      /\ ~p.overlap => Same(p.payload, 0, data, base + 36, Len(p.payload)) /\ base + 36 + Len(p.payload) <= Len(data)
      /\ file[1] = FileHunk(p.attr, SingleSize(j), Body(j, 1))
  BY Zenon DEF IsSingle, HoldsSingle
<1>a. /\ FileHunk(p.attr, SingleSize(j), Body(j, 1)).size = SingleSize(j)
      /\ FileHunk(p.attr, SingleSize(j), Body(j, 1)).data = PadTo4(Body(j, 1))
  BY DEF FileHunk
<1>2. HeaderTells(j, data, base)
  BY <1>1, HeaderIsRead, Zenon
<1>3. /\ p.image \in Images /\ p.payload \in Seq(Byte) /\ Len(p.payload) \in Nat /\ p.margin \in Nat
      /\ p.overlap \in BOOLEAN
  <2>1. Len(p.payload) \in Nat
    BY FirstPartIs, PartIs
  <2>2. QED
    BY <2>1, FirstPartIs, PartIs, Zenon
<1>4. base \in Nat /\ base % 2 = 0
  BY ScratchSizes, Zenon
<1>5. /\ region.fields = Fields(data, base) /\ region.payload = IF overlap THEN inPlace ELSE apart
      /\ region.at = IF overlap THEN offset ELSE base + Get(data, base + 8, 2)
  BY DEF SingleRegion
<1> HIDE DEF region, overlap, inPlace, apart, offset
<1>6. /\ region.fields.code = p.image.code /\ region.fields.bss = p.image.bss
      /\ FlagsAre(j, region.fields.flags, p.attr = "chip", HasRelocs(p.image), p.overlap)
      /\ overlap <=> p.overlap
  <2>1. /\ region.fields.code = Get(data, base + 12, 4) /\ region.fields.bss = Get(data, base + 16, 4)
        /\ region.fields.flags = Get(data, base + 7, 1)
    <3>1. /\ Fields(data, base).code = Get(data, base + 12, 4) /\ Fields(data, base).bss = Get(data, base + 16, 4)
          /\ Fields(data, base).flags = Get(data, base + 7, 1)
      BY FieldsAre
    <3>2. QED
      BY <1>5, <3>1, Zenon
  <2>2. /\ Get(data, base + 12, 4) = p.image.code /\ Get(data, base + 16, 4) = p.image.bss
        /\ FlagsAre(j, Get(data, base + 7, 1), p.attr = "chip", HasRelocs(p.image), p.overlap)
    BY <1>2, Zenon DEF HeaderTells
  <2>3. overlap <=> p.overlap
    BY <2>2, Zenon DEF FlagsAre, overlap
  <2>4. QED
    BY <2>1, <2>2, <2>3, Zenon
<1>7. /\ Get(data, base + 32, 4) = Len(Trampoline) /\ Get(data, base + 24, 4) = Len(p.payload)
      /\ Get(data, base + 8, 2) = HEADER_SIZE
  BY <1>2, Zenon DEF HeaderTells
<1>8. CASE p.overlap
  <2>1. region.payload = p.payload
    <3>1. inPlace = SubSeq(file[1].data, Len(PrefixOf(1)) + 1, Len(PrefixOf(1)) + Len(p.payload))
      BY <1>7, FirstPartIs, Zenon DEF Payload, inPlace
    <3>2. file[1].data = PadTo4(Body(j, 1))
      BY <1>1, <1>a, Zenon
    <3>3. SubSeq(PadTo4(Body(j, 1)), Len(PrefixOf(1)) + 1, Len(PrefixOf(1)) + Len(p.payload)) = p.payload
      BY <1>8, BodyIs, FirstPartIs, Zenon
    <3>4. QED
      BY <1>5, <1>6, <1>8, <3>1, <3>2, <3>3, Zenon
  <2>2. RuntimeHeader(data, base) = Header(p.image, Len(p.payload), p.margin)
    <3>1. TrampolineSize = Len(Trampoline)
      BY JobIs, Zenon
    <3>2. /\ Get(data, base + 12, 4) = p.image.code /\ Get(data, base + 16, 4) = p.image.bss
          /\ Get(data, base + 20, 4) = IF HasRelocs(p.image) THEN p.image.stream ELSE 0
          /\ Get(data, base + 28, 4) = p.margin
      BY <1>2, <1>8, Zenon DEF HeaderTells
    <3>3. QED
      BY <1>7, <3>1, <3>2, Zenon DEF RuntimeHeader, Header
  <2>3. PICK size \in Nat, margin \in Nat : size = Len(p.payload) /\ margin = p.margin
    BY <1>3, Zenon
  <2>4. /\ OverlapPayloadOffset(Header(p.image, size, margin)) \in Nat
        /\ OverlapPayloadOffset(Header(p.image, size, margin)) % 4 = 0
        /\ TrampolineSize <= OverlapPayloadOffset(Header(p.image, size, margin))
        /\ margin <= OverlapPayloadOffset(Header(p.image, size, margin))
        /\ OverlapPayloadOffset(Header(p.image, size, margin)) + Align4(size)
             <= OverlapAllocatedSize(TrampolineSize, size, margin, Hunk0Size(p.image))
    BY <1>3, LayoutAssumption, PayloadOffsetIsSafe
  <2>5. PICK at \in Nat : at = OverlapPayloadOffset(Header(p.image, size, margin))
    BY <2>4, Zenon
  <2>6. region.at = at
    BY <1>5, <1>6, <1>8, <2>2, <2>3, <2>5, Zenon DEF offset
  <2>7. at % 2 = 0
    BY <2>4, <2>5
  <2>8. Len(PrefixOf(1)) = TrampolineSize
    BY FirstPartIs, JobIs, Zenon
  <2>9. file[1].size = OverlapAllocatedSize(TrampolineSize, size, margin, Hunk0Size(p.image))
    <3>1. file[1].size = SingleSize(j)
      BY <1>1, <1>a, Zenon
    <3>2. QED
      BY <1>8, <2>3, <2>8, <3>1, FirstPartIs, Zenon DEF SingleSize
  <2>10. ResidentHunk(file, 1) = file[1]
    BY DEF ResidentHunk
  <2>11. /\ Len(PrefixOf(1)) <= region.at /\ p.margin <= region.at
         /\ region.at + Align4(Len(p.payload)) <= ResidentHunk(file, 1).size
    BY <2>3, <2>4, <2>5, <2>6, <2>8, <2>9, <2>10, Zenon
  <2>12. HasFlag(region.fields.flags, FLAG_HAS_RELOCS) <=> j.grouped \/ HasRelocs(p.image)
    BY <1>6, Zenon DEF FlagsAre
  <2>13. HasFlag(region.fields.flags, FLAG_KILLTWITCH) <=> j.flash /\ j.killtwitch
    BY <1>6, Zenon DEF FlagsAre
  <2>14. QED
    BY <1>6, <2>1, <2>6, <2>7, <2>11, <2>12, <2>13, Zenon DEF FindsPart, p, region
<1>9. CASE ~p.overlap
  <2>1. PICK at \in Nat : at = base + 36
    BY <1>4
  <2>2. base + Get(data, base + 8, 2) = at
    BY <1>7, <2>1, Zenon DEF HEADER_SIZE
  <2>3. apart = p.payload
    <3>1. Same(p.payload, 0, data, at, Len(p.payload)) /\ at + Len(p.payload) <= Len(data)
      BY <1>1, <1>9, <2>1, Zenon
    <3>2. SubSeq(data, at + 1, at + Len(p.payload)) = p.payload
      BY <1>1, <1>3, <3>1, PayloadIsFound
    <3>3. QED
      BY <1>7, <2>2, <3>2, Zenon DEF Payload, apart
  <2>4. region.payload = p.payload /\ region.at = at
    BY <1>5, <1>6, <1>9, <2>2, <2>3, Zenon
  <2>5. at % 2 = 0
    <3>1. PICK b \in Nat : b = base /\ b % 2 = 0
      BY <1>4, Zenon
    <3>2. at = b + 36
      BY <2>1, <3>1, Zenon
    <3>3. \A k \in Nat : k % 2 = 0 => (k + 36) % 2 = 0
      OBVIOUS
    <3>4. QED
      BY <3>1, <3>2, <3>3, Zenon
  <2>6. HasFlag(region.fields.flags, FLAG_HAS_RELOCS) <=> j.grouped \/ HasRelocs(p.image)
    BY <1>6, Zenon DEF FlagsAre
  <2>7. HasFlag(region.fields.flags, FLAG_KILLTWITCH) <=> j.flash /\ j.killtwitch
    BY <1>6, Zenon DEF FlagsAre
  <2>8. QED
    BY <1>6, <1>9, <2>4, <2>5, <2>6, <2>7, Zenon DEF FindsPart, p, region
<1>10. QED
  BY <1>3, <1>8, <1>9, Zenon

-----------------------------------------------------------------------------
(* A file of several: what its dispatcher finds.                           *)

\* What the dispatcher of several images computes for one of them.
GroupedRegion(file, m) ==
  LET data    == file[2].data
      desc    == Len(MixedStub) + 44 + 52 * (m - 1)
      place   == Get(data, desc + 40, 4)
      overlap == HasFlag(Get(data, desc + 7, 1), FLAG_OVERLAP)
  IN  [fields  |-> Fields(data, desc),
       payload |-> Payload(IF overlap THEN ResidentHunk(file, m) ELSE file[2], place, data, desc),
       at      |-> IF overlap THEN Get(data, desc + 44, 4) ELSE place]

LEMMA FourIsEven == \A k \in Nat : k % 4 = 0 => k % 2 = 0
OBVIOUS

LEMMA GroupedIsFound ==
  ASSUME PackedFileAssumption, NEW j \in Jobs, j.grouped, NEW file, IsGrouped(j, file), NEW m \in 1 .. Count(j)
  PROVE  FindsPart(j, file, m, GroupedRegion(file, m))
<1> DEFINE p == j.parts[m]
           data == file[2].data
           desc == Len(MixedStub) + 44 + 52 * (m - 1)
           region == GroupedRegion(file, m)
           read == Get(data, desc + 40, 4)
           load == Get(data, desc + 44, 4)
           overlap == HasFlag(Get(data, desc + 7, 1), FLAG_OVERLAP)
           hunk == IF overlap THEN ResidentHunk(file, m) ELSE file[2]
           prefix == Len(PrefixOf(m))
<1>1. m \in 1 .. Len(j.parts) /\ m \in Nat /\ desc = DescriptorAt(m) /\ desc \in Nat
  <2>1. DescriptorAt(m) = desc /\ DescriptorAt(m) \in Nat
    BY DescriptorIsAt, Zenon
  <2>2. m \in 1 .. Len(j.parts)
    BY Zenon DEF Count
  <2>3. QED
    BY <2>1, <2>2
<1>2. PICK place \in LongValues :
        /\ HasFields(data, desc, Descriptor(j, m, place))
        /\ IF p.overlap THEN place = prefix ELSE HoldsPayload(j, data, p.payload, place)
  BY <1>1, Zenon DEF IsGrouped, HoldsAll, HoldsPart
<1>3. DescriptorTells(j, m, data, desc, place)
  BY <1>1, <1>2, DescriptorIsRead, Zenon
<1>4. /\ region.fields = Fields(data, desc) /\ region.payload = Payload(hunk, read, data, desc)
      /\ region.at = IF overlap THEN load ELSE read
  BY DEF GroupedRegion
<1>5. ResidentHunk(file, m) = FileHunk(p.attr, Allocation(j.parts, m), Body(j, m)) /\ data \in Seq(Byte)
  BY Zenon DEF IsGrouped, HoldsAll, HoldsFrame
<1>6. /\ FileHunk(p.attr, Allocation(j.parts, m), Body(j, m)).size = Allocation(j.parts, m)
      /\ FileHunk(p.attr, Allocation(j.parts, m), Body(j, m)).data = PadTo4(Body(j, m))
  BY DEF FileHunk
<1>7. p.payload \in Seq(Byte) /\ Len(p.payload) \in Nat /\ p.overlap \in BOOLEAN /\ p.margin \in Nat
  <2>1. Len(p.payload) \in Nat
    BY <1>1, PartIs
  <2>2. QED
    BY <2>1, <1>1, PartIs, Zenon
<1> HIDE DEF region, read, load, overlap, hunk, desc, data, p, prefix
<1>8. /\ region.fields.code = p.image.code /\ region.fields.bss = p.image.bss
      /\ FlagsAre(j, region.fields.flags, p.attr = "chip", TRUE, p.overlap)
      /\ overlap <=> p.overlap
  <2>1. /\ Fields(data, desc).code = Get(data, desc + 12, 4) /\ Fields(data, desc).bss = Get(data, desc + 16, 4)
        /\ Fields(data, desc).flags = Get(data, desc + 7, 1)
    BY FieldsAre
  <2>2. /\ Get(data, desc + 12, 4) = p.image.code /\ Get(data, desc + 16, 4) = p.image.bss
        /\ FlagsAre(j, Get(data, desc + 7, 1), p.attr = "chip", TRUE, p.overlap)
    BY <1>3, Zenon DEF DescriptorTells, p
  <2>3. overlap <=> p.overlap
    BY <2>2, Zenon DEF FlagsAre, overlap
  <2>4. QED
    BY <1>4, <2>1, <2>2, <2>3, Zenon
<1>9. /\ read = place /\ Get(data, desc + 24, 4) = Len(p.payload)
      /\ load = IF p.overlap THEN Allocation(j.parts, m) - Align4(Len(p.payload)) ELSE 0
  BY <1>3, Zenon DEF DescriptorTells, p, read, load
<1>10. /\ HasFlag(region.fields.flags, FLAG_HAS_RELOCS) <=> j.grouped \/ HasRelocs(p.image)
       /\ HasFlag(region.fields.flags, FLAG_KILLTWITCH) <=> j.flash /\ j.killtwitch
  BY <1>8, Zenon DEF FlagsAre
<1>11. CASE p.overlap
  <2>1. region.payload = p.payload
    <3>1. hunk = FileHunk(p.attr, Allocation(j.parts, m), Body(j, m)) /\ read = prefix
      BY <1>2, <1>5, <1>8, <1>9, <1>11, Zenon DEF hunk
    <3>2. region.payload = SubSeq(PadTo4(Body(j, m)), prefix + 1, prefix + Len(p.payload))
      BY <1>4, <1>6, <1>9, <3>1, Zenon DEF Payload
    <3>3. SubSeq(PadTo4(Body(j, m)), prefix + 1, prefix + Len(p.payload)) = p.payload
      BY <1>1, <1>11, BodyIs, Zenon DEF p, prefix
    <3>4. QED
      BY <3>2, <3>3, Zenon
  <2>2. PICK all \in Nat, moved \in Nat, before \in Nat, margin \in Nat :
          /\ all = Allocation(j.parts, m) /\ moved = Align4(Len(p.payload)) /\ before = prefix /\ margin = p.margin
    <3>1. Align4(Len(p.payload)) \in Nat
      BY <1>7, Align4Rounds, Zenon
    <3>2. Allocation(j.parts, m) \in Nat
      BY <1>1, <1>11, AllocationCovers, Zenon DEF p
    <3>3. prefix \in Nat
      BY <1>1, PrefixIsBytes, Zenon DEF prefix
    <3>4. QED
      BY <1>7, <3>1, <3>2, <3>3, Zenon
  <2>3. all % 4 = 0 /\ before + moved <= all /\ margin + moved <= all
    BY <1>1, <1>11, <2>2, AllocationCovers, Zenon DEF p, prefix
  <2>4. moved % 4 = 0
    BY <1>7, <2>2, Align4Rounds, Zenon
  <2>5. PICK at \in Nat : at = all - moved
    BY <2>3
  <2>6. at % 2 = 0 /\ before <= at /\ margin <= at /\ at + moved <= all
    BY <2>3, <2>4, <2>5
  <2>7. region.at = at
    BY <1>4, <1>8, <1>9, <1>11, <2>2, <2>5, Zenon
  <2>8. ResidentHunk(file, m).size = all
    BY <1>5, <1>6, <2>2, Zenon
  <2>9. /\ prefix <= region.at /\ p.margin <= region.at
        /\ region.at + Align4(Len(p.payload)) <= ResidentHunk(file, m).size
    BY <2>2, <2>6, <2>7, <2>8, Zenon
  <2>10. QED
    BY <1>8, <1>10, <2>1, <2>6, <2>7, <2>9, Zenon DEF FindsPart, p, region, prefix
<1>12. CASE ~p.overlap
  <2>1. HoldsPayload(j, data, p.payload, place) /\ place \in Nat
    BY <1>2, <1>12, LongIs, Zenon
  <2>2. place % 4 = 0 /\ place + Len(p.payload) <= Len(data) /\ Same(p.payload, 0, data, place, Len(p.payload))
    BY <2>1, Zenon DEF HoldsPayload
  <2>3. SubSeq(data, place + 1, place + Len(p.payload)) = p.payload
    BY <1>5, <1>7, <2>1, <2>2, PayloadIsFound
  <2>4. region.payload = p.payload /\ region.at = place
    <3>1. hunk.data = data
      BY <1>8, <1>12, Zenon DEF hunk, data
    <3>2. region.payload = SubSeq(data, place + 1, place + Len(p.payload))
      BY <1>4, <1>9, <3>1, Zenon DEF Payload
    <3>3. QED
      BY <1>4, <1>8, <1>9, <1>12, <2>3, <3>2, Zenon
  <2>5. place % 2 = 0
    BY <2>1, <2>2, FourIsEven, Zenon
  <2>6. QED
    BY <1>8, <1>10, <1>12, <2>4, <2>5, Zenon DEF FindsPart, p, region
<1>13. QED
  BY <1>7, <1>11, <1>12, Zenon

LEMMA RestIs ==
  ASSUME NEW s \in Seq(Byte), NEW from \in 0 .. Len(s)
  PROVE  /\ SubSeq(s, from + 1, Len(s)) \in Seq(Byte) /\ Len(SubSeq(s, from + 1, Len(s))) = Len(s) - from
         /\ \A k \in 1 .. Len(s) - from : SubSeq(s, from + 1, Len(s))[k] = s[from + k]
<1>1. PICK len \in Nat : len = Len(s) /\ from \in 0 .. len
  OBVIOUS
<1>2. \A k \in 1 .. len - from : from + k \in 1 .. len
  BY <1>1
<1>3. \A k \in 1 .. len : s[k] \in Byte
  BY <1>1
<1>4. SubSeq(s, from + 1, len) = [k \in 1 .. len - from |-> s[from + k]]
  BY <1>1
<1>5. \A k \in 1 .. len - from : s[from + k] \in Byte
  BY <1>2, <1>3, Zenon
<1>6. len - from \in Nat
  BY <1>1
<1>7. [k \in 1 .. len - from |-> s[from + k]] \in Seq(Byte)
  BY <1>5, <1>6
<1>8. Len([k \in 1 .. len - from |-> s[from + k]]) = len - from
  BY <1>6
<1>9. QED
  BY <1>1, <1>4, <1>7, <1>8

\* The dispatcher calls the decoder from where its Depack begins.
LEMMA DepackIsFound ==
  ASSUME PackedFileAssumption, NEW j \in Jobs, NEW data, HoldsAll(j, data)
  PROVE  LET d == StubOf(j).depack
         IN  IsPrefix(SubSeq(StubOf(j).bytes, d + 1, Len(StubOf(j).bytes)),
                      SubSeq(data, Decoder(j) + d + 1, Len(data)))
<1>1. PICK stub \in Seq(Byte) : stub = StubOf(j).bytes
  BY JobIs, Zenon
<1>2. data \in Seq(Byte) /\ Same(stub, 0, data, Decoder(j), Len(stub)) /\ Behind(j) <= Len(data)
  BY <1>1, Zenon DEF HoldsAll, HoldsFrame
<1>3. PICK len \in Nat, all \in Nat, at \in Nat : len = Len(stub) /\ all = Len(data) /\ at = Decoder(j)
  <2>1. Len(stub) \in Nat /\ Len(data) \in Nat
    BY <1>2
  <2>2. QED
    BY <2>1, PlacesAre, Zenon
<1>4. at + len <= all
  BY <1>1, <1>2, <1>3, PlacesAre, Zenon
<1>5. PICK d \in 0 .. len : d = StubOf(j).depack
  BY <1>1, <1>3, JobIs, Zenon
<1>6. \A k \in 1 .. len : data[at + k] = stub[k]
  <2>1. \A k \in 1 .. len : 0 + k = k
    OBVIOUS
  <2>2. QED
    BY <1>2, <1>3, <2>1, Zenon DEF Same
<1>7. PICK a \in Seq(Byte) : a = SubSeq(stub, d + 1, len) /\ Len(a) = len - d /\ \A k \in 1 .. len - d : a[k] = stub[d + k]
  <2>1. /\ SubSeq(stub, d + 1, Len(stub)) \in Seq(Byte) /\ Len(SubSeq(stub, d + 1, Len(stub))) = Len(stub) - d
        /\ \A k \in 1 .. Len(stub) - d : SubSeq(stub, d + 1, Len(stub))[k] = stub[d + k]
    BY <1>3, RestIs
  <2>2. QED
    BY <1>3, <2>1, Zenon
<1>8. PICK b \in Seq(Byte) : /\ b = SubSeq(data, at + d + 1, all) /\ Len(b) = all - (at + d)
                             /\ \A k \in 1 .. all - (at + d) : b[k] = data[at + d + k]
  <2>1. PICK from \in 0 .. all : from = at + d
    BY <1>4
  <2>2. /\ SubSeq(data, from + 1, Len(data)) \in Seq(Byte) /\ Len(SubSeq(data, from + 1, Len(data))) = Len(data) - from
        /\ \A k \in 1 .. Len(data) - from : SubSeq(data, from + 1, Len(data))[k] = data[from + k]
    BY <1>2, <1>3, RestIs
  <2>3. QED
    BY <1>3, <2>1, <2>2, Zenon
<1>9. Begins(a, b)
  <2>1. len - d <= all - (at + d)
    BY <1>4
  <2>2. ASSUME NEW k \in 1 .. len - d
        PROVE  b[k] = a[k]
    <3>1. k \in 1 .. all - (at + d) /\ d + k \in 1 .. len /\ at + d + k = at + (d + k)
      BY <2>1
    <3>2. QED
      BY <1>6, <1>7, <1>8, <3>1
  <2>3. QED
    BY <1>7, <1>8, <2>1, <2>2 DEF Begins
<1>10. IsPrefix(a, b)
  BY <1>9, PrefixIs
<1>11. QED
  BY <1>1, <1>3, <1>5, <1>7, <1>8, <1>10, Zenon

-----------------------------------------------------------------------------
(* What execram info reports.                                              *)

\* The packed file behind its stub, for execram info.
LEMMA StubIsLocated ==
  ASSUME PackedFileAssumption, Len(file_hunks) >= 2, file_hunks[2].data \in Seq(Byte),
         NEW stub \in KnownStubs, Begins(stub, file_hunks[2].data)
  PROVE  /\ container_data = file_hunks[2].data /\ Matching = {stub} /\ HeaderOffset = Len(stub)
<1>1. container_data = file_hunks[2].data
  BY Zenon DEF container_data
<1>2. \A other \in KnownStubs : IsPrefix(other, file_hunks[2].data) <=> other = stub
  BY OneStubMatches
<1>3. Matching = {stub}
  BY <1>1, <1>2, Zenon DEF Matching
<1>4. (CHOOSE s \in {stub} : TRUE) = stub
  OBVIOUS
<1>5. HeaderOffset = Len(stub)
  BY <1>3, <1>4, Zenon DEF HeaderOffset
<1>6. QED
  BY <1>1, <1>3, <1>5

LEMMA NotEmpty == ASSUME NEW s, NEW number \in Nat \ {0}, Len(s) = number PROVE s # <<>>
<1>1. Len(<<>>) = 0 /\ number # 0
  OBVIOUS
<1>2. QED
  BY <1>1, Zenon

LEMMA SingleIsRecognized ==
  ASSUME PackedFileAssumption, job \in Jobs, ~job.grouped, IsSingle(job, file_hunks)
  PROVE  /\ container_data = file_hunks[2].data /\ HeaderOffset = Len(StubOf(job).bytes)
         /\ version_major # 1 /\ InfoError = "none"
<1> DEFINE base == Len(StubOf(job).bytes)
           data == file_hunks[2].data
<1>1. /\ Len(file_hunks) = 2 /\ data \in Seq(Byte) /\ base + 36 <= Len(data) /\ Begins(StubOf(job).bytes, data)
      /\ HasFields(data, base, HeaderFields(job)) /\ Get(data, base + 4, 1) = 0
  BY Zenon DEF IsSingle, HoldsSingle
<1>2. Len(file_hunks) >= 2 /\ ~(Len(file_hunks) > 2) /\ file_hunks # <<>>
  <2>1. 2 \in Nat \ {0} /\ 2 >= 2 /\ ~(2 > 2)
    OBVIOUS
  <2>2. QED
    BY <1>1, <2>1, NotEmpty, Zenon
<1>3. StubOf(job).bytes \in KnownStubs
  BY JobIs, Zenon
<1>4. container_data = data /\ Matching = {StubOf(job).bytes} /\ HeaderOffset = base
  BY <1>1, <1>2, <1>3, StubIsLocated
<1>5. HeaderTells(job, data, base)
  BY <1>1, HeaderIsRead
<1>6. base \in Nat /\ base + 0 = base
  BY ScratchSizes
<1>7. Get(data, base, 4) = MAGIC
  BY <1>5, <1>6, Zenon DEF HeaderTells
<1>8. version_major # 1
  <2>1. version_major = 0
    BY <1>1, <1>4, Zenon DEF version_major
  <2>2. QED
    BY <2>1
<1>9. ~(Len(container_data) < HeaderOffset + INFO_HEADER_SIZE)
  <2>1. PICK b \in Nat, len \in Nat : b = base /\ len = Len(data)
    BY <1>1, <1>6
  <2>2. ~(len < b + INFO_HEADER_SIZE)
    BY <1>1, <2>1 DEF INFO_HEADER_SIZE
  <2>3. QED
    BY <1>4, <2>1, <2>2, Zenon
<1>10. Matching # {}
  BY <1>4
<1>11. Get(container_data, HeaderOffset, 4) = MAGIC
  BY <1>4, <1>7, Zenon
<1>12. InfoError = "none"
  BY <1>2, <1>8, <1>9, <1>10, <1>11, Zenon DEF InfoError
<1>13. QED
  BY <1>4, <1>8, <1>12

LEMMA GroupedIsRecognized ==
  ASSUME PackedFileAssumption, job \in Jobs, job.grouped, IsGrouped(job, file_hunks)
  PROVE  /\ container_data = file_hunks[2].data /\ HeaderOffset = Len(MixedStub)
         /\ version_major = 1 /\ RegionCount = Count(job) /\ InfoError = "none"
<1> DEFINE data == file_hunks[2].data
<1>1. /\ Len(file_hunks) = Count(job) + 1 /\ data \in Seq(Byte) /\ Behind(job) <= Len(data) /\ Begins(MixedStub, data)
      /\ HasFields(data, Len(MixedStub), MixedHeader(job))
  BY Zenon DEF IsGrouped, HoldsAll, HoldsFrame
<1>2. PICK count \in 1 .. 3, mixed \in Nat : count = Count(job) /\ mixed = Len(MixedStub)
  BY ScratchSizes, Zenon
<1>3. PICK behind \in Nat, stub \in Nat, len \in Nat :
        /\ behind = Behind(job) /\ stub = Len(StubOf(job).bytes) /\ len = Len(data)
  <2>1. Len(data) \in Nat
    BY <1>1
  <2>2. QED
    BY <2>1, ScratchSizes, Zenon
<1>4. behind = mixed + 44 + 52 * count + stub /\ behind <= len
  BY <1>1, <1>2, <1>3, ScratchSizes, Zenon
<1>5. Len(file_hunks) >= 2 /\ file_hunks # <<>>
  <2>1. count + 1 \in Nat \ {0} /\ count + 1 >= 2
    BY <1>2
  <2>2. QED
    BY <1>1, <1>2, <2>1, NotEmpty, Zenon
<1>6. MixedStub \in KnownStubs
  BY JobIs, Zenon
<1>7. container_data = data /\ Matching = {MixedStub} /\ HeaderOffset = mixed
  BY <1>1, <1>2, <1>5, <1>6, StubIsLocated
<1>8. MixedHeaderTells(job, data, mixed)
  BY <1>1, <1>2, MixedHeaderIsRead
<1>9. mixed + 0 = mixed
  OBVIOUS
<1>10. Get(container_data, HeaderOffset, 4) = MAGIC /\ version_major = 1
  BY <1>7, <1>8, <1>9, Zenon DEF MixedHeaderTells, version_major
<1>11. RegionCount = count
  BY <1>2, <1>7, <1>8, Zenon DEF MixedHeaderTells, RegionCount, Count
<1>12. /\ ~(len < mixed + INFO_HEADER_SIZE) /\ ~(len < mixed + MIXED_HEADER_SIZE)
       /\ ~(len < mixed + MIXED_HEADER_SIZE + count * DESC_SIZE)
  BY <1>4 DEF INFO_HEADER_SIZE, MIXED_HEADER_SIZE, DESC_SIZE
<1>13. /\ ~(Len(container_data) < HeaderOffset + INFO_HEADER_SIZE)
       /\ ~(Len(container_data) < HeaderOffset + MIXED_HEADER_SIZE)
       /\ ~(Len(container_data) < HeaderOffset + MIXED_HEADER_SIZE + RegionCount * DESC_SIZE)
  BY <1>3, <1>7, <1>11, <1>12, Zenon
<1>14. ~(RegionCount \notin 1 .. 3 \/ Len(file_hunks) # RegionCount + 1)
  BY <1>1, <1>2, <1>11, Zenon
<1>15. Matching # {}
  BY <1>7
<1>16. InfoError = "none"
  BY <1>5, <1>10, <1>13, <1>14, <1>15, Zenon DEF InfoError
<1>17. QED
  BY <1>2, <1>7, <1>10, <1>11, <1>16, Zenon

\* What info reports of a single image, and of several.
SingleTold(data, at) ==
  [error |-> "none", backend |-> Get(data, at + 6, 1), flags |-> Get(data, at + 7, 1),
   header_size |-> Get(data, at + 8, 2), code |-> Get(data, at + 12, 4), bss |-> Get(data, at + 16, 4),
   stream |-> Get(data, at + 20, 4), compressed |-> Get(data, at + 24, 4), margin |-> Get(data, at + 28, 4)]

LEMMA SingleIsTold ==
  ASSUME PackedFileAssumption, NEW j \in Jobs, ~j.grouped, NEW data, NEW at, HeaderTells(j, data, at)
  PROVE  InfoTellsAll(j, SingleTold(data, at))
<1> DEFINE p == j.parts[1]
           told == SingleTold(data, at)
<1>1. /\ told.error = "none" /\ told.backend = Get(data, at + 6, 1) /\ told.flags = Get(data, at + 7, 1)
      /\ told.header_size = Get(data, at + 8, 2) /\ told.code = Get(data, at + 12, 4)
      /\ told.bss = Get(data, at + 16, 4) /\ told.compressed = Get(data, at + 24, 4)
      /\ told.margin = Get(data, at + 28, 4)
  BY DEF SingleTold
<1> HIDE DEF told
<1>2. /\ told.backend = j.backend /\ told.header_size = HEADER_SIZE /\ told.code = p.image.code
      /\ told.bss = p.image.bss /\ told.compressed = Len(p.payload)
      /\ told.margin = IF p.overlap THEN p.margin ELSE 0
      /\ FlagsAre(j, told.flags, p.attr = "chip", HasRelocs(p.image), p.overlap)
  BY <1>1, Zenon DEF HeaderTells
<1>3. /\ HasFlag(told.flags, FLAG_OVERLAP) <=> p.overlap
      /\ HasFlag(told.flags, FLAG_FLASH) <=> j.flash
      /\ HasFlag(told.flags, FLAG_MEM_CHIP) <=> p.attr = "chip"
  BY <1>2, Zenon DEF FlagsAre
<1> HIDE DEF p
<1>4. QED
  BY <1>1, <1>2, <1>3, Zenon DEF InfoTellsAll, told, p

GroupedTold(file, data, at, count) ==
  [error |-> "none", backend |-> Get(data, at + 6, 1),
   regions |-> [m \in 1 .. count |->
                  [attr |-> ResidentHunk(file, m).attr, size |-> ResidentHunk(file, m).size,
                   overlap |-> HasFlag(Get(data, at + MIXED_HEADER_SIZE + (m - 1) * DESC_SIZE + 7, 1), FLAG_OVERLAP)]],
   compressed |-> Get(data, at + 24, 4)]

LEMMA GroupedIsTold ==
  ASSUME PackedFileAssumption, NEW j \in Jobs, j.grouped, NEW file, IsGrouped(j, file)
  PROVE  InfoTellsAll(j, GroupedTold(file, file[2].data, Len(MixedStub), Count(j)))
<1> DEFINE data == file[2].data
           mixed == Len(MixedStub)
           count == Count(j)
           told == GroupedTold(file, data, mixed, count)
           flagsAt(m) == mixed + MIXED_HEADER_SIZE + (m - 1) * DESC_SIZE + 7
<1>1. /\ told.error = "none" /\ told.backend = Get(data, mixed + 6, 1) /\ told.compressed = Get(data, mixed + 24, 4)
      /\ told.regions = [m \in 1 .. count |->
                  [attr |-> ResidentHunk(file, m).attr, size |-> ResidentHunk(file, m).size,
                   overlap |-> HasFlag(Get(data, flagsAt(m), 1), FLAG_OVERLAP)]]
  BY DEF GroupedTold
<1> HIDE DEF told
<1>2. MixedHeaderTells(j, data, mixed)
  BY MixedHeaderIsRead, Zenon DEF IsGrouped, HoldsAll
<1>3. told.backend = j.backend /\ told.compressed = TotalOf(j.parts, LAMBDA q : Len(q.payload))
  BY <1>1, <1>2, Zenon DEF MixedHeaderTells
<1>4. count \in Nat /\ count = Len(j.parts) /\ DOMAIN j.parts = 1 .. count
  BY ScratchSizes, JobIs, Zenon DEF Count
<1>5. Len(told.regions) = Len(j.parts)
  <2>1. Len(told.regions) = count
    BY <1>1, <1>4
  <2>2. QED
    BY <1>4, <2>1
<1>6. ASSUME NEW m \in 1 .. count
      PROVE  /\ told.regions[m].attr = j.parts[m].attr
             /\ told.regions[m].overlap = j.parts[m].overlap
             /\ told.regions[m].size = Allocation(j.parts, m)
  <2>1. /\ told.regions[m].attr = ResidentHunk(file, m).attr /\ told.regions[m].size = ResidentHunk(file, m).size
        /\ told.regions[m].overlap = HasFlag(Get(data, flagsAt(m), 1), FLAG_OVERLAP)
    BY <1>1
  <2>2. /\ ResidentHunk(file, m) = FileHunk(j.parts[m].attr, Allocation(j.parts, m), Body(j, m))
        /\ HoldsPart(j, data, m)
    BY Zenon DEF IsGrouped, HoldsAll
  <2>3. /\ FileHunk(j.parts[m].attr, Allocation(j.parts, m), Body(j, m)).attr = j.parts[m].attr
        /\ FileHunk(j.parts[m].attr, Allocation(j.parts, m), Body(j, m)).size = Allocation(j.parts, m)
    BY DEF FileHunk
  <2>4. m \in 1 .. Len(j.parts)
    BY <1>4
  <2>5. PICK at \in Nat, mix \in Nat : at = DescriptorAt(m) /\ mix = mixed
    BY DescriptorIsAt, ScratchSizes, Zenon
  <2>6. flagsAt(m) = at + 7
    <3>1. at = mix + 44 + 52 * (m - 1) /\ m \in Nat
      BY <2>5, DescriptorIsAt, <1>4
    <3>2. mix + MIXED_HEADER_SIZE + (m - 1) * DESC_SIZE + 7 = at + 7
      BY <3>1 DEF MIXED_HEADER_SIZE, DESC_SIZE
    <3>3. QED
      BY <2>5, <3>2, Zenon
  <2>7. FlagsAre(j, Get(data, at + 7, 1), j.parts[m].attr = "chip", TRUE, j.parts[m].overlap)
    <3>1. PICK place \in LongValues : HasFields(data, at, Descriptor(j, m, place))
      BY <2>2, <2>5, Zenon DEF HoldsPart
    <3>2. DescriptorTells(j, m, data, at, place)
      BY <2>4, <3>1, DescriptorIsRead
    <3>3. QED
      BY <3>2, Zenon DEF DescriptorTells
  <2>8. HasFlag(Get(data, at + 7, 1), FLAG_OVERLAP) <=> j.parts[m].overlap
    BY <2>7, Zenon DEF FlagsAre
  <2>9. HasFlag(Get(data, at + 7, 1), FLAG_OVERLAP) \in BOOLEAN /\ j.parts[m].overlap \in BOOLEAN
    BY <2>4, PartIs, Zenon DEF HasFlag
  <2>10. HasFlag(Get(data, at + 7, 1), FLAG_OVERLAP) = j.parts[m].overlap
    <3>1. \A a, b \in BOOLEAN : (a <=> b) => a = b
      OBVIOUS
    <3>2. QED
      BY <2>8, <2>9, <3>1, Zenon
  <2>11. QED
    BY <2>1, <2>2, <2>3, <2>6, <2>10, Zenon
<1> HIDE DEF data, mixed, count
<1>7. QED
  BY <1>1, <1>3, <1>4, <1>5, <1>6, Zenon DEF InfoTellsAll, told, data, mixed, count

-----------------------------------------------------------------------------
(* The invariant of the writers and readers, and its steps.                *)

AnyHunk == [attr : {"any", "chip", "fast"}, size : Nat, data : Seq(Byte)]

PartHunk(j, m) == FileHunk(j.parts[m].attr, Allocation(j.parts, m), Body(j, m))

\* A file of several images while its parts are added.
PartsAre(j, data, file) ==
  /\ file \in Seq(AnyHunk) /\ Len(file) <= Count(j)
  /\ HoldsUpTo(j, data, Len(file))
  /\ \A m \in 1 .. Len(file) : file[m] = PartHunk(j, m)

IsWritten(j, file) == IF j.grouped THEN IsGrouped(j, file) ELSE IsSingle(j, file)

PackedInv ==
  Packed =>
    /\ job \in Jobs
    /\ \/ stage = "write" /\ file_hunks = <<>>
       \/ stage = "parts" /\ job.grouped /\ PartsAre(job, scratch, file_hunks)
       \/ stage = "start" /\ IsWritten(job, file_hunks)
       \/ stage = "info" /\ IsWritten(job, file_hunks) /\ CodeFindsAll(job, file_hunks, found)
       \/ stage = "done" /\ CodeFindsAll(job, file_hunks, found) /\ InfoTellsAll(job, report)

LEMMA AlignedIs == \A number \in Nat : Align4(number) \in Nat
BY Align4Rounds

LEMMA PartHunkIs ==
  ASSUME PackedFileAssumption, NEW j \in Jobs, NEW m \in 1 .. Len(j.parts)
  PROVE  PartHunk(j, m) \in AnyHunk
<1>1. j.parts[m].attr \in {"any", "chip", "fast"} /\ Allocation(j.parts, m) \in LongValues
  BY PartIs, Zenon
<1>2. Allocation(j.parts, m) \in Nat
  BY <1>1, LongIs, Zenon
<1>3. PadTo4(Body(j, m)) \in Seq(Byte)
  BY BodyIs, Zenon
<1>4. QED
  BY <1>1, <1>2, <1>3 DEF PartHunk, FileHunk, AnyHunk

LEMMA PartsBegin ==
  ASSUME PackedFileAssumption, NEW j \in Jobs
  PROVE  PartsAre(j, MixedStub \o Zeros(TablesSize(Len(j.parts))) \o StubOf(j).bytes, <<>>)
<1> DEFINE data == MixedStub \o Zeros(TablesSize(Len(j.parts))) \o StubOf(j).bytes
<1>1. HoldsFrame(j, data) /\ Len(data) = Behind(j)
  BY FrameBegins
<1> HIDE DEF data
<1>2. <<>> \in Seq(AnyHunk) /\ Len(<<>>) = 0 /\ 1 .. 0 = {}
  OBVIOUS
<1>3. PICK behind \in Nat, count \in Nat : behind = Behind(j) /\ count = Count(j)
  BY ScratchSizes, Zenon
<1>4. behind <= behind /\ 0 <= count
  OBVIOUS
<1>5. HoldsUpTo(j, data, 0)
  BY <1>1, <1>2, <1>3, <1>4, BoundIs, Zenon DEF HoldsUpTo
<1>6. QED
  BY <1>2, <1>3, <1>4, <1>5, Zenon DEF PartsAre, data

LEMMA PartsGrow ==
  ASSUME PackedFileAssumption, NEW j \in Jobs, NEW data, NEW file, PartsAre(j, data, file), Len(file) < Count(j)
  PROVE  PartsAre(j, Added(j, Len(file) + 1, data), Append(file, PartHunk(j, Len(file) + 1)))
<1>1. /\ file \in Seq(AnyHunk) /\ HoldsUpTo(j, data, Len(file))
      /\ \A m \in 1 .. Len(file) : file[m] = PartHunk(j, m)
  BY Zenon DEF PartsAre
<1>2. PICK number \in Nat, count \in Nat : number = Len(file) /\ count = Count(j) /\ number < count
  <2>1. Len(file) \in Nat
    BY <1>1
  <2>2. QED
    BY <2>1, ScratchSizes, Zenon
<1>3. PICK m \in 1 .. count : m = number + 1 /\ m - 1 = number
  BY <1>2
<1>4. HoldsUpTo(j, Added(j, m, data), m)
  <2>1. HoldsUpTo(j, data, m - 1) /\ m \in 1 .. Count(j)
    BY <1>1, <1>2, <1>3, Zenon
  <2>2. QED
    BY <2>1, PartIsAdded
<1>5. PICK hunk \in AnyHunk : hunk = PartHunk(j, m)
  BY <1>2, PartHunkIs, Zenon DEF Count
<1>6. PICK longer \in Seq(AnyHunk) :
        /\ longer = Append(file, hunk) /\ Len(longer) = m /\ longer[m] = hunk
        /\ \A k \in 1 .. number : longer[k] = file[k]
  <2>1. Append(file, hunk) \in Seq(AnyHunk) /\ Len(Append(file, hunk)) = number + 1
    BY <1>1, <1>2
  <2>2. Append(file, hunk)[number + 1] = hunk /\ \A k \in 1 .. number : Append(file, hunk)[k] = file[k]
    BY <1>1, <1>2
  <2>3. QED
    BY <1>3, <2>1, <2>2, Zenon
<1>7. ASSUME NEW k \in 1 .. m
      PROVE  longer[k] = PartHunk(j, k)
  <2>1. k \in 1 .. number \/ k = m
    BY <1>3
  <2>2. QED
    BY <1>1, <1>2, <1>5, <1>6, <2>1, Zenon
<1>8. m <= count
  OBVIOUS
<1>9. QED
  BY <1>2, <1>3, <1>4, <1>5, <1>6, <1>7, <1>8, Zenon DEF PartsAre

LEMMA InsertedIs ==
  ASSUME NEW file \in Seq(AnyHunk), NEW hunk \in AnyHunk, NEW number \in Nat \ {0}, Len(file) = number
  PROVE  /\ Len(InsertAt(file, 2, hunk)) = number + 1
         /\ InsertAt(file, 2, hunk)[1] = file[1] /\ InsertAt(file, 2, hunk)[2] = hunk
         /\ \A m \in 2 .. number : InsertAt(file, 2, hunk)[m + 1] = file[m]
<1>1. PICK first \in Seq(AnyHunk) : first = SubSeq(file, 1, 1) /\ Len(first) = 1 /\ first[1] = file[1]
  <2>1. file[1] \in AnyHunk
    OBVIOUS
  <2>2. SubSeq(file, 1, 1) = [k \in 1 .. 1 |-> file[k]]
    OBVIOUS
  <2>3. [k \in 1 .. 1 |-> file[k]] \in Seq(AnyHunk) /\ Len([k \in 1 .. 1 |-> file[k]]) = 1
    BY <2>1
  <2>4. 1 \in 1 .. 1
    OBVIOUS
  <2>5. [k \in 1 .. 1 |-> file[k]][1] = file[1]
    BY <2>4, Zenon
  <2>6. QED
    BY <2>2, <2>3, <2>5, Zenon
<1>2. PICK rest \in Seq(AnyHunk) :
        /\ rest = SubSeq(file, 2, number) /\ Len(rest) = number - 1
        /\ \A k \in 1 .. number - 1 : rest[k] = file[k + 1]
  <2>1. \A k \in 1 .. number : file[k] \in AnyHunk
    OBVIOUS
  <2>2. SubSeq(file, 2, number) = [k \in 1 .. number - 1 |-> file[k + 1]]
    OBVIOUS
  <2>3. [k \in 1 .. number - 1 |-> file[k + 1]] \in Seq(AnyHunk) /\ Len([k \in 1 .. number - 1 |-> file[k + 1]]) = number - 1
    BY <2>1
  <2>4. QED
    BY <2>2, <2>3
<1>4. PICK front \in Seq(AnyHunk) :
        front = first \o <<hunk>> /\ Len(front) = 2 /\ front[1] = file[1] /\ front[2] = hunk
  <2>1. <<hunk>> \in Seq(AnyHunk) /\ Len(<<hunk>>) = 1 /\ <<hunk>>[1] = hunk
    OBVIOUS
  <2>2. PICK one \in Seq(AnyHunk) : one = <<hunk>> /\ Len(one) = 1 /\ one[1] = hunk
    BY <2>1, Zenon
  <2>3. first \o one \in Seq(AnyHunk) /\ Len(first \o one) = 2
    BY <1>1, <2>2
  <2>4. (first \o one)[1] = first[1] /\ (first \o one)[2] = one[1]
    BY <1>1, <2>2
  <2>5. QED
    BY <1>1, <2>2, <2>3, <2>4, Zenon
<1>3. InsertAt(file, 2, hunk) = front \o rest
  <2>1. 2 - 1 = 1
    OBVIOUS
  <2>2. QED
    BY <1>1, <1>2, <1>4, <2>1, Zenon DEF InsertAt
<1>5. PICK whole : whole = front \o rest
  OBVIOUS
<1>6. /\ Len(whole) = number + 1 /\ whole[1] = file[1] /\ whole[2] = hunk
      /\ \A k \in 1 .. number - 1 : whole[2 + k] = rest[k]
  BY <1>2, <1>4, <1>5
<1>7. ASSUME NEW m \in 2 .. number
      PROVE  whole[m + 1] = file[m]
  <2>1. PICK k \in 1 .. number - 1 : m = k + 1 /\ m + 1 = 2 + k
    <3>1. m - 1 \in 1 .. number - 1
      OBVIOUS
    <3>2. QED
      BY <3>1
  <2>2. QED
    BY <1>2, <1>6, <2>1, Zenon
<1>8. QED
  BY <1>3, <1>4, <1>5, <1>6, <1>7, Zenon

LEMMA PartsEnd ==
  ASSUME PackedFileAssumption, NEW j \in Jobs, NEW data, NEW file, PartsAre(j, data, file), Len(file) = Count(j),
         NEW body, body = PutAll(data, Len(MixedStub), MixedHeader(j))
  PROVE  IsGrouped(j, InsertAt(file, 2, FileHunk("any", Align4(Len(body)), body)))
<1>1. /\ file \in Seq(AnyHunk) /\ HoldsUpTo(j, data, Count(j))
      /\ \A m \in 1 .. Count(j) : file[m] = PartHunk(j, m)
  BY Zenon DEF PartsAre
<1>2. HoldsAll(j, body) /\ body \in Seq(Byte)
  BY <1>1, HeaderIsPut, Zenon DEF HoldsAll, HoldsFrame
<1>3. PICK number \in Nat \ {0} : number = Count(j) /\ number = Len(file)
  <2>3. PICK count \in 1 .. 3 : count = Count(j)
    BY ScratchSizes, Zenon
  <2>1. Count(j) \in Nat \ {0}
    BY <2>3
  <2>2. QED
    BY <2>1, Zenon
<1>4. PICK padded \in Seq(Byte) : padded = PadTo4(body) /\ Begins(body, padded)
  <2>1. PadTo4(body) \in Seq(Byte) /\ Len(body) <= Len(PadTo4(body)) /\ \A k \in 1 .. Len(body) : PadTo4(body)[k] = body[k]
    BY <1>2, PadIs
  <2>2. QED
    BY <2>1, Zenon DEF Begins
<1>5. HoldsAll(j, padded)
  BY <1>2, <1>4, AllStays
<1>6. PICK size \in Nat : size = Align4(Len(body))
  <2>1. Len(body) \in Nat
    BY <1>2
  <2>2. QED
    BY <2>1, AlignedIs, Zenon
<1>7. PICK hunk \in AnyHunk : hunk = FileHunk("any", size, body) /\ hunk.data = padded
  <2>1. [attr |-> "any", size |-> size, data |-> padded] \in AnyHunk
    BY DEF AnyHunk
  <2>2. FileHunk("any", size, body) = [attr |-> "any", size |-> size, data |-> padded]
    BY <1>4, Zenon DEF FileHunk
  <2>3. QED
    BY <2>1, <2>2
<1>8. PICK whole :
        /\ whole = InsertAt(file, 2, hunk) /\ Len(whole) = number + 1 /\ whole[1] = file[1] /\ whole[2] = hunk
        /\ \A m \in 2 .. number : whole[m + 1] = file[m]
  BY <1>1, <1>3, InsertedIs
<1>9. ASSUME NEW m \in 1 .. number
      PROVE  ResidentHunk(whole, m) = PartHunk(j, m)
  <2>1. CASE m = 1
    BY <1>1, <1>3, <1>8, <2>1, Zenon DEF ResidentHunk
  <2>2. CASE m # 1
    <3>1. m \in 2 .. number
      BY <2>2
    <3>2. QED
      BY <1>1, <1>3, <1>8, <2>2, <3>1, Zenon DEF ResidentHunk
  <2>3. QED
    BY <2>1, <2>2
<1>10. QED
  BY <1>3, <1>5, <1>6, <1>7, <1>8, <1>9, Zenon DEF IsGrouped, PartHunk

LEMMA SingleStarts ==
  ASSUME PackedFileAssumption, PackedInv, Packed, StartSingle
  PROVE  IsWritten(job, file_hunks) /\ CodeFindsAll(job, file_hunks, found')
<1> DEFINE data == file_hunks[2].data
           base == Len(StubOf(job).bytes)
           region == SingleRegion(job, file_hunks)
<1>1. job \in Jobs /\ ~job.grouped /\ stage = "start"
  BY Zenon DEF PackedInv, StartSingle
<1>2. IsWritten(job, file_hunks)
  <2>1. "start" # "write" /\ "start" # "parts" /\ "start" # "info" /\ "start" # "done"
    OBVIOUS
  <2>2. QED
    BY <1>1, <2>1, Zenon DEF PackedInv
<1>3. IsSingle(job, file_hunks)
  BY <1>1, <1>2, Zenon DEF IsWritten
<1>4. HasFields(data, base, HeaderFields(job)) /\ Get(data, base + 4, 1) = 0
  BY <1>3, Zenon DEF IsSingle, HoldsSingle
<1>5. HeaderTells(job, data, base)
  BY <1>1, <1>4, HeaderIsRead, Zenon
<1>6. base \in Nat /\ base + 0 = base
  BY <1>1, ScratchSizes
<1>7. Get(data, base, 4) = MAGIC
  BY <1>5, <1>6, Zenon DEF HeaderTells
<1>8. found' = [regions |-> IF Get(data, base, 4) = MAGIC /\ Get(data, base + 4, 1) = 0 THEN <<region>> ELSE <<>>,
                depack |-> StubOf(job).bytes]
  BY Zenon DEF StartSingle, SingleRegion
<1> HIDE DEF data, base, region
<1>9. found'.regions = <<region>>
  BY <1>4, <1>7, <1>8
<1>10. Len(<<region>>) = 1 /\ <<region>>[1] = region /\ \A m \in 1 .. 1 : m = 1
  OBVIOUS
<1>11. Len(job.parts) = 1 /\ DOMAIN job.parts = 1 .. 1
  BY <1>1, JobIs, Zenon
<1>12. FindsPart(job, file_hunks, 1, region)
  BY <1>1, <1>3, SingleIsFound, Zenon DEF region
<1>13. CodeFindsAll(job, file_hunks, found')
  BY <1>1, <1>9, <1>10, <1>11, <1>12, Zenon DEF CodeFindsAll
<1>14. QED
  BY <1>2, <1>13

LEMMA GroupedStarts ==
  ASSUME PackedFileAssumption, PackedInv, Packed, StartGrouped
  PROVE  IsWritten(job, file_hunks) /\ CodeFindsAll(job, file_hunks, found')
<1> DEFINE data == file_hunks[2].data
           header == Len(MixedStub)
           count == Get(data, header + 36, 4)
           depack == SubSeq(data, Get(data, header + 40, 4) + 1, Len(data))
           d == StubOf(job).depack
<1>1. job \in Jobs /\ job.grouped /\ stage = "start"
  BY Zenon DEF PackedInv, StartGrouped
<1>2. IsWritten(job, file_hunks)
  <2>1. "start" # "write" /\ "start" # "parts" /\ "start" # "info" /\ "start" # "done"
    OBVIOUS
  <2>2. QED
    BY <1>1, <2>1, Zenon DEF PackedInv
<1>3. IsGrouped(job, file_hunks)
  BY <1>1, <1>2, Zenon DEF IsWritten
<1>4. HoldsAll(job, data) /\ HasFields(data, header, MixedHeader(job))
  BY <1>3, Zenon DEF IsGrouped, HoldsAll
<1>5. MixedHeaderTells(job, data, header)
  BY <1>1, <1>4, MixedHeaderIsRead, Zenon
<1>6. count = Len(job.parts) /\ Get(data, header + 40, 4) = Decoder(job) + d
  BY <1>5, Zenon DEF MixedHeaderTells
<1>7. found' = [regions |-> [m \in 1 .. count |-> GroupedRegion(file_hunks, m)], depack |-> depack]
  BY Zenon DEF StartGrouped, GroupedRegion
<1>8. depack = SubSeq(data, Decoder(job) + d + 1, Len(data))
  BY <1>6, Zenon
<1> HIDE DEF data, header, count, depack
<1>9. found'.regions = [m \in 1 .. count |-> GroupedRegion(file_hunks, m)] /\ found'.depack = depack
  BY <1>7
<1>10. /\ count = Count(job) /\ count \in Nat /\ DOMAIN job.parts = 1 .. count
  BY <1>1, <1>6, JobIs, ScratchSizes, Zenon DEF Count
<1>11. Len(found'.regions) = count
  BY <1>9, <1>10
<1>12. ASSUME NEW m \in 1 .. count
       PROVE  FindsPart(job, file_hunks, m, found'.regions[m])
  <2>1. FindsPart(job, file_hunks, m, GroupedRegion(file_hunks, m))
    BY <1>1, <1>3, <1>10, GroupedIsFound, Zenon
  <2>2. found'.regions[m] = GroupedRegion(file_hunks, m)
    BY <1>9
  <2>3. QED
    BY <2>1, <2>2, Zenon
<1>13. IsPrefix(SubSeq(StubOf(job).bytes, d + 1, Len(StubOf(job).bytes)), found'.depack)
  BY <1>1, <1>4, <1>8, <1>9, DepackIsFound, Zenon
<1>14. CodeFindsAll(job, file_hunks, found')
  BY <1>6, <1>10, <1>11, <1>12, <1>13, Zenon DEF CodeFindsAll
<1>15. QED
  BY <1>2, <1>14

LEMMA FileIsWritten ==
  ASSUME PackedFileAssumption, PackedInv, Packed, WriteSingle \/ WriteGrouped
  PROVE  IsWritten(job, file_hunks')
<1>1. CASE WriteSingle
  <2>1. job \in Jobs /\ ~job.grouped /\ file_hunks' = SingleFile(job)
    BY <1>1, Zenon DEF PackedInv, WriteSingle
  <2>2. IsSingle(job, file_hunks')
    BY <2>1, SingleIsWritten, Zenon
  <2>3. QED
    BY <2>1, <2>2, Zenon DEF IsWritten
<1>2. CASE WriteGrouped
  <2>1. stage = "parts" /\ Len(file_hunks) = Len(job.parts)
    BY <1>2, Zenon DEF WriteGrouped
  <2>2. "parts" # "write" /\ "parts" # "start" /\ "parts" # "info" /\ "parts" # "done"
    OBVIOUS
  <2>3. job \in Jobs /\ job.grouped /\ PartsAre(job, scratch, file_hunks)
    BY <2>1, <2>2, Zenon DEF PackedInv
  <2>4. PICK body : body = PutAll(scratch, Len(MixedStub), MixedHeader(job))
    OBVIOUS
  <2>5. file_hunks' = InsertAt(file_hunks, 2, FileHunk("any", Align4(Len(body)), body))
    BY <1>2, <2>4, Zenon DEF WriteGrouped
  <2>6. IsGrouped(job, file_hunks')
    BY <2>1, <2>3, <2>4, <2>5, PartsEnd, Zenon DEF Count
  <2>7. QED
    BY <2>3, <2>6, Zenon DEF IsWritten
<1>3. QED
  BY <1>1, <1>2

LEMMA PartsStay ==
  ASSUME PackedFileAssumption, PackedInv, Packed, BeginGrouped \/ AddPart
  PROVE  job \in Jobs /\ job.grouped /\ PartsAre(job, scratch', file_hunks') /\ stage' = "parts"
<1>1. CASE BeginGrouped
  <2>1. stage = "write" /\ job.grouped /\ file_hunks' = file_hunks /\ stage' = "parts"
        /\ scratch' = MixedStub \o Zeros(TablesSize(Len(job.parts))) \o StubOf(job).bytes
    BY <1>1, Zenon DEF BeginGrouped
  <2>2. "write" # "parts" /\ "write" # "start" /\ "write" # "info" /\ "write" # "done"
    OBVIOUS
  <2>3. job \in Jobs /\ file_hunks = <<>>
    BY <2>1, <2>2, Zenon DEF PackedInv
  <2>4. QED
    BY <2>1, <2>3, PartsBegin, Zenon
<1>2. CASE AddPart
  <2>1. stage = "parts" /\ Len(file_hunks) < Len(job.parts) /\ stage' = stage
    BY <1>2, Zenon DEF AddPart
  <2>2. "parts" # "write" /\ "parts" # "start" /\ "parts" # "info" /\ "parts" # "done"
    OBVIOUS
  <2>3. job \in Jobs /\ job.grouped /\ PartsAre(job, scratch, file_hunks)
    BY <2>1, <2>2, Zenon DEF PackedInv
  <2>4. /\ scratch' = Added(job, Len(file_hunks) + 1, scratch)
        /\ file_hunks' = Append(file_hunks, PartHunk(job, Len(file_hunks) + 1))
    BY <1>2, Zenon DEF AddPart, Added, Extended, InputOf, PartHunk
  <2>5. PartsAre(job, scratch', file_hunks')
    BY <2>1, <2>3, <2>4, PartsGrow, Zenon DEF Count
  <2>6. QED
    BY <2>1, <2>3, <2>5, Zenon
<1>3. QED
  BY <1>1, <1>2

\* info reports every file it is given by the packer, and rightly.
LEMMA InfoReports ==
  ASSUME PackedFileAssumption, PackedInv, Packed, Refuse \/ ReportSingle \/ ReportGrouped
  PROVE  CodeFindsAll(job, file_hunks, found) /\ InfoTellsAll(job, report')
<1>1. stage = "info"
  BY Zenon DEF Refuse, ReportSingle, ReportGrouped
<1>2. "info" # "write" /\ "info" # "parts" /\ "info" # "start" /\ "info" # "done"
  OBVIOUS
<1>3. job \in Jobs /\ IsWritten(job, file_hunks) /\ CodeFindsAll(job, file_hunks, found)
  BY <1>1, <1>2, Zenon DEF PackedInv
<1>4. CASE job.grouped
  <2>1. IsGrouped(job, file_hunks)
    BY <1>3, <1>4, Zenon DEF IsWritten
  <2>2. /\ container_data = file_hunks[2].data /\ HeaderOffset = Len(MixedStub)
        /\ version_major = 1 /\ RegionCount = Count(job) /\ InfoError = "none"
    BY <1>3, <1>4, <2>1, GroupedIsRecognized
  <2>3. ReportGrouped
    BY <2>2, Zenon DEF Refuse, ReportSingle
  <2>4. report' = GroupedTold(file_hunks, container_data, HeaderOffset, RegionCount)
    BY <2>3, Zenon DEF ReportGrouped, GroupedTold
  <2>5. report' = GroupedTold(file_hunks, file_hunks[2].data, Len(MixedStub), Count(job))
    BY <2>2, <2>4, Zenon
  <2>6. InfoTellsAll(job, report')
    BY <1>3, <1>4, <2>1, <2>5, GroupedIsTold, Zenon
  <2>7. QED
    BY <1>3, <2>6
<1>5. CASE ~job.grouped
  <2>1. IsSingle(job, file_hunks)
    BY <1>3, <1>5, Zenon DEF IsWritten
  <2>2. /\ container_data = file_hunks[2].data /\ HeaderOffset = Len(StubOf(job).bytes)
        /\ version_major # 1 /\ InfoError = "none"
    BY <1>3, <1>5, <2>1, SingleIsRecognized
  <2>3. ReportSingle
    BY <2>2, Zenon DEF Refuse, ReportGrouped
  <2>4. report' = SingleTold(container_data, HeaderOffset)
    BY <2>3, Zenon DEF ReportSingle, SingleTold
  <2>5. HeaderTells(job, file_hunks[2].data, Len(StubOf(job).bytes))
    BY <1>3, <1>5, <2>1, HeaderIsRead, Zenon DEF IsSingle, HoldsSingle
  <2>6. InfoTellsAll(job, report')
    BY <1>3, <1>5, <2>2, <2>4, <2>5, SingleIsTold, Zenon
  <2>7. QED
    BY <1>3, <2>6
<1>6. QED
  BY <1>4, <1>5

LEMMA PackedInvInit == FileInit => PackedInv
<1> SUFFICES ASSUME FileInit, Packed
             PROVE  /\ job \in Jobs
                    /\ stage = "write" /\ file_hunks = <<>>
  BY Zenon DEF PackedInv
<1>1. CASE job \in {[other |-> file] : file \in Others}
  <2>1. PICK file \in Others : job = [other |-> file]
    BY <1>1
  <2>2. "parts" \notin DOMAIN [other |-> file]
    OBVIOUS
  <2>3. QED
    BY <2>1, <2>2, Zenon DEF Packed
<1>2. QED
  BY <1>1, Zenon DEF FileInit

LEMMA PackedInvStep ==
  ASSUME PackedFileAssumption, PackedInv, [FileNext]_file_vars
  PROVE  PackedInv'
<1>1. CASE UNCHANGED file_vars
  BY <1>1 DEF PackedInv, Packed, file_vars, IsWritten, IsSingle, IsGrouped, PartsAre
<1>2. CASE FileNext /\ ~(UNCHANGED file_vars)
  <2>1. /\ job' = job
        /\ \/ WriteSingle \/ BeginGrouped \/ AddPart \/ WriteGrouped \/ StartSingle \/ StartGrouped
           \/ Refuse \/ ReportSingle \/ ReportGrouped
    BY <1>2, Zenon DEF FileNext, WriteSingle, BeginGrouped, AddPart, WriteGrouped, StartSingle, StartGrouped,
                       Refuse, ReportSingle, ReportGrouped
  <2>2. CASE ~Packed
    BY <2>1, <2>2, Zenon DEF PackedInv, Packed
  <2>3. CASE Packed
    <3>1. job' \in Jobs
      BY <2>1, <2>3, Zenon DEF PackedInv
    <3>2. CASE WriteSingle \/ WriteGrouped
      <4>1. IsWritten(job, file_hunks') /\ stage' = "start"
        BY <2>3, <3>2, FileIsWritten, Zenon DEF WriteSingle, WriteGrouped
      <4>2. QED
        BY <2>1, <3>1, <4>1, Zenon DEF PackedInv
    <3>3. CASE BeginGrouped \/ AddPart
      <4>1. job.grouped /\ PartsAre(job, scratch', file_hunks') /\ stage' = "parts"
        BY <2>3, <3>3, PartsStay, Zenon
      <4>2. QED
        BY <2>1, <3>1, <4>1, Zenon DEF PackedInv
    <3>4. CASE StartSingle \/ StartGrouped
      <4>1. IsWritten(job, file_hunks) /\ CodeFindsAll(job, file_hunks, found')
        BY <2>3, <3>4, SingleStarts, GroupedStarts, Zenon
      <4>2. file_hunks' = file_hunks /\ stage' = "info"
        BY <3>4, Zenon DEF StartSingle, StartGrouped
      <4>3. QED
        BY <2>1, <3>1, <4>1, <4>2, Zenon DEF PackedInv
    <3>5. CASE Refuse \/ ReportSingle \/ ReportGrouped
      <4>1. CodeFindsAll(job, file_hunks, found) /\ InfoTellsAll(job, report')
        BY <2>3, <3>5, InfoReports, Zenon
      <4>2. file_hunks' = file_hunks /\ found' = found /\ stage' = "done"
        BY <3>5, Zenon DEF Refuse, ReportSingle, ReportGrouped
      <4>3. QED
        BY <2>1, <3>1, <4>1, <4>2, Zenon DEF PackedInv
    <3>6. QED
      BY <2>1, <3>2, <3>3, <3>4, <3>5, Zenon
  <2>4. QED
    BY <2>2, <2>3
<1>3. QED
  BY <1>1, <1>2

\* Files of others.
OtherInv ==
  ~Packed =>
    /\ job \in {[other |-> file] : file \in Others}
    /\ \/ stage = "info" /\ file_hunks = job.other
       \/ stage = "done" /\ (report.error = "none" <=> IsWhole(job.other))

LEMMA InfoErrorIs ==
  ASSUME PackedFileAssumption, file_hunks \in Seq(AnyHunk)
  PROVE  InfoError = "none" <=> IsWhole(file_hunks)
<1>1. CASE file_hunks = <<>>
  BY <1>1 DEF InfoError, IsWhole
<1>2. CASE file_hunks # <<>>
  <2>1. PICK number \in Nat \ {0} : number = Len(file_hunks)
    BY <1>2
  <2>2. PICK data \in Seq(Byte) : data = container_data
    <3>1. (IF Len(file_hunks) >= 2 THEN 2 ELSE 1) \in 1 .. Len(file_hunks)
      BY <2>1
    <3>2. file_hunks[IF Len(file_hunks) >= 2 THEN 2 ELSE 1] \in AnyHunk
      BY <3>1
    <3>3. container_data \in Seq(Byte)
      BY <3>2 DEF AnyHunk, container_data
    <3>4. QED
      BY <3>3
  <2>3. CASE Matching = {}
    <3>1. ~IsWhole(file_hunks)
      BY <2>2, <2>3, Zenon DEF IsWhole, Matching, container_data
    <3>2. InfoError = "UnrecognizedStub"
      BY <1>2, <2>3, Zenon DEF InfoError
    <3>3. QED
      BY <3>1, <3>2
  <2>4. CASE Matching # {}
    <3>1. PICK stub \in KnownStubs : IsPrefix(stub, data)
      BY <2>2, <2>4, Zenon DEF Matching
    <3>2. stub \in Seq(Byte)
      BY StubsAre, Zenon
    <3>3. Begins(stub, data)
      BY <2>2, <3>1, <3>2, PrefixIs, Zenon
    <3>4. \A other \in KnownStubs : IsPrefix(other, data) <=> other = stub
      BY <2>2, <3>3, OneStubMatches, Zenon
    <3>5. HeaderOffset = Len(stub)
      <4>1. Matching = {stub}
        BY <2>2, <3>4, Zenon DEF Matching
      <4>2. (CHOOSE other \in {stub} : TRUE) = stub
        OBVIOUS
      <4>3. QED
        BY <4>1, <4>2, Zenon DEF HeaderOffset
    <3>6. PICK at \in Nat, size \in Nat : at = Len(stub) /\ size = Len(data)
      BY <2>2, <3>2
    <3>7. PICK version, count : version = Get(data, at + 4, 1) /\ count = Get(data, at + 36, 4)
      OBVIOUS
    <3> DEFINE Regions == IF version = 1
                       THEN /\ at + 44 <= size /\ count \in 1 .. 3 /\ number = count + 1
                            /\ at + TablesSize(count) <= size
                       ELSE number <= 2
               Sound == at + 32 <= size /\ Get(data, at, 4) = MAGIC /\ Regions
    <3>8. IsWhole(file_hunks) <=> Sound
      <4>1. IsWhole(file_hunks) <=>
              \E other \in KnownStubs :
                /\ IsPrefix(other, data) /\ Len(other) + INFO_HEADER_SIZE <= Len(data)
                /\ Get(data, Len(other), 4) = MAGIC
                /\ IF Get(data, Len(other) + 4, 1) = 1
                   THEN /\ Len(other) + MIXED_HEADER_SIZE <= Len(data)
                        /\ Get(data, Len(other) + 36, 4) \in 1 .. 3
                        /\ Len(file_hunks) = Get(data, Len(other) + 36, 4) + 1
                        /\ Len(other) + TablesSize(Get(data, Len(other) + 36, 4)) <= Len(data)
                   ELSE Len(file_hunks) <= 2
        BY <1>2, <2>2, Zenon DEF IsWhole, container_data
      <4>2. INFO_HEADER_SIZE = 32 /\ MIXED_HEADER_SIZE = 44
        BY Zenon DEF INFO_HEADER_SIZE, MIXED_HEADER_SIZE
      <4>3. QED
        BY <2>1, <3>4, <3>6, <3>7, <4>1, <4>2, Zenon
    <3>9. InfoError = (IF ~(at + 32 <= size) THEN "TruncatedHeader"
                       ELSE IF Get(data, at, 4) # MAGIC THEN "BadMagic"
                       ELSE IF version # 1 THEN IF number > 2 THEN "NotARecognizedHunkLayout" ELSE "none"
                       ELSE IF ~(at + 44 <= size) THEN "TruncatedHeader"
                       ELSE IF count \notin 1 .. 3 \/ number # count + 1 THEN "NotARecognizedHunkLayout"
                       ELSE IF size < at + 44 + count * 52 THEN "TruncatedHeader" ELSE "none")
      <4>1. container_data = data /\ Len(data) = size /\ HeaderOffset = at
        BY <2>2, <3>5, <3>6
      <4>2. version_major = version /\ RegionCount = count
        BY <3>7, <4>1, Zenon DEF version_major, RegionCount
      <4>3. at + 32 \in Nat /\ at + 44 \in Nat
        OBVIOUS
      <4>4. (size < at + 32 <=> ~(at + 32 <= size)) /\ (size < at + 44 <=> ~(at + 44 <= size))
        OBVIOUS
      <4>5. QED
        BY <1>2, <2>1, <2>4, <4>1, <4>2, <4>4, Zenon
           DEF InfoError, INFO_HEADER_SIZE, MIXED_HEADER_SIZE, DESC_SIZE
    <3>10. count \in 1 .. 3 => (size < at + 44 + count * 52 <=> ~(at + TablesSize(count) <= size))
      BY DEF TablesSize, MIXED_HEADER_SIZE, DESC_SIZE
    <3>11. number > 2 <=> ~(number <= 2)
      OBVIOUS
    <3>12. InfoError = "none" <=> Sound
      BY <3>9, <3>10, <3>11
    <3>13. QED
      BY <3>8, <3>12
  <2>5. QED
    BY <2>3, <2>4
<1>3. QED
  BY <1>1, <1>2

LEMMA OtherInvInit ==
  ASSUME PackedFileAssumption
  PROVE  FileInit => OtherInv
<1> SUFFICES ASSUME FileInit, ~Packed
             PROVE  /\ job \in {[other |-> file] : file \in Others}
                    /\ stage = "info" /\ file_hunks = job.other
  BY Zenon DEF OtherInv
<1>1. CASE job \in Jobs
  <2>1. IsJob(job)
    BY <1>1, Zenon DEF PackedFileAssumption
  <2>2. "parts" \in DOMAIN job
    BY <2>1 DEF IsJob
  <2>3. QED
    BY <2>2, Zenon DEF Packed
<1>2. QED
  BY <1>1, Zenon DEF FileInit

LEMMA OtherInvStep ==
  ASSUME PackedFileAssumption, OtherInv, [FileNext]_file_vars
  PROVE  OtherInv'
<1>1. CASE UNCHANGED file_vars
  BY <1>1 DEF OtherInv, Packed, file_vars, IsWhole
<1>2. CASE FileNext /\ ~(UNCHANGED file_vars)
  <2>1. /\ job' = job
        /\ \/ (WriteSingle \/ BeginGrouped) /\ stage = "write"
           \/ (AddPart \/ WriteGrouped) /\ stage = "parts"
           \/ (StartSingle \/ StartGrouped) /\ stage = "start"
           \/ Refuse \/ ReportSingle \/ ReportGrouped
    BY <1>2, Zenon DEF FileNext, WriteSingle, BeginGrouped, AddPart, WriteGrouped, StartSingle, StartGrouped,
                       Refuse, ReportSingle, ReportGrouped
  <2>2. CASE Packed
    BY <2>1, <2>2, Zenon DEF OtherInv, Packed
  <2>3. CASE ~Packed
    <3>1. stage \in {"info", "done"}
      BY <2>3, Zenon DEF OtherInv
    <3>2. Refuse \/ ReportSingle \/ ReportGrouped
      BY <2>1, <3>1
    <3>3. stage = "info" /\ stage' = "done"
      BY <3>2, Zenon DEF Refuse, ReportSingle, ReportGrouped
    <3>4. PICK file \in Others : job = [other |-> file] /\ file_hunks = job.other
      BY <2>3, <3>3 DEF OtherInv
    <3>5. file_hunks = file /\ file_hunks \in Seq(AnyHunk)
      BY <3>4 DEF PackedFileAssumption, AnyHunk
    <3>6. InfoError = "none" <=> IsWhole(job.other)
      BY <3>4, <3>5, InfoErrorIs, Zenon
    <3>7. report'.error = "none" <=> InfoError = "none"
      <4>1. CASE Refuse
        BY <4>1 DEF Refuse
      <4>2. CASE ReportSingle
        BY <4>2 DEF ReportSingle
      <4>3. CASE ReportGrouped
        BY <4>3 DEF ReportGrouped
      <4>4. QED
        BY <3>2, <4>1, <4>2, <4>3
    <3>8. job' \in {[other |-> other] : other \in Others}
      BY <2>1, <3>4
    <3>9. report'.error = "none" <=> IsWhole(job'.other)
      BY <2>1, <3>6, <3>7
    <3>10. QED
      BY <3>3, <3>8, <3>9 DEF OtherInv, IsWhole
  <2>4. QED
    BY <2>2, <2>3
<1>3. QED
  BY <1>1, <1>2

LEMMA InvAgrees == PackedInv /\ OtherInv => ReadersAgree
<1> SUFFICES ASSUME PackedInv, OtherInv, stage = "done"
             PROVE  IF Packed THEN CodeFindsAll(job, file_hunks, found) /\ InfoTellsAll(job, report)
                    ELSE report.error = "none" <=> IsWhole(job.other)
  BY Zenon DEF ReadersAgree
<1>1. "done" # "write" /\ "done" # "parts" /\ "done" # "start" /\ "done" # "info"
  OBVIOUS
<1>2. Packed => CodeFindsAll(job, file_hunks, found) /\ InfoTellsAll(job, report)
  BY <1>1, Zenon DEF PackedInv
<1>3. ~Packed => (report.error = "none" <=> IsWhole(job.other))
  BY <1>1, Zenon DEF OtherInv
<1>4. QED
  BY <1>2, <1>3

\* Stub, dispatcher and execram info find in every file the packer writes what
\* was put there: each payload whole and at an even address, the sizes it was
\* packed with, and in place a spot within its hunk, behind prefix and margin;
\* of other files, info reports on those that have all it looks at
\* (container.zig and mixed_container.zig against runtime.i, mixed.s, info.zig).
THEOREM FilesAreRead ==
  ASSUME PackedFileAssumption
  PROVE  FileSpec => []ReadersAgree
<1>1. FileInit => PackedInv /\ OtherInv
  BY PackedInvInit, OtherInvInit
<1>2. PackedInv /\ OtherInv /\ [FileNext]_file_vars => (PackedInv /\ OtherInv)'
  BY PackedInvStep, OtherInvStep
<1>3. PackedInv /\ OtherInv => ReadersAgree
  BY InvAgrees
<1>4. QED
  BY <1>1, <1>2, <1>3, PTL DEF FileSpec
=============================================================================
