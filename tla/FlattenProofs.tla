---------------------------- MODULE FlattenProofs ----------------------------
(***************************************************************************)
(* Proofs about Flatten, for every executable hunk.zig may have parsed:    *)
(* that the placing loops tile the image with the hunks, that every byte   *)
(* is copied to its place, and that files are accepted and rejected for    *)
(* the right reasons; then that the image Flatten leaves is relocated to   *)
(* what LoadSeg would have loaded.                                         *)
(***************************************************************************)
EXTENDS Flatten, LayoutTheorems

-----------------------------------------------------------------------------
(* The inductive invariant.                                                *)

Loaded  == LoadedHunks(hunks)
Zeroed  == BssHunks(hunks)
At      == MergeBase(hunks)
Checked(h, q) == ValidReloc(hunks, h, hunks[h].relocs[q])

Progress ==
  /\ hunks \in HunkFiles
  /\ pc \in {"size", "place", "place_bss", "copy", "fold", "done", "error"}
  /\ pc \notin {"done", "error"} => i \in 1 .. Len(hunks) + 1

\* The sizes are those of the hunks counted so far.
Sized ==
  /\ pc = "size" => /\ code_data_size = SizeOf(hunks, Preceding(Loaded, i))
                    /\ bss_size = SizeOf(hunks, Preceding(Zeroed, i))
  /\ pc \in {"place", "place_bss", "copy", "fold", "done"} =>
       /\ code_data_size = SizeOf(hunks, Loaded) /\ bss_size = SizeOf(hunks, Zeroed)
       /\ code_data_size + bss_size < Word

\* The hunks placed so far are where they belong.
AreBases(base, S) == DOMAIN base = S /\ \A h \in S : base[h] = At[h]

Placed ==
  /\ pc = "size" => AreBases(merge_base, {})
  /\ pc = "place" => AreBases(merge_base, Preceding(Loaded, i)) /\ offset = SizeOf(hunks, Preceding(Loaded, i))
  /\ pc = "place_bss" => /\ AreBases(merge_base, Loaded \cup Preceding(Zeroed, i))
                         /\ offset = SizeOf(hunks, Loaded) + SizeOf(hunks, Preceding(Zeroed, i))
  /\ pc \in {"copy", "fold", "done"} => AreBases(merge_base, DOMAIN hunks)

\* The hunks copied so far are complete, and the others' places still zero.
Copied ==
  pc \in {"copy", "fold", "done"} =>
    /\ DOMAIN bytes = 0 .. code_data_size - 1
    /\ \A h \in Loaded : \A n \in 0 .. hunks[h].size - 1 :
         bytes[At[h] + n] = IF pc = "copy" /\ h >= i THEN Pad ELSE Origin(hunks, h, n)

\* The relocations folded so far passed every check.
Verified ==
  /\ pc = "fold" =>
       /\ \A h \in Preceding(DOMAIN hunks, i) : \A q \in DOMAIN hunks[h].relocs : Checked(h, q)
       /\ i \in DOMAIN hunks =>
            /\ k \in 1 .. Len(hunks[i].relocs) + 1
            /\ \A q \in 1 .. k - 1 : Checked(i, q)
  /\ pc = "done" => \A h \in DOMAIN hunks : \A q \in DOMAIN hunks[h].relocs : Checked(h, q)
  /\ pc = "error" => error # "none" /\ FaultOf(error)

Merged == Progress /\ Sized /\ Placed /\ Copied /\ Verified

LEMMA FileIsSound ==
  ASSUME hunks \in HunkFiles
  PROVE  /\ IsExecutable(hunks) /\ Len(hunks) \in Nat /\ DOMAIN hunks = 1 .. Len(hunks)
         /\ \A h \in DOMAIN hunks : hunks[h].size \in Nat /\ hunks[h].len \in 0 .. hunks[h].size
         /\ Loaded \in SUBSET DOMAIN hunks /\ Zeroed \in SUBSET DOMAIN hunks
         /\ Loaded \cap Zeroed = {} /\ Loaded \cup Zeroed = DOMAIN hunks
         /\ \A h \in DOMAIN hunks : h \in Zeroed <=> hunks[h].kind = "bss"
         /\ \A h \in DOMAIN hunks : hunks[h].relocs \in Seq(Range(hunks[h].relocs))
<1>1. IsExecutable(hunks)
  BY HunkFilesAssumption DEF IsExecutable
<1>2. \A h \in DOMAIN hunks : h \in Zeroed <=> hunks[h].kind = "bss"
  BY DEF Zeroed, BssHunks
<1>3. \A h \in DOMAIN hunks : hunks[h].relocs \in Seq(Range(hunks[h].relocs))
  BY <1>1 DEF IsExecutable, IsHunk
<1>4. QED
  BY <1>1, <1>2, <1>3, FileFacts, BaseIs DEF Loaded, Zeroed

\* What depends on the file alone stays as it is.
LEMMA FileStays ==
  ASSUME UNCHANGED hunks
  PROVE  Loaded' = Loaded /\ Zeroed' = Zeroed /\ At' = At
BY DEF Loaded, Zeroed, At

LEMMA InitMerged == Init => Merged
<1> SUFFICES ASSUME Init
             PROVE  Merged
  OBVIOUS
<1>1. hunks \in HunkFiles /\ pc = "size" /\ i = 1 /\ code_data_size = 0 /\ bss_size = 0 /\ merge_base = <<>>
  BY DEF Init
<1>2. /\ IsExecutable(hunks) /\ Len(hunks) \in Nat
      /\ Loaded \in SUBSET DOMAIN hunks /\ Zeroed \in SUBSET DOMAIN hunks
  BY <1>1, FileIsSound
<1>3. Progress
  BY <1>1, <1>2 DEF Progress
<1>4. Sized
  <2>1. Preceding(Loaded, 1) = {} /\ Preceding(Zeroed, 1) = {}
    BY <1>2, BeforeFacts
  <2>2. SizeOf(hunks, {}) = 0
    BY <1>2, SizeFacts
  <2>3. QED
    BY <1>1, <2>1, <2>2 DEF Sized
<1>5. Placed
  BY <1>1 DEF Placed, AreBases
<1>6. QED
  BY <1>1, <1>3, <1>4, <1>5 DEF Merged, Copied, Verified

\* One more hunk counted.
LEMMA SizeHunkMerged == Merged /\ SizeHunk => Merged'
<1> SUFFICES ASSUME Merged, SizeHunk
             PROVE  Merged'
  OBVIOUS
<1>1. /\ hunks \in HunkFiles /\ pc = "size" /\ pc' = "size" /\ i \in DOMAIN hunks /\ i' = i + 1
      /\ UNCHANGED <<hunks, merge_base>>
  BY DEF Merged, Progress, SizeHunk, InLoop, Again, image
<1>2. /\ IsExecutable(hunks) /\ Len(hunks) \in Nat /\ DOMAIN hunks = 1 .. Len(hunks)
      /\ Loaded \in SUBSET DOMAIN hunks /\ Zeroed \in SUBSET DOMAIN hunks
      /\ Loaded \cap Zeroed = {} /\ Loaded \cup Zeroed = DOMAIN hunks
      /\ (i \in Zeroed <=> hunks[i].kind = "bss")
      /\ Loaded' = Loaded /\ Zeroed' = Zeroed
  BY <1>1, FileIsSound, FileStays
<1>3. Progress'
  BY <1>1, <1>2 DEF Progress
<1>4. Sized'
  <2>1. code_data_size = SizeOf(hunks, Preceding(Loaded, i)) /\ bss_size = SizeOf(hunks, Preceding(Zeroed, i))
    BY <1>1 DEF Merged, Sized
  <2>2. i \in 1 .. Len(hunks)
    BY <1>1, <1>2
  <2>3. CASE i \in Zeroed
    <3>1. code_data_size' = code_data_size /\ bss_size' = bss_size + hunks[i].size /\ i \notin Loaded
      BY <1>2, <2>3 DEF SizeHunk, IsBss, Hunk
    <3>2. Preceding(Loaded, i + 1) = Preceding(Loaded, i)
      BY <1>2, <2>2, <3>1, BeforeSkips
    <3>3. SizeOf(hunks, Preceding(Zeroed, i + 1)) = SizeOf(hunks, Preceding(Zeroed, i)) + hunks[i].size
      BY <1>2, <2>2, <2>3, BeforeNext
    <3>4. QED
      BY <1>1, <1>2, <2>1, <3>1, <3>2, <3>3 DEF Sized
  <2>4. CASE i \notin Zeroed
    <3>1. bss_size' = bss_size /\ code_data_size' = code_data_size + hunks[i].size /\ i \in Loaded
      BY <1>1, <1>2, <2>4 DEF SizeHunk, IsBss, Hunk
    <3>2. Preceding(Zeroed, i + 1) = Preceding(Zeroed, i)
      BY <1>2, <2>2, <2>4, BeforeSkips
    <3>3. SizeOf(hunks, Preceding(Loaded, i + 1)) = SizeOf(hunks, Preceding(Loaded, i)) + hunks[i].size
      BY <1>2, <2>2, <3>1, BeforeNext
    <3>4. QED
      BY <1>1, <1>2, <2>1, <3>1, <3>2, <3>3 DEF Sized
  <2>5. QED
    BY <2>3, <2>4
<1>5. Placed'
  BY <1>1 DEF Merged, Placed, AreBases
<1>6. QED
  BY <1>1, <1>3, <1>4, <1>5 DEF Merged, Copied, Verified

LEMMA SizesDoneMerged == Merged /\ SizesDone => Merged'
<1> SUFFICES ASSUME Merged, SizesDone
             PROVE  Merged'
  OBVIOUS
<1>1. /\ hunks \in HunkFiles /\ pc = "size" /\ pc' = "place" /\ i' = 1 /\ offset' = 0
      /\ i \in 1 .. Len(hunks) + 1 /\ i \notin DOMAIN hunks /\ ~Overflow
      /\ UNCHANGED <<hunks, merge_base, code_data_size, bss_size>>
  BY DEF Merged, Progress, SizesDone, InLoop, Enter, sizes
<1>2. /\ IsExecutable(hunks) /\ Len(hunks) \in Nat /\ DOMAIN hunks = 1 .. Len(hunks)
      /\ Loaded \in SUBSET DOMAIN hunks /\ Zeroed \in SUBSET DOMAIN hunks
      /\ Loaded' = Loaded /\ Zeroed' = Zeroed
  BY <1>1, FileIsSound, FileStays
<1>3. i = Len(hunks) + 1
  BY <1>1, <1>2
<1>4. code_data_size = SizeOf(hunks, Loaded) /\ bss_size = SizeOf(hunks, Zeroed)
  <2>1. code_data_size = SizeOf(hunks, Preceding(Loaded, i)) /\ bss_size = SizeOf(hunks, Preceding(Zeroed, i))
    BY <1>1 DEF Merged, Sized
  <2>2. Preceding(Loaded, i) = Loaded /\ Preceding(Zeroed, i) = Zeroed
    BY <1>2, <1>3, BeforeFacts
  <2>3. QED
    BY <2>1, <2>2
<1>5. code_data_size + bss_size < Word
  <2>1. code_data_size \in Nat /\ bss_size \in Nat
    BY <1>2, <1>4, SizeFacts
  <2>2. QED
    BY <1>1, <2>1, WordAssumption DEF Overflow
<1>6. Sized'
  BY <1>1, <1>2, <1>4, <1>5 DEF Sized
<1>7. Placed'
  <2>1. Preceding(Loaded, 1) = {} /\ SizeOf(hunks, {}) = 0
    BY <1>2, BeforeFacts, SizeFacts
  <2>2. DOMAIN merge_base = {}
    BY <1>1 DEF Merged, Placed, AreBases
  <2>3. QED
    BY <1>1, <1>2, <2>1, <2>2 DEF Placed, AreBases
<1>8. Progress'
  BY <1>1, <1>2 DEF Progress
<1>9. QED
  BY <1>1, <1>6, <1>7, <1>8 DEF Merged, Copied, Verified

\* One more hunk in its place.
LEMMA PlaceOneMore ==
  ASSUME NEW S, NEW h, AreBases(merge_base, S), merge_base' = Place(h, offset), offset = At[h]
  PROVE  AreBases(merge_base', S \cup {h})
<1>1. DOMAIN merge_base' = S \cup {h}
  BY DEF AreBases, Place, Over
<1>2. ASSUME NEW n \in S \cup {h}
      PROVE  merge_base'[n] = At[n]
  BY DEF AreBases, Place, Over
<1>3. QED
  BY <1>1, <1>2 DEF AreBases

LEMMA PlaceLoadedMerged == Merged /\ PlaceLoaded => Merged'
<1> SUFFICES ASSUME Merged, PlaceLoaded
             PROVE  Merged'
  OBVIOUS
<1>1. /\ hunks \in HunkFiles /\ pc = "place" /\ pc' = "place" /\ i \in DOMAIN hunks /\ i' = i + 1
      /\ UNCHANGED <<hunks, code_data_size, bss_size>>
  BY DEF Merged, Progress, PlaceLoaded, InLoop, Again, sizes
<1>2. /\ IsExecutable(hunks) /\ Len(hunks) \in Nat /\ DOMAIN hunks = 1 .. Len(hunks)
      /\ Loaded \in SUBSET DOMAIN hunks
      /\ Loaded \cap Zeroed = {} /\ Loaded \cup Zeroed = DOMAIN hunks
      /\ (i \in Zeroed <=> hunks[i].kind = "bss")
      /\ Loaded' = Loaded /\ Zeroed' = Zeroed /\ At' = At
  BY <1>1, FileIsSound, FileStays
<1>3. AreBases(merge_base, Preceding(Loaded, i)) /\ offset = SizeOf(hunks, Preceding(Loaded, i))
  BY <1>1 DEF Merged, Placed
<1>4. i \in 1 .. Len(hunks)
  BY <1>1, <1>2
<1>5. AreBases(merge_base', Preceding(Loaded, i + 1)) /\ offset' = SizeOf(hunks, Preceding(Loaded, i + 1))
  <2>1. CASE i \in Loaded
    <3>1. merge_base' = Place(i, offset) /\ offset' = offset + hunks[i].size
      BY <1>1, <1>2, <2>1 DEF PlaceLoaded, IsBss, Hunk
    <3>2. /\ Preceding(Loaded, i + 1) = Preceding(Loaded, i) \cup {i}
          /\ SizeOf(hunks, Preceding(Loaded, i + 1)) = SizeOf(hunks, Preceding(Loaded, i)) + hunks[i].size
      BY <1>2, <1>4, <2>1, BeforeNext
    <3>3. offset = At[i]
      <4>1. At[i] = 0 + SizeOf(hunks, Preceding(Loaded, i))
        BY <1>2, <2>1, BaseIs DEF Loaded, At
      <4>2. SizeOf(hunks, Preceding(Loaded, i)) \in Nat
        BY <1>2, BeforeFacts
      <4>3. QED
        BY <1>3, <4>1, <4>2
    <3>4. AreBases(merge_base', Preceding(Loaded, i) \cup {i})
      BY <1>3, <3>1, <3>3, PlaceOneMore
    <3>5. QED
      BY <1>3, <3>1, <3>2, <3>4
  <2>2. CASE i \notin Loaded
    <3>1. merge_base' = merge_base /\ offset' = offset
      BY <1>1, <1>2, <2>2 DEF PlaceLoaded, IsBss, Hunk
    <3>2. Preceding(Loaded, i + 1) = Preceding(Loaded, i)
      BY <1>2, <1>4, <2>2, BeforeSkips
    <3>3. QED
      BY <1>3, <3>1, <3>2
  <2>3. QED
    BY <2>1, <2>2
<1>6. Placed'
  BY <1>1, <1>2, <1>5 DEF Placed, AreBases
<1>7. Progress' /\ Sized'
  BY <1>1, <1>2 DEF Merged, Progress, Sized
<1>8. QED
  BY <1>1, <1>6, <1>7 DEF Merged, Copied, Verified

LEMMA LoadedPlacedMerged == Merged /\ LoadedPlaced => Merged'
<1> SUFFICES ASSUME Merged, LoadedPlaced
             PROVE  Merged'
  OBVIOUS
<1>1. /\ hunks \in HunkFiles /\ pc = "place" /\ pc' = "place_bss" /\ i' = 1 /\ offset' = code_data_size
      /\ i \in 1 .. Len(hunks) + 1 /\ i \notin DOMAIN hunks
      /\ UNCHANGED <<hunks, merge_base, code_data_size, bss_size>>
  BY DEF Merged, Progress, LoadedPlaced, InLoop, Enter, sizes
<1>2. /\ IsExecutable(hunks) /\ Len(hunks) \in Nat /\ DOMAIN hunks = 1 .. Len(hunks)
      /\ Loaded \in SUBSET DOMAIN hunks /\ Zeroed \in SUBSET DOMAIN hunks
      /\ Loaded' = Loaded /\ Zeroed' = Zeroed /\ At' = At
  BY <1>1, FileIsSound, FileStays
<1>3. i = Len(hunks) + 1
  BY <1>1, <1>2
<1>4. AreBases(merge_base, Loaded)
  <2>1. AreBases(merge_base, Preceding(Loaded, i)) /\ Preceding(Loaded, i) = Loaded
    BY <1>1, <1>2, <1>3, BeforeFacts DEF Merged, Placed
  <2>2. QED
    BY <2>1
<1>5. /\ AreBases(merge_base', Loaded \cup Preceding(Zeroed, 1))
      /\ offset' = SizeOf(hunks, Loaded) + SizeOf(hunks, Preceding(Zeroed, 1))
  <2>1. Preceding(Zeroed, 1) = {} /\ SizeOf(hunks, {}) = 0
    BY <1>2, BeforeFacts, SizeFacts
  <2>2. SizeOf(hunks, Preceding(Zeroed, 1)) = 0 /\ Loaded \cup Preceding(Zeroed, 1) = Loaded
    BY <2>1
  <2>3. offset' = SizeOf(hunks, Loaded) /\ SizeOf(hunks, Loaded) \in Nat
    BY <1>1, <1>2, SizeFacts DEF Merged, Sized
  <2>4. AreBases(merge_base', Loaded \cup Preceding(Zeroed, 1))
    <3>1. AreBases(merge_base', Loaded)
      BY <1>1, <1>4 DEF AreBases
    <3>2. QED
      BY <2>2, <3>1
  <2>5. QED
    BY <2>2, <2>3, <2>4
<1>6. Placed'
  BY <1>1, <1>2, <1>5 DEF Placed, AreBases
<1>7. Progress' /\ Sized'
  BY <1>1, <1>2 DEF Merged, Progress, Sized
<1>8. QED
  BY <1>1, <1>6, <1>7 DEF Merged, Copied, Verified

LEMMA PlaceBssMerged == Merged /\ PlaceBss => Merged'
<1> SUFFICES ASSUME Merged, PlaceBss
             PROVE  Merged'
  OBVIOUS
<1>1. /\ hunks \in HunkFiles /\ pc = "place_bss" /\ pc' = "place_bss" /\ i \in DOMAIN hunks /\ i' = i + 1
      /\ UNCHANGED <<hunks, code_data_size, bss_size>>
  BY DEF Merged, Progress, PlaceBss, InLoop, Again, sizes
<1>2. /\ IsExecutable(hunks) /\ Len(hunks) \in Nat /\ DOMAIN hunks = 1 .. Len(hunks)
      /\ Loaded \in SUBSET DOMAIN hunks /\ Zeroed \in SUBSET DOMAIN hunks
      /\ (i \in Zeroed <=> hunks[i].kind = "bss") /\ hunks[i].size \in Nat
      /\ Loaded' = Loaded /\ Zeroed' = Zeroed /\ At' = At
  BY <1>1, FileIsSound, FileStays
<1> DEFINE placed == Loaded \cup Preceding(Zeroed, i)
<1>3. AreBases(merge_base, placed) /\ offset = SizeOf(hunks, Loaded) + SizeOf(hunks, Preceding(Zeroed, i))
  BY <1>1 DEF Merged, Placed
<1>4. i \in 1 .. Len(hunks)
  BY <1>1, <1>2
<1>5. SizeOf(hunks, Loaded) \in Nat /\ SizeOf(hunks, Preceding(Zeroed, i)) \in Nat
  BY <1>2, SizeFacts, BeforeFacts
<1>6. /\ AreBases(merge_base', Loaded \cup Preceding(Zeroed, i + 1))
      /\ offset' = SizeOf(hunks, Loaded) + SizeOf(hunks, Preceding(Zeroed, i + 1))
  <2>1. CASE i \in Zeroed
    <3>1. merge_base' = Place(i, offset) /\ offset' = offset + hunks[i].size
      BY <1>1, <1>2, <2>1 DEF PlaceBss, IsBss, Hunk
    <3>2. /\ Preceding(Zeroed, i + 1) = Preceding(Zeroed, i) \cup {i}
          /\ SizeOf(hunks, Preceding(Zeroed, i + 1)) = SizeOf(hunks, Preceding(Zeroed, i)) + hunks[i].size
      BY <1>2, <1>4, <2>1, BeforeNext
    <3>3. offset = At[i]
      BY <1>2, <1>3, <2>1, BaseIs DEF Loaded, Zeroed, At
    <3>4. AreBases(merge_base', placed \cup {i})
      <4> HIDE DEF placed
      <4>1. QED
        BY <1>3, <3>1, <3>3, PlaceOneMore
    <3>5. placed \cup {i} = Loaded \cup Preceding(Zeroed, i + 1)
      BY <3>2
    <3>6. offset' = SizeOf(hunks, Loaded) + SizeOf(hunks, Preceding(Zeroed, i + 1))
      BY <1>2, <1>3, <1>5, <3>1, <3>2
    <3>7. QED
      BY <3>4, <3>5, <3>6
  <2>2. CASE i \notin Zeroed
    <3>1. merge_base' = merge_base /\ offset' = offset
      BY <1>1, <1>2, <2>2 DEF PlaceBss, IsBss, Hunk
    <3>2. Preceding(Zeroed, i + 1) = Preceding(Zeroed, i)
      BY <1>2, <1>4, <2>2, BeforeSkips
    <3>3. QED
      BY <1>3, <3>1, <3>2
  <2>3. QED
    BY <2>1, <2>2
<1>7. Placed'
  BY <1>1, <1>2, <1>6 DEF Placed, AreBases
<1>8. Progress' /\ Sized'
  BY <1>1, <1>2 DEF Merged, Progress, Sized
<1>9. QED
  BY <1>1, <1>7, <1>8 DEF Merged, Copied, Verified

\* What BytesInPlace says of the layout, and where a hunk's bytes lie.
LEMMA InPlace ==
  ASSUME hunks \in HunkFiles
  PROVE  /\ Tile(hunks, At, Loaded, 0, SizeOf(hunks, Loaded))
         /\ \A h \in DOMAIN hunks : At[h] \in Nat
         /\ SizeOf(hunks, Loaded) \in Nat
         /\ \A h \in Loaded : \A n \in 0 .. hunks[h].size - 1 : At[h] + n \in 0 .. SizeOf(hunks, Loaded) - 1
         /\ \A g, h \in Loaded : \A m \in 0 .. hunks[g].size - 1 : \A n \in 0 .. hunks[h].size - 1 :
              At[g] + m = At[h] + n => g = h
<1>1. IsExecutable(hunks) /\ Loaded \in SUBSET DOMAIN hunks /\ \A h \in DOMAIN hunks : hunks[h].size \in Nat
  BY FileIsSound
<1>2. Tile(hunks, At, Loaded, 0, SizeOf(hunks, Loaded)) /\ SizeOf(hunks, Loaded) \in Nat /\ \A h \in DOMAIN hunks : At[h] \in Nat
  BY <1>1, MergeTiles DEF At, Loaded
<1>3. \A h \in Loaded : \A n \in 0 .. hunks[h].size - 1 : At[h] + n \in Area(hunks, At, h)
  BY <1>1, <1>2 DEF Area
<1>4. \A h \in Loaded : \A n \in 0 .. hunks[h].size - 1 : At[h] + n \in 0 .. SizeOf(hunks, Loaded) - 1
  BY <1>2, <1>3 DEF Tile
<1>5. \A g, h \in Loaded : \A m \in 0 .. hunks[g].size - 1 : \A n \in 0 .. hunks[h].size - 1 :
         At[g] + m = At[h] + n => g = h
  BY <1>2, <1>3 DEF Tile
<1>6. QED
  BY <1>2, <1>4, <1>5

LEMMA BssPlacedMerged == Merged /\ BssPlaced => Merged'
<1> SUFFICES ASSUME Merged, BssPlaced
             PROVE  Merged'
  OBVIOUS
<1>1. /\ hunks \in HunkFiles /\ pc = "place_bss" /\ pc' = "copy" /\ i' = 1
      /\ i \in 1 .. Len(hunks) + 1 /\ i \notin DOMAIN hunks
      /\ UNCHANGED <<hunks, merge_base, code_data_size, bss_size>>
      /\ bytes' = [a \in 0 .. code_data_size - 1 |-> Pad]
  BY DEF Merged, Progress, BssPlaced, InLoop, Enter, sizes
<1>2. /\ IsExecutable(hunks) /\ Len(hunks) \in Nat /\ DOMAIN hunks = 1 .. Len(hunks)
      /\ Loaded \in SUBSET DOMAIN hunks /\ Zeroed \in SUBSET DOMAIN hunks /\ Loaded \cup Zeroed = DOMAIN hunks
      /\ Loaded' = Loaded /\ Zeroed' = Zeroed /\ At' = At
  BY <1>1, FileIsSound, FileStays
<1>3. AreBases(merge_base, DOMAIN hunks)
  <2>1. i = Len(hunks) + 1
    BY <1>1, <1>2
  <2>2. Preceding(Zeroed, i) = Zeroed
    BY <1>2, <2>1, BeforeFacts
  <2>3. AreBases(merge_base, Loaded \cup Preceding(Zeroed, i))
    BY <1>1 DEF Merged, Placed
  <2>4. Loaded \cup Preceding(Zeroed, i) = DOMAIN hunks
    BY <1>2, <2>2
  <2>5. QED
    BY <2>3, <2>4
<1>4. code_data_size = SizeOf(hunks, Loaded)
  BY <1>1 DEF Merged, Sized
<1>5. Copied'
  <2>1. \A h \in Loaded : \A n \in 0 .. hunks[h].size - 1 : bytes'[At[h] + n] = Pad
    BY <1>1, <1>4, InPlace
  <2>2. \A h \in Loaded : h >= 1
    BY <1>2
  <2>3. QED
    BY <1>1, <1>2, <2>1, <2>2 DEF Copied, Pad
<1>6. Progress' /\ Sized' /\ Placed'
  BY <1>1, <1>2, <1>3 DEF Merged, Progress, Sized, Placed, AreBases
<1>7. QED
  BY <1>1, <1>5, <1>6 DEF Merged, Verified

LEMMA CopyHunkMerged == Merged /\ CopyHunk => Merged'
<1> SUFFICES ASSUME Merged, CopyHunk
             PROVE  Merged'
  OBVIOUS
<1>1. /\ hunks \in HunkFiles /\ pc = "copy" /\ pc' = "copy" /\ i \in DOMAIN hunks /\ i' = i + 1
      /\ UNCHANGED <<hunks, merge_base, code_data_size, bss_size>>
  BY DEF Merged, Progress, CopyHunk, InLoop, Again, sizes
<1>2. /\ IsExecutable(hunks) /\ Len(hunks) \in Nat /\ DOMAIN hunks = 1 .. Len(hunks)
      /\ Loaded \in SUBSET DOMAIN hunks
      /\ Loaded \cap Zeroed = {} /\ Loaded \cup Zeroed = DOMAIN hunks
      /\ (i \in Zeroed <=> hunks[i].kind = "bss")
      /\ \A h \in DOMAIN hunks : hunks[h].size \in Nat /\ hunks[h].len \in 0 .. hunks[h].size
      /\ Loaded' = Loaded /\ Zeroed' = Zeroed /\ At' = At
  BY <1>1, FileIsSound, FileStays
<1>3. /\ DOMAIN bytes = 0 .. code_data_size - 1
      /\ \A h \in Loaded : \A n \in 0 .. hunks[h].size - 1 :
           bytes[At[h] + n] = IF h >= i THEN Pad ELSE Origin(hunks, h, n)
  BY <1>1 DEF Merged, Copied
<1>4. /\ \A h \in DOMAIN hunks : At[h] \in Nat
      /\ \A h \in Loaded : \A n \in 0 .. hunks[h].size - 1 : At[h] + n \in 0 .. code_data_size - 1
      /\ \A g, h \in Loaded : \A m \in 0 .. hunks[g].size - 1 : \A n \in 0 .. hunks[h].size - 1 :
           At[g] + m = At[h] + n => g = h
      /\ code_data_size \in Nat
  <2>1. code_data_size = SizeOf(hunks, Loaded)
    BY <1>1 DEF Merged, Sized
  <2>2. QED
    BY <1>1, <2>1, InPlace
<1>5. DOMAIN bytes' = 0 .. code_data_size - 1
      /\ \A h \in Loaded : \A n \in 0 .. hunks[h].size - 1 :
           bytes'[At[h] + n] = IF h >= i + 1 THEN Pad ELSE Origin(hunks, h, n)
  <2>1. CASE i \in Zeroed
    <3>1. bytes' = bytes
      BY <1>1, <1>2, <2>1 DEF CopyHunk, IsBss, Hunk
    <3>2. \A h \in Loaded : h >= i <=> h >= i + 1
      BY <1>1, <1>2, <2>1
    <3>3. QED
      BY <1>3, <3>1, <3>2
  <2>2. CASE i \in Loaded
    <3> DEFINE base == At[i]
               len == hunks[i].len
               piece == [a \in base .. base + len - 1 |-> <<i, a - base>>]
    <3>1. bytes' = Over(piece, bytes)
      <4>1. merge_base[i] = At[i]
        BY <1>1 DEF Merged, Placed, AreBases
      <4>2. ~IsBss
        BY <1>1, <1>2, <2>2 DEF IsBss, Hunk
      <4>3. QED
        BY <4>1, <4>2 DEF CopyHunk, Hunk
    <3>2. base \in Nat /\ len \in 0 .. hunks[i].size /\ hunks[i].size \in Nat
      BY <1>1, <1>2, <1>4
    <3>3. DOMAIN piece = base .. base + len - 1 /\ \A a \in DOMAIN piece : piece[a] = <<i, a - base>>
      OBVIOUS
    <3> HIDE DEF piece
    <3>4. \A a \in DOMAIN piece : a - base \in 0 .. len - 1 /\ a - base \in 0 .. hunks[i].size - 1 /\ a = base + (a - base)
      BY <3>2, <3>3, SMTT(30)
    <3>5. \A a \in DOMAIN piece : a \in DOMAIN bytes
      <4> SUFFICES ASSUME NEW a \in DOMAIN piece
                   PROVE  a \in DOMAIN bytes
        OBVIOUS
      <4>1. a - base \in 0 .. hunks[i].size - 1 /\ a = base + (a - base)
        BY <3>4
      <4>2. base + (a - base) \in 0 .. code_data_size - 1
        BY <1>4, <2>2, <4>1
      <4>3. QED
        BY <1>3, <4>1, <4>2
    <3>6. DOMAIN bytes' = 0 .. code_data_size - 1
      BY <1>3, <3>1, <3>5 DEF Over
    <3>7. ASSUME NEW h \in Loaded, NEW n \in 0 .. hunks[h].size - 1
          PROVE  bytes'[At[h] + n] = IF h >= i + 1 THEN Pad ELSE Origin(hunks, h, n)
      <4> DEFINE a == At[h] + n
      <4>1. a \in DOMAIN bytes /\ a \in DOMAIN bytes'
        BY <1>3, <1>4, <3>6
      <4>2. bytes'[a] = IF a \in DOMAIN piece THEN piece[a] ELSE bytes[a]
        BY <3>1, <4>1 DEF Over
      <4>3. n \in Nat /\ h \in Nat /\ i \in Nat
        BY <1>1, <1>2
      <4>4. CASE h = i
        <5>1. a \in DOMAIN piece <=> n < len
          BY <3>2, <3>3, <4>3, <4>4, SMTT(30)
        <5>2. n < len => piece[a] = <<i, n>>
          <6>1. a - base = n
            BY <3>2, <4>3, <4>4
          <6>2. QED
            BY <3>3, <5>1, <6>1
        <5>3. bytes[a] = Pad
          BY <1>3, <4>3, <4>4
        <5>4. ~(h >= i + 1)
          BY <4>3, <4>4
        <5>5. QED
          BY <4>2, <4>4, <5>1, <5>2, <5>3, <5>4 DEF Origin
      <4>5. CASE h # i
        <5>1. a \notin DOMAIN piece
          <6> SUFFICES ASSUME a \in DOMAIN piece
                       PROVE  FALSE
            OBVIOUS
          <6> DEFINE m == a - base
          <6>1. m \in 0 .. hunks[i].size - 1 /\ base + m = a
            BY <3>4
          <6> HIDE DEF m
          <6>2. QED
            BY <1>4, <2>2, <4>5, <6>1
        <5>2. h >= i + 1 <=> h >= i
          BY <4>3, <4>5
        <5>3. QED
          BY <1>3, <4>2, <5>1, <5>2
      <4>6. QED
        BY <4>4, <4>5
    <3>8. QED
      BY <3>6, <3>7
  <2>3. QED
    BY <1>1, <1>2, <2>1, <2>2
<1>6. Copied'
  BY <1>1, <1>2, <1>5 DEF Copied, Pad, Origin
<1>7. Progress' /\ Sized' /\ Placed'
  BY <1>1, <1>2 DEF Merged, Progress, Sized, Placed, AreBases
<1>8. QED
  BY <1>1, <1>6, <1>7 DEF Merged, Verified

LEMMA CopyDoneMerged == Merged /\ CopyDone => Merged'
<1> SUFFICES ASSUME Merged, CopyDone
             PROVE  Merged'
  OBVIOUS
<1>1. /\ hunks \in HunkFiles /\ pc = "copy" /\ pc' = "fold" /\ i' = 1 /\ k' = 1
      /\ i \in 1 .. Len(hunks) + 1 /\ i \notin DOMAIN hunks
      /\ UNCHANGED <<hunks, merge_base, code_data_size, bss_size, bytes>>
  BY DEF Merged, Progress, CopyDone, InLoop, Enter, sizes, image
<1>2. /\ IsExecutable(hunks) /\ Len(hunks) \in Nat /\ DOMAIN hunks = 1 .. Len(hunks)
      /\ Loaded \in SUBSET DOMAIN hunks
      /\ Loaded' = Loaded /\ Zeroed' = Zeroed /\ At' = At
      /\ \A h \in DOMAIN hunks : hunks[h].relocs \in Seq(Range(hunks[h].relocs))
  BY <1>1, FileIsSound, FileStays
<1>3. Copied'
  <2>1. \A h \in Loaded : ~(h >= i)
    BY <1>1, <1>2
  <2>2. /\ DOMAIN bytes = 0 .. code_data_size - 1
        /\ \A h \in Loaded : \A n \in 0 .. hunks[h].size - 1 :
             bytes[At[h] + n] = IF h >= i THEN Pad ELSE Origin(hunks, h, n)
    BY <1>1 DEF Merged, Copied
  <2>3. \A h \in Loaded : \A n \in 0 .. hunks[h].size - 1 : bytes[At[h] + n] = Origin(hunks, h, n)
    BY <2>1, <2>2
  <2>4. QED
    BY <1>1, <1>2, <2>2, <2>3 DEF Copied, Origin, Pad
<1>4. Verified'
  <2>1. Preceding(DOMAIN hunks, 1) = {}
    BY <1>2, BeforeFacts
  <2>2. 1 .. 1 - 1 = {}
    OBVIOUS
  <2>3. \A h \in DOMAIN hunks : 1 \in 1 .. Len(hunks[h].relocs) + 1
    BY <1>2
  <2>4. QED
    BY <1>1, <2>1, <2>2, <2>3 DEF Verified
<1>5. Progress' /\ Sized' /\ Placed'
  BY <1>1, <1>2 DEF Merged, Progress, Sized, Placed, AreBases
<1>6. QED
  BY <1>3, <1>4, <1>5 DEF Merged

\* While relocations are folded, the layout and the bytes stay.
LEMMA FoldKeeps ==
  ASSUME Merged, pc = "fold", pc' \in {"fold", "done"},
         UNCHANGED <<hunks, merge_base, code_data_size, bss_size, bytes>>
  PROVE  Sized' /\ Placed' /\ Copied'
<1>1. Loaded' = Loaded /\ Zeroed' = Zeroed /\ At' = At
  BY FileStays
<1>2. Sized' /\ Placed'
  BY <1>1 DEF Merged, Sized, Placed, AreBases
<1>3. Copied'
  BY <1>1 DEF Merged, Copied, Origin, Pad
<1>4. QED
  BY <1>2, <1>3

\* The checks of the loop (flatten.zig:99-107) are those of a valid relocation.
LEMMA PassedIsValid ==
  ASSUME hunks \in HunkFiles, i \in DOMAIN hunks, k \in DOMAIN hunks[i].relocs
  PROVE  /\ RelocError = "none" => Checked(i, k)
         /\ RelocError # "none" => FaultOf(RelocError)
<1>1. /\ Reloc.offset \in Nat /\ Reloc.target \in Nat \ {0} /\ DOMAIN hunks = 1 .. Len(hunks) /\ Len(hunks) \in Nat
      /\ Reloc = hunks[i].relocs[k] /\ Hunk = hunks[i] /\ Reloc \in Range(hunks[i].relocs) /\ hunks[i].len \in Nat
  <2>1. IsExecutable(hunks) /\ DOMAIN hunks = 1 .. Len(hunks) /\ Len(hunks) \in Nat
    BY FileIsSound
  <2>2. Reloc = hunks[i].relocs[k] /\ Hunk = hunks[i] /\ Reloc \in Range(hunks[i].relocs)
    BY DEF Reloc, Hunk, Range
  <2>3. IsReloc(Reloc)
    BY <2>1, <2>2 DEF IsExecutable, IsHunk
  <2>4. hunks[i].len \in Nat
    BY FileIsSound
  <2>5. QED
    BY <2>1, <2>2, <2>3, <2>4 DEF IsReloc
<1>2. ASSUME RelocError = "none"
      PROVE  Checked(i, k)
  BY <1>1, <1>2 DEF RelocError, Checked, ValidReloc, IsBss
<1>3. ASSUME RelocError # "none"
      PROVE  FaultOf(RelocError)
  <2>1. CASE IsBss
    <3>1. RelocError = "UnexpectedBssRelocations"
      BY <2>1 DEF RelocError
    <3>2. \E h \in DOMAIN hunks : \E r \in Range(hunks[h].relocs) : hunks[h].kind = "bss"
      BY <1>1, <2>1 DEF IsBss
    <3>3. QED
      BY <3>1, <3>2 DEF FaultOf, SomeReloc
  <2>2. CASE ~IsBss /\ Reloc.target > Len(hunks)
    <3>1. RelocError = "RelocTargetOutOfRange"
      BY <2>2 DEF RelocError
    <3>2. Reloc.target \notin DOMAIN hunks
      BY <1>1, <2>2
    <3>3. \E h \in DOMAIN hunks : \E r \in Range(hunks[h].relocs) : r.target \notin DOMAIN hunks
      BY <1>1, <3>2
    <3>4. QED
      BY <3>1, <3>3 DEF FaultOf, SomeReloc
  <2>3. CASE ~IsBss /\ ~(Reloc.target > Len(hunks)) /\ Reloc.offset % 2 # 0
    <3>1. RelocError = "RelocOffsetNotEven"
      BY <2>3 DEF RelocError
    <3>2. Reloc.offset % 2 = 1
      BY <1>1, <2>3
    <3>3. \E h \in DOMAIN hunks : \E r \in Range(hunks[h].relocs) : r.offset % 2 = 1
      BY <1>1, <3>2
    <3>4. QED
      BY <3>1, <3>3 DEF FaultOf, SomeReloc
  <2>4. CASE ~IsBss /\ ~(Reloc.target > Len(hunks)) /\ Reloc.offset % 2 = 0
    <3>1. RelocError = "RelocOffsetOutOfRange" /\ Reloc.offset + 4 > hunks[i].len
      BY <1>1, <1>3, <2>4 DEF RelocError
    <3>2. \E h \in DOMAIN hunks : \E r \in Range(hunks[h].relocs) : r.offset + 4 > hunks[h].len
      BY <1>1, <3>1
    <3>3. QED
      BY <3>1, <3>2 DEF FaultOf, SomeReloc
  <2>5. QED
    BY <2>1, <2>2, <2>3, <2>4
<1>4. QED
  BY <1>2, <1>3

LEMMA FoldRelocMerged == Merged /\ FoldReloc => Merged'
<1> SUFFICES ASSUME Merged, FoldReloc
             PROVE  Merged'
  OBVIOUS
<1>1. /\ hunks \in HunkFiles /\ pc = "fold" /\ pc' = "fold" /\ i \in DOMAIN hunks /\ i' = i /\ k' = k + 1
      /\ k \in DOMAIN hunks[i].relocs /\ RelocError = "none"
      /\ UNCHANGED <<hunks, merge_base, code_data_size, bss_size, bytes>>
  BY DEF Merged, Progress, FoldReloc, InLoop, Hunk, sizes
<1>2. hunks[i].relocs \in Seq(Range(hunks[i].relocs))
  BY <1>1, FileIsSound
<1>3. Sized' /\ Placed' /\ Copied'
  BY <1>1, FoldKeeps
<1>4. Checked(i, k)
  BY <1>1, PassedIsValid
<1>5. /\ \A h \in Preceding(DOMAIN hunks, i) : \A q \in DOMAIN hunks[h].relocs : Checked(h, q)
      /\ k \in 1 .. Len(hunks[i].relocs) + 1
      /\ \A q \in 1 .. k - 1 : Checked(i, q)
  BY <1>1 DEF Merged, Verified
<1>6. k + 1 \in 1 .. Len(hunks[i].relocs) + 1 /\ \A q \in 1 .. (k + 1) - 1 : Checked(i, q)
  <2>1. k \in 1 .. Len(hunks[i].relocs) /\ Len(hunks[i].relocs) \in Nat
    BY <1>1, <1>2
  <2>2. \A q \in 1 .. (k + 1) - 1 : q \in 1 .. k - 1 \/ q = k
    BY <2>1
  <2>3. QED
    BY <1>4, <1>5, <2>1, <2>2
<1>7. Verified'
  BY <1>1, <1>5, <1>6 DEF Verified, Checked, ValidReloc
<1>8. Progress'
  BY <1>1 DEF Merged, Progress
<1>9. QED
  BY <1>3, <1>7, <1>8 DEF Merged

LEMMA NextHunkMerged == Merged /\ NextHunk => Merged'
<1> SUFFICES ASSUME Merged, NextHunk
             PROVE  Merged'
  OBVIOUS
<1>1. /\ hunks \in HunkFiles /\ pc = "fold" /\ pc' = "fold" /\ i \in DOMAIN hunks /\ i' = i + 1 /\ k' = 1
      /\ k \notin DOMAIN hunks[i].relocs
      /\ UNCHANGED <<hunks, merge_base, code_data_size, bss_size, bytes>>
  BY DEF Merged, Progress, NextHunk, InLoop, Hunk, sizes, image
<1>2. /\ \A h \in DOMAIN hunks : hunks[h].relocs \in Seq(Range(hunks[h].relocs))
      /\ DOMAIN hunks = 1 .. Len(hunks) /\ Len(hunks) \in Nat
  BY <1>1, FileIsSound
<1>3. Sized' /\ Placed' /\ Copied'
  BY <1>1, FoldKeeps
<1>4. /\ \A h \in Preceding(DOMAIN hunks, i) : \A q \in DOMAIN hunks[h].relocs : Checked(h, q)
      /\ k \in 1 .. Len(hunks[i].relocs) + 1
      /\ \A q \in 1 .. k - 1 : Checked(i, q)
  BY <1>1 DEF Merged, Verified
<1>5. \A q \in DOMAIN hunks[i].relocs : Checked(i, q)
  <2>1. DOMAIN hunks[i].relocs = 1 .. Len(hunks[i].relocs) /\ Len(hunks[i].relocs) \in Nat
    BY <1>1, <1>2
  <2>2. 1 .. k - 1 = DOMAIN hunks[i].relocs
    BY <1>1, <1>4, <2>1
  <2>3. QED
    BY <1>4, <2>2
<1>6. \A h \in Preceding(DOMAIN hunks, i + 1) : \A q \in DOMAIN hunks[h].relocs : Checked(h, q)
  <2>1. \A h \in Preceding(DOMAIN hunks, i + 1) : h \in Preceding(DOMAIN hunks, i) \/ h = i
    BY <1>1, <1>2 DEF Preceding
  <2>2. QED
    BY <1>4, <1>5, <2>1
<1>7. Verified'
  <2>1. \A h \in DOMAIN hunks : 1 \in 1 .. Len(hunks[h].relocs) + 1
    BY <1>2
  <2>2. 1 .. 1 - 1 = {}
    OBVIOUS
  <2>3. QED
    BY <1>1, <1>6, <2>1, <2>2 DEF Verified, Checked, ValidReloc
<1>8. Progress'
  BY <1>1, <1>2 DEF Merged, Progress
<1>9. QED
  BY <1>3, <1>7, <1>8 DEF Merged

LEMMA EncodeMerged == Merged /\ Encode => Merged'
<1> SUFFICES ASSUME Merged, Encode
             PROVE  Merged'
  OBVIOUS
<1>1. /\ hunks \in HunkFiles /\ pc = "fold" /\ pc' = "done" /\ i \in 1 .. Len(hunks) + 1 /\ i \notin DOMAIN hunks
      /\ UNCHANGED <<hunks, merge_base, code_data_size, bss_size, bytes>>
  BY DEF Merged, Progress, Encode, InLoop, sizes
<1>2. IsExecutable(hunks) /\ DOMAIN hunks = 1 .. Len(hunks) /\ Len(hunks) \in Nat
  BY <1>1, FileIsSound
<1>3. Sized' /\ Placed' /\ Copied'
  BY <1>1, FoldKeeps
<1>4. \A h \in DOMAIN hunks : \A q \in DOMAIN hunks[h].relocs : Checked(h, q)
  <2>1. \A h \in DOMAIN hunks : h \in Preceding(DOMAIN hunks, i)
    BY <1>1, <1>2 DEF Preceding
  <2>2. QED
    BY <1>1, <2>1 DEF Merged, Verified
<1>5. Verified'
  BY <1>1, <1>4 DEF Verified, Checked, ValidReloc
<1>6. Progress'
  BY <1>1 DEF Merged, Progress
<1>7. QED
  BY <1>3, <1>5, <1>6 DEF Merged

\* Nothing is returned but an error that is one.
LEMMA FailsMerged == Merged /\ (RejectSize \/ RejectReloc \/ AllocationFails) => Merged'
<1> SUFFICES ASSUME Merged, RejectSize \/ RejectReloc \/ AllocationFails
             PROVE  Merged'
  OBVIOUS
<1> SUFFICES ASSUME NEW e, Fails(e), e # "none", FaultOf(e)
             PROVE  Merged'
  <2>1. CASE RejectSize
    <3>1. /\ hunks \in HunkFiles /\ pc = "size" /\ i \in 1 .. Len(hunks) + 1 /\ i \notin DOMAIN hunks /\ Overflow
      BY <2>1 DEF Merged, Progress, RejectSize, InLoop
    <3>2. /\ IsExecutable(hunks) /\ Len(hunks) \in Nat /\ DOMAIN hunks = 1 .. Len(hunks)
          /\ Loaded \in SUBSET DOMAIN hunks /\ Zeroed \in SUBSET DOMAIN hunks
      BY <3>1, FileIsSound
    <3>3. i = Len(hunks) + 1
      BY <3>1, <3>2
    <3>4. code_data_size = SizeOf(hunks, Loaded) /\ bss_size = SizeOf(hunks, Zeroed)
      <4>1. code_data_size = SizeOf(hunks, Preceding(Loaded, i)) /\ bss_size = SizeOf(hunks, Preceding(Zeroed, i))
        BY <3>1 DEF Merged, Sized
      <4>2. Preceding(Loaded, i) = Loaded /\ Preceding(Zeroed, i) = Zeroed
        BY <3>2, <3>3, BeforeFacts
      <4>3. QED
        BY <4>1, <4>2
    <3>5. SizeOf(hunks, DOMAIN hunks) = code_data_size + bss_size /\ code_data_size \in Nat /\ bss_size \in Nat
      BY <3>2, <3>4, MergeTiles DEF Loaded, Zeroed
    <3>6. FaultOf("Overflow")
      <4>1. SizeOf(hunks, DOMAIN hunks) >= Word
        BY <3>1, <3>5, WordAssumption DEF Overflow
      <4>2. QED
        BY <4>1 DEF FaultOf
    <3>7. Fails("Overflow")
      BY <2>1 DEF RejectSize
    <3>8. QED
      BY <3>6, <3>7
  <2>2. CASE RejectReloc
    <3>1. hunks \in HunkFiles /\ i \in DOMAIN hunks /\ k \in DOMAIN hunks[i].relocs /\ RelocError # "none"
      BY <2>2 DEF Merged, Progress, RejectReloc, InLoop, Hunk
    <3>2. FaultOf(RelocError)
      BY <3>1, PassedIsValid
    <3>3. Fails(RelocError)
      BY <2>2 DEF RejectReloc
    <3>4. QED
      BY <3>1, <3>2, <3>3
  <2>3. CASE AllocationFails
    <3>1. Fails("OutOfMemory")
      BY <2>3 DEF AllocationFails
    <3>2. FaultOf("OutOfMemory")
      BY DEF FaultOf
    <3>3. QED
      BY <3>1, <3>2
  <2>4. QED
    BY <2>1, <2>2, <2>3
<1>1. pc' = "error" /\ error' = e /\ UNCHANGED hunks
  BY DEF Fails
<1>2. FaultOf(e)'
  <2>1. FaultOf(e)
    OBVIOUS
  <2>2. QED
    BY <1>1, <2>1 DEF FaultOf, SomeReloc
<1>3. Verified'
  BY <1>1, <1>2 DEF Verified
<1>4. Progress'
  BY <1>1 DEF Merged, Progress
<1>5. QED
  BY <1>1, <1>3, <1>4 DEF Merged, Sized, Placed, Copied

LEMMA NextMerged == Merged /\ [Next]_vars => Merged'
<1> SUFFICES ASSUME Merged, [Next]_vars
             PROVE  Merged'
  OBVIOUS
<1>1. CASE Work
  BY <1>1, SizeHunkMerged, SizesDoneMerged, PlaceLoadedMerged, LoadedPlacedMerged, PlaceBssMerged, BssPlacedMerged,
     CopyHunkMerged, CopyDoneMerged, FoldRelocMerged, NextHunkMerged, EncodeMerged, FailsMerged DEF Work
<1>2. CASE UNCHANGED vars
  <2>1. UNCHANGED <<hunks, pc, i, k, code_data_size, bss_size, offset, merge_base, bytes, error>>
    BY <1>2 DEF vars, sizes, image
  <2>2. Loaded' = Loaded /\ Zeroed' = Zeroed /\ At' = At
    BY <2>1, FileStays
  <2>3. Progress' /\ Sized' /\ Placed'
    BY <2>1, <2>2 DEF Merged, Progress, Sized, Placed, AreBases
  <2>4. Copied'
    BY <2>1, <2>2 DEF Merged, Copied, Origin, Pad
  <2>5. Verified'
    BY <2>1 DEF Merged, Verified, Checked, ValidReloc, FaultOf, SomeReloc
  <2>6. QED
    BY <2>3, <2>4, <2>5 DEF Merged
<1>3. QED
  BY <1>1, <1>2 DEF Next, Returned

LEMMA MergedInvariant == Spec => []Merged
BY InitMerged, NextMerged, PTL DEF Spec

-----------------------------------------------------------------------------

\* However many hunks an executable has, in whatever order and of whatever
\* sizes, merging gives every byte of the image exactly one owner, and copies
\* every byte to its owner's place (flatten.zig:54-92).
THEOREM HunksTileImage == Spec => []BytesInPlace
<1>1. ASSUME Merged
      PROVE  BytesInPlace
  <2>1. hunks \in HunkFiles
    BY <1>1 DEF Merged, Progress
  <2>2. IsExecutable(hunks) /\ Loaded \in SUBSET DOMAIN hunks /\ Zeroed \in SUBSET DOMAIN hunks
    BY <2>1, FileIsSound
  <2>3. ASSUME pc \in {"copy", "fold", "done"}
        PROVE  /\ DOMAIN merge_base = DOMAIN hunks
               /\ Tile(hunks, merge_base, LoadedHunks(hunks), 0, code_data_size)
               /\ Tile(hunks, merge_base, BssHunks(hunks), code_data_size, code_data_size + bss_size)
    <3>1. AreBases(merge_base, DOMAIN hunks)
      BY <1>1, <2>3 DEF Merged, Placed
    <3>2. code_data_size = SizeOf(hunks, Loaded) /\ bss_size = SizeOf(hunks, Zeroed)
      BY <1>1, <2>3 DEF Merged, Sized
    <3>3. /\ Tile(hunks, At, Loaded, 0, code_data_size)
          /\ Tile(hunks, At, Zeroed, code_data_size, code_data_size + bss_size)
      BY <2>2, <3>2, MergeTiles DEF At, Loaded, Zeroed
    <3>4. \A n \in DOMAIN hunks : Area(hunks, merge_base, n) = Area(hunks, At, n)
      BY <3>1 DEF Area, AreBases
    <3>5. Tile(hunks, merge_base, Loaded, 0, code_data_size)
      <4>1. UNION {Area(hunks, merge_base, n) : n \in Loaded} = UNION {Area(hunks, At, n) : n \in Loaded}
        BY <2>2, <3>4
      <4>2. QED
        BY <2>2, <3>3, <3>4, <4>1 DEF Tile
    <3>6. Tile(hunks, merge_base, Zeroed, code_data_size, code_data_size + bss_size)
      <4>1. UNION {Area(hunks, merge_base, n) : n \in Zeroed} = UNION {Area(hunks, At, n) : n \in Zeroed}
        BY <2>2, <3>4
      <4>2. QED
        BY <2>2, <3>3, <3>4, <4>1 DEF Tile
    <3>7. QED
      BY <3>1, <3>5, <3>6 DEF AreBases, Loaded, Zeroed
  <2>4. ASSUME pc \in {"fold", "done"}
        PROVE  \A h \in LoadedHunks(hunks) : \A n \in 0 .. hunks[h].size - 1 :
                 bytes[MergeBase(hunks)[h] + n] = Origin(hunks, h, n)
    BY <1>1, <2>4 DEF Merged, Copied, Loaded, At
  <2>5. QED
    BY <2>3, <2>4 DEF BytesInPlace
<1>2. QED
  BY <1>1, MergedInvariant, PTL

\* flatten() accepts exactly what it can represent: an image below 2^32 bytes
\* whose relocations all are even longwords of their hunk's data and lead to a
\* hunk; and the error it returns otherwise names a fault the file has.
THEOREM VerdictsAreRight == Spec => []VerdictIsRight
<1>1. ASSUME Merged
      PROVE  VerdictIsRight
  <2>1. pc = "error" => error # "none" /\ FaultOf(error)
    BY <1>1 DEF Merged, Verified
  <2>2. ASSUME pc = "done"
        PROVE  /\ SizeOf(hunks, DOMAIN hunks) < Word
               /\ \A h \in DOMAIN hunks : \A r \in Range(hunks[h].relocs) : ValidReloc(hunks, h, r)
    <3>1. hunks \in HunkFiles
      BY <1>1 DEF Merged, Progress
    <3>2. SizeOf(hunks, DOMAIN hunks) = SizeOf(hunks, Loaded) + SizeOf(hunks, Zeroed)
      BY <3>1, FileIsSound, MergeTiles DEF Loaded, Zeroed
    <3>3. SizeOf(hunks, DOMAIN hunks) < Word
      BY <1>1, <2>2, <3>2 DEF Merged, Sized
    <3>4. \A h \in DOMAIN hunks : \A q \in DOMAIN hunks[h].relocs : ValidReloc(hunks, h, hunks[h].relocs[q])
      BY <1>1, <2>2 DEF Merged, Verified, Checked
    <3>5. QED
      BY <3>3, <3>4 DEF Range
  <2>3. QED
    BY <2>1, <2>2 DEF VerdictIsRight
<1>2. QED
  BY <1>1, MergedInvariant, PTL

-----------------------------------------------------------------------------
(* Sorting.                                                                *)

\* Ascending sorts: the values in order, each as often as before.
LEMMA AscendingSorts ==
  ASSUME NEW s \in Seq(Nat), NEW bound \in Nat, \A m \in DOMAIN s : s[m] < bound
  PROVE  /\ Ascending(s) \in Seq(Nat) /\ Len(Ascending(s)) = Len(s)
         /\ \A n \in DOMAIN Ascending(s) :
              /\ Ascending(s)[n] \in Range(s)
              /\ n > 1 => Ascending(s)[n - 1] <= Ascending(s)[n]
         /\ \A v \in Nat : Cardinality(Places(Ascending(s), v)) = Cardinality(Places(s, v))
<1> DEFINE a == Ascending(s)
           N == Len(s)
<1>1. DOMAIN s = 1 .. N /\ N \in Nat /\ \A m \in DOMAIN s : s[m] \in Nat
  OBVIOUS
<1>2. Range(s) \subseteq Nat
  BY <1>1 DEF Range
<1>3. a = [n \in DOMAIN s |-> CHOOSE v \in Range(s) : HasRank(s, n, v)]
  BY DEF Ascending, HasRank, Under, AtMost
<1>4. \A n \in 1 .. N : a[n] \in Range(s) /\ HasRank(s, n, a[n])
  <2> SUFFICES ASSUME NEW n \in 1 .. N
               PROVE  a[n] \in Range(s) /\ HasRank(s, n, a[n])
    OBVIOUS
  <2>1. \E v \in Range(s) : HasRank(s, n, v)
    BY <1>1, RankIsTaken
  <2>2. a[n] = CHOOSE v \in Range(s) : HasRank(s, n, v)
    BY <1>1, <1>3
  <2>3. QED
    BY <2>1, <2>2
<1>a. DOMAIN a = 1 .. N
  BY <1>1, <1>3
<1>b. a = [n \in 1 .. N |-> a[n]]
  BY <1>1, <1>3
<1> HIDE DEF a, N
<1>5. a \in Seq(Nat) /\ Len(a) = N
  <2>1. \A n \in 1 .. N : a[n] \in Nat
    BY <1>2, <1>4
  <2>2. QED
    BY <1>1, <1>a, <1>b, <2>1, SMTT(30)
<1>6. ASSUME NEW n \in DOMAIN a, n > 1
      PROVE  a[n - 1] <= a[n]
  <2>1. n \in 1 .. N /\ n - 1 \in 1 .. N /\ n \in Nat /\ n - 1 \in Nat /\ n - 1 <= n
    BY <1>1, <1>a, <1>6
  <2>2. a[n] \in Nat /\ a[n - 1] \in Nat /\ HasRank(s, n, a[n]) /\ HasRank(s, n - 1, a[n - 1])
    BY <1>2, <1>4, <2>1
  <2>3. QED
    BY <2>1, <2>2, RankIsUnique
<1>7. ASSUME NEW v \in Nat
      PROVE  Cardinality(Places(a, v)) = Cardinality(Places(s, v))
  <2> DEFINE low == Cardinality(Under(s, v))
             high == Cardinality(AtMost(s, v))
  <2>1. /\ low \in Nat /\ Cardinality(Places(s, v)) \in Nat
        /\ high = low + Cardinality(Places(s, v))
        /\ high <= N
    BY RankFacts DEF N
  <2>2. ASSUME NEW n \in 1 .. N
        PROVE  a[n] = v <=> n \in low + 1 .. high
    <3>1. a[n] \in Nat /\ n \in Nat /\ HasRank(s, n, a[n])
      BY <1>1, <1>2, <1>4
    <3>2. HasRank(s, n, v) <=> low < n /\ n <= high
      BY DEF HasRank
    <3>3. HasRank(s, n, v) => a[n] = v
      <4> SUFFICES ASSUME HasRank(s, n, v)
                   PROVE  a[n] = v
        OBVIOUS
      <4>1. a[n] <= v /\ v <= a[n]
        BY <3>1, RankIsUnique
      <4>2. QED
        BY <3>1, <4>1
    <3>4. a[n] = v => HasRank(s, n, v)
      BY <3>1
    <3> HIDE DEF low, high
    <3>5. low < n /\ n <= high <=> n \in low + 1 .. high
      BY <2>1, <3>1
    <3>6. QED
      BY <3>2, <3>3, <3>4, <3>5
  <2> HIDE DEF low, high
  <2>3. Places(a, v) = low + 1 .. high
    <3>1. Places(a, v) = {n \in 1 .. N : a[n] = v}
      BY <1>a DEF Places
    <3>2. \A n \in low + 1 .. high : n \in 1 .. N
      BY <1>1, <2>1
    <3>3. QED
      BY <2>2, <3>1, <3>2
  <2>4. Cardinality(low + 1 .. high) = high - low
    BY <2>1, IntervalCount
  <2>5. QED
    BY <2>1, <2>3, <2>4
<1>8. QED
  BY <1>4, <1>5, <1>6, <1>7, <1>a DEF a, N

-----------------------------------------------------------------------------
(* The inductive invariant.                                                *)

\* The relocations among S that are at offset o of hunk h, and what each of
\* hunk h's relocations adds.
Here(S, h, o) == {q \in S : hunks[h].relocs[q].offset = o}
Targets(h)    == [q \in DOMAIN hunks[h].relocs |-> At[hunks[h].relocs[q].target]]

\* Relocations S of hunk h, and no others, are in longwords ls and sites ss.
AreFolded(ls, ss, h, S) ==
  \A o \in DOMAIN hunks[h].longs :
    /\ At[h] + o \in DOMAIN ls
    /\ ls[At[h] + o] = (hunks[h].longs[o] + SumFunctionOnSet(Targets(h), Here(S, h, o))) % Word
    /\ Cardinality(Places(ss, At[h] + o)) = Cardinality(Here(S, h, o))

AreCopied(ls, S) ==
  \A h \in S : \A o \in DOMAIN hunks[h].longs :
    At[h] + o \in DOMAIN ls /\ ls[At[h] + o] = hunks[h].longs[o]

AreInImage(ss) == ss \in Seq(Nat) /\ \A n \in DOMAIN ss : ss[n] % 2 = 0 /\ ss[n] < Word

Handled(h) == IF h < i THEN DOMAIN hunks[h].relocs ELSE IF h = i THEN 1 .. k - 1 ELSE {}

Linked ==
  /\ pc \notin {"fold", "done", "error"} => sites = <<>>
  /\ pc = "copy" => AreCopied(longs, Preceding(Loaded, i))
  /\ pc = "fold" => AreInImage(sites) /\ \A h \in Loaded : AreFolded(longs, sites, h, Handled(h))
  /\ pc = "done" => /\ AreSites(sites) /\ reloc_stream = EncodeRelocStream(sites)
                    /\ \A h \in Loaded : AreFolded(longs, sites, h, DOMAIN hunks[h].relocs)

LEMMA HunkFacts ==
  ASSUME hunks \in HunkFiles, NEW h \in DOMAIN hunks
  PROVE  /\ At[h] \in Nat /\ hunks[h].relocs \in Seq(Range(hunks[h].relocs))
         /\ IsFiniteSet(DOMAIN hunks[h].relocs)
         /\ \A q \in DOMAIN hunks[h].relocs : hunks[h].relocs[q].offset \in Nat
         /\ \A o \in DOMAIN hunks[h].longs :
              o \in 0 .. hunks[h].size - 1 /\ hunks[h].longs[o] \in 0 .. Word - 1
         /\ \A q \in DOMAIN hunks[h].relocs : Checked(h, q) =>
              /\ h \in Loaded /\ hunks[h].relocs[q].offset \in DOMAIN hunks[h].longs
              /\ hunks[h].relocs[q].offset % 2 = 0 /\ hunks[h].relocs[q].offset < hunks[h].size
              /\ At[hunks[h].relocs[q].target] \in Nat
<1>1. IsExecutable(hunks) /\ hunks[h].size \in Nat /\ hunks[h].len \in 0 .. hunks[h].size
  BY FileIsSound
<1>2. IsHunk(hunks[h])
  BY <1>1 DEF IsExecutable
<1>3. \A g \in DOMAIN hunks : At[g] \in Nat
  BY InPlace
<1>4. \A q \in DOMAIN hunks[h].relocs : IsReloc(hunks[h].relocs[q])
  BY <1>2 DEF IsHunk
<1>5. hunks[h].relocs \in Seq(Range(hunks[h].relocs))
  BY <1>2 DEF IsHunk
<1>6. IsFiniteSet(DOMAIN hunks[h].relocs)
  <2>1. DOMAIN hunks[h].relocs = 1 .. Len(hunks[h].relocs) /\ Len(hunks[h].relocs) \in Nat
    BY <1>5
  <2>2. QED
    BY <2>1, FirstCount
<1>7. \A o \in DOMAIN hunks[h].longs : o \in 0 .. hunks[h].size - 1 /\ hunks[h].longs[o] \in 0 .. Word - 1
  <2>1. \A o \in DOMAIN hunks[h].longs : o \in Nat /\ o + 4 <= hunks[h].len /\ hunks[h].longs[o] \in 0 .. Word - 1
    BY <1>2 DEF IsHunk
  <2>2. QED
    BY <1>1, <2>1
<1>8. ASSUME NEW q \in DOMAIN hunks[h].relocs, Checked(h, q)
      PROVE  /\ h \in Loaded /\ hunks[h].relocs[q].offset \in DOMAIN hunks[h].longs
             /\ hunks[h].relocs[q].offset % 2 = 0 /\ hunks[h].relocs[q].offset < hunks[h].size
             /\ At[hunks[h].relocs[q].target] \in Nat
  <2>1. /\ hunks[h].kind # "bss" /\ hunks[h].relocs[q].target \in DOMAIN hunks
        /\ hunks[h].relocs[q].offset % 2 = 0 /\ hunks[h].relocs[q].offset + 4 <= hunks[h].len
    BY <1>8 DEF Checked, ValidReloc
  <2>2. h \in Loaded
    BY <2>1, FileIsSound
  <2>3. hunks[h].relocs[q].offset \in DOMAIN hunks[h].longs
    BY <1>2, <2>1 DEF IsHunk
  <2>4. hunks[h].relocs[q].offset < hunks[h].size
    BY <1>1, <1>7, <2>3
  <2>5. QED
    BY <1>3, <2>1, <2>2, <2>3, <2>4
<1>9. QED
  BY <1>3, <1>4, <1>5, <1>6, <1>7, <1>8 DEF IsReloc

\* No two hunks share a longword.
LEMMA OneOwner ==
  ASSUME hunks \in HunkFiles, NEW g \in Loaded, NEW h \in Loaded,
         NEW m \in 0 .. hunks[g].size - 1, NEW n \in 0 .. hunks[h].size - 1,
         At[g] + m = At[h] + n
  PROVE  g = h /\ m = n
<1>1. g = h
  BY InPlace
<1>2. g \in DOMAIN hunks /\ h \in DOMAIN hunks
  BY FileIsSound
<1>3. At[g] \in Nat /\ At[h] \in Nat /\ hunks[g].size \in Nat /\ hunks[h].size \in Nat
  BY <1>2, InPlace, FileIsSound
<1>4. m \in Int /\ n \in Int
  BY <1>3
<1>5. QED
  BY <1>1, <1>3, <1>4

\* What Linked says after a step, in terms of the file before it.
HandledAt(h, n, q) == IF h < n THEN DOMAIN hunks[h].relocs ELSE IF h = n THEN 1 .. q - 1 ELSE {}

LEMMA FoldingLinked ==
  ASSUME UNCHANGED hunks, pc' = "fold", AreInImage(sites'),
         \A h \in Loaded : AreFolded(longs', sites', h, HandledAt(h, i', k'))
  PROVE  Linked'
<1>1. Loaded' = Loaded /\ At' = At
  BY FileStays
<1>2. ASSUME NEW h \in Loaded
      PROVE  AreFolded(longs, sites, h, Handled(h))'
  <2>1. AreFolded(longs', sites', h, HandledAt(h, i', k'))
    OBVIOUS
  <2>2. Handled(h)' = HandledAt(h, i', k')
    BY DEF Handled, HandledAt
  <2>3. Targets(h)' = Targets(h)
    BY <1>1 DEF Targets
  <2>4. ASSUME NEW o PROVE Here(Handled(h), h, o)' = Here(HandledAt(h, i', k'), h, o)
    BY <2>2 DEF Here
  <2>5. QED
    BY <1>1, <2>1, <2>3, <2>4 DEF AreFolded, Places
<1>3. QED
  BY <1>1, <1>2 DEF Linked, AreInImage

LEMMA DoneLinked ==
  ASSUME UNCHANGED hunks, pc' = "done", AreSites(sites'), reloc_stream' = EncodeRelocStream(sites'),
         \A h \in Loaded : AreFolded(longs', sites', h, DOMAIN hunks[h].relocs)
  PROVE  Linked'
<1>1. Loaded' = Loaded /\ At' = At
  BY FileStays
<1>2. ASSUME NEW h \in Loaded
      PROVE  AreFolded(longs, sites, h, DOMAIN hunks[h].relocs)'
  <2>1. AreFolded(longs', sites', h, DOMAIN hunks[h].relocs)
    OBVIOUS
  <2>3. Targets(h)' = Targets(h)
    BY <1>1 DEF Targets
  <2>4. ASSUME NEW o PROVE Here(DOMAIN hunks[h].relocs, h, o)' = Here(DOMAIN hunks[h].relocs, h, o)
    BY DEF Here
  <2>5. QED
    BY <1>1, <2>1, <2>3, <2>4 DEF AreFolded, Places
<1>3. QED
  BY <1>1, <1>2 DEF Linked, AreSites

LEMMA InitLinked == Init => Linked
BY DEF Init, Linked

\* The first passes leave the longwords alone.
LEMMA LayoutLinked ==
  ASSUME Merged, Linked, SizeHunk \/ SizesDone \/ PlaceLoaded \/ LoadedPlaced \/ PlaceBss
  PROVE  Linked'
BY DEF Linked, SizeHunk, SizesDone, PlaceLoaded, LoadedPlaced, PlaceBss, InLoop, Again, Enter, image

LEMMA BssPlacedLinked ==
  ASSUME Merged, Linked, BssPlaced
  PROVE  Linked'
<1>1. hunks \in HunkFiles /\ UNCHANGED <<hunks, sites>> /\ pc = "place_bss" /\ pc' = "copy" /\ i' = 1
  BY DEF Merged, Progress, BssPlaced, Enter
<1>2. Loaded \in SUBSET DOMAIN hunks /\ IsExecutable(hunks) /\ Loaded' = Loaded
  BY <1>1, FileIsSound, FileStays
<1>3. Preceding(Loaded, 1) = {}
  BY <1>2, BeforeFacts
<1>4. AreCopied(longs, Preceding(Loaded, i))'
  BY <1>1, <1>2, <1>3 DEF AreCopied
<1>5. QED
  BY <1>1, <1>4 DEF Linked

\* A hunk's longwords move with its bytes, and leave the other hunks' alone.
LEMMA CopyHunkLinked ==
  ASSUME Merged, Linked, CopyHunk
  PROVE  Linked'
<1>1. /\ hunks \in HunkFiles /\ pc = "copy" /\ pc' = "copy" /\ i \in DOMAIN hunks /\ i' = i + 1
      /\ UNCHANGED <<hunks, merge_base, sites>>
  BY DEF Merged, Progress, CopyHunk, InLoop, Again
<1>2. /\ IsExecutable(hunks) /\ Len(hunks) \in Nat /\ DOMAIN hunks = 1 .. Len(hunks)
      /\ Loaded \in SUBSET DOMAIN hunks
      /\ Loaded \cap Zeroed = {} /\ Loaded \cup Zeroed = DOMAIN hunks
      /\ (i \in Zeroed <=> hunks[i].kind = "bss")
      /\ Loaded' = Loaded /\ Zeroed' = Zeroed /\ At' = At
  BY <1>1, FileIsSound, FileStays
<1>3. AreCopied(longs, Preceding(Loaded, i)) /\ merge_base[i] = At[i]
  BY <1>1 DEF Linked, Merged, Placed, AreBases
<1>4. i \in 1 .. Len(hunks)
  BY <1>1, <1>2
<1>5. AreCopied(longs', Preceding(Loaded, i + 1))
  <2>1. CASE i \in Zeroed
    <3>1. longs' = longs
      BY <1>1, <1>2, <2>1 DEF CopyHunk, IsBss, Hunk
    <3>2. Preceding(Loaded, i + 1) = Preceding(Loaded, i)
      BY <1>2, <1>4, <2>1, BeforeSkips
    <3>3. QED
      BY <1>3, <3>1, <3>2
  <2>2. CASE i \in Loaded
    <3> DEFINE moved == [a \in {At[i] + o : o \in DOMAIN hunks[i].longs} |-> hunks[i].longs[a - At[i]]]
    <3>1. longs' = Over(moved, longs)
      BY <1>1, <1>2, <1>3, <2>2 DEF CopyHunk, IsBss, Hunk, Moved
    <3>2. At[i] \in Nat /\ \A o \in DOMAIN hunks[i].longs : o \in Int
      <4>1. \A o \in DOMAIN hunks[i].longs : o \in 0 .. hunks[i].size - 1
        BY <1>1, HunkFacts
      <4>2. QED
        BY <1>1, <4>1, HunkFacts
    <3>3. ASSUME NEW o \in DOMAIN hunks[i].longs
          PROVE  At[i] + o \in DOMAIN moved /\ moved[At[i] + o] = hunks[i].longs[o]
      <4>1. (At[i] + o) - At[i] = o
        BY <3>2
      <4>2. QED
        BY <4>1
    <3>4. \A a \in DOMAIN moved : \E o \in DOMAIN hunks[i].longs : a = At[i] + o
      OBVIOUS
    <3> HIDE DEF moved
    <3>5. Preceding(Loaded, i + 1) = Preceding(Loaded, i) \cup {i}
      BY <1>2, <1>4, <2>2, BeforeNext
    <3>6. ASSUME NEW h \in Preceding(Loaded, i), NEW o \in DOMAIN hunks[h].longs
          PROVE  At[h] + o \in DOMAIN longs' /\ longs'[At[h] + o] = hunks[h].longs[o]
      <4>1. h \in Loaded /\ h \in DOMAIN hunks /\ h # i
        BY <1>2, <1>4 DEF Preceding
      <4>2. At[h] + o \notin DOMAIN moved
        <5> SUFFICES ASSUME NEW m \in DOMAIN hunks[i].longs, At[h] + o = At[i] + m
                     PROVE  FALSE
          BY <3>4
        <5>1. o \in 0 .. hunks[h].size - 1 /\ m \in 0 .. hunks[i].size - 1
          BY <1>1, <4>1, HunkFacts
        <5>2. QED
          BY <1>1, <2>2, <4>1, <5>1, OneOwner
      <4>3. At[h] + o \in DOMAIN longs /\ longs[At[h] + o] = hunks[h].longs[o]
        BY <1>3 DEF AreCopied
      <4>4. QED
        BY <3>1, <4>2, <4>3 DEF Over
    <3>7. ASSUME NEW o \in DOMAIN hunks[i].longs
          PROVE  At[i] + o \in DOMAIN longs' /\ longs'[At[i] + o] = hunks[i].longs[o]
      BY <3>1, <3>3 DEF Over
    <3>8. QED
      BY <3>5, <3>6, <3>7 DEF AreCopied
  <2>3. QED
    BY <1>1, <1>2, <2>1, <2>2
<1>6. AreCopied(longs, Preceding(Loaded, i))'
  BY <1>1, <1>2, <1>5 DEF AreCopied
<1>7. QED
  BY <1>1, <1>6 DEF Linked, Merged

LEMMA NothingFolded ==
  ASSUME hunks \in HunkFiles, NEW ls, NEW h \in Loaded, AreCopied(ls, {h})
  PROVE  AreFolded(ls, <<>>, h, {})
<1>1. h \in DOMAIN hunks
  BY FileIsSound
<1>2. ASSUME NEW o \in DOMAIN hunks[h].longs
      PROVE  /\ At[h] + o \in DOMAIN ls
             /\ ls[At[h] + o] = (hunks[h].longs[o] + SumFunctionOnSet(Targets(h), Here({}, h, o))) % Word
             /\ Cardinality(Places(<<>>, At[h] + o)) = Cardinality(Here({}, h, o))
  <2>1. At[h] + o \in DOMAIN ls /\ ls[At[h] + o] = hunks[h].longs[o]
    BY DEF AreCopied
  <2>2. Here({}, h, o) = {} /\ Places(<<>>, At[h] + o) = {}
    BY DEF Here, Places
  <2>3. SumFunctionOnSet(Targets(h), {}) = 0
    BY SumEmpty
  <2>4. hunks[h].longs[o] \in 0 .. Word - 1
    BY <1>1, HunkFacts
  <2>5. (hunks[h].longs[o] + 0) % Word = hunks[h].longs[o]
    BY <2>4, WordAssumption
  <2>6. QED
    BY <2>1, <2>2, <2>3, <2>5
<1>3. QED
  BY <1>2 DEF AreFolded

LEMMA CopyDoneLinked ==
  ASSUME Merged, Linked, CopyDone
  PROVE  Linked'
<1>1. /\ hunks \in HunkFiles /\ pc = "copy" /\ pc' = "fold" /\ i' = 1 /\ k' = 1
      /\ i \in 1 .. Len(hunks) + 1 /\ i \notin DOMAIN hunks
      /\ UNCHANGED <<hunks, longs, sites>> /\ sites = <<>>
  BY DEF Merged, Progress, Linked, CopyDone, InLoop, Enter, image
<1>2. IsExecutable(hunks) /\ Len(hunks) \in Nat /\ DOMAIN hunks = 1 .. Len(hunks) /\ Loaded \in SUBSET DOMAIN hunks
  BY <1>1, FileIsSound
<1>3. AreCopied(longs, Loaded)
  <2>1. i = Len(hunks) + 1
    BY <1>1, <1>2
  <2>2. Preceding(Loaded, i) = Loaded
    BY <1>2, <2>1, BeforeFacts
  <2>3. QED
    BY <1>1, <2>2 DEF Linked
<1>4. ASSUME NEW h \in Loaded
      PROVE  AreFolded(longs', sites', h, HandledAt(h, i', k'))
  <2>1. AreCopied(longs, {h})
    BY <1>3 DEF AreCopied
  <2>2. AreFolded(longs, <<>>, h, {})
    BY <1>1, <2>1, NothingFolded
  <2>3. HandledAt(h, 1, 1) = {}
    <3>1. ~(h < 1) /\ 1 .. 1 - 1 = {}
      BY <1>2
    <3>2. QED
      BY <3>1 DEF HandledAt
  <2>4. QED
    BY <1>1, <2>2, <2>3
<1>5. AreInImage(sites')
  BY <1>1 DEF AreInImage
<1>6. QED
  BY <1>1, <1>4, <1>5, FoldingLinked

\* One more relocation of hunk g, at offset at, whose target is at base.
LEMMA OneMoreSite ==
  ASSUME NEW ss \in Seq(Nat), NEW site \in Nat
  PROVE  /\ Cardinality(Places(Append(ss, site), site)) = Cardinality(Places(ss, site)) + 1
         /\ \A v \in Nat : v # site => Places(Append(ss, site), v) = Places(ss, v)
<1> DEFINE t == Append(ss, site)
           N == Len(ss)
<1>1. /\ N \in Nat /\ DOMAIN ss = 1 .. N /\ DOMAIN t = 1 .. N + 1
      /\ \A n \in 1 .. N : t[n] = ss[n]
      /\ t[N + 1] = site
  OBVIOUS
<1> HIDE DEF t, N
<1>2. Places(t, site) = Places(ss, site) \cup {N + 1} /\ N + 1 \notin Places(ss, site)
  <2>1. \A n : n \in 1 .. N + 1 <=> n \in 1 .. N \/ n = N + 1
    BY <1>1
  <2>2. N + 1 \notin 1 .. N
    BY <1>1
  <2>3. QED
    BY <1>1, <2>1, <2>2 DEF Places
<1>3. IsFiniteSet(Places(ss, site)) /\ Cardinality(Places(ss, site)) \in Nat
  BY RankFacts
<1>4. Cardinality(Places(t, site)) = Cardinality(Places(ss, site)) + 1
  BY <1>2, <1>3, FS_AddElement
<1>5. \A v \in Nat : v # site => Places(t, v) = Places(ss, v)
  <2>1. \A n : n \in 1 .. N + 1 <=> n \in 1 .. N \/ n = N + 1
    BY <1>1
  <2>2. QED
    BY <1>1, <2>1 DEF Places
<1>6. QED
  BY <1>4, <1>5 DEF t

LEMMA BasesAligned ==
  ASSUME hunks \in HunkFiles, NEW h \in Loaded
  PROVE  At[h] \in Nat /\ At[h] % 4 = 0
<1> DEFINE S == Preceding(Loaded, h)
           f == [n \in DOMAIN hunks |-> hunks[n].size]
<1>1. IsExecutable(hunks) /\ Loaded \in SUBSET DOMAIN hunks
  BY FileIsSound
<1>2. At[h] = 0 + SizeOf(hunks, S)
  BY <1>1, BaseIs DEF Loaded, At
<1>3. S \in SUBSET DOMAIN hunks
  BY <1>1, BeforeFacts
<1>4. IsFiniteSet(S)
  BY <1>1, <1>3, FileFacts, FS_Subset
<1>5. \A n \in S : f[n] \in Nat /\ f[n] % 4 = 0
  <2>1. \A n \in DOMAIN hunks : hunks[n].size \in Nat /\ hunks[n].size % 4 = 0
    BY <1>1, FileFacts DEF IsExecutable, IsHunk
  <2>2. QED
    BY <1>3, <2>1
<1>6. SizeOf(hunks, S) = SumFunctionOnSet(f, S)
  BY DEF SizeOf
<1> HIDE DEF S, f
<1>7. SumFunctionOnSet(f, S) \in Nat /\ SumFunctionOnSet(f, S) % 4 = 0
  BY <1>4, <1>5, SumOfMultiples
<1>8. QED
  BY <1>2, <1>6, <1>7

LEMMA FoldRelocLinked ==
  ASSUME Merged, Linked, FoldReloc
  PROVE  Linked'
<1> DEFINE r    == hunks[i].relocs[k]
           site == At[i] + r.offset
           T(h) == HandledAt(h, i, k)
<1>1. /\ hunks \in HunkFiles /\ pc = "fold" /\ pc' = "fold" /\ i \in DOMAIN hunks /\ i' = i /\ k' = k + 1
      /\ k \in DOMAIN hunks[i].relocs /\ RelocError = "none" /\ UNCHANGED hunks
      /\ merge_base[i] = At[i] /\ Reloc = r
  BY DEF Merged, Progress, Placed, AreBases, FoldReloc, InLoop, Hunk, Reloc
<1>2. /\ Checked(i, k) /\ \A q \in 1 .. k - 1 : Checked(i, q)
      /\ \A h \in Preceding(DOMAIN hunks, i) : \A q \in DOMAIN hunks[h].relocs : Checked(h, q)
  BY <1>1, PassedIsValid DEF Merged, Verified
<1>3. /\ i \in Loaded /\ r.offset \in DOMAIN hunks[i].longs /\ r.offset % 2 = 0 /\ r.offset < hunks[i].size
      /\ r.offset \in Nat /\ At[i] \in Nat /\ At[r.target] \in Nat /\ r.target \in DOMAIN hunks
      /\ k \in Nat /\ DOMAIN hunks[i].relocs = 1 .. Len(hunks[i].relocs) /\ Len(hunks[i].relocs) \in Nat
  <2>1. hunks[i].relocs \in Seq(Range(hunks[i].relocs))
    BY <1>1, HunkFacts
  <2>2. DOMAIN hunks[i].relocs = 1 .. Len(hunks[i].relocs) /\ Len(hunks[i].relocs) \in Nat
    BY <2>1
  <2>3. r.target \in DOMAIN hunks
    BY <1>2 DEF Checked, ValidReloc
  <2>4. QED
    BY <1>1, <1>2, <2>2, <2>3, HunkFacts, SMTT(30)
<1>4. merge_base[r.target] = At[r.target]
  BY <1>1, <1>3 DEF Merged, Placed, AreBases
<1>5. /\ longs' = [longs EXCEPT ![site] = (@ + At[r.target]) % Word]
      /\ sites' = Append(sites, site)
  BY <1>1, <1>4 DEF FoldReloc
<1>6. AreInImage(sites) /\ \A h \in Loaded : AreFolded(longs, sites, h, T(h))
  BY <1>1 DEF Linked, Handled, HandledAt
<1>7. site \in Nat /\ site % 2 = 0 /\ site < Word
  <2>1. At[i] % 4 = 0
    BY <1>1, <1>3, BasesAligned
  <2>2. site < Word
    <3>1. At[i] + r.offset \in 0 .. SizeOf(hunks, Loaded) - 1
      <4>1. r.offset \in 0 .. hunks[i].size - 1
        BY <1>1, <1>3, HunkFacts
      <4>2. QED
        BY <1>1, <1>3, <4>1, InPlace
    <3>2. SizeOf(hunks, Loaded) \in Nat /\ SizeOf(hunks, Loaded) < Word
      <4>1. code_data_size = SizeOf(hunks, Loaded) /\ bss_size = SizeOf(hunks, Zeroed) /\ code_data_size + bss_size < Word
        BY <1>1 DEF Merged, Sized
      <4>2. SizeOf(hunks, Loaded) \in Nat /\ SizeOf(hunks, Zeroed) \in Nat
        BY <1>1, FileIsSound, SizeFacts
      <4>3. QED
        BY <4>1, <4>2, WordAssumption
    <3>3. QED
      BY <3>1, <3>2, WordAssumption
  <2>3. \A x, y \in Nat : x % 4 = 0 /\ y % 2 = 0 => x + y \in Nat /\ (x + y) % 2 = 0
    OBVIOUS
  <2>4. QED
    BY <1>3, <2>1, <2>2, <2>3
<1>8. AreInImage(sites')
  <2>1. sites \in Seq(Nat) /\ \A n \in DOMAIN sites : sites[n] % 2 = 0 /\ sites[n] < Word
    BY <1>6 DEF AreInImage
  <2> HIDE DEF site
  <2>2. Append(sites, site) \in Seq(Nat)
    BY <1>7, <2>1
  <2>3. \A n \in DOMAIN Append(sites, site) : Append(sites, site)[n] % 2 = 0 /\ Append(sites, site)[n] < Word
    <3> SUFFICES ASSUME NEW n \in DOMAIN Append(sites, site)
                 PROVE  Append(sites, site)[n] % 2 = 0 /\ Append(sites, site)[n] < Word
      OBVIOUS
    <3>1. \/ n \in DOMAIN sites /\ Append(sites, site)[n] = sites[n]
          \/ Append(sites, site)[n] = site
      BY <2>1
    <3>2. QED
      BY <1>7, <2>1, <3>1
  <2>4. QED
    BY <1>5, <2>2, <2>3 DEF AreInImage
<1>9. ASSUME NEW h \in Loaded
      PROVE  AreFolded(longs', sites', h, HandledAt(h, i', k'))
  <2> DEFINE S == T(h)
             next == HandledAt(h, i', k')
             L(ls, s, o) == ls[At[h] + o] = (hunks[h].longs[o] + SumFunctionOnSet(Targets(h), Here(s, h, o))) % Word
             C(ss, s, o) == Cardinality(Places(ss, At[h] + o)) = Cardinality(Here(s, h, o))
  <2>1. h \in DOMAIN hunks /\ At[h] \in Nat /\ h \in Nat /\ i \in Nat
    <3>1. h \in DOMAIN hunks /\ DOMAIN hunks = 1 .. Len(hunks) /\ Len(hunks) \in Nat
      BY <1>1, FileIsSound
    <3>2. At[h] \in Nat
      BY <1>1, <3>1, HunkFacts
    <3>3. QED
      BY <1>1, <3>1, <3>2
  <2>a. i' = i /\ k' = k + 1
    BY <1>1
  <2>2. S \in SUBSET DOMAIN hunks[h].relocs
    <3>1. k \in 1 .. Len(hunks[i].relocs) /\ DOMAIN hunks[i].relocs = 1 .. Len(hunks[i].relocs) /\ Len(hunks[i].relocs) \in Nat
      BY <1>1, <1>3
    <3>2. 1 .. k - 1 \subseteq DOMAIN hunks[i].relocs
      BY <3>1
    <3>3. QED
      BY <2>1, <3>2 DEF HandledAt
  <2>3. ASSUME NEW o \in DOMAIN hunks[h].longs
        PROVE  At[h] + o \in DOMAIN longs /\ L(longs, S, o) /\ C(sites, S, o)
    BY <1>6 DEF AreFolded
  <2>4. next = IF h = i THEN S \cup {k} ELSE S
    <3>1. CASE h = i
      <4>1. S = 1 .. k - 1 /\ next = 1 .. (k + 1) - 1
        BY <2>1, <2>a, <3>1 DEF HandledAt
      <4>2. 1 .. (k + 1) - 1 = (1 .. k - 1) \cup {k}
        <5>1. k \in Nat \ {0}
          BY <1>1, <1>3
        <5>2. QED
          BY <5>1
      <4>3. QED
        BY <3>1, <4>1, <4>2
    <3>2. CASE h # i
      BY <2>1, <2>a, <3>2 DEF HandledAt
    <3>3. QED
      BY <3>1, <3>2
  <2>b. h = i => k \notin S /\ S = 1 .. k - 1
    BY <1>3, <2>1 DEF HandledAt
  <2> HIDE DEF S, next
  <2>5. \A o \in DOMAIN hunks[h].longs : o \in 0 .. hunks[h].size - 1 /\ o \in Nat /\ hunks[h].longs[o] \in Nat
    BY <1>1, <2>1, HunkFacts, FileIsSound, WordAssumption
  <2>6. ASSUME NEW o \in DOMAIN hunks[h].longs
        PROVE  At[h] + o = site <=> h = i /\ o = r.offset
    <3>1. r.offset \in 0 .. hunks[i].size - 1
      BY <1>1, <1>3, HunkFacts
    <3>2. At[h] + o = site => h = i /\ o = r.offset
      BY <1>1, <1>3, <2>5, <3>1, OneOwner, SMTT(30)
    <3>3. QED
      BY <3>2
  <2>7. ASSUME NEW o \in DOMAIN hunks[h].longs, At[h] + o # site
        PROVE  L(longs', next, o) /\ C(sites', next, o)
    <3>1. Here(next, h, o) = Here(S, h, o)
      BY <2>4, <2>6, <2>7 DEF Here
    <3> HIDE DEF site
    <3>2. longs'[At[h] + o] = longs[At[h] + o]
      BY <1>5, <2>3, <2>7
    <3>3. Places(sites', At[h] + o) = Places(sites, At[h] + o)
      <4>1. At[h] + o \in Nat /\ sites \in Seq(Nat)
        BY <1>6, <2>1, <2>5 DEF AreInImage
      <4>2. QED
        BY <1>5, <1>7, <2>7, <4>1, OneMoreSite
    <3>4. QED
      BY <2>3, <3>1, <3>2, <3>3
  <2>8. ASSUME NEW o \in DOMAIN hunks[h].longs, At[h] + o = site
        PROVE  L(longs', next, o) /\ C(sites', next, o)
    <3>1. h = i /\ o = r.offset
      BY <2>6, <2>8
    <3>2. Here(next, h, o) = Here(S, h, o) \cup {k} /\ k \notin Here(S, h, o)
      BY <2>4, <2>b, <3>1 DEF Here
    <3>3. IsFiniteSet(Here(S, h, o)) /\ Here(S, h, o) \in SUBSET DOMAIN hunks[h].relocs
      <4>1. Here(S, h, o) \in SUBSET DOMAIN hunks[h].relocs
        BY <2>2 DEF Here
      <4>2. QED
        BY <1>1, <2>1, <4>1, HunkFacts, FS_Subset
    <3>4. \A q \in Here(S, h, o) \cup {k} : Targets(h)[q] \in Nat
      <4>1. \A q \in Here(S, h, o) : q \in 1 .. k - 1 /\ q \in DOMAIN hunks[i].relocs
        BY <2>b, <3>1, <3>3 DEF Here
      <4>2. \A q \in Here(S, h, o) \cup {k} : q \in DOMAIN hunks[i].relocs /\ Checked(i, q)
        BY <1>1, <1>2, <4>1
      <4>3. \A q \in DOMAIN hunks[i].relocs : Checked(i, q) => At[hunks[i].relocs[q].target] \in Nat
        BY <1>1, HunkFacts
      <4>4. QED
        BY <3>1, <4>2, <4>3 DEF Targets
    <3>5. Targets(h)[k] = At[r.target]
      BY <1>1, <3>1 DEF Targets
    <3> DEFINE sum == SumFunctionOnSet(Targets(h), Here(S, h, o))
               b   == At[r.target]
               l   == hunks[h].longs[o]
    <3>6. SumFunctionOnSet(Targets(h), Here(next, h, o)) = sum + b /\ sum \in Nat
      <4>1. IsNumeric(Targets(h), Here(S, h, o) \cup {k})
        BY <3>4 DEF IsNumeric
      <4>2. SumFunctionOnSet(Targets(h), Here(S, h, o) \cup {k}) = sum + Targets(h)[k]
        BY <3>2, <3>3, <4>1, SumOfOneMore
      <4>3. sum \in Nat
        BY <3>3, <3>4, SumIsNat
      <4>4. QED
        BY <3>2, <3>5, <4>2, <4>3
    <3>7. longs[site] = (l + sum) % Word /\ site \in DOMAIN longs
      BY <2>3, <2>8
    <3>8. longs'[site] = (longs[site] + b) % Word
      <4> HIDE DEF site, b
      <4>1. QED
        BY <1>5, <3>7 DEF b
    <3>9. L(longs', next, o)
      <4>1. l \in Nat /\ b \in Nat
        BY <1>3, <2>5
      <4> HIDE DEF sum, b, l, site
      <4>a. l + sum \in Int /\ b \in Int /\ Word \in Nat \ {0}
        BY <3>6, <4>1, WordAssumption
      <4>2. (((l + sum) % Word) + b) % Word = ((l + sum) + b) % Word
        BY <4>a, WrapsOnce
      <4>3. (l + sum) + b = l + (sum + b)
        BY <3>6, <4>1
      <4>4. longs'[site] = (l + (sum + b)) % Word
        BY <3>7, <3>8, <4>2, <4>3
      <4>5. QED
        BY <2>8, <3>6, <4>4 DEF l
    <3>10. C(sites', next, o)
      <4>1. Cardinality(Here(next, h, o)) = Cardinality(Here(S, h, o)) + 1
        BY <3>2, <3>3, FS_AddElement
      <4>2. sites \in Seq(Nat)
        BY <1>6 DEF AreInImage
      <4>a. sites' = Append(sites, site) /\ site \in Nat
        BY <1>5, <1>7
      <4> HIDE DEF site
      <4>3. Cardinality(Places(sites', site)) = Cardinality(Places(sites, site)) + 1
        <5>1. Cardinality(Places(Append(sites, site), site)) = Cardinality(Places(sites, site)) + 1
          BY <4>2, <4>a, OneMoreSite
        <5>2. QED
          BY <4>a, <5>1
      <4>4. Cardinality(Places(sites, site)) = Cardinality(Here(S, h, o))
        BY <2>3, <2>8
      <4>5. QED
        BY <2>8, <4>1, <4>3, <4>4
    <3>11. QED
      BY <3>9, <3>10
  <2>9. ASSUME NEW o \in DOMAIN hunks[h].longs
        PROVE  At[h] + o \in DOMAIN longs'
    BY <1>5, <2>3
  <2>10. \A o \in DOMAIN hunks[h].longs : At[h] + o \in DOMAIN longs' /\ L(longs', next, o) /\ C(sites', next, o)
    BY <2>7, <2>8, <2>9
  <2>11. QED
    BY <2>10 DEF AreFolded, next
<1>10. QED
  BY <1>1, <1>8, <1>9, FoldingLinked

LEMMA NextHunkLinked ==
  ASSUME Merged, Linked, NextHunk
  PROVE  Linked'
<1>1. /\ hunks \in HunkFiles /\ pc = "fold" /\ pc' = "fold" /\ i \in DOMAIN hunks /\ i' = i + 1 /\ k' = 1
      /\ k \notin DOMAIN hunks[i].relocs
      /\ UNCHANGED <<hunks, longs, sites>>
  BY DEF Merged, Progress, NextHunk, InLoop, Hunk, image
<1>2. DOMAIN hunks = 1 .. Len(hunks) /\ Len(hunks) \in Nat /\ Loaded \in SUBSET DOMAIN hunks
  BY <1>1, FileIsSound
<1>3. 1 .. k - 1 = DOMAIN hunks[i].relocs
  <2>1. hunks[i].relocs \in Seq(Range(hunks[i].relocs))
    BY <1>1, HunkFacts
  <2>2. k \in 1 .. Len(hunks[i].relocs) + 1
    BY <1>1 DEF Merged, Verified
  <2>3. DOMAIN hunks[i].relocs = 1 .. Len(hunks[i].relocs) /\ Len(hunks[i].relocs) \in Nat
    BY <2>1
  <2>4. QED
    BY <1>1, <2>2, <2>3
<1>4. ASSUME NEW h \in Loaded
      PROVE  HandledAt(h, i', k') = Handled(h)
  <2>1. h \in Nat /\ i \in Nat
    BY <1>1, <1>2
  <2>2. 1 .. 1 - 1 = {}
    OBVIOUS
  <2>3. QED
    BY <1>1, <1>3, <2>1, <2>2 DEF HandledAt, Handled
<1>5. AreInImage(sites) /\ \A h \in Loaded : AreFolded(longs, sites, h, Handled(h))
  BY <1>1 DEF Linked
<1>6. AreInImage(sites') /\ \A h \in Loaded : AreFolded(longs', sites', h, HandledAt(h, i', k'))
  BY <1>1, <1>4, <1>5
<1>7. QED
  BY <1>1, <1>6, FoldingLinked

LEMMA EncodeLinked ==
  ASSUME Merged, Linked, Encode
  PROVE  Linked'
<1>1. /\ hunks \in HunkFiles /\ pc = "fold" /\ pc' = "done" /\ i \in 1 .. Len(hunks) + 1 /\ i \notin DOMAIN hunks
      /\ UNCHANGED <<hunks, longs>> /\ sites' = Ascending(sites) /\ reloc_stream' = EncodeRelocStream(sites')
  BY DEF Merged, Progress, Encode, InLoop
<1>2. DOMAIN hunks = 1 .. Len(hunks) /\ Len(hunks) \in Nat /\ Loaded \in SUBSET DOMAIN hunks
  BY <1>1, FileIsSound
<1>3. AreInImage(sites) /\ \A h \in Loaded : AreFolded(longs, sites, h, Handled(h))
  BY <1>1 DEF Linked
<1>4. sites \in Seq(Nat) /\ \A n \in DOMAIN sites : sites[n] % 2 = 0 /\ sites[n] < Word
  BY <1>3 DEF AreInImage
<1>5. /\ Ascending(sites) \in Seq(Nat)
      /\ \A n \in DOMAIN Ascending(sites) :
           /\ Ascending(sites)[n] \in Range(sites)
           /\ n > 1 => Ascending(sites)[n - 1] <= Ascending(sites)[n]
      /\ \A v \in Nat : Cardinality(Places(Ascending(sites), v)) = Cardinality(Places(sites, v))
  BY <1>4, WordAssumption, AscendingSorts
<1>6. AreSites(Ascending(sites))
  <2>1. \A v \in Range(sites) : v \in Nat /\ v % 2 = 0 /\ v < Word
    BY <1>4 DEF Range
  <2>2. Longwords \in Nat /\ Word <= 2 * Longwords /\ Word \in Nat
    BY RadixAssumption, WidthAssumption, WordAssumption DEF Longwords
  <2>3. \A v \in Nat : v < Word => v < 2 * Longwords
    BY <2>2
  <2>4. QED
    BY <1>5, <2>1, <2>3 DEF AreSites
<1>7. ASSUME NEW h \in Loaded
      PROVE  AreFolded(longs', Ascending(sites), h, DOMAIN hunks[h].relocs)
  <2>1. Handled(h) = DOMAIN hunks[h].relocs
    <3>1. h < i
      BY <1>1, <1>2
    <3>2. QED
      BY <3>1 DEF Handled
  <2>2. h \in DOMAIN hunks
    BY <1>2
  <2>3. At[h] \in Nat /\ \A o \in DOMAIN hunks[h].longs : o \in Nat
    <3>1. \A o \in DOMAIN hunks[h].longs : o \in 0 .. hunks[h].size - 1
      BY <1>1, <2>2, HunkFacts
    <3>2. QED
      BY <1>1, <2>2, <3>1, HunkFacts
  <2>4. \A o \in DOMAIN hunks[h].longs :
          Cardinality(Places(Ascending(sites), At[h] + o)) = Cardinality(Places(sites, At[h] + o))
    BY <1>5, <2>3
  <2>5. AreFolded(longs, sites, h, DOMAIN hunks[h].relocs)
    BY <1>3, <2>1
  <2>6. QED
    BY <1>1, <2>4, <2>5 DEF AreFolded
<1>8. QED
  BY <1>1, <1>6, <1>7, DoneLinked

LEMMA NextLinked == Merged /\ Linked /\ [Next]_vars => Linked'
<1> SUFFICES ASSUME Merged, Linked, [Next]_vars
             PROVE  Linked'
  OBVIOUS
<1>1. CASE RejectSize \/ RejectReloc \/ AllocationFails
  <2>1. pc' = "error"
    BY <1>1 DEF RejectSize, RejectReloc, AllocationFails, Fails
  <2>2. QED
    BY <2>1 DEF Linked
<1>2. CASE UNCHANGED vars
  <2>1. UNCHANGED <<hunks, pc, i, k, longs, sites, reloc_stream>>
    BY <1>2 DEF vars, image
  <2>2. Loaded' = Loaded /\ At' = At
    BY <2>1, FileStays
  <2>3. CASE pc = "fold"
    <3>1. AreInImage(sites) /\ \A h \in Loaded : AreFolded(longs, sites, h, Handled(h))
      BY <2>3 DEF Linked
    <3>2. \A h \in Loaded : AreFolded(longs', sites', h, HandledAt(h, i', k'))
      BY <2>1, <3>1 DEF HandledAt, Handled
    <3>3. AreInImage(sites')
      BY <2>1, <3>1
    <3>4. QED
      BY <2>1, <2>3, <3>2, <3>3, FoldingLinked
  <2>4. CASE pc = "done"
    <3>1. /\ AreSites(sites) /\ reloc_stream = EncodeRelocStream(sites)
          /\ \A h \in Loaded : AreFolded(longs, sites, h, DOMAIN hunks[h].relocs)
      BY <2>4 DEF Linked
    <3>2. /\ AreSites(sites') /\ reloc_stream' = EncodeRelocStream(sites')
          /\ \A h \in Loaded : AreFolded(longs', sites', h, DOMAIN hunks[h].relocs)
      BY <2>1, <3>1
    <3>3. QED
      BY <2>1, <2>4, <3>2, DoneLinked
  <2>5. CASE pc \notin {"fold", "done"}
    <3>1. pc = "copy" => AreCopied(longs, Preceding(Loaded, i))'
      BY <2>1, <2>2 DEF Linked, AreCopied, Preceding
    <3>2. pc # "error" => sites' = <<>>
      BY <2>1, <2>5 DEF Linked
    <3>3. QED
      BY <2>1, <2>5, <3>1, <3>2 DEF Linked
  <2>6. QED
    BY <2>3, <2>4, <2>5
<1>3. CASE Work
  BY <1>1, <1>3, LayoutLinked, BssPlacedLinked, CopyHunkLinked, CopyDoneLinked, FoldRelocLinked, NextHunkLinked,
     EncodeLinked DEF Work
<1>4. QED
  BY <1>2, <1>3 DEF Next, Returned

LEMMA LinkedInvariant == Spec => [](Merged /\ Linked)
<1>1. Init => Merged /\ Linked
  BY InitMerged, InitLinked
<1>2. Merged /\ Linked /\ [Next]_vars => (Merged /\ Linked)'
  BY NextMerged, NextLinked
<1>3. QED
  BY <1>1, <1>2, PTL DEF Spec

-----------------------------------------------------------------------------

\* Once loaded anywhere and fixed up by the runtime, every relocated longword
\* holds what LoadSeg would have put there with the hunks placed as they are
\* merged: no relocation is lost, applied twice, given to another longword or
\* another hunk's address, and the stream is made of bytes (flatten.zig:94-160
\* and runtime.i's RelocFixup).
THEOREM PointersAreLoaded == Spec => []PointersAsLoaded
<1>1. ASSUME Merged, Linked
      PROVE  PointersAsLoaded
  <2> SUFFICES ASSUME pc = "done"
               PROVE  /\ Range(reloc_stream) \subseteq 0 .. Radix - 1
                      /\ \A base \in Bases : \A h \in LoadedHunks(hunks) : \A r \in Range(hunks[h].relocs) :
                           Relocated(base)[MergeBase(hunks)[h] + r.offset]
                             = LoadSegLong(hunks, h, r.offset, [j \in DOMAIN hunks |-> base + MergeBase(hunks)[j]])
    BY DEF PointersAsLoaded
  <2>1. /\ hunks \in HunkFiles /\ AreSites(sites) /\ reloc_stream = EncodeRelocStream(sites)
        /\ \A h \in Loaded : AreFolded(longs, sites, h, DOMAIN hunks[h].relocs)
        /\ \A h \in DOMAIN hunks : \A q \in DOMAIN hunks[h].relocs : Checked(h, q)
    BY <1>1 DEF Linked, Merged, Progress, Verified
  <2>2. Range(reloc_stream) \subseteq 0 .. Radix - 1
    <3>1. reloc_stream \in Seq(Bytes)
      BY <2>1, StreamTellsSites
    <3>2. \A n \in DOMAIN reloc_stream : reloc_stream[n] \in Bytes
      BY <3>1
    <3>3. QED
      BY <3>2 DEF Range, Bytes
  <2>3. DecodeRelocStream(reloc_stream) = sites
    BY <2>1, StreamReadsBack
  <2>4. ASSUME NEW base \in Bases, NEW h \in Loaded, NEW r \in Range(hunks[h].relocs)
        PROVE  Relocated(base)[At[h] + r.offset]
                 = LoadSegLong(hunks, h, r.offset, [j \in DOMAIN hunks |-> base + At[j]])
    <3> DEFINE o    == r.offset
               S    == DOMAIN hunks[h].relocs
               here == Here(S, h, o)
               site == At[h] + o
               at   == [j \in DOMAIN hunks |-> base + At[j]]
               l    == hunks[h].longs[o]
               sum  == SumFunctionOnSet(Targets(h), here)
               c    == Cardinality(here)
               added == [q \in here |-> at[hunks[h].relocs[q].target]]
    <3>1. h \in DOMAIN hunks /\ base \in Nat
      BY <2>1, FileIsSound, BasesAssumption
    <3>2. o \in DOMAIN hunks[h].longs
      <4>1. PICK q \in DOMAIN hunks[h].relocs : r = hunks[h].relocs[q]
        BY DEF Range
      <4>2. QED
        BY <2>1, <3>1, <4>1, HunkFacts
    <3>3. l \in Nat
      BY <2>1, <3>1, <3>2, HunkFacts, WordAssumption
    <3>4. IsFiniteSet(here) /\ c \in Nat
      <4>1. here \in SUBSET S
        BY DEF Here
      <4>2. QED
        BY <2>1, <3>1, <4>1, HunkFacts, FS_Subset, FS_CardinalityType
    <3>5. site \in DOMAIN longs /\ longs[site] = (l + sum) % Word /\ Cardinality(Places(sites, site)) = c
      BY <2>1, <3>2 DEF AreFolded
    <3>6. ASSUME NEW q \in here
          PROVE  Targets(h)[q] \in Nat /\ added[q] = base + Targets(h)[q]
      <4>1. q \in DOMAIN hunks[h].relocs /\ Checked(h, q)
        BY <2>1, <3>1 DEF Here
      <4>2. hunks[h].relocs[q].target \in DOMAIN hunks
        BY <4>1 DEF Checked, ValidReloc
      <4>3. At[hunks[h].relocs[q].target] \in Nat
        BY <2>1, <3>1, <4>1, HunkFacts
      <4>4. QED
        BY <4>1, <4>2, <4>3 DEF Targets
    <3>7. Relocated(base)[site] = (longs[site] + base * Cardinality(Places(sites, site))) % Word
      BY <2>3, <3>5 DEF Relocated, Places
    <3>8. LoadSegLong(hunks, h, o, at) = (l + SumFunctionOnSet(added, here)) % Word
      <4>1. {q \in DOMAIN hunks[h].relocs : hunks[h].relocs[q].offset = o} = here
        BY DEF Here
      <4>2. DOMAIN added = here
        OBVIOUS
      <4>3. QED
        BY <4>1, <4>2 DEF LoadSegLong, SumFunction
    <3> HIDE DEF here, site, at, l, added
    <3>9. SumFunctionOnSet(added, here) = SumFunctionOnSet(Targets(h), here) + base * Cardinality(here)
      BY <3>1, <3>4, <3>6, SumOfShifted
    <3>10. sum \in Nat
      BY <3>4, <3>6, SumIsNat
    <3> HIDE DEF sum, c
    <3>11. base * c \in Int /\ l + sum \in Int
      BY <3>1, <3>3, <3>4, <3>10
    <3>12. (((l + sum) % Word) + base * c) % Word = ((l + sum) + base * c) % Word
      BY <3>11, WordAssumption, WrapsOnce
    <3>13. (l + sum) + base * c = l + (sum + base * c)
      BY <3>3, <3>10, <3>11
    <3>14. QED
      BY <3>5, <3>7, <3>8, <3>9, <3>12, <3>13 DEF sum, c, at, site
  <2>5. QED
    BY <2>2, <2>4 DEF Loaded, At
<1>2. QED
  BY <1>1, LinkedInvariant, PTL
=============================================================================
