----------------------------- MODULE HostProofs -----------------------------
(***************************************************************************)
(* Proofs about what execram does with an executable before it compresses  *)
(* it: that HunkFile accepts only files whose hunks are what the next step *)
(* takes for granted, for every file, and reads back whatever hunks were   *)
(* written; that MemoryGroups' second computation of the bases agrees with *)
(* flatten's; and that the relocated longwords of its images come out as   *)
(* LoadSeg would have made them, for every executable hunk.zig may have    *)
(* parsed and wherever the groups are.                                     *)
(***************************************************************************)
EXTENDS MemoryGroups, HunkFile, LayoutTheorems

-----------------------------------------------------------------------------
(* The reader: its inductive invariant.                                    *)

Memory   == {"any", "chip", "fast"}
Entry    == [mem_attr : Memory, size : Nat]

ReadHunk ==
  [kind : {"code", "data", "bss"}, mem_attr : Memory, data : Seq(Longword), size_bytes : Nat,
   allocated_size : Nat, relocs : Seq([target : Longword, offset : Longword])]

HeaderSteps == {"magic", "names", "name", "range"}
BlockSteps == {"trailer", "relocs", "offsets", "symbols", "symbol", "debug", "debug_data"}

\* How many longwords a step takes.
Takes(p, n) ==
  /\ n \in Nat
  /\ p \in {"magic", "names", "sizes", "type", "length", "trailer", "relocs", "symbols", "debug"} => n = 1
  /\ p = "range" => n = 3
  /\ p = "offsets" => n >= 1

\* h is no longer than its allocation and has the bytes it says.
IsSound(h) ==
  /\ h \in ReadHunk
  /\ h.size_bytes <= h.allocated_size
  /\ 4 * Len(h.data) = IF h.kind = "bss" THEN 0 ELSE h.size_bytes

CursorIsSound ==
  /\ file \in Files
  /\ reading \in HeaderSteps \cup {"sizes", "type", "length", "body", "done", "error"} \cup BlockSteps
  /\ pos \in 0 .. Len(file.words)
  /\ Takes(reading, want)

TableIsSound ==
  /\ table_size \in Nat
  /\ table \in Seq(Entry)
  /\ reading \in HeaderSteps => table = <<>>
  /\ reading = "sizes" => Len(table) < table_size
  /\ reading \in {"type", "length", "body"} \cup BlockSteps => Len(table) = table_size

\* What is known of the current hunk when its length, its body and its blocks
\* are read; and of the hunks before it.
HunksSoFar ==
  /\ parsed \in Seq(ReadHunk)
  /\ \A n \in DOMAIN parsed : IsSound(parsed[n])
  /\ reading \in HeaderSteps \cup {"sizes"} => parsed = <<>>
  /\ reading \in {"type", "length", "body"} \cup BlockSteps => Len(parsed) < table_size
  /\ reading = "done" => Len(parsed) = table_size
  /\ reading = "length" => hunk \in ReadHunk /\ hunk.data = <<>> /\ hunk.allocated_size = Planned.size
  /\ reading = "body" => /\ hunk \in ReadHunk
                     /\ hunk.size_bytes <= hunk.allocated_size
                     /\ 4 * want = IF hunk.kind = "bss" THEN 0 ELSE hunk.size_bytes
  /\ reading \in BlockSteps => IsSound(hunk)

ReaderInvariant == CursorIsSound /\ TableIsSound /\ HunksSoFar

LEMMA FileIsSound ==
  ASSUME FilesAssumption, file \in Files
  PROVE  /\ file.words \in Seq(Longword) /\ Len(file.words) \in Nat
         /\ \A n \in 1 .. Len(file.words) : file.words[n] \in Longword
<1>1. file.words \in Seq(Longword)
  BY DEF FilesAssumption, Longword
<1>2. QED
  BY <1>1

\* What is ahead of the cursor is a longword, if it is there at all.
LEMMA AheadIsLongword ==
  ASSUME FilesAssumption, CursorIsSound, NEW p, CanRead(p)
  PROVE  /\ pos + want \in 0 .. Len(file.words)
         /\ \A n \in 1 .. want : Ahead(n) \in Longword
<1>1. pos \in Nat /\ want \in Nat /\ Len(file.words) \in Nat /\ want <= Len(file.words) - pos
  BY FileIsSound DEF CursorIsSound, Takes, CanRead, Left
<1>2. \A n \in 1 .. want : pos + n \in 1 .. Len(file.words)
  BY <1>1
<1>3. QED
  BY <1>1, <1>2, FileIsSound DEF CursorIsSound, Ahead

LEMMA OneAhead ==
  ASSUME FilesAssumption, CursorIsSound, NEW p, CanRead(p),
         p \in {"magic", "names", "sizes", "type", "length", "trailer", "relocs", "symbols", "debug"}
  PROVE  want = 1 /\ Ahead(1) \in Longword
<1>1. want = 1
  BY DEF CursorIsSound, Takes, CanRead
<1>2. QED
  BY <1>1, AheadIsLongword

LEMMA CountIsNat ==
  ASSUME FilesAssumption, CursorIsSound, NEW w \in Longword
  PROVE  Count(w) \in Nat
BY FileIsSound DEF CursorIsSound, Count, Longword

\* Failing changes nothing that was read.
LEMMA FailsInvariant ==
  ASSUME ReaderInvariant, NEW e, ParseFails(e)
  PROVE  ReaderInvariant'
<1>1. reading' = "error" /\ want' = 0 /\ UNCHANGED <<file, pos, table_size, table, hunk, parsed>>
  BY DEF ParseFails
<1>2. CursorIsSound'
  BY <1>1 DEF ReaderInvariant, CursorIsSound, Takes, HeaderSteps, BlockSteps
<1>3. TableIsSound'
  BY <1>1 DEF ReaderInvariant, TableIsSound, HeaderSteps, BlockSteps
<1>4. HunksSoFar'
  BY <1>1 DEF ReaderInvariant, HunksSoFar, HeaderSteps, BlockSteps
<1>5. QED
  BY <1>2, <1>3, <1>4 DEF ReaderInvariant

\* A step that only moves the cursor, to another step of the same part.
LEMMA MovesInvariant ==
  ASSUME FilesAssumption, ReaderInvariant, NEW p, NEW q, NEW n, Takes(q, n),
         Reads(p), Goto(q, n),
         UNCHANGED <<table_size, table, hunk, parsed>>,
         \/ p \in HeaderSteps /\ q \in HeaderSteps
         \/ p \in BlockSteps /\ q \in BlockSteps
  PROVE  ReaderInvariant'
<1>1. /\ reading = p /\ reading' = q /\ want' = n /\ file' = file /\ pos' = pos + want
      /\ pos + want \in 0 .. Len(file.words)
  <2>1. CanRead(p) /\ CursorIsSound
    BY DEF ReaderInvariant, Reads
  <2>2. pos + want \in 0 .. Len(file.words)
    BY <2>1, AheadIsLongword
  <2>3. QED
    BY <2>2 DEF Reads, CanRead, Goto
<1>2. CursorIsSound'
  BY <1>1 DEF ReaderInvariant, CursorIsSound, Takes, HeaderSteps, BlockSteps
<1>3. TableIsSound'
  BY <1>1 DEF ReaderInvariant, TableIsSound, HeaderSteps, BlockSteps
<1>4. HunksSoFar'
  BY <1>1 DEF ReaderInvariant, HunksSoFar, HeaderSteps, BlockSteps
<1>5. QED
  BY <1>2, <1>3, <1>4 DEF ReaderInvariant

-----------------------------------------------------------------------------
(* The reader: its steps.                                                  *)

LEMMA InitReader == ASSUME FilesAssumption, ParseInit PROVE ReaderInvariant
<1>1. CursorIsSound
  BY FileIsSound DEF ParseInit, CursorIsSound, Takes, HeaderSteps, BlockSteps
<1>2. TableIsSound
  BY DEF ParseInit, TableIsSound, HeaderSteps, BlockSteps
<1>3. HunksSoFar
  BY DEF ParseInit, HunksSoFar, HeaderSteps, BlockSteps
<1>4. QED
  BY <1>1, <1>2, <1>3 DEF ReaderInvariant

LEMMA HeaderInvariant ==
  ASSUME FilesAssumption, ReaderInvariant,
         ReadMagic \/ ReadNameLength \/ SkipName
  PROVE  ReaderInvariant'
<1>1. CASE ReadMagic
  <2>1. Reads("magic") /\ Goto("names", 1) /\ UNCHANGED <<table_size, table, hunk, parsed>>
    BY <1>1 DEF ReadMagic
  <2>2. QED
    BY <2>1, MovesInvariant DEF HeaderSteps, Takes
<1>2. CASE ReadNameLength
  <2>1. /\ Reads("names") /\ UNCHANGED <<table_size, table, hunk, parsed>>
        /\ Goto("range", 3) \/ Goto("name", Count(Ahead(1)))
    BY <1>2 DEF ReadNameLength
  <2>2. CASE Goto("range", 3)
    BY <2>1, <2>2, MovesInvariant DEF HeaderSteps, Takes
  <2>3. CASE Goto("name", Count(Ahead(1)))
    <3>1. Count(Ahead(1)) \in Nat
      BY <2>1, OneAhead, CountIsNat DEF ReaderInvariant, Reads
    <3>2. QED
      BY <2>1, <2>3, <3>1, MovesInvariant DEF HeaderSteps, Takes
  <2>4. QED
    BY <2>1, <2>2, <2>3
<1>3. CASE SkipName
  <2>1. Reads("name") /\ Goto("names", 1) /\ UNCHANGED <<table_size, table, hunk, parsed>>
    BY <1>3 DEF SkipName
  <2>2. QED
    BY <2>1, MovesInvariant DEF HeaderSteps, Takes
<1>4. QED
  BY <1>1, <1>2, <1>3

\* What a step that reads does to the cursor.
LEMMA ReadsCursor ==
  ASSUME FilesAssumption, CursorIsSound, NEW p, NEW q, NEW n, Takes(q, n),
         q \in HeaderSteps \cup {"sizes", "type", "length", "body", "done", "error"} \cup BlockSteps,
         Reads(p), Goto(q, n)
  PROVE  CursorIsSound' /\ reading = p /\ reading' = q /\ want' = n
<1>1. CanRead(p)
  BY DEF Reads
<1>2. pos + want \in 0 .. Len(file.words)
  BY <1>1, AheadIsLongword
<1>3. QED
  BY <1>2 DEF Reads, CanRead, Goto, CursorIsSound

LEMMA RangeInvariant ==
  ASSUME FilesAssumption, ReaderInvariant, ReadRange
  PROVE  ReaderInvariant'
<1>1. /\ Reads("range") /\ WholeRange /\ table_size' = Count(Ahead(1))
      /\ UNCHANGED <<table, hunk, parsed>>
      /\ CursorIsSound /\ TableIsSound /\ HunksSoFar
  BY DEF ReadRange, ReaderInvariant
<1>2. CanRead("range") /\ reading = "range" /\ want = 3
  BY <1>1 DEF Reads, CanRead, CursorIsSound, Takes
<1>3. Ahead(1) \in Longword
  BY <1>1, <1>2, AheadIsLongword
<1>4. Count(Ahead(1)) \in Nat
  BY <1>1, <1>3, CountIsNat
<1>5. table = <<>> /\ parsed = <<>>
  BY <1>1, <1>2 DEF TableIsSound, HunksSoFar, HeaderSteps
<1>6. CASE Ahead(1) = W(0)
  <2>1. Goto("done", 0)
    BY <1>6 DEF ReadRange
  <2>2. CursorIsSound' /\ reading' = "done"
    BY <1>1, <2>1, ReadsCursor DEF Takes
  <2>3. table_size' = 0
    BY <1>1, <1>6 DEF Count, W
  <2>4. TableIsSound'
    BY <1>1, <1>5, <2>2, <2>3 DEF TableIsSound, HeaderSteps, BlockSteps
  <2>5. HunksSoFar'
    BY <1>1, <1>5, <2>2, <2>3 DEF HunksSoFar, HeaderSteps, BlockSteps
  <2>6. QED
    BY <2>2, <2>4, <2>5 DEF ReaderInvariant
<1>7. CASE Ahead(1) # W(0)
  <2>1. Goto("sizes", 1)
    BY <1>7 DEF ReadRange
  <2>2. CursorIsSound' /\ reading' = "sizes"
    BY <1>1, <2>1, ReadsCursor DEF Takes
  <2>3. table_size' \in Nat /\ table_size' > 0
    <3>1. Ahead(1).value > 0
      BY <1>1, <1>7 DEF WholeRange
    <3>2. Len(file.words) \in Nat
      BY <1>1, FileIsSound DEF CursorIsSound
    <3>3. QED
      BY <1>1, <1>3, <1>4, <3>1, <3>2 DEF Count, Longword
  <2>4. TableIsSound'
    BY <1>1, <1>5, <2>2, <2>3 DEF TableIsSound, HeaderSteps, BlockSteps
  <2>5. HunksSoFar'
    BY <1>1, <1>5, <2>2, <2>3 DEF HunksSoFar, HeaderSteps, BlockSteps
  <2>6. QED
    BY <2>2, <2>4, <2>5 DEF ReaderInvariant
<1>8. QED
  BY <1>6, <1>7

LEMMA SizeInvariant ==
  ASSUME FilesAssumption, ReaderInvariant, ReadSize
  PROVE  ReaderInvariant'
<1> DEFINE entry == [mem_attr |-> MemAttrs[Ahead(1).flags + 1], size |-> 4 * Ahead(1).value]
<1>1. /\ Reads("sizes") /\ Ahead(1).flags # 3
      /\ table' = Append(table, entry)
      /\ UNCHANGED <<table_size, hunk, parsed>>
      /\ CursorIsSound /\ TableIsSound /\ HunksSoFar
  BY DEF ReadSize, ReaderInvariant
<1>2. CanRead("sizes") /\ reading = "sizes"
  BY <1>1 DEF Reads, CanRead
<1>3. Ahead(1) \in Longword
  BY <1>1, <1>2, OneAhead
<1>4. entry \in Entry
  <2>1. Ahead(1).flags \in {0, 1, 2} /\ Ahead(1).value \in Nat
    BY <1>1, <1>3 DEF Longword
  <2>2. MemAttrs[Ahead(1).flags + 1] \in Memory
    BY <2>1 DEF MemAttrs, Memory
  <2>3. QED
    BY <2>1, <2>2 DEF Entry
<1> HIDE DEF entry
<1>5. table \in Seq(Entry) /\ Len(table) < table_size /\ table_size \in Nat /\ parsed = <<>>
  BY <1>1, <1>2 DEF TableIsSound, HunksSoFar
<1>6. table' \in Seq(Entry) /\ Len(table') = Len(table) + 1 /\ Len(table) \in Nat
  BY <1>1, <1>4, <1>5
<1>7. CASE Len(table') < table_size
  <2>1. Goto("sizes", 1)
    BY <1>7 DEF ReadSize
  <2>2. CursorIsSound' /\ reading' = "sizes"
    BY <1>1, <2>1, ReadsCursor DEF Takes
  <2>3. TableIsSound'
    BY <1>1, <1>5, <1>6, <1>7, <2>2 DEF TableIsSound, HeaderSteps, BlockSteps
  <2>4. HunksSoFar'
    BY <1>1, <1>5, <2>2 DEF HunksSoFar, HeaderSteps, BlockSteps
  <2>5. QED
    BY <2>2, <2>3, <2>4 DEF ReaderInvariant
<1>8. CASE ~(Len(table') < table_size)
  <2>1. Goto("type", 1)
    BY <1>8 DEF ReadSize
  <2>2. CursorIsSound' /\ reading' = "type"
    BY <1>1, <2>1, ReadsCursor DEF Takes
  <2>3. TableIsSound'
    BY <1>1, <1>5, <1>6, <1>8, <2>2 DEF TableIsSound, HeaderSteps, BlockSteps
  <2>4. HunksSoFar'
    BY <1>1, <1>5, <2>2 DEF HunksSoFar, HeaderSteps, BlockSteps
  <2>5. QED
    BY <2>2, <2>3, <2>4 DEF ReaderInvariant
<1>9. QED
  BY <1>7, <1>8

\* While hunks are read, there is a table entry for the next.
LEMMA PlannedIsEntry ==
  ASSUME ReaderInvariant, reading \in {"type", "length", "body"} \cup BlockSteps
  PROVE  Planned \in Entry /\ table \in Seq(Entry) /\ Len(parsed) \in Nat /\ Len(parsed) < table_size
<1>1. table \in Seq(Entry) /\ Len(table) = table_size /\ parsed \in Seq(ReadHunk) /\ Len(parsed) < table_size
  BY DEF ReaderInvariant, TableIsSound, HunksSoFar
<1>2. Len(parsed) + 1 \in 1 .. Len(table)
  BY <1>1
<1>3. QED
  BY <1>1, <1>2 DEF Planned

LEMMA TypeInvariant ==
  ASSUME FilesAssumption, ReaderInvariant, ReadType
  PROVE  ReaderInvariant'
<1> DEFINE kind == Kinds[Ahead(1).value]
<1>1. /\ Reads("type") /\ Ahead(1).value \in DOMAIN Kinds /\ Goto("length", 1)
      /\ hunk' = [NoHunk EXCEPT !.kind = kind, !.mem_attr = Planned.mem_attr,
                                       !.allocated_size = Planned.size]
      /\ UNCHANGED <<table_size, table, parsed>>
      /\ CursorIsSound /\ TableIsSound /\ HunksSoFar
  BY DEF ReadType, ReaderInvariant
<1>2. CursorIsSound' /\ reading = "type" /\ reading' = "length"
  BY <1>1, ReadsCursor DEF Takes
<1>3. kind \in {"code", "data", "bss"}
  BY <1>1 DEF Kinds
<1> HIDE DEF kind
<1>4. Planned \in Entry /\ Planned' = Planned
  BY <1>1, <1>2, PlannedIsEntry DEF Planned
<1>5. hunk' = [kind |-> kind, mem_attr |-> Planned.mem_attr, data |-> <<>>, size_bytes |-> 0,
               allocated_size |-> Planned.size, relocs |-> <<>>]
  BY <1>1 DEF NoHunk
<1>6. hunk' \in ReadHunk /\ hunk'.data = <<>> /\ hunk'.allocated_size = Planned'.size
  BY <1>3, <1>4, <1>5 DEF ReadHunk, Entry
<1>7. TableIsSound'
  BY <1>1, <1>2 DEF TableIsSound, HeaderSteps, BlockSteps
<1>8. HunksSoFar'
  BY <1>1, <1>2, <1>6 DEF HunksSoFar, HeaderSteps, BlockSteps
<1>9. QED
  BY <1>2, <1>7, <1>8 DEF ReaderInvariant

LEMMA LengthInvariant ==
  ASSUME FilesAssumption, ReaderInvariant, ReadLength
  PROVE  ReaderInvariant'
<1> DEFINE l == Ahead(1).value
<1>1. /\ Reads("length") /\ 4 * l <= Planned.size
      /\ hunk' = [hunk EXCEPT !.size_bytes = 4 * l]
      /\ Goto("body", IF hunk.kind = "bss" THEN 0 ELSE l)
      /\ UNCHANGED <<table_size, table, parsed>>
      /\ CursorIsSound /\ TableIsSound /\ HunksSoFar
  BY DEF ReadLength, ReaderInvariant
<1>2. l \in Nat
  <2>1. CanRead("length")
    BY <1>1 DEF Reads
  <2>2. QED
    BY <1>1, <2>1, OneAhead DEF Longword
<1> HIDE DEF l
<1>3. CursorIsSound' /\ reading = "length" /\ reading' = "body" /\ want' = IF hunk.kind = "bss" THEN 0 ELSE l
  BY <1>1, <1>2, ReadsCursor DEF Takes
<1>4. hunk \in ReadHunk /\ hunk.data = <<>> /\ hunk.allocated_size = Planned.size
  BY <1>1, <1>3 DEF HunksSoFar
<1>5. hunk' \in ReadHunk /\ hunk'.size_bytes = 4 * l /\ hunk'.allocated_size = hunk.allocated_size /\ hunk'.kind = hunk.kind
  <2>1. hunk' = [hunk EXCEPT !.size_bytes = 4 * l] /\ 4 * l \in Nat
    BY <1>1, <1>2
  <2>2. QED
    BY <1>4, <2>1 DEF ReadHunk
<1>6. /\ hunk'.size_bytes <= hunk'.allocated_size
      /\ 4 * want' = IF hunk'.kind = "bss" THEN 0 ELSE hunk'.size_bytes
  BY <1>1, <1>2, <1>3, <1>4, <1>5
<1>7. TableIsSound'
  BY <1>1, <1>3 DEF TableIsSound, HeaderSteps, BlockSteps
<1>8. HunksSoFar'
  BY <1>1, <1>3, <1>5, <1>6 DEF HunksSoFar, HeaderSteps, BlockSteps
<1>9. QED
  BY <1>3, <1>7, <1>8 DEF ReaderInvariant

LEMMA BodyInvariant ==
  ASSUME FilesAssumption, ReaderInvariant, ReadBody
  PROVE  ReaderInvariant'
<1> DEFINE data == SubSeq(file.words, pos + 1, pos + want)
<1>1. /\ Reads("body") /\ hunk' = [hunk EXCEPT !.data = data] /\ Goto("trailer", 1)
      /\ UNCHANGED <<table_size, table, parsed>>
      /\ CursorIsSound /\ TableIsSound /\ HunksSoFar
  BY DEF ReadBody, ReaderInvariant
<1>2. CursorIsSound' /\ reading = "body" /\ reading' = "trailer"
  BY <1>1, ReadsCursor DEF Takes, BlockSteps
<1>3. data \in Seq(Longword) /\ Len(data) = want
  <2>1. CanRead("body")
    BY <1>1 DEF Reads
  <2>2. pos + want \in 0 .. Len(file.words) /\ pos \in Nat /\ want \in Nat
    BY <1>1, <2>1, AheadIsLongword DEF CursorIsSound, Takes
  <2>3. file.words \in Seq(Longword)
    BY <1>1, FileIsSound DEF CursorIsSound
  <2>4. QED
    BY <2>2, <2>3
<1> HIDE DEF data
<1>4. /\ hunk \in ReadHunk /\ hunk.size_bytes <= hunk.allocated_size
      /\ 4 * want = IF hunk.kind = "bss" THEN 0 ELSE hunk.size_bytes
  BY <1>1, <1>2 DEF HunksSoFar
<1>5. IsSound(hunk')
  BY <1>1, <1>3, <1>4 DEF ReadHunk, IsSound
<1>6. TableIsSound'
  BY <1>1, <1>2 DEF TableIsSound, HeaderSteps, BlockSteps
<1>7. HunksSoFar'
  BY <1>1, <1>2, <1>5 DEF HunksSoFar, HeaderSteps, BlockSteps, IsSound
<1>8. QED
  BY <1>2, <1>6, <1>7 DEF ReaderInvariant

\* Blocks that are skipped, and the ends of relocations.
LEMMA BlockInvariant ==
  ASSUME FilesAssumption, ReaderInvariant,
         \/ ReadBlock \/ ReadRelocCount \/ ReadSymbolLength
         \/ SkipSymbol \/ ReadDebugLength \/ SkipDebug
  PROVE  ReaderInvariant'
<1> DEFINE count == Count(Ahead(1))
<1>a. ASSUME NEW p \in {"relocs", "symbols", "debug"}, Reads(p)
      PROVE  count \in Nat
  BY <1>a, OneAhead, CountIsNat DEF ReaderInvariant, Reads
<1> HIDE DEF count
<1>1. CASE ReadBlock
  <2> DEFINE block == Blocks[Ahead(1).value]
  <2>1. /\ Reads("trailer") /\ Ahead(1).value \in DOMAIN Blocks
        /\ Goto(block, 1) /\ UNCHANGED <<table_size, table, hunk, parsed>>
    BY <1>1 DEF ReadBlock
  <2>2. block \in {"relocs", "symbols", "debug"}
    BY <2>1 DEF Blocks
  <2> HIDE DEF block
  <2>3. block \in BlockSteps /\ "trailer" \in BlockSteps /\ Takes(block, 1)
    BY <2>2 DEF BlockSteps, Takes
  <2>4. QED
    BY <2>1, <2>3, MovesInvariant
<1>2. CASE ReadRelocCount
  <2>1. /\ Reads("relocs") /\ UNCHANGED <<table_size, table, hunk, parsed>>
        /\ Goto("trailer", 1) \/ Goto("offsets", 1 + count)
    BY <1>2 DEF ReadRelocCount, count
  <2>2. 1 + count \in Nat /\ 1 + count >= 1
    BY <1>a, <2>1
  <2>3. Takes("offsets", 1 + count)
    BY <2>2 DEF Takes
  <2>4. QED
    BY <2>1, <2>3, MovesInvariant DEF BlockSteps, Takes
<1>3. CASE ReadSymbolLength
  <2>1. /\ Reads("symbols") /\ UNCHANGED <<table_size, table, hunk, parsed>>
        /\ Goto("trailer", 1) \/ Goto("symbol", count + 1)
    BY <1>3 DEF ReadSymbolLength, count
  <2>2. count + 1 \in Nat
    BY <1>a, <2>1
  <2>3. Takes("symbol", count + 1)
    BY <2>2 DEF Takes
  <2>4. QED
    BY <2>1, <2>3, MovesInvariant DEF BlockSteps, Takes
<1>4. CASE SkipSymbol
  <2>1. Reads("symbol") /\ Goto("symbols", 1) /\ UNCHANGED <<table_size, table, hunk, parsed>>
    BY <1>4 DEF SkipSymbol
  <2>2. QED
    BY <2>1, MovesInvariant DEF BlockSteps, Takes
<1>5. CASE ReadDebugLength
  <2>1. Reads("debug") /\ Goto("debug_data", count) /\ UNCHANGED <<table_size, table, hunk, parsed>>
    BY <1>5 DEF ReadDebugLength, count
  <2>2. count \in Nat
    BY <1>a, <2>1
  <2>3. Takes("debug_data", count)
    BY <2>2 DEF Takes
  <2>4. QED
    BY <2>1, <2>3, MovesInvariant DEF BlockSteps
<1>6. CASE SkipDebug
  <2>1. Reads("debug_data") /\ Goto("trailer", 1) /\ UNCHANGED <<table_size, table, hunk, parsed>>
    BY <1>6 DEF SkipDebug
  <2>2. QED
    BY <2>1, MovesInvariant DEF BlockSteps, Takes
<1>7. QED
  BY <1>1, <1>2, <1>3, <1>4, <1>5, <1>6

LEMMA OffsetsInvariant ==
  ASSUME FilesAssumption, ReaderInvariant, ReadOffsets
  PROVE  ReaderInvariant'
<1> DEFINE refs == [n \in 1 .. want - 1 |-> [target |-> Ahead(1), offset |-> Ahead(n + 1)]]
           Ref  == [target : Longword, offset : Longword]
<1>1. /\ Reads("offsets") /\ hunk' = [hunk EXCEPT !.relocs = hunk.relocs \o refs]
      /\ Goto("relocs", 1) /\ UNCHANGED <<table_size, table, parsed>>
      /\ CursorIsSound /\ TableIsSound /\ HunksSoFar
  BY DEF ReadOffsets, ReaderInvariant
<1>2. CursorIsSound' /\ reading = "offsets" /\ reading' = "relocs"
  BY <1>1, ReadsCursor DEF Takes, BlockSteps
<1>3. refs \in Seq(Ref)
  <2>1. CanRead("offsets")
    BY <1>1 DEF Reads
  <2>2. \A n \in 1 .. want : Ahead(n) \in Longword
    BY <1>1, <2>1, AheadIsLongword
  <2>3. want \in Nat /\ want >= 1
    BY <1>1, <1>2 DEF CursorIsSound, Takes
  <2>4. \A n \in 1 .. want - 1 : n + 1 \in 1 .. want /\ 1 \in 1 .. want
    BY <2>3
  <2>5. \A n \in 1 .. want - 1 : [target |-> Ahead(1), offset |-> Ahead(n + 1)] \in Ref
    BY <2>2, <2>4
  <2> HIDE DEF Ref
  <2>6. QED
    BY <2>3, <2>5
<1> HIDE DEF refs
<1>4. IsSound(hunk) /\ hunk \in ReadHunk /\ hunk.relocs \in Seq(Ref)
  BY <1>1, <1>2 DEF HunksSoFar, BlockSteps, IsSound, ReadHunk
<1>5. hunk.relocs \o refs \in Seq(Ref)
  <2> HIDE DEF Ref
  <2>1. QED
    BY <1>3, <1>4
<1>6. hunk' \in ReadHunk
  BY <1>1, <1>4, <1>5 DEF ReadHunk
<1>7. /\ hunk'.size_bytes = hunk.size_bytes /\ hunk'.allocated_size = hunk.allocated_size
      /\ hunk'.data = hunk.data /\ hunk'.kind = hunk.kind
  BY <1>1, <1>4 DEF ReadHunk
<1>8. IsSound(hunk')
  BY <1>4, <1>6, <1>7 DEF IsSound
<1>9. TableIsSound'
  BY <1>1, <1>2 DEF TableIsSound, HeaderSteps, BlockSteps
<1>10. HunksSoFar'
  BY <1>1, <1>2, <1>8 DEF HunksSoFar, HeaderSteps, BlockSteps, IsSound
<1>11. QED
  BY <1>2, <1>9, <1>10 DEF ReaderInvariant

LEMMA EndInvariant ==
  ASSUME FilesAssumption, ReaderInvariant, ReadEnd
  PROVE  ReaderInvariant'
<1>1. /\ Reads("trailer") /\ parsed' = Append(parsed, hunk) /\ UNCHANGED <<table_size, table>>
      /\ CursorIsSound /\ TableIsSound /\ HunksSoFar
  BY DEF ReadEnd, ReaderInvariant
<1>2. reading = "trailer"
  BY <1>1 DEF Reads, CanRead
<1>3. /\ parsed \in Seq(ReadHunk) /\ IsSound(hunk) /\ hunk \in ReadHunk
      /\ Len(parsed) < table_size /\ table_size \in Nat
  BY <1>1, <1>2 DEF HunksSoFar, TableIsSound, BlockSteps, IsSound
<1>4. parsed' \in Seq(ReadHunk) /\ Len(parsed') = Len(parsed) + 1 /\ Len(parsed) \in Nat
  BY <1>1, <1>3
<1>5. \A n \in DOMAIN parsed' : IsSound(parsed'[n])
  <2> SUFFICES ASSUME NEW n \in DOMAIN parsed'
               PROVE  IsSound(parsed'[n])
    OBVIOUS
  <2>1. \/ n \in DOMAIN parsed /\ parsed'[n] = parsed[n]
        \/ parsed'[n] = hunk
    BY <1>1, <1>3
  <2>2. QED
    BY <1>1, <1>3, <2>1 DEF HunksSoFar
<1>6. CASE Len(parsed') < table_size
  <2>1. Goto("type", 1)
    BY <1>6 DEF ReadEnd
  <2>2. CursorIsSound' /\ reading' = "type"
    BY <1>1, <2>1, ReadsCursor DEF Takes
  <2>3. TableIsSound'
    BY <1>1, <1>2, <2>2 DEF TableIsSound, HeaderSteps, BlockSteps
  <2>4. HunksSoFar'
    BY <1>1, <1>4, <1>5, <1>6, <2>2 DEF HunksSoFar, HeaderSteps, BlockSteps, IsSound
  <2>5. QED
    BY <2>2, <2>3, <2>4 DEF ReaderInvariant
<1>7. CASE ~(Len(parsed') < table_size)
  <2>1. Goto("done", 0)
    BY <1>7 DEF ReadEnd
  <2>2. CursorIsSound' /\ reading' = "done"
    BY <1>1, <2>1, ReadsCursor DEF Takes
  <2>3. TableIsSound'
    BY <1>1, <1>2, <2>2 DEF TableIsSound, HeaderSteps, BlockSteps
  <2>4. Len(parsed') = table_size
    BY <1>3, <1>4, <1>7
  <2>5. HunksSoFar'
    BY <1>1, <1>4, <1>5, <2>2, <2>4 DEF HunksSoFar, HeaderSteps, BlockSteps, IsSound
  <2>6. QED
    BY <2>2, <2>3, <2>5 DEF ReaderInvariant
<1>8. QED
  BY <1>6, <1>7

LEMMA NextReader ==
  ASSUME FilesAssumption, ReaderInvariant, [ParseNext]_parse_vars
  PROVE  ReaderInvariant'
<1>1. ASSUME NEW e, ParseFails(e)
      PROVE  ReaderInvariant'
  BY <1>1, FailsInvariant
<1>2. CASE \/ Truncated \/ NotAHunkFile \/ PartialRange \/ ExtendedSize
           \/ BadType \/ TooLong \/ LengthOverflows \/ BadBlock
           \/ ListCannotGrow
  BY <1>1, <1>2 DEF Truncated, NotAHunkFile, PartialRange, ExtendedSize,
     BadType, TooLong, LengthOverflows, BadBlock, ListCannotGrow
<1>3. CASE ReadMagic \/ ReadNameLength \/ SkipName
  BY <1>3, HeaderInvariant
<1>4. CASE ReadRange \/ ReadSize
  BY <1>4, RangeInvariant, SizeInvariant
<1>5. CASE ReadType \/ ReadLength \/ ReadBody \/ ReadOffsets \/ ReadEnd
  BY <1>5, TypeInvariant, LengthInvariant, BodyInvariant, OffsetsInvariant, EndInvariant
<1>6. CASE \/ ReadBlock \/ ReadRelocCount \/ ReadSymbolLength
           \/ SkipSymbol \/ ReadDebugLength \/ SkipDebug
  BY <1>6, BlockInvariant
<1>7. CASE UNCHANGED parse_vars
  <2>1. UNCHANGED <<file, reading, want, pos, table_size, table, hunk, parsed, parse_error>>
    BY <1>7 DEF parse_vars
  <2>2. CursorIsSound' /\ TableIsSound'
    BY <2>1 DEF ReaderInvariant, CursorIsSound, TableIsSound
  <2>3. Planned' = Planned
    BY <2>1 DEF Planned
  <2>4. HunksSoFar'
    BY <2>1, <2>3 DEF ReaderInvariant, HunksSoFar
  <2>5. QED
    BY <2>2, <2>4 DEF ReaderInvariant
<1>8. QED
  BY <1>2, <1>3, <1>4, <1>5, <1>6, <1>7 DEF ParseNext

\* Altered or cut short, a file parse accepts has as many hunks as its table,
\* none longer than its allocation, each with as many bytes as it says: what
\* flatten and memory_groups.build take for granted of any file.
THEOREM AcceptedHunksAreSound ==
  ASSUME FilesAssumption
  PROVE  ParseSpec => []HunksAreSound
<1>1. ReaderInvariant => HunksAreSound
  <2> SUFFICES ASSUME CursorIsSound, HunksSoFar, reading = "done"
               PROVE  /\ Len(parsed) = table_size
                      /\ pos <= Len(file.words)
                      /\ \A n \in DOMAIN parsed :
                           /\ parsed[n].size_bytes <= parsed[n].allocated_size
                           /\ 4 * Len(parsed[n].data) = IF parsed[n].kind = "bss" THEN 0 ELSE parsed[n].size_bytes
                           /\ parsed[n].mem_attr \in {"any", "chip", "fast"}
    BY DEF ReaderInvariant, HunksAreSound
  <2>1. pos <= Len(file.words)
    <3>1. Len(file.words) \in Nat
      BY FileIsSound DEF CursorIsSound
    <3>2. QED
      BY <3>1 DEF CursorIsSound
  <2>2. QED
    BY <2>1 DEF HunksSoFar, IsSound, ReadHunk, Memory
<1>2. QED
  BY <1>1, InitReader, NextReader, PTL DEF ParseSpec

-----------------------------------------------------------------------------
(* Sequences one after the other.                                          *)

LEMMA Associates ==
  ASSUME NEW S, NEW a \in Seq(S), NEW b \in Seq(S), NEW c \in Seq(S)
  PROVE  (a \o b) \o c = a \o (b \o c) /\ a \o b \in Seq(S) /\ a \o (b \o c) \in Seq(S)
OBVIOUS

Regroups(a, b, c) == (a \o b) \o c = a \o (b \o c)

LEMMA RegroupThree ==
  ASSUME NEW S, NEW a \in Seq(S), NEW b \in Seq(S), NEW c \in Seq(S)
  PROVE  Regroups(a, b, c)
BY DEF Regroups

LEMMA NothingAdded ==
  ASSUME NEW S, NEW a \in Seq(S)
  PROVE  <<>> \o a = a /\ a \o <<>> = a
OBVIOUS

LEMMA NothingIsEmpty ==
  ASSUME NEW S, NEW a \in Seq(S), Len(a) = 0
  PROVE  a = <<>>
OBVIOUS

IsFlattened(flat, seqs, k) ==
  flat = [i \in 1 .. k |-> IF i = 1 THEN seqs[i] ELSE flat[i - 1] \o seqs[i]]

LEMMA FlattenedExists ==
  ASSUME NEW seqs
  PROVE  \A k \in Nat : \E flat : IsFlattened(flat, seqs, k)
<1> DEFINE Good == {k \in Nat : \E flat : IsFlattened(flat, seqs, k)}
<1>1. 0 \in Good
  <2> DEFINE flat == [i \in 1 .. 0 |-> 0]
  <2>1. 1 .. 0 = {}
    OBVIOUS
  <2>2. IsFlattened(flat, seqs, 0)
    BY <2>1 DEF IsFlattened
  <2>3. QED
    BY <2>2
<1>2. ASSUME NEW k \in Nat, k \in Good
      PROVE  k + 1 \in Good
  <2>1. PICK prior : IsFlattened(prior, seqs, k)
    BY <1>2
  <2> DEFINE next == [i \in 1 .. k + 1 |-> IF i = 1 THEN seqs[i] ELSE prior[i - 1] \o seqs[i]]
  <2>2. \A i \in 1 .. k : next[i] = prior[i]
    <3>1. \A i \in 1 .. k : prior[i] = IF i = 1 THEN seqs[i] ELSE prior[i - 1] \o seqs[i]
      BY <2>1 DEF IsFlattened
    <3>2. QED
      BY <3>1
  <2>3. \A i \in 1 .. k + 1 : i # 1 => next[i - 1] = prior[i - 1]
    <3>1. \A i \in 1 .. k + 1 : i # 1 => i - 1 \in 1 .. k
      OBVIOUS
    <3> HIDE DEF next
    <3>2. QED
      BY <2>2, <3>1
  <2>4. IsFlattened(next, seqs, k + 1)
    BY <2>3 DEF IsFlattened
  <2>5. QED
    BY <2>4
<1>3. \A k \in Nat : k \in Good
  <2> HIDE DEF Good
  <2>1. QED
    BY <1>1, <1>2, SetInduction
<1>4. QED
  BY <1>3

LEMMA FlattenedIs ==
  ASSUME NEW S, NEW seqs \in Seq(Seq(S)), Len(seqs) > 0
  PROVE  \E flat : /\ IsFlattened(flat, seqs, Len(seqs)) /\ FlattenSeq(seqs) = flat[Len(seqs)]
                   /\ \A i \in 1 .. Len(seqs) : flat[i] \in Seq(S)
<1> DEFINE flat == CHOOSE flat : IsFlattened(flat, seqs, Len(seqs))
           N    == Len(seqs)
           Good == {i \in Nat : i + 1 <= N => flat[i + 1] \in Seq(S)}
<1>1. FlattenSeq(seqs) = flat[N]
  <2>1. Len(seqs) # 0
    OBVIOUS
  <2>2. FlattenSeq(seqs) = (CHOOSE f : IsFlattened(f, seqs, Len(seqs)))[Len(seqs)]
    BY <2>1, Zenon DEF FlattenSeq, IsFlattened
  <2>3. QED
    BY <2>2
<1>2. IsFlattened(flat, seqs, N) /\ N \in Nat
  <2>1. N \in Nat
    OBVIOUS
  <2>2. \E f : IsFlattened(f, seqs, N)
    BY <2>1, FlattenedExists, Zenon
  <2>3. QED
    BY <2>1, <2>2, Zenon
<1> HIDE DEF flat
<1>3. \A i \in 1 .. N : flat[i] = IF i = 1 THEN seqs[i] ELSE flat[i - 1] \o seqs[i]
  BY <1>2 DEF IsFlattened
<1>4. \A i \in 1 .. N : seqs[i] \in Seq(S)
  OBVIOUS
<1> HIDE DEF N
<1>5. 0 \in Good
  <2>1. 1 <= N => 1 \in 1 .. N /\ flat[1] = seqs[1]
    BY <1>2, <1>3
  <2>2. QED
    BY <1>4, <2>1
<1>6. ASSUME NEW i \in Nat, i \in Good
      PROVE  i + 1 \in Good
  <2> SUFFICES ASSUME (i + 1) + 1 <= N
               PROVE  flat[(i + 1) + 1] \in Seq(S)
    OBVIOUS
  <2>1. (i + 1) + 1 \in 1 .. N /\ ((i + 1) + 1) - 1 = i + 1 /\ (i + 1) + 1 # 1 /\ i + 1 <= N
    BY <1>2
  <2>2. flat[(i + 1) + 1] = flat[i + 1] \o seqs[(i + 1) + 1]
    BY <1>3, <2>1
  <2>3. flat[i + 1] \in Seq(S) /\ seqs[(i + 1) + 1] \in Seq(S)
    BY <1>4, <1>6, <2>1
  <2>4. QED
    BY <2>2, <2>3, Associates
<1>7. \A i \in Nat : i \in Good
  <2> HIDE DEF Good
  <2>1. QED
    BY <1>5, <1>6, SetInduction
<1>8. \A i \in 1 .. N : flat[i] \in Seq(S)
  <2> SUFFICES ASSUME NEW i \in 1 .. N
               PROVE  flat[i] \in Seq(S)
    OBVIOUS
  <2>1. i - 1 \in Nat /\ (i - 1) + 1 = i /\ i <= N
    BY <1>2
  <2>2. i - 1 \in Good
    BY <1>7, <2>1
  <2>3. QED
    BY <2>1, <2>2
<1>9. QED
  BY <1>1, <1>2, <1>8 DEF N

\* f joins what seqs has after the first d.
Joins(f, seqs, d, N) ==
  \A i \in 1 .. N : f[i] = IF i = 1 THEN seqs[i + d] ELSE f[i - 1] \o seqs[i + d]

AreSeqs(f, S, N) == \A i \in 1 .. N : f[i] \in Seq(S)

\* The first comes first, then the others.
LEMMA FlattenedSplits ==
  ASSUME NEW S, NEW seqs \in Seq(Seq(S)), Len(seqs) > 0
  PROVE  /\ FlattenSeq(Tail(seqs)) \in Seq(S)
         /\ FlattenSeq(seqs) = seqs[1] \o FlattenSeq(Tail(seqs))
<1>1. PICK N \in Nat : N = Len(seqs) /\ N >= 1
  OBVIOUS
<1>2. PICK rest : /\ rest = Tail(seqs) /\ rest \in Seq(Seq(S)) /\ Len(rest) = N - 1
                  /\ \A i \in 1 .. N - 1 : rest[i] = seqs[i + 1]
                  /\ N = 1 => rest = <<>>
  <2> DEFINE rest == Tail(seqs)
  <2>1. rest \in Seq(Seq(S)) /\ Len(rest) = N - 1 /\ \A i \in 1 .. N - 1 : rest[i] = seqs[i + 1]
    BY <1>1
  <2>2. ASSUME N = 1
        PROVE  rest = <<>>
    <3>1. Len(rest) = 0
      BY <2>1, <2>2
    <3>2. QED
      BY <2>1, <3>1, NothingIsEmpty, Zenon
  <2>3. QED
    BY <2>1, <2>2, Zenon
<1>3. \A i \in 1 .. N : seqs[i] \in Seq(S)
  BY <1>1
<1>4. PICK flat : /\ IsFlattened(flat, seqs, N) /\ FlattenSeq(seqs) = flat[N]
                  /\ \A i \in 1 .. N : flat[i] \in Seq(S)
  BY <1>1, FlattenedIs
<1>5. \A i \in 1 .. N : flat[i] = IF i = 1 THEN seqs[i] ELSE flat[i - 1] \o seqs[i]
  BY <1>4 DEF IsFlattened
<1>6. CASE N = 1
  <2>1. FlattenSeq(rest) = <<>>
    BY <1>2, <1>6 DEF FlattenSeq
  <2>2. flat[1] = seqs[1] /\ seqs[1] \in Seq(S)
    BY <1>3, <1>5, <1>6
  <2>3. FlattenSeq(seqs) = seqs[1] \o <<>>
    BY <1>4, <1>6, <2>2, NothingAdded
  <2>4. <<>> \in Seq(S)
    OBVIOUS
  <2>5. QED
    BY <1>2, <2>1, <2>3, <2>4, Zenon
<1>7. CASE N > 1
  <2>1. PICK others : /\ IsFlattened(others, rest, N - 1) /\ FlattenSeq(rest) = others[N - 1]
                      /\ \A i \in 1 .. N - 1 : others[i] \in Seq(S)
    <3>1. Len(rest) > 0
      BY <1>2, <1>7
    <3>2. \E others : /\ IsFlattened(others, rest, Len(rest)) /\ FlattenSeq(rest) = others[Len(rest)]
                      /\ \A i \in 1 .. Len(rest) : others[i] \in Seq(S)
      BY <1>2, <3>1, FlattenedIs, Zenon
    <3>3. QED
      BY <1>2, <3>2, Zenon
  <2>2. \A i \in 1 .. N - 1 : others[i] = IF i = 1 THEN rest[i] ELSE others[i - 1] \o rest[i]
    BY <2>1 DEF IsFlattened
  <2>3. \A i \in 1 .. N - 1 : others[i] = IF i = 1 THEN seqs[i + 1] ELSE others[i - 1] \o seqs[i + 1]
    BY <1>2, <2>2, Zenon
  <2>4. flat[N] = seqs[1] \o others[N - 1]
    <3>1. AreSeqs(seqs, S, N) /\ AreSeqs(others, S, N - 1)
      BY <1>3, <2>1, Zenon DEF AreSeqs
    <3>2. Joins(flat, seqs, 0, N)
      <4>1. \A i \in 1 .. N : i + 0 = i
        OBVIOUS
      <4>2. QED
        BY <1>5, <4>1, Zenon DEF Joins
    <3>3. Joins(others, seqs, 1, N - 1)
      BY <2>3, Zenon DEF Joins
    <3>4. /\ N \in Nat /\ N > 1
          /\ AreSeqs(seqs, S, N) /\ AreSeqs(others, S, N - 1)
          /\ Joins(flat, seqs, 0, N) /\ Joins(others, seqs, 1, N - 1)
      BY <1>7, <3>1, <3>2, <3>3
    <3> DEFINE Good == {k \in Nat : k + 1 \in 1 .. N - 1 => flat[k + 2] = seqs[1] \o others[k + 1]}
    <3>5. 0 \in Good
      <4>1. ASSUME 1 \in 1 .. N - 1
            PROVE  flat[2] = seqs[1] \o others[1]
        <5>1. 1 \in 1 .. N /\ 2 \in 1 .. N /\ 2 - 1 = 1 /\ 2 # 1 /\ 1 + 1 = 2 /\ 2 + 0 = 2 /\ 1 + 0 = 1
          BY <3>4, <4>1
        <5>2. flat[2] = flat[1] \o seqs[2]
          BY <3>4, <5>1 DEF Joins
        <5>3. flat[1] = seqs[1] /\ others[1] = seqs[2]
          BY <3>4, <4>1, <5>1 DEF Joins
        <5>4. QED
          BY <5>2, <5>3
      <4>2. 0 \in Nat /\ 0 + 1 = 1 /\ 0 + 2 = 2
        BY <3>4
      <4>3. QED
        BY <4>1, <4>2, Zenon
    <3>6. ASSUME NEW k \in Nat, k \in Good
          PROVE  k + 1 \in Good
      <4>1. k + 1 \in 1 .. N - 1 => flat[k + 2] = seqs[1] \o others[k + 1]
        BY <3>6
      <4>2. ASSUME k + 2 \in 1 .. N - 1
            PROVE  flat[k + 3] = seqs[1] \o others[k + 2]
        <5>1. /\ k + 3 \in 1 .. N /\ k + 3 # 1 /\ (k + 3) - 1 = k + 2 /\ (k + 3) + 0 = k + 3
              /\ 1 \in 1 .. N /\ k + 2 # 1 /\ (k + 2) - 1 = k + 1 /\ k + 1 \in 1 .. N - 1 /\ (k + 2) + 1 = k + 3
          BY <3>4, <4>2
        <5>2. flat[k + 3] = flat[k + 2] \o seqs[k + 3]
          <6>1. flat[k + 3] = flat[(k + 3) - 1] \o seqs[(k + 3) + 0]
            BY <3>4, <5>1, Zenon DEF Joins
          <6>2. QED
            BY <5>1, <6>1, Zenon
        <5>3. others[k + 2] = others[k + 1] \o seqs[k + 3]
          <6>1. others[k + 2] = others[(k + 2) - 1] \o seqs[(k + 2) + 1]
            BY <3>4, <4>2, <5>1, Zenon DEF Joins
          <6>2. QED
            BY <5>1, <6>1, Zenon
        <5>4. flat[k + 2] = seqs[1] \o others[k + 1]
          BY <4>1, <5>1
        <5>5. seqs[1] \in Seq(S) /\ others[k + 1] \in Seq(S) /\ seqs[k + 3] \in Seq(S)
          BY <3>4, <5>1 DEF AreSeqs
        <5>6. (seqs[1] \o others[k + 1]) \o seqs[k + 3] = seqs[1] \o (others[k + 1] \o seqs[k + 3])
          <6>1. Regroups(seqs[1], others[k + 1], seqs[k + 3])
            BY <5>5, RegroupThree, Zenon
          <6>2. QED
            BY <6>1, Zenon DEF Regroups
        <5>7. QED
          BY <5>2, <5>3, <5>4, <5>6, Zenon
      <4>3. (k + 1) + 1 = k + 2 /\ (k + 1) + 2 = k + 3 /\ k + 1 \in Nat
        BY <3>4
      <4>4. QED
        BY <4>2, <4>3, Zenon
    <3>7. \A k \in Nat : k \in Good
      <4> HIDE DEF Good
      <4>1. QED
        BY <3>5, <3>6, SetInduction
    <3>8. N - 2 \in Nat /\ (N - 2) + 1 = N - 1 /\ (N - 2) + 2 = N /\ N - 1 \in 1 .. N - 1
      BY <3>4
    <3>9. N - 2 \in Good
      BY <3>7, <3>8
    <3>10. QED
      BY <3>8, <3>9
  <2>5. N - 1 \in 1 .. N - 1
    BY <1>7
  <2>6. others[N - 1] \in Seq(S)
    BY <2>1, <2>5
  <2>8. QED
    BY <1>2, <1>4, <2>1, <2>4, <2>6, Zenon
<1>8. QED
  BY <1>1, <1>6, <1>7

LEMMA FlattenedIsSeq ==
  ASSUME NEW S, NEW seqs \in Seq(Seq(S))
  PROVE  FlattenSeq(seqs) \in Seq(S) /\ (seqs = <<>> => FlattenSeq(seqs) = <<>>)
<1>1. CASE Len(seqs) = 0
  BY <1>1 DEF FlattenSeq
<1>2. CASE Len(seqs) > 0
  <2>1. seqs[1] \in Seq(S)
    BY <1>2
  <2>2. seqs # <<>>
    BY <1>2
  <2>3. /\ FlattenSeq(Tail(seqs)) \in Seq(S)
        /\ FlattenSeq(seqs) = seqs[1] \o FlattenSeq(Tail(seqs))
    BY <1>2, FlattenedSplits
  <2>4. FlattenSeq(seqs) \in Seq(S)
    <3> DEFINE rest == FlattenSeq(Tail(seqs))
               head == seqs[1]
    <3>1. rest \in Seq(S) /\ head \in Seq(S)
      BY <2>1, <2>3
    <3> HIDE DEF rest, head
    <3>2. head \o rest \in Seq(S)
      BY <3>1
    <3>3. FlattenSeq(seqs) = head \o rest
      BY <2>3 DEF head, rest
    <3>4. QED
      BY <3>2, <3>3, Zenon
  <2>5. QED
    BY <2>2, <2>4, Zenon
<1>3. QED
  BY <1>1, <1>2

\* What f gives for each of a list, one after the other.
Mapped(f, list) == FlattenSeq([n \in DOMAIN list |-> f[list[n]]])

IsMap(T, S, f, list) == f \in [T -> Seq(S)] /\ list \in Seq(T)

\* The first comes first.
Splits(T, S, f, list) ==
  /\ Mapped(f, list) \in Seq(S)
  /\ list = <<>> => Mapped(f, list) = <<>>
  /\ list # <<>> => /\ list[1] \in T /\ Tail(list) \in Seq(T)
                   /\ Mapped(f, list) = f[list[1]] \o Mapped(f, Tail(list))

LEMMA MappedIs ==
  ASSUME NEW T, NEW S, NEW f, NEW list, IsMap(T, S, f, list)
  PROVE  Splits(T, S, f, list)
<1>a. f \in [T -> Seq(S)] /\ list \in Seq(T)
  BY DEF IsMap
<1> DEFINE seqs == [n \in DOMAIN list |-> f[list[n]]]
           rest == [n \in DOMAIN Tail(list) |-> f[Tail(list)[n]]]
<1>1. seqs \in Seq(Seq(S)) /\ Len(seqs) = Len(list)
  <2>1. \A n \in 1 .. Len(list) : f[list[n]] \in Seq(S)
    BY <1>a
  <2>2. DOMAIN list = 1 .. Len(list) /\ Len(list) \in Nat
    BY <1>a
  <2>3. QED
    BY <2>1, <2>2
<1>2. CASE list = <<>>
  <2>1. seqs = <<>>
    BY <1>a, <1>1, <1>2
  <2>2. FlattenSeq(seqs) \in Seq(S) /\ FlattenSeq(seqs) = <<>>
    BY <1>1, <2>1, FlattenedIsSeq
  <2>3. Mapped(f, list) = FlattenSeq(seqs)
    BY DEF Mapped
  <2> HIDE DEF seqs
  <2>4. QED
    BY <1>2, <2>2, <2>3 DEF Splits
<1>3. CASE list # <<>>
  <2>1. Len(list) > 0 /\ list[1] \in T /\ Tail(list) \in Seq(T) /\ Len(list) \in Nat
    BY <1>a, <1>3
  <2>2. seqs[1] = f[list[1]] /\ Len(seqs) > 0
    BY <1>a, <1>1, <2>1
  <2>3. Tail(seqs) = rest
    <3>1. /\ DOMAIN Tail(list) = 1 .. Len(list) - 1
          /\ \A n \in 1 .. Len(list) - 1 : Tail(list)[n] = list[n + 1] /\ n + 1 \in DOMAIN list
      BY <1>a, <2>1
    <3>2. Tail(seqs) = [n \in 1 .. Len(list) - 1 |-> seqs[n + 1]]
      BY <1>a, <1>1, <2>1
    <3>3. \A n \in 1 .. Len(list) - 1 : seqs[n + 1] = f[Tail(list)[n]]
      BY <1>a, <3>1
    <3> HIDE DEF seqs
    <3>4. QED
      BY <3>1, <3>2, <3>3
  <2>4. Mapped(f, list) = FlattenSeq(seqs) /\ Mapped(f, Tail(list)) = FlattenSeq(rest)
    BY DEF Mapped
  <2> HIDE DEF seqs, rest
  <2>5. FlattenSeq(seqs) = seqs[1] \o FlattenSeq(Tail(seqs)) /\ FlattenSeq(seqs) \in Seq(S)
    BY <1>1, <2>2, FlattenedSplits, FlattenedIsSeq
  <2>6. Mapped(f, list) \in Seq(S) /\ Mapped(f, list) = f[list[1]] \o Mapped(f, Tail(list))
    BY <2>2, <2>3, <2>4, <2>5, Zenon
  <2>7. QED
    BY <1>3, <2>1, <2>6, Zenon DEF Splits
<1>4. QED
  BY <1>2, <1>3

-----------------------------------------------------------------------------
(* The words of a load file.                                               *)

Refs == [target : Longword, offset : Longword]

LEMMA WordsAre ==
  ASSUME NEW n \in Nat
  PROVE  W(n) \in Longword /\ \A flags \in 0 .. 3 : Tagged(flags, n) \in Longword
BY DEF W, Tagged, Longword

LEMMA CountedIs ==
  ASSUME NEW words \in Seq(Longword)
  PROVE  Counted(words) \in Seq(Longword)
<1>1. W(Len(words)) \in Longword
  BY WordsAre
<1>2. QED
  BY <1>1, Associates DEF Counted

LEMMA NamesSplit ==
  ASSUME NEW names \in Seq(Seq(Longword) \ {<<>>})
  PROVE  /\ NamesWords(names) \in Seq(Longword)
         /\ names = <<>> => NamesWords(names) = <<>>
         /\ names # <<>> => /\ names[1] \in Seq(Longword) \ {<<>>} /\ Tail(names) \in Seq(Seq(Longword) \ {<<>>})
                           /\ NamesWords(names) = Counted(names[1]) \o NamesWords(Tail(names))
<1> DEFINE T == Seq(Longword) \ {<<>>}
           f == [x \in T |-> Counted(x)]
<1>1. f \in [T -> Seq(Longword)]
  BY CountedIs
<1>2. \A list \in Seq(T) : NamesWords(list) = Mapped(f, list)
  <2>1. SUFFICES ASSUME NEW list \in Seq(T)
                 PROVE  NamesWords(list) = Mapped(f, list)
    OBVIOUS
  <2>2. \A n \in DOMAIN list : f[list[n]] = Counted(list[n])
    <3>1. \A n \in DOMAIN list : list[n] \in T
      BY <2>1
    <3>2. QED
      BY <3>1
  <2> HIDE DEF T, f
  <2>3. QED
    BY <2>2, Zenon DEF NamesWords, Mapped
<1>3. \A x \in T : f[x] = Counted(x)
  BY DEF f
<1>4. names \in Seq(T)
  OBVIOUS
<1> HIDE DEF T, f
<1>5. Splits(T, Longword, f, names)
  <2>1. IsMap(T, Longword, f, names)
    BY <1>1, <1>4 DEF IsMap
  <2>2. QED
    BY <2>1, MappedIs
<1>6. /\ NamesWords(names) \in Seq(Longword)
      /\ names = <<>> => NamesWords(names) = <<>>
      /\ names # <<>> => /\ names[1] \in T /\ Tail(names) \in Seq(T)
                        /\ NamesWords(names) = Counted(names[1]) \o NamesWords(Tail(names))
  BY <1>2, <1>3, <1>4, <1>5 DEF Splits
<1>7. QED
  BY <1>6 DEF T

LEMMA EntryIs ==
  ASSUME NEW entry \in ListEntries
  PROVE  /\ entry \in Seq(Longword) /\ Len(entry) \in Nat /\ Len(entry) >= 2
         /\ EntryWords(entry) \in Seq(Longword)
         /\ EntryRelocs(entry) \in Seq(Refs)
<1>1. entry \in Seq(Longword) /\ Len(entry) \in Nat /\ Len(entry) >= 2
  BY DEF ListEntries
<1>2. EntryWords(entry) \in Seq(Longword)
  <2>1. W(Len(entry) - 1) \in Longword
    BY <1>1, WordsAre
  <2>2. QED
    BY <1>1, <2>1, Associates DEF EntryWords
<1>3. EntryRelocs(entry) \in Seq(Refs)
  <2>1. \A n \in 1 .. Len(entry) - 1 : [target |-> entry[1], offset |-> entry[n + 1]] \in Refs
    BY <1>1 DEF Refs
  <2>2. QED
    BY <1>1, <2>1 DEF EntryRelocs
<1>4. QED
  BY <1>1, <1>2, <1>3

LEMMA EntriesSplit ==
  ASSUME NEW entries \in Seq(ListEntries)
  PROVE  /\ EntriesWords(entries) \in Seq(Longword)
         /\ entries = <<>> => EntriesWords(entries) = <<>>
         /\ EntriesRelocs(entries) \in Seq(Refs)
         /\ entries = <<>> => EntriesRelocs(entries) = <<>>
         /\ entries # <<>> => /\ entries[1] \in ListEntries /\ Tail(entries) \in Seq(ListEntries)
                           /\ EntriesWords(entries) = EntryWords(entries[1]) \o EntriesWords(Tail(entries))
                           /\ EntriesRelocs(entries) = EntryRelocs(entries[1]) \o EntriesRelocs(Tail(entries))
<1> DEFINE T == ListEntries
           f == [x \in T |-> EntryWords(x)]
           refs == [x \in T |-> EntryRelocs(x)]
<1>1. f \in [T -> Seq(Longword)]
  BY EntryIs
<1>2. \A list \in Seq(T) : EntriesWords(list) = Mapped(f, list)
  <2>1. SUFFICES ASSUME NEW list \in Seq(T)
                 PROVE  EntriesWords(list) = Mapped(f, list)
    OBVIOUS
  <2>2. \A n \in DOMAIN list : f[list[n]] = EntryWords(list[n])
    <3>1. \A n \in DOMAIN list : list[n] \in T
      BY <2>1
    <3>2. QED
      BY <3>1
  <2> HIDE DEF T, f
  <2>3. QED
    BY <2>2, Zenon DEF EntriesWords, Mapped
<1>3. \A x \in T : f[x] = EntryWords(x)
  BY DEF f
<1>4. refs \in [T -> Seq(Refs)]
  BY EntryIs
<1>5. \A list \in Seq(T) : EntriesRelocs(list) = Mapped(refs, list)
  <2>1. SUFFICES ASSUME NEW list \in Seq(T)
                 PROVE  EntriesRelocs(list) = Mapped(refs, list)
    OBVIOUS
  <2>2. \A n \in DOMAIN list : refs[list[n]] = EntryRelocs(list[n])
    <3>1. \A n \in DOMAIN list : list[n] \in T
      BY <2>1
    <3>2. QED
      BY <3>1
  <2> HIDE DEF T, refs
  <2>3. QED
    BY <2>2, Zenon DEF EntriesRelocs, Mapped
<1>6. \A x \in T : refs[x] = EntryRelocs(x)
  BY DEF refs
<1>7. entries \in Seq(T)
  OBVIOUS
<1> HIDE DEF T, f, refs
<1>8. Splits(T, Longword, f, entries)
  <2>1. IsMap(T, Longword, f, entries)
    BY <1>1, <1>7 DEF IsMap
  <2>2. QED
    BY <2>1, MappedIs
<1>9. /\ EntriesWords(entries) \in Seq(Longword)
      /\ entries = <<>> => EntriesWords(entries) = <<>>
      /\ entries # <<>> => /\ entries[1] \in T /\ Tail(entries) \in Seq(T)
                        /\ EntriesWords(entries) = EntryWords(entries[1]) \o EntriesWords(Tail(entries))
  BY <1>2, <1>3, <1>7, <1>8 DEF Splits
<1>10. Splits(T, Refs, refs, entries)
  <2>1. IsMap(T, Refs, refs, entries)
    BY <1>4, <1>7 DEF IsMap
  <2>2. QED
    BY <2>1, MappedIs
<1>11. /\ EntriesRelocs(entries) \in Seq(Refs)
       /\ entries = <<>> => EntriesRelocs(entries) = <<>>
       /\ entries # <<>> => /\ entries[1] \in T /\ Tail(entries) \in Seq(T)
                         /\ EntriesRelocs(entries) = EntryRelocs(entries[1]) \o EntriesRelocs(Tail(entries))
  BY <1>5, <1>6, <1>7, <1>10 DEF Splits
<1>12. QED
  BY <1>9, <1>11 DEF T

LEMMA BlockIs ==
  ASSUME NEW block \in TrailBlocks
  PROVE  /\ block.type \in {HUNK_RELOC32, HUNK_SYMBOL, HUNK_DEBUG}
         /\ block.type = HUNK_DEBUG => block.data \in Seq(Longword)
         /\ block.type # HUNK_DEBUG => block.entries \in Seq(ListEntries)
         /\ BlockWords(block) \in Seq(Longword)
         /\ BlockRelocs(block) \in Seq(Refs)
<1>1. /\ block.type \in {HUNK_RELOC32, HUNK_SYMBOL, HUNK_DEBUG}
      /\ block.type = HUNK_DEBUG => block.data \in Seq(Longword)
      /\ block.type # HUNK_DEBUG => block.entries \in Seq(ListEntries)
  BY DEF TrailBlocks, HUNK_RELOC32, HUNK_SYMBOL, HUNK_DEBUG
<1>2. BlockWords(block) \in Seq(Longword)
  <2>1. W(block.type) \in Longword /\ W(0) \in Longword
    BY <1>1, WordsAre DEF HUNK_RELOC32, HUNK_SYMBOL, HUNK_DEBUG
  <2>2. CASE block.type = HUNK_DEBUG
    <3>1. Counted(block.data) \in Seq(Longword)
      BY <1>1, <2>2, CountedIs
    <3>2. BlockWords(block) = <<W(block.type)>> \o Counted(block.data)
      BY <2>2 DEF BlockWords
    <3>3. QED
      BY <2>1, <3>1, <3>2, Associates
  <2>3. CASE block.type # HUNK_DEBUG
    <3>1. EntriesWords(block.entries) \in Seq(Longword)
      BY <1>1, <2>3, EntriesSplit
    <3>2. BlockWords(block) = <<W(block.type)>> \o (EntriesWords(block.entries) \o <<W(0)>>)
      BY <2>3 DEF BlockWords
    <3>3. EntriesWords(block.entries) \o <<W(0)>> \in Seq(Longword)
      BY <2>1, <3>1, Associates
    <3>4. QED
      BY <2>1, <3>2, <3>3, Associates
  <2>4. QED
    BY <2>2, <2>3
<1>3. BlockRelocs(block) \in Seq(Refs)
  <2>1. CASE block.type = HUNK_RELOC32
    BY <1>1, <2>1, EntriesSplit DEF BlockRelocs, HUNK_RELOC32, HUNK_DEBUG
  <2>2. CASE block.type # HUNK_RELOC32
    BY <2>2 DEF BlockRelocs
  <2>3. QED
    BY <2>1, <2>2
<1>4. QED
  BY <1>1, <1>2, <1>3

LEMMA BlocksSplit ==
  ASSUME NEW blocks \in Seq(TrailBlocks)
  PROVE  /\ BlocksWords(blocks) \in Seq(Longword)
         /\ blocks = <<>> => BlocksWords(blocks) = <<>>
         /\ BlocksRelocs(blocks) \in Seq(Refs)
         /\ blocks = <<>> => BlocksRelocs(blocks) = <<>>
         /\ blocks # <<>> => /\ blocks[1] \in TrailBlocks /\ Tail(blocks) \in Seq(TrailBlocks)
                           /\ BlocksWords(blocks) = BlockWords(blocks[1]) \o BlocksWords(Tail(blocks))
                           /\ BlocksRelocs(blocks) = BlockRelocs(blocks[1]) \o BlocksRelocs(Tail(blocks))
<1> DEFINE T == TrailBlocks
           f == [x \in T |-> BlockWords(x)]
           refs == [x \in T |-> BlockRelocs(x)]
<1>1. f \in [T -> Seq(Longword)]
  BY BlockIs
<1>2. \A list \in Seq(T) : BlocksWords(list) = Mapped(f, list)
  <2>1. SUFFICES ASSUME NEW list \in Seq(T)
                 PROVE  BlocksWords(list) = Mapped(f, list)
    OBVIOUS
  <2>2. \A n \in DOMAIN list : f[list[n]] = BlockWords(list[n])
    <3>1. \A n \in DOMAIN list : list[n] \in T
      BY <2>1
    <3>2. QED
      BY <3>1
  <2> HIDE DEF T, f
  <2>3. QED
    BY <2>2, Zenon DEF BlocksWords, Mapped
<1>3. \A x \in T : f[x] = BlockWords(x)
  BY DEF f
<1>4. refs \in [T -> Seq(Refs)]
  BY BlockIs
<1>5. \A list \in Seq(T) : BlocksRelocs(list) = Mapped(refs, list)
  <2>1. SUFFICES ASSUME NEW list \in Seq(T)
                 PROVE  BlocksRelocs(list) = Mapped(refs, list)
    OBVIOUS
  <2>2. \A n \in DOMAIN list : refs[list[n]] = BlockRelocs(list[n])
    <3>1. \A n \in DOMAIN list : list[n] \in T
      BY <2>1
    <3>2. QED
      BY <3>1
  <2> HIDE DEF T, refs
  <2>3. QED
    BY <2>2, Zenon DEF BlocksRelocs, Mapped
<1>6. \A x \in T : refs[x] = BlockRelocs(x)
  BY DEF refs
<1>7. blocks \in Seq(T)
  OBVIOUS
<1> HIDE DEF T, f, refs
<1>8. Splits(T, Longword, f, blocks)
  <2>1. IsMap(T, Longword, f, blocks)
    BY <1>1, <1>7 DEF IsMap
  <2>2. QED
    BY <2>1, MappedIs
<1>9. /\ BlocksWords(blocks) \in Seq(Longword)
      /\ blocks = <<>> => BlocksWords(blocks) = <<>>
      /\ blocks # <<>> => /\ blocks[1] \in T /\ Tail(blocks) \in Seq(T)
                        /\ BlocksWords(blocks) = BlockWords(blocks[1]) \o BlocksWords(Tail(blocks))
  BY <1>2, <1>3, <1>7, <1>8 DEF Splits
<1>10. Splits(T, Refs, refs, blocks)
  <2>1. IsMap(T, Refs, refs, blocks)
    BY <1>4, <1>7 DEF IsMap
  <2>2. QED
    BY <2>1, MappedIs
<1>11. /\ BlocksRelocs(blocks) \in Seq(Refs)
       /\ blocks = <<>> => BlocksRelocs(blocks) = <<>>
       /\ blocks # <<>> => /\ blocks[1] \in T /\ Tail(blocks) \in Seq(T)
                         /\ BlocksRelocs(blocks) = BlockRelocs(blocks[1]) \o BlocksRelocs(Tail(blocks))
  BY <1>5, <1>6, <1>7, <1>10 DEF Splits
<1>12. QED
  BY <1>9, <1>11 DEF T

LEMMA HunkIs ==
  ASSUME NEW h \in LinkedHunks
  PROVE  /\ h.type \in DOMAIN Kinds /\ h.advice \in 0 .. 3 /\ h.attr \in {"any", "chip", "fast"}
         /\ h.allocated \in Nat /\ h.size \in Nat /\ h.size <= h.allocated
         /\ h.data \in Seq(Longword) /\ Len(h.data) = IF h.type = HUNK_BSS THEN 0 ELSE h.size
         /\ h.blocks \in Seq(TrailBlocks)
BY DEF LinkedHunks

LEMMA HunkWordsAre ==
  ASSUME NEW h \in LinkedHunks
  PROVE  HunkWords(h) \in Seq(Longword)
<1>1. Tagged(h.advice, h.type) \in Longword
  <2>1. h.type \in Nat
    BY HunkIs DEF Kinds, HUNK_CODE, HUNK_DATA, HUNK_BSS
  <2>2. QED
    BY <2>1, HunkIs, WordsAre
<1>2. W(h.size) \in Longword /\ W(HUNK_END) \in Longword
  BY HunkIs, WordsAre DEF HUNK_END
<1>3. h.data \in Seq(Longword) /\ BlocksWords(h.blocks) \in Seq(Longword)
  BY HunkIs, BlocksSplit
<1>4. <<Tagged(h.advice, h.type), W(h.size)>> \in Seq(Longword) /\ <<W(HUNK_END)>> \in Seq(Longword)
  BY <1>1, <1>2
<1>5. QED
  BY <1>3, <1>4, Associates DEF HunkWords

LEMMA HunksSplit ==
  ASSUME NEW hunks \in Seq(LinkedHunks)
  PROVE  /\ HunksWords(hunks) \in Seq(Longword)
         /\ hunks = <<>> => HunksWords(hunks) = <<>>
         /\ hunks # <<>> => /\ hunks[1] \in LinkedHunks /\ Tail(hunks) \in Seq(LinkedHunks)
                           /\ HunksWords(hunks) = HunkWords(hunks[1]) \o HunksWords(Tail(hunks))
<1> DEFINE T == LinkedHunks
           f == [x \in T |-> HunkWords(x)]
<1>1. f \in [T -> Seq(Longword)]
  BY HunkWordsAre
<1>2. \A list \in Seq(T) : HunksWords(list) = Mapped(f, list)
  <2>1. SUFFICES ASSUME NEW list \in Seq(T)
                 PROVE  HunksWords(list) = Mapped(f, list)
    OBVIOUS
  <2>2. \A n \in DOMAIN list : f[list[n]] = HunkWords(list[n])
    <3>1. \A n \in DOMAIN list : list[n] \in T
      BY <2>1
    <3>2. QED
      BY <3>1
  <2> HIDE DEF T, f
  <2>3. QED
    BY <2>2, Zenon DEF HunksWords, Mapped
<1>3. \A x \in T : f[x] = HunkWords(x)
  BY DEF f
<1>4. hunks \in Seq(T)
  OBVIOUS
<1> HIDE DEF T, f
<1>5. Splits(T, Longword, f, hunks)
  <2>1. IsMap(T, Longword, f, hunks)
    BY <1>1, <1>4 DEF IsMap
  <2>2. QED
    BY <2>1, MappedIs
<1>6. /\ HunksWords(hunks) \in Seq(Longword)
      /\ hunks = <<>> => HunksWords(hunks) = <<>>
      /\ hunks # <<>> => /\ hunks[1] \in T /\ Tail(hunks) \in Seq(T)
                        /\ HunksWords(hunks) = HunkWords(hunks[1]) \o HunksWords(Tail(hunks))
  BY <1>2, <1>3, <1>4, <1>5 DEF Splits
<1>7. QED
  BY <1>6 DEF T

-----------------------------------------------------------------------------
(* What is left to read of a load file with the hunks hs, at each of its   *)
(* steps; n is the hunk that is read.                                      *)

Names == Seq(Longword) \ {<<>>}
ManyHunks == Seq(LinkedHunks) \ {<<>>}

HunksAfter(hs, n) == [k \in 1 .. Len(hs) - n |-> hs[n + k]]
SizesAfter(hs, n) ==
  [k \in 1 .. Len(hs) - n |-> Tagged(AttrBits(hs[n + k].attr), hs[n + k].allocated)]

HunksThen(hs, n) == HunksWords(HunksAfter(hs, n))
SizesThen(hs, n) == SizesAfter(hs, n) \o HunksThen(hs, 0)
RangeWords(hs)   == <<W(Len(hs)), W(0), W(Len(hs) - 1)>>
RangeThen(hs)    == RangeWords(hs) \o SizesThen(hs, 0)
NamesThen(hs, names) == NamesWords(names) \o (<<W(0)>> \o RangeThen(hs))

BlocksThen(hs, n, blocks) == BlocksWords(blocks) \o (<<W(HUNK_END)>> \o HunksThen(hs, n))
EntriesThen(hs, n, entries, blocks) ==
  EntriesWords(entries) \o (<<W(0)>> \o BlocksThen(hs, n, blocks))
BodyThen(hs, n) == hs[n].data \o BlocksThen(hs, n, hs[n].blocks)

FourIn(S, a, b, c, d)      == {a, b, c, d} \subseteq Seq(S)
FiveIn(S, a, b, c, d, e)   == {a, b, c, d, e} \subseteq Seq(S)
SixIn(S, a, b, c, d, e, f) == {a, b, c, d, e, f} \subseteq Seq(S)

RegroupsFour(a, b, c, d)       == ((a \o b) \o c) \o d = a \o (b \o (c \o d))
RegroupsFive(a, b, c, d, e)    == ((a \o (b \o c)) \o d) \o e = a \o (b \o (c \o (d \o e)))
RegroupsSix(a, b, c, d, e, f)  ==
  ((((a \o b) \o c) \o d) \o e) \o f = a \o (b \o (c \o (d \o (e \o f))))

LEMMA JoinedIsSeq ==
  ASSUME NEW S, NEW a \in Seq(S), NEW b \in Seq(S)
  PROVE  a \o b \in Seq(S)
OBVIOUS

\* ab is a and then b.
IsJoin(ab, a, b) ==
  /\ Len(ab) = Len(a) + Len(b)
  /\ \A k \in 1 .. Len(a) : ab[k] = a[k]
  /\ \A k \in 1 .. Len(b) : ab[Len(a) + k] = b[k]

LEMMA JoinedElements ==
  ASSUME NEW S, NEW a \in Seq(S), NEW b \in Seq(S)
  PROVE  IsJoin(a \o b, a, b)
BY DEF IsJoin

LEMMA RegroupFour ==
  ASSUME NEW S, NEW a, NEW b, NEW c, NEW d, FourIn(S, a, b, c, d)
  PROVE  RegroupsFour(a, b, c, d)
<1>1. a \in Seq(S) /\ b \in Seq(S) /\ c \in Seq(S) /\ d \in Seq(S)
  BY DEF FourIn
<1>2. b \o c \in Seq(S)
  BY <1>1, JoinedIsSeq
<1>3. Regroups(a, b, c) /\ Regroups(b, c, d)
  BY <1>1, RegroupThree, Zenon
<1>4. Regroups(a, b \o c, d)
  BY <1>1, <1>2, RegroupThree, Zenon
<1>5. QED
  BY <1>3, <1>4, Zenon DEF Regroups, RegroupsFour

LEMMA RegroupFive ==
  ASSUME NEW S, NEW a, NEW b, NEW c, NEW d, NEW e, FiveIn(S, a, b, c, d, e)
  PROVE  RegroupsFive(a, b, c, d, e)
<1>1. a \in Seq(S) /\ b \in Seq(S) /\ c \in Seq(S) /\ d \in Seq(S) /\ e \in Seq(S)
  BY DEF FiveIn
<1>2. b \o c \in Seq(S)
  BY <1>1, JoinedIsSeq
<1>3. d \o e \in Seq(S)
  BY <1>1, JoinedIsSeq
<1>4. a \o (b \o c) \in Seq(S)
  BY <1>1, <1>2, JoinedIsSeq
<1>5. Regroups(b, c, d \o e) /\ Regroups(a, b \o c, d \o e) /\ Regroups(a \o (b \o c), d, e)
  BY <1>1, <1>2, <1>3, <1>4, RegroupThree, Zenon
<1>6. QED
  BY <1>5, Zenon DEF Regroups, RegroupsFive

LEMMA RegroupSix ==
  ASSUME NEW S, NEW a, NEW b, NEW c, NEW d, NEW e, NEW f, SixIn(S, a, b, c, d, e, f)
  PROVE  RegroupsSix(a, b, c, d, e, f)
<1>1. a \in Seq(S) /\ b \in Seq(S) /\ c \in Seq(S) /\ d \in Seq(S) /\ e \in Seq(S) /\ f \in Seq(S)
  BY DEF SixIn
<1>2. a \o b \in Seq(S) /\ e \o f \in Seq(S)
  BY <1>1, JoinedIsSeq
<1>3. (a \o b) \o c \in Seq(S)
  BY <1>1, <1>2, JoinedIsSeq
<1>4. d \o (e \o f) \in Seq(S)
  BY <1>1, <1>2, JoinedIsSeq
<1>5. RegroupsFour((a \o b) \o c, d, e, f) /\ RegroupsFour(a, b, c, d \o (e \o f))
  <2>1. FourIn(S, (a \o b) \o c, d, e, f)
    BY <1>1, <1>3, Zenon DEF FourIn
  <2>2. FourIn(S, a, b, c, d \o (e \o f))
    BY <1>1, <1>4, Zenon DEF FourIn
  <2>3. QED
    BY <2>1, <2>2, RegroupFour, Zenon
<1>6. QED
  BY <1>5, Zenon DEF RegroupsFour, RegroupsSix

LEMMA SameSequence ==
  ASSUME NEW S, NEW a \in Seq(S), NEW b \in Seq(S), Len(a) = Len(b),
         \A n \in 1 .. Len(a) : a[n] = b[n]
  PROVE  a = b
OBVIOUS

LEMMA TailIs ==
  ASSUME NEW S, NEW s \in Seq(S), Len(s) > 0
  PROVE  Tail(s) = [k \in 1 .. Len(s) - 1 |-> s[k + 1]]
<1>1. PICK N \in Nat : N = Len(s) /\ N >= 1
  OBVIOUS
<1>2. /\ Tail(s) \in Seq(S) /\ Len(Tail(s)) = N - 1
      /\ \A k \in 1 .. N - 1 : Tail(s)[k] = s[k + 1]
  BY <1>1
<1> DEFINE rest == [k \in 1 .. N - 1 |-> s[k + 1]]
<1>3. rest \in Seq(S) /\ Len(rest) = N - 1
  <2>1. \A k \in 1 .. N - 1 : s[k + 1] \in S
    BY <1>1
  <2>2. N - 1 \in Nat
    BY <1>1
  <2>3. QED
    BY <2>1, <2>2
<1>4. \A k \in 1 .. N - 1 : rest[k] = Tail(s)[k]
  BY <1>2
<1> HIDE DEF rest
<1>5. Tail(s) = rest
  BY <1>2, <1>3, <1>4, SameSequence
<1>6. QED
  BY <1>1, <1>5 DEF rest

LEMMA AttrBitsAre ==
  ASSUME NEW attr \in {"any", "chip", "fast"}
  PROVE  AttrBits(attr) \in 0 .. 2 /\ MemAttrs[AttrBits(attr) + 1] = attr
<1>1. \E n \in 0 .. 2 : MemAttrs[n + 1] = attr
  <2>1. MemAttrs[0 + 1] = "any" /\ MemAttrs[1 + 1] = "chip" /\ MemAttrs[2 + 1] = "fast"
    BY DEF MemAttrs
  <2>2. 0 \in 0 .. 2 /\ 1 \in 0 .. 2 /\ 2 \in 0 .. 2
    OBVIOUS
  <2>3. QED
    BY <2>1, <2>2
<1>2. QED
  BY <1>1 DEF AttrBits

LEMMA HunksAfterAre ==
  ASSUME NEW hs \in ManyHunks, NEW n \in Nat, n <= Len(hs)
  PROVE  /\ HunksAfter(hs, n) \in Seq(LinkedHunks)
         /\ HunksAfter(hs, 0) = hs
         /\ n = Len(hs) => HunksAfter(hs, n) = <<>>
         /\ n < Len(hs) => /\ HunksAfter(hs, n) # <<>> /\ HunksAfter(hs, n)[1] = hs[n + 1]
                           /\ hs[n + 1] \in LinkedHunks
                           /\ Tail(HunksAfter(hs, n)) = HunksAfter(hs, n + 1)
<1>1. hs \in Seq(LinkedHunks) /\ Len(hs) \in Nat
  BY DEF ManyHunks
<1>2. \A k \in 1 .. Len(hs) : hs[k] \in LinkedHunks
  BY <1>1
<1>3. \A k \in 1 .. Len(hs) - n : n + k \in 1 .. Len(hs)
  BY <1>1
<1>4. \A k \in 1 .. Len(hs) - n : hs[n + k] \in LinkedHunks
  BY <1>2, <1>3
<1>5. HunksAfter(hs, n) \in Seq(LinkedHunks) /\ Len(HunksAfter(hs, n)) = Len(hs) - n
  BY <1>1, <1>4 DEF HunksAfter
<1>6. HunksAfter(hs, 0) = hs
  BY <1>1 DEF HunksAfter
<1>7. n = Len(hs) => HunksAfter(hs, n) = <<>>
  BY <1>5, NothingIsEmpty
<1>8. ASSUME n < Len(hs)
      PROVE  /\ HunksAfter(hs, n) # <<>> /\ HunksAfter(hs, n)[1] = hs[n + 1]
             /\ hs[n + 1] \in LinkedHunks
             /\ Tail(HunksAfter(hs, n)) = HunksAfter(hs, n + 1)
  <2>1. HunksAfter(hs, n) # <<>>
    BY <1>1, <1>5, <1>8
  <2>2. HunksAfter(hs, n)[1] = hs[n + 1] /\ hs[n + 1] \in LinkedHunks
    BY <1>1, <1>2, <1>8 DEF HunksAfter
  <2>3. Tail(HunksAfter(hs, n)) = HunksAfter(hs, n + 1)
    <3>1. \A k \in 1 .. Len(hs) - (n + 1) : k + 1 \in 1 .. Len(hs) - n /\ n + (k + 1) = (n + 1) + k
      BY <1>1, <1>8
    <3>2. /\ DOMAIN Tail(HunksAfter(hs, n)) = 1 .. Len(hs) - (n + 1)
          /\ \A k \in 1 .. Len(hs) - (n + 1) : Tail(HunksAfter(hs, n))[k] = HunksAfter(hs, n)[k + 1]
      BY <1>1, <1>5, <1>8
    <3>3. \A k \in 1 .. Len(hs) - (n + 1) : HunksAfter(hs, n)[k + 1] = hs[(n + 1) + k]
      BY <3>1 DEF HunksAfter
    <3>4. Tail(HunksAfter(hs, n)) = [k \in 1 .. Len(hs) - (n + 1) |-> HunksAfter(hs, n)[k + 1]]
      <4>1. Len(HunksAfter(hs, n)) - 1 = Len(hs) - (n + 1)
        BY <1>1, <1>5
      <4>2. Len(HunksAfter(hs, n)) > 0
        BY <1>1, <1>5, <1>8
      <4>3. Tail(HunksAfter(hs, n)) = [k \in 1 .. Len(HunksAfter(hs, n)) - 1 |-> HunksAfter(hs, n)[k + 1]]
        BY <1>5, <4>2, TailIs
      <4>4. QED
        BY <4>1, <4>3
    <3>5. QED
      BY <3>3, <3>4 DEF HunksAfter
  <2>4. QED
    BY <2>1, <2>2, <2>3
<1>9. QED
  BY <1>5, <1>6, <1>7, <1>8

LEMMA HunksThenAre ==
  ASSUME NEW hs \in ManyHunks, NEW n \in Nat, n <= Len(hs)
  PROVE  HunksThen(hs, n) \in Seq(Longword) /\ (n = Len(hs) => HunksThen(hs, n) = <<>>)
BY HunksAfterAre, HunksSplit DEF HunksThen

LEMMA BlocksThenAre ==
  ASSUME NEW hs \in ManyHunks, NEW n \in Nat, n <= Len(hs), NEW blocks \in Seq(TrailBlocks)
  PROVE  BlocksThen(hs, n, blocks) \in Seq(Longword)
<1>1. BlocksWords(blocks) \in Seq(Longword) /\ HunksThen(hs, n) \in Seq(Longword)
  BY BlocksSplit, HunksThenAre
<1>2. <<W(HUNK_END)>> \in Seq(Longword)
  BY WordsAre DEF HUNK_END
<1>3. QED
  BY <1>1, <1>2, Associates DEF BlocksThen

LEMMA EntriesThenAre ==
  ASSUME NEW hs \in ManyHunks, NEW n \in Nat, n <= Len(hs), NEW blocks \in Seq(TrailBlocks),
         NEW entries \in Seq(ListEntries)
  PROVE  EntriesThen(hs, n, entries, blocks) \in Seq(Longword)
<1>1. EntriesWords(entries) \in Seq(Longword) /\ BlocksThen(hs, n, blocks) \in Seq(Longword)
  BY EntriesSplit, BlocksThenAre
<1>2. <<W(0)>> \in Seq(Longword)
  BY WordsAre
<1>3. QED
  BY <1>1, <1>2, Associates DEF EntriesThen

\* The next word of a list of entries, or of a list of blocks.
LEMMA EntriesThenStart ==
  ASSUME NEW hs \in ManyHunks, NEW n \in Nat, n <= Len(hs), NEW blocks \in Seq(TrailBlocks),
         NEW entries \in Seq(ListEntries)
  PROVE  /\ entries = <<>> =>
              EntriesThen(hs, n, entries, blocks) = <<W(0)>> \o BlocksThen(hs, n, blocks)
         /\ entries # <<>> =>
              /\ entries[1] \in ListEntries /\ Tail(entries) \in Seq(ListEntries)
              /\ EntriesThen(hs, n, entries, blocks) =
                   <<W(Len(entries[1]) - 1)>> \o (entries[1] \o EntriesThen(hs, n, Tail(entries), blocks))
<1> DEFINE rest == <<W(0)>> \o BlocksThen(hs, n, blocks)
<1>1. rest \in Seq(Longword)
  BY BlocksThenAre, WordsAre, Associates
<1>2. \A list : EntriesThen(hs, n, list, blocks) = EntriesWords(list) \o rest
  BY DEF EntriesThen
<1> HIDE DEF rest
<1>3. CASE entries = <<>>
  <2>1. <<>> \o rest = rest /\ EntriesWords(entries) = <<>>
    BY <1>1, <1>3, NothingAdded, EntriesSplit
  <2>2. EntriesThen(hs, n, entries, blocks) = rest
    BY <1>2, <2>1
  <2>3. QED
    BY <1>3, <2>2 DEF rest
<1>4. CASE entries # <<>>
  <2>1. entries[1] \in ListEntries /\ Tail(entries) \in Seq(ListEntries)
    BY <1>4, EntriesSplit
  <2> DEFINE first == entries[1]
             start == <<W(Len(first) - 1)>>
             more  == EntriesWords(Tail(entries))
  <2>2. EntriesWords(entries) = (start \o first) \o more
    BY <1>4, EntriesSplit DEF EntryWords
  <2>3. start \in Seq(Longword) /\ first \in Seq(Longword) /\ more \in Seq(Longword)
    <3>1. Len(first) - 1 \in Nat /\ first \in Seq(Longword)
      BY <2>1, EntryIs
    <3>2. W(Len(first) - 1) \in Longword
      BY <3>1, WordsAre
    <3>3. start \in Seq(Longword)
      BY <3>2
    <3>4. more \in Seq(Longword)
      BY <2>1, EntriesSplit
    <3> HIDE DEF start, more
    <3>5. QED
      BY <3>1, <3>3, <3>4
  <2>4. EntriesThen(hs, n, Tail(entries), blocks) = more \o rest
    BY <1>2
  <2> HIDE DEF start, more, first
  <2>5. ((start \o first) \o more) \o rest = start \o (first \o (more \o rest))
    <3>1. FourIn(Longword, start, first, more, rest)
      BY <1>1, <2>3 DEF FourIn
    <3>2. RegroupsFour(start, first, more, rest)
      BY <3>1, RegroupFour, Zenon
    <3>3. QED
      BY <3>2, Zenon DEF RegroupsFour
  <2>6. EntriesThen(hs, n, entries, blocks) = EntriesWords(entries) \o rest
    BY <1>2
  <2>7. EntriesThen(hs, n, entries, blocks) = start \o (first \o EntriesThen(hs, n, Tail(entries), blocks))
    BY <2>2, <2>4, <2>5, <2>6, Zenon
  <2>8. QED
    BY <1>4, <2>1, <2>7 DEF first, start
<1>5. QED
  BY <1>3, <1>4

LEMMA BlocksThenStart ==
  ASSUME NEW hs \in ManyHunks, NEW n \in Nat, n <= Len(hs), NEW blocks \in Seq(TrailBlocks)
  PROVE  /\ blocks = <<>> => BlocksThen(hs, n, blocks) = <<W(HUNK_END)>> \o HunksThen(hs, n)
         /\ blocks # <<>> => blocks[1] \in TrailBlocks /\ Tail(blocks) \in Seq(TrailBlocks)
         /\ blocks # <<>> /\ blocks[1].type = HUNK_DEBUG =>
              BlocksThen(hs, n, blocks) =
                <<W(blocks[1].type)>> \o (<<W(Len(blocks[1].data))>> \o
                                            (blocks[1].data \o BlocksThen(hs, n, Tail(blocks))))
         /\ blocks # <<>> /\ blocks[1].type # HUNK_DEBUG =>
              BlocksThen(hs, n, blocks) =
                <<W(blocks[1].type)>> \o EntriesThen(hs, n, blocks[1].entries, Tail(blocks))
<1> DEFINE rest == <<W(HUNK_END)>> \o HunksThen(hs, n)
<1>1. rest \in Seq(Longword)
  <2>1. <<W(HUNK_END)>> \in Seq(Longword)
    BY WordsAre DEF HUNK_END
  <2>2. HunksThen(hs, n) \in Seq(Longword)
    BY HunksThenAre
  <2> HIDE DEF rest
  <2>3. QED
    BY <2>1, <2>2, Associates DEF rest
<1>2. \A list : BlocksThen(hs, n, list) = BlocksWords(list) \o rest
  BY DEF BlocksThen
<1> HIDE DEF rest
<1>3. ASSUME blocks = <<>>
      PROVE  BlocksThen(hs, n, blocks) = rest
  <2>1. <<>> \o rest = rest /\ BlocksWords(blocks) = <<>>
    BY <1>1, <1>3, NothingAdded, BlocksSplit
  <2>2. QED
    BY <1>2, <2>1
<1>4. ASSUME blocks # <<>>
      PROVE  blocks[1] \in TrailBlocks /\ Tail(blocks) \in Seq(TrailBlocks)
  BY <1>4, BlocksSplit
<1>5. ASSUME blocks # <<>>,
             NEW start, NEW b \in Seq(Longword), NEW c \in Seq(Longword),
             start = <<W(blocks[1].type)>>, BlockWords(blocks[1]) = start \o (b \o c)
      PROVE  BlocksThen(hs, n, blocks) = start \o (b \o (c \o BlocksThen(hs, n, Tail(blocks))))
  <2> DEFINE more == BlocksWords(Tail(blocks))
  <2>1. start \in Seq(Longword)
    <3>1. blocks[1] \in TrailBlocks
      BY <1>4, <1>5
    <3>2. blocks[1].type \in {HUNK_RELOC32, HUNK_SYMBOL, HUNK_DEBUG}
      BY <3>1, BlockIs
    <3>3. blocks[1].type \in Nat
      BY <3>2 DEF HUNK_RELOC32, HUNK_SYMBOL, HUNK_DEBUG
    <3>4. W(blocks[1].type) \in Longword
      BY <3>3, WordsAre
    <3>5. QED
      BY <1>5, <3>4
  <2>2. more \in Seq(Longword)
    BY <1>4, <1>5, BlocksSplit
  <2>3. BlocksWords(blocks) = BlockWords(blocks[1]) \o more
    BY <1>5, BlocksSplit
  <2>4. BlocksThen(hs, n, blocks) = BlocksWords(blocks) \o rest /\ BlocksThen(hs, n, Tail(blocks)) = more \o rest
    BY <1>2
  <2> HIDE DEF more
  <2>5. ((start \o (b \o c)) \o more) \o rest = start \o (b \o (c \o (more \o rest)))
    <3>1. FiveIn(Longword, start, b, c, more, rest)
      BY <1>1, <2>1, <2>2 DEF FiveIn
    <3>2. RegroupsFive(start, b, c, more, rest)
      BY <3>1, RegroupFive, Zenon
    <3>3. QED
      BY <3>2, Zenon DEF RegroupsFive
  <2>6. QED
    BY <1>5, <2>3, <2>4, <2>5, Zenon
<1>6. ASSUME blocks # <<>>, blocks[1].type = HUNK_DEBUG
      PROVE  BlocksThen(hs, n, blocks) =
                <<W(blocks[1].type)>> \o (<<W(Len(blocks[1].data))>> \o
                                            (blocks[1].data \o BlocksThen(hs, n, Tail(blocks))))
  <2> DEFINE start == <<W(blocks[1].type)>>
             size  == <<W(Len(blocks[1].data))>>
             data  == blocks[1].data
  <2>1. data \in Seq(Longword)
    BY <1>4, <1>6, BlockIs
  <2>2. size \in Seq(Longword)
    BY <2>1, WordsAre
  <2>3. BlockWords(blocks[1]) = start \o (size \o data)
    BY <1>6 DEF BlockWords, Counted
  <2> HIDE DEF size, data
  <2>4. BlocksThen(hs, n, blocks) = start \o (size \o (data \o BlocksThen(hs, n, Tail(blocks))))
    BY <1>5, <1>6, <2>1, <2>2, <2>3
  <2>5. QED
    BY <2>4 DEF size, data
<1>7. ASSUME blocks # <<>>, blocks[1].type # HUNK_DEBUG
      PROVE  BlocksThen(hs, n, blocks) =
                <<W(blocks[1].type)>> \o EntriesThen(hs, n, blocks[1].entries, Tail(blocks))
  <2> DEFINE start   == <<W(blocks[1].type)>>
             entries == EntriesWords(blocks[1].entries)
             close   == <<W(0)>>
  <2>1. entries \in Seq(Longword) /\ close \in Seq(Longword)
    BY <1>4, <1>7, BlockIs, EntriesSplit, WordsAre
  <2>2. BlockWords(blocks[1]) = start \o (entries \o close)
    BY <1>7 DEF BlockWords
  <2>3. EntriesThen(hs, n, blocks[1].entries, Tail(blocks)) = entries \o (close \o BlocksThen(hs, n, Tail(blocks)))
    BY DEF EntriesThen
  <2> HIDE DEF entries, close
  <2>4. BlocksThen(hs, n, blocks) = start \o (entries \o (close \o BlocksThen(hs, n, Tail(blocks))))
    BY <1>5, <1>7, <2>1, <2>2
  <2>5. QED
    BY <2>3, <2>4
<1>8. QED
  BY <1>3, <1>4, <1>6, <1>7 DEF rest

\* The next hunk, and the next size.
LEMMA HunksThenStart ==
  ASSUME NEW hs \in ManyHunks, NEW n \in Nat, n < Len(hs)
  PROVE  /\ hs[n + 1] \in LinkedHunks
         /\ BodyThen(hs, n + 1) \in Seq(Longword)
         /\ HunksThen(hs, n) = <<Tagged(hs[n + 1].advice, hs[n + 1].type)>> \o
                                 (<<W(hs[n + 1].size)>> \o BodyThen(hs, n + 1))
<1> DEFINE h      == hs[n + 1]
           first  == <<Tagged(h.advice, h.type)>>
           size   == <<W(h.size)>>
           blocks == BlocksWords(h.blocks)
           close  == <<W(HUNK_END)>>
           rest   == HunksThen(hs, n + 1)
<1>1. n <= Len(hs) /\ n + 1 \in Nat /\ n + 1 <= Len(hs)
  BY DEF ManyHunks
<1>2. h \in LinkedHunks
  BY <1>1, HunksAfterAre
<1>3. HunksThen(hs, n) = HunkWords(h) \o rest
  <2>1. /\ HunksAfter(hs, n) \in Seq(LinkedHunks) /\ HunksAfter(hs, n) # <<>>
        /\ HunksAfter(hs, n)[1] = h /\ Tail(HunksAfter(hs, n)) = HunksAfter(hs, n + 1)
    BY <1>1, HunksAfterAre
  <2>2. HunksWords(HunksAfter(hs, n)) =
          HunkWords(HunksAfter(hs, n)[1]) \o HunksWords(Tail(HunksAfter(hs, n)))
    BY <2>1, HunksSplit
  <2>3. QED
    BY <2>1, <2>2 DEF HunksThen
<1>4. /\ first \in Seq(Longword) /\ size \in Seq(Longword) /\ close \in Seq(Longword)
      /\ <<Tagged(h.advice, h.type), W(h.size)>> = first \o size
  <2>1. h.type \in Nat /\ h.advice \in 0 .. 3 /\ h.size \in Nat
    BY <1>2, HunkIs DEF Kinds, HUNK_CODE, HUNK_DATA, HUNK_BSS
  <2>2. Tagged(h.advice, h.type) \in Longword /\ W(h.size) \in Longword /\ W(HUNK_END) \in Longword
    BY <2>1, WordsAre DEF HUNK_END
  <2>3. QED
    BY <2>2
<1>5. h.data \in Seq(Longword) /\ blocks \in Seq(Longword) /\ rest \in Seq(Longword)
  BY <1>1, <1>2, HunkIs, BlocksSplit, HunksThenAre
<1>6. HunkWords(h) = (((first \o size) \o h.data) \o blocks) \o close
  BY <1>4 DEF HunkWords
<1>7. BodyThen(hs, n + 1) = h.data \o (blocks \o (close \o rest))
  BY DEF BodyThen, BlocksThen
<1> HIDE DEF h, first, size, blocks, close, rest
<1>8. PICK data \in Seq(Longword) : data = h.data
  BY <1>5
<1>9. ((((first \o size) \o data) \o blocks) \o close) \o rest
        = first \o (size \o (data \o (blocks \o (close \o rest))))
  <2>1. SixIn(Longword, first, size, data, blocks, close, rest)
    BY <1>4, <1>5 DEF SixIn
  <2>2. RegroupsSix(first, size, data, blocks, close, rest)
    BY <2>1, RegroupSix, Zenon
  <2>3. QED
    BY <2>2, Zenon DEF RegroupsSix
<1>10. HunksThen(hs, n) = first \o (size \o BodyThen(hs, n + 1))
  BY <1>3, <1>6, <1>7, <1>8, <1>9, Zenon
<1>11. BodyThen(hs, n + 1) \in Seq(Longword)
  <2>1. h.blocks \in Seq(TrailBlocks)
    BY <1>2, HunkIs
  <2>2. BlocksThen(hs, n + 1, h.blocks) \in Seq(Longword)
    BY <1>1, <2>1, BlocksThenAre
  <2>3. QED
    BY <1>5, <2>2, Associates DEF BodyThen, h
<1>12. QED
  BY <1>2, <1>10, <1>11 DEF h, first, size

LEMMA SizesAfterAre ==
  ASSUME NEW hs \in ManyHunks, NEW n \in Nat, n <= Len(hs)
  PROVE  /\ SizesAfter(hs, n) \in Seq(Longword) /\ Len(SizesAfter(hs, n)) = Len(hs) - n
         /\ \A k \in 1 .. Len(hs) - n :
              SizesAfter(hs, n)[k] = Tagged(AttrBits(hs[n + k].attr), hs[n + k].allocated)
<1>1. PICK N \in Nat : N = Len(hs) - n
  BY DEF ManyHunks
<1>2. \A k \in 1 .. N : Tagged(AttrBits(hs[n + k].attr), hs[n + k].allocated) \in Longword
  <2>1. SUFFICES ASSUME NEW k \in 1 .. N
                 PROVE  Tagged(AttrBits(hs[n + k].attr), hs[n + k].allocated) \in Longword
    OBVIOUS
  <2>2. hs[n + k] \in LinkedHunks
    <3>1. n + k \in 1 .. Len(hs)
      BY <1>1 DEF ManyHunks
    <3>2. QED
      BY <3>1 DEF ManyHunks
  <2>3. hs[n + k].allocated \in Nat /\ hs[n + k].attr \in {"any", "chip", "fast"}
    BY <2>2, HunkIs
  <2>4. AttrBits(hs[n + k].attr) \in 0 .. 3
    BY <2>3, AttrBitsAre
  <2>5. QED
    BY <2>3, <2>4, WordsAre
<1> DEFINE word(k) == Tagged(AttrBits(hs[n + k].attr), hs[n + k].allocated)
<1>3. SizesAfter(hs, n) = [k \in 1 .. N |-> word(k)]
  BY <1>1 DEF SizesAfter
<1>4. \A k \in 1 .. N : word(k) \in Longword
  BY <1>2
<1> HIDE DEF word
<1>5. SizesAfter(hs, n) \in Seq(Longword) /\ Len(SizesAfter(hs, n)) = N
  BY <1>3, <1>4
<1>6. \A k \in 1 .. N : SizesAfter(hs, n)[k] = word(k)
  BY <1>3
<1>7. QED
  BY <1>1, <1>5, <1>6 DEF word

LEMMA SizesThenStart ==
  ASSUME NEW hs \in ManyHunks, NEW n \in Nat, n <= Len(hs)
  PROVE  /\ SizesThen(hs, n) \in Seq(Longword)
         /\ n = Len(hs) => SizesThen(hs, n) = HunksThen(hs, 0)
         /\ n < Len(hs) => SizesThen(hs, n) =
                             <<Tagged(AttrBits(hs[n + 1].attr), hs[n + 1].allocated)>> \o SizesThen(hs, n + 1)
<1>1. SizesAfter(hs, n) \in Seq(Longword) /\ HunksThen(hs, 0) \in Seq(Longword) /\ Len(hs) \in Nat
  <2>1. 0 <= Len(hs) /\ Len(hs) \in Nat
    BY DEF ManyHunks
  <2>2. QED
    BY <2>1, SizesAfterAre, HunksThenAre
<1>2. SizesThen(hs, n) \in Seq(Longword)
  BY <1>1, JoinedIsSeq DEF SizesThen
<1>3. ASSUME n = Len(hs)
      PROVE  SizesThen(hs, n) = HunksThen(hs, 0)
  <2>1. SizesAfter(hs, n) = <<>>
    <3>1. Len(SizesAfter(hs, n)) = 0
      BY <1>1, <1>3, SizesAfterAre
    <3>2. QED
      BY <1>1, <3>1, NothingIsEmpty
  <2>2. <<>> \o HunksThen(hs, 0) = HunksThen(hs, 0)
    BY <1>1, NothingAdded
  <2>3. QED
    BY <2>1, <2>2 DEF SizesThen
<1>4. ASSUME n < Len(hs)
      PROVE  SizesThen(hs, n) =
               <<Tagged(AttrBits(hs[n + 1].attr), hs[n + 1].allocated)>> \o SizesThen(hs, n + 1)
  <2> DEFINE first == <<Tagged(AttrBits(hs[n + 1].attr), hs[n + 1].allocated)>>
             more  == SizesAfter(hs, n + 1)
             all   == SizesAfter(hs, n)
             N     == Len(hs) - n
  <2>1. /\ N \in Nat /\ N = Len(hs) - n /\ N >= 1 /\ Len(hs) - (n + 1) = N - 1
        /\ n + 1 <= Len(hs) /\ n + 1 \in Nat
    BY <1>1, <1>4
  <2> HIDE DEF N
  <2>2. /\ more \in Seq(Longword) /\ Len(more) = N - 1
        /\ \A k \in 1 .. N - 1 :
             more[k] = Tagged(AttrBits(hs[(n + 1) + k].attr), hs[(n + 1) + k].allocated)
    <3>1. /\ more \in Seq(Longword) /\ Len(more) = Len(hs) - (n + 1)
          /\ \A k \in 1 .. Len(hs) - (n + 1) :
               more[k] = Tagged(AttrBits(hs[(n + 1) + k].attr), hs[(n + 1) + k].allocated)
      BY <2>1, SizesAfterAre, Zenon
    <3> HIDE DEF more
    <3>2. QED
      BY <2>1, <3>1, Zenon
  <2>3. /\ all \in Seq(Longword) /\ Len(all) = N
        /\ \A k \in 1 .. N : all[k] = Tagged(AttrBits(hs[n + k].attr), hs[n + k].allocated)
    BY <2>1, SizesAfterAre
  <2>4. all[1] = Tagged(AttrBits(hs[n + 1].attr), hs[n + 1].allocated)
    BY <2>1, <2>3
  <2>5. \A k \in 1 .. N - 1 : all[k + 1] = more[k]
    <3>1. \A k \in 1 .. N - 1 : k + 1 \in 1 .. N /\ n + (k + 1) = (n + 1) + k
      BY <2>1
    <3> HIDE DEF all, more
    <3>2. QED
      BY <2>2, <2>3, <3>1
  <2>6. first \in Seq(Longword) /\ Len(first) = 1 /\ first[1] = all[1]
    <3>1. all[1] \in Longword
      BY <2>1, <2>3
    <3>2. QED
      BY <2>4, <3>1
  <2> HIDE DEF first, more, all
  <2>7. all = first \o more
    <3> DEFINE both == first \o more
    <3>1. both \in Seq(Longword)
      BY <2>2, <2>6, JoinedIsSeq
    <3>2. Len(both) = N /\ both[1] = first[1] /\ \A k \in 1 .. N - 1 : both[k + 1] = more[k]
      <4>1. 1 \in 1 .. Len(first) /\ Len(first) + Len(more) = N
        BY <2>1, <2>2, <2>6
      <4>2. \A k \in 1 .. N - 1 : k + 1 = Len(first) + k
        BY <2>1, <2>6
      <4>3. /\ Len(both) = Len(first) + Len(more)
            /\ \A k \in 1 .. Len(first) : both[k] = first[k]
            /\ \A k \in 1 .. Len(more) : both[Len(first) + k] = more[k]
        <5>1. IsJoin(first \o more, first, more)
          BY <2>2, <2>6, JoinedElements, Zenon
        <5>2. QED
          BY <5>1, Zenon DEF IsJoin
      <4> HIDE DEF both
      <4>4. \A k \in 1 .. N - 1 : both[k + 1] = more[k]
        <5>1. \A k \in 1 .. N - 1 : both[Len(first) + k] = more[k]
          BY <2>2, <4>3, Zenon
        <5>2. QED
          BY <4>2, <5>1, Zenon
      <4>5. QED
        BY <2>1, <4>1, <4>3, <4>4
    <3> HIDE DEF both
    <3>3. \A k \in 1 .. N : all[k] = both[k]
      <4>1. \A k \in 1 .. N : k = 1 \/ (k - 1 \in 1 .. N - 1 /\ (k - 1) + 1 = k)
        BY <2>1
      <4>2. all[1] = both[1]
        BY <2>6, <3>2
      <4>3. \A k \in 1 .. N - 1 : all[k + 1] = both[k + 1]
        BY <2>5, <3>2
      <4>4. QED
        BY <4>1, <4>2, <4>3, Zenon
    <3>4. Len(all) = Len(both) /\ \A k \in 1 .. Len(all) : all[k] = both[k]
      BY <2>3, <3>2, <3>3
    <3>5. all = both
      BY <2>3, <3>1, <3>4, SameSequence
    <3>6. QED
      BY <3>5 DEF both
  <2>8. Regroups(first, more, HunksThen(hs, 0))
    BY <1>1, <2>2, <2>6, RegroupThree, Zenon
  <2>9. SizesThen(hs, n) = all \o HunksThen(hs, 0) /\ SizesThen(hs, n + 1) = more \o HunksThen(hs, 0)
    BY DEF SizesThen, all, more
  <2>10. SizesThen(hs, n) = first \o SizesThen(hs, n + 1)
    BY <2>7, <2>8, <2>9, Zenon DEF Regroups
  <2>11. QED
    BY <2>10 DEF first
<1>5. QED
  BY <1>2, <1>3, <1>4

LEMMA RangeThenAre ==
  ASSUME NEW hs \in ManyHunks
  PROVE  /\ Len(hs) \in Nat /\ Len(hs) > 0
         /\ RangeWords(hs) \in Seq(Longword) /\ Len(RangeWords(hs)) = 3
         /\ RangeWords(hs)[1] = W(Len(hs)) /\ RangeWords(hs)[2] = W(0) /\ RangeWords(hs)[3] = W(Len(hs) - 1)
         /\ SizesThen(hs, 0) \in Seq(Longword)
         /\ RangeThen(hs) \in Seq(Longword)
<1>1. Len(hs) \in Nat /\ Len(hs) > 0
  BY DEF ManyHunks
<1>2. W(Len(hs)) \in Longword /\ W(0) \in Longword /\ W(Len(hs) - 1) \in Longword
  <2>1. Len(hs) - 1 \in Nat
    BY <1>1
  <2>2. QED
    BY <1>1, <2>1, WordsAre
<1>3. RangeWords(hs) \in Seq(Longword) /\ Len(RangeWords(hs)) = 3
  BY <1>2 DEF RangeWords
<1>4. RangeWords(hs)[1] = W(Len(hs)) /\ RangeWords(hs)[2] = W(0) /\ RangeWords(hs)[3] = W(Len(hs) - 1)
  BY DEF RangeWords
<1>5. SizesThen(hs, 0) \in Seq(Longword)
  <2>1. 0 \in Nat /\ 0 <= Len(hs)
    BY <1>1
  <2>2. QED
    BY <2>1, SizesThenStart
<1>6. QED
  BY <1>1, <1>3, <1>4, <1>5, JoinedIsSeq DEF RangeThen

LEMMA NamesThenStart ==
  ASSUME NEW hs \in ManyHunks, NEW names \in Seq(Names)
  PROVE  /\ NamesThen(hs, names) \in Seq(Longword)
         /\ names = <<>> => NamesThen(hs, names) = <<W(0)>> \o RangeThen(hs)
         /\ names # <<>> => /\ names[1] \in Names /\ Tail(names) \in Seq(Names)
                           /\ NamesThen(hs, names) =
                                <<W(Len(names[1]))>> \o (names[1] \o NamesThen(hs, Tail(names)))
<1> DEFINE rest == <<W(0)>> \o RangeThen(hs)
<1>1. rest \in Seq(Longword)
  <2>1. <<W(0)>> \in Seq(Longword)
    BY WordsAre
  <2>2. RangeThen(hs) \in Seq(Longword)
    BY RangeThenAre
  <2>3. QED
    BY <2>1, <2>2, JoinedIsSeq
<1>2. \A list : NamesThen(hs, list) = NamesWords(list) \o rest
  BY DEF NamesThen
<1>3. names \in Seq(Seq(Longword) \ {<<>>})
  BY DEF Names
<1> HIDE DEF rest
<1>4. NamesThen(hs, names) \in Seq(Longword)
  <2>1. NamesWords(names) \in Seq(Longword)
    BY <1>3, NamesSplit
  <2>2. QED
    BY <1>1, <1>2, <2>1, JoinedIsSeq
<1>5. ASSUME names = <<>>
      PROVE  NamesThen(hs, names) = rest
  <2>1. <<>> \o rest = rest /\ NamesWords(names) = <<>>
    BY <1>1, <1>3, <1>5, NothingAdded, NamesSplit
  <2>2. QED
    BY <1>2, <2>1
<1>6. ASSUME names # <<>>
      PROVE  /\ names[1] \in Names /\ Tail(names) \in Seq(Names)
             /\ NamesThen(hs, names) =
                  <<W(Len(names[1]))>> \o (names[1] \o NamesThen(hs, Tail(names)))
  <2> DEFINE first == names[1]
             start == <<W(Len(first))>>
             more  == NamesWords(Tail(names))
  <2>1. first \in Seq(Longword) \ {<<>>} /\ Tail(names) \in Seq(Seq(Longword) \ {<<>>})
    BY <1>3, <1>6, NamesSplit
  <2>2. NamesWords(names) = (start \o first) \o more
    BY <1>3, <1>6, NamesSplit DEF Counted
  <2>3. start \in Seq(Longword)
    <3>1. Len(first) \in Nat
      BY <2>1
    <3>2. W(Len(first)) \in Longword
      BY <3>1, WordsAre
    <3>3. QED
      BY <3>2
  <2>4. more \in Seq(Longword)
    BY <2>1, NamesSplit
  <2>5. NamesThen(hs, names) = NamesWords(names) \o rest /\ NamesThen(hs, Tail(names)) = more \o rest
    BY <1>2
  <2> HIDE DEF start, more, first
  <2>6. RegroupsFour(start, first, more, rest)
    <3>1. FourIn(Longword, start, first, more, rest)
      BY <1>1, <2>1, <2>3, <2>4 DEF FourIn
    <3>2. QED
      BY <3>1, RegroupFour, Zenon
  <2>7. NamesThen(hs, names) = start \o (first \o NamesThen(hs, Tail(names)))
    BY <2>2, <2>5, <2>6, Zenon DEF RegroupsFour
  <2>8. QED
    BY <2>1, <2>7 DEF first, start, Names
<1>7. QED
  BY <1>4, <1>5, <1>6 DEF rest

LEMMA LoadFileStart ==
  ASSUME NEW f \in LinkedFiles
  PROVE  /\ f.hunks \in ManyHunks /\ f.names \in Seq(Names)
         /\ LoadFile(f) \in Seq(Longword)
         /\ LoadFile(f) = <<W(HUNK_HEADER)>> \o NamesThen(f.hunks, f.names)
<1> DEFINE hs    == f.hunks
           magic == <<W(HUNK_HEADER)>>
           names == NamesWords(f.names)
           close == <<W(0)>>
           sizes == SizesAfter(hs, 0)
           rest  == HunksThen(hs, 0)
           range == RangeWords(hs)
<1>1. hs \in ManyHunks /\ f.names \in Seq(Names) /\ f.names \in Seq(Seq(Longword) \ {<<>>})
  BY DEF LinkedFiles, ManyHunks, Names
<1>2. Len(hs) \in Nat /\ 0 <= Len(hs)
  BY <1>1, RangeThenAre
<1>3. magic \in Seq(Longword) /\ close \in Seq(Longword)
  BY WordsAre DEF HUNK_HEADER
<1>4. names \in Seq(Longword)
  BY <1>1, NamesSplit
<1>5. sizes \in Seq(Longword) /\ range \in Seq(Longword)
  BY <1>1, <1>2, SizesAfterAre, RangeThenAre
<1>6. rest \in Seq(Longword)
  BY <1>1, <1>2, HunksThenAre
<1>7. sizes = [n \in DOMAIN hs |-> Tagged(AttrBits(hs[n].attr), hs[n].allocated)]
  <2>1. DOMAIN hs = 1 .. Len(hs) - 0
    BY <1>1, <1>2 DEF ManyHunks
  <2>2. \A n \in 1 .. Len(hs) - 0 : 0 + n = n
    OBVIOUS
  <2> HIDE DEF hs
  <2>3. QED
    BY <2>1, <2>2 DEF SizesAfter
<1>8. rest = HunksWords(hs)
  BY <1>1, <1>2, HunksAfterAre DEF HunksThen
<1>9. LoadFile(f) = ((((magic \o names) \o close) \o range) \o sizes) \o rest
  <2> HIDE DEF sizes, rest
  <2>1. QED
    BY <1>7, <1>8 DEF LoadFile, RangeWords
<1>10. NamesThen(hs, f.names) = names \o (close \o (range \o (sizes \o rest)))
  BY DEF NamesThen, RangeThen, SizesThen
<1> HIDE DEF hs, magic, names, close, sizes, rest, range
<1>11. RegroupsSix(magic, names, close, range, sizes, rest)
  <2>1. SixIn(Longword, magic, names, close, range, sizes, rest)
    BY <1>3, <1>4, <1>5, <1>6, Zenon DEF SixIn
  <2>2. QED
    BY <2>1, RegroupSix, Zenon
<1>12. LoadFile(f) = magic \o NamesThen(hs, f.names)
  BY <1>9, <1>10, <1>11, Zenon DEF RegroupsSix
<1>13. NamesThen(hs, f.names) \in Seq(Longword)
  BY <1>1, NamesThenStart
<1>14. magic \o NamesThen(hs, f.names) \in Seq(Longword)
  BY <1>3, <1>13, JoinedIsSeq
<1>15. QED
  BY <1>1, <1>12, <1>14 DEF hs, magic

-----------------------------------------------------------------------------
(* The cursor in the load file.                                            *)

\* After its first p words, rest is left of the load file of f.
Follows(f, p, rest) ==
  /\ rest \in Seq(Longword)
  /\ \E read \in Seq(Longword) : Len(read) = p /\ LoadFile(f) = read \o rest

AsLinked == file.written

\* And that is x and then y, of which the next step takes x.
FollowsBoth(f, p, x, y) ==
  x \in Seq(Longword) /\ y \in Seq(Longword) /\ Follows(f, p, x \o y)

Faces(x, y) == want = Len(x) /\ FollowsBoth(AsLinked, pos, x, y)

\* Then it has x there, and y is left after it.
FollowsAfter(f, p, x, y) ==
  /\ Follows(f, p + Len(x), y)
  /\ p \in Nat /\ p + Len(x) <= Len(LoadFile(f))
  /\ \A k \in 1 .. Len(x) : LoadFile(f)[p + k] = x[k]

LEMMA FollowsOn ==
  ASSUME NEW f, NEW p, NEW x, NEW y, FollowsBoth(f, p, x, y)
  PROVE  FollowsAfter(f, p, x, y)
<1>0. x \in Seq(Longword) /\ y \in Seq(Longword) /\ Follows(f, p, x \o y)
  BY Zenon DEF FollowsBoth
<1>1. PICK read : read \in Seq(Longword) /\ Len(read) = p /\ LoadFile(f) = read \o (x \o y)
  BY <1>0, Zenon DEF Follows
<1>2. x \o y \in Seq(Longword) /\ read \o x \in Seq(Longword)
  BY <1>0, <1>1, JoinedIsSeq
<1>3. IsJoin(read \o x, read, x) /\ IsJoin(read \o (x \o y), read, x \o y) /\ IsJoin(x \o y, x, y)
  BY <1>0, <1>1, <1>2, JoinedElements, Zenon
<1>4. Regroups(read, x, y)
  BY <1>0, <1>1, RegroupThree, Zenon
<1>5. LoadFile(f) = (read \o x) \o y
  BY <1>1, <1>4, Zenon DEF Regroups
<1>6. Len(read \o x) = p + Len(x)
  BY <1>1, <1>3, Zenon DEF IsJoin
<1>7. Follows(f, p + Len(x), y)
  BY <1>0, <1>2, <1>5, <1>6, Zenon DEF Follows
<1> DEFINE xy == x \o y
<1>8. /\ IsJoin(LoadFile(f), read, xy) /\ IsJoin(xy, x, y)
      /\ p \in Nat /\ Len(x) \in Nat /\ Len(y) \in Nat /\ p = Len(read)
  <2>1. IsJoin(LoadFile(f), read, xy) /\ IsJoin(xy, x, y)
    BY <1>1, <1>3, Zenon
  <2>2. p \in Nat /\ Len(x) \in Nat /\ Len(y) \in Nat /\ p = Len(read)
    BY <1>0, <1>1
  <2>3. QED
    BY <2>1, <2>2
<1> HIDE DEF xy
<1>9. p + Len(x) <= Len(LoadFile(f))
  BY <1>8 DEF IsJoin
<1>10. \A k \in 1 .. Len(x) : LoadFile(f)[p + k] = x[k]
  <2>1. \A k \in 1 .. Len(x) : k \in 1 .. Len(xy)
    BY <1>8 DEF IsJoin
  <2>2. QED
    BY <1>8, <2>1, Zenon DEF IsJoin
<1>11. QED
  BY <1>7, <1>8, <1>9, <1>10 DEF FollowsAfter

\* A file that was not altered is its load file, as far as they both go.
LEMMA AsWritten ==
  ASSUME FilesAssumption, file \in Files, ~file.altered
  PROVE  /\ AsLinked \in LinkedFiles
         /\ file.whole => Len(LoadFile(AsLinked)) <= Len(file.words)
         /\ ~file.whole => Len(file.words) < Len(LoadFile(AsLinked))
         /\ \A k \in 1 .. Len(LoadFile(AsLinked)) :
              k <= Len(file.words) => file.words[k] = LoadFile(AsLinked)[k]
<1> DEFINE words == file.words
           load  == LoadFile(AsLinked)
<1>1. /\ words \in Seq(Longword) /\ AsLinked \in LinkedFiles
      /\ IF file.whole THEN IsPrefix(load, words) ELSE IsStrictPrefix(words, load)
  BY DEF FilesAssumption, AsLinked
<1>2. load \in Seq(Longword)
  BY <1>1, LoadFileStart
<1> HIDE DEF words, load
<1>3. ASSUME NEW s \in Seq(Longword), NEW t \in Seq(Longword), IsPrefix(s, t)
      PROVE  Len(s) <= Len(t) /\ \A k \in 1 .. Len(s) : s[k] = t[k]
  <2>1. Len(s) <= Len(t) /\ SubSeq(s, 1, Len(s)) = SubSeq(t, 1, Len(s))
    BY <1>3 DEF IsPrefix
  <2>2. \A k \in 1 .. Len(s) : SubSeq(s, 1, Len(s))[k] = s[k] /\ SubSeq(t, 1, Len(s))[k] = t[k]
    BY <2>1
  <2>3. QED
    BY <2>1, <2>2, Zenon
<1>4. Len(load) \in Nat /\ Len(words) \in Nat
  BY <1>1, <1>2
<1>5. CASE file.whole
  <2>1. Len(load) <= Len(words) /\ \A k \in 1 .. Len(load) : load[k] = words[k]
    BY <1>1, <1>2, <1>3, <1>5, Zenon
  <2>2. QED
    BY <1>1, <1>5, <2>1 DEF words, load
<1>6. CASE ~file.whole
  <2>1. Len(words) <= Len(load) /\ (\A k \in 1 .. Len(words) : words[k] = load[k]) /\ words # load
    BY <1>1, <1>2, <1>3, <1>6, Zenon DEF IsStrictPrefix
  <2>2. Len(words) # Len(load)
    BY <1>1, <1>2, <2>1, SameSequence
  <2>3. \A k \in 1 .. Len(load) : k <= Len(words) => words[k] = load[k]
    BY <1>4, <2>1
  <2>4. QED
    BY <1>1, <1>4, <1>6, <2>1, <2>2, <2>3 DEF words, load
<1>7. QED
  BY <1>5, <1>6

\* So the words ahead are those the load file has there, unless it is cut short.
LEMMA SeesAhead ==
  ASSUME FilesAssumption, CursorIsSound, ~file.altered, NEW x, NEW y, Faces(x, y)
  PROVE  /\ want <= Left => \A k \in 1 .. Len(x) : Ahead(k) = x[k]
         /\ want > Left => ~file.whole
         /\ Follows(AsLinked, pos + want, y)
         /\ Len(x) \in Nat
<1>1. x \in Seq(Longword) /\ want = Len(x) /\ FollowsBoth(AsLinked, pos, x, y)
  BY Zenon DEF Faces, FollowsBoth
<1>2. /\ Follows(AsLinked, pos + Len(x), y)
      /\ pos \in Nat /\ pos + Len(x) <= Len(LoadFile(AsLinked))
      /\ \A k \in 1 .. Len(x) : LoadFile(AsLinked)[pos + k] = x[k]
  <2>1. FollowsBoth(AsLinked, pos, x, y)
    BY <1>1, Zenon
  <2>2. FollowsAfter(AsLinked, pos, x, y)
    BY <2>1, FollowsOn, Zenon
  <2>3. QED
    BY <2>2, Zenon DEF FollowsAfter
<1>3. file \in Files /\ Len(file.words) \in Nat
  BY FileIsSound DEF CursorIsSound
<1>4. /\ AsLinked \in LinkedFiles
      /\ file.whole => Len(LoadFile(AsLinked)) <= Len(file.words)
      /\ \A k \in 1 .. Len(LoadFile(AsLinked)) :
              k <= Len(file.words) => file.words[k] = LoadFile(AsLinked)[k]
  BY <1>3, AsWritten
<1>5. Len(LoadFile(AsLinked)) \in Nat /\ Len(x) \in Nat
  BY <1>1, <1>4, LoadFileStart
<1>6. ASSUME want <= Left
      PROVE  \A k \in 1 .. Len(x) : Ahead(k) = x[k]
  <2>1. \A k \in 1 .. Len(x) : pos + k \in 1 .. Len(LoadFile(AsLinked)) /\ pos + k <= Len(file.words)
    BY <1>1, <1>2, <1>3, <1>5, <1>6 DEF Left
  <2>2. QED
    BY <1>2, <1>4, <2>1, Zenon DEF Ahead
<1>7. ASSUME want > Left, file.whole
      PROVE  FALSE
  <2>1. Len(LoadFile(AsLinked)) <= Len(file.words)
    BY <1>4, <1>7, Zenon
  <2>2. pos + Len(x) <= Len(LoadFile(AsLinked)) /\ Len(x) > Len(file.words) - pos
    BY <1>1, <1>2, <1>7, Zenon DEF Left
  <2> DEFINE loaded == Len(LoadFile(AsLinked))
             there  == Len(file.words)
             n      == Len(x)
  <2>3. /\ loaded \in Nat /\ there \in Nat /\ n \in Nat /\ pos \in Nat
        /\ loaded <= there /\ pos + n <= loaded /\ n > there - pos
    BY <1>2, <1>3, <1>5, <2>1, <2>2, Zenon
  <2> HIDE DEF loaded, there, n
  <2>4. QED
    BY ONLY <2>3
<1>8. QED
  BY <1>1, <1>2, <1>5, <1>6, <1>7

-----------------------------------------------------------------------------
(* The reader of a file that was not altered: what it has read so far.     *)

Hunks  == AsLinked.hunks
HunkNo == Len(parsed) + 1

\* What is known of hunk hk when the length, the body or the blocks of h are
\* read; relocs and those of blocks are still to come.
IsStarted(hk, h) ==
  hk = [kind |-> Kinds[h.type], mem_attr |-> h.attr, data |-> <<>>, size_bytes |-> 0,
        allocated_size |-> 4 * h.allocated, relocs |-> <<>>]
IsSized(hk, h) ==
  hk = [kind |-> Kinds[h.type], mem_attr |-> h.attr, data |-> <<>>, size_bytes |-> 4 * h.size,
        allocated_size |-> 4 * h.allocated, relocs |-> <<>>]
IsLeft(hk, h, relocs, blocks) ==
  HunkOf(h) = [hk EXCEPT !.relocs = (@ \o relocs) \o BlocksRelocs(blocks)]

Coming(rest) == Follows(AsLinked, pos, rest)

AtMagic == want = 1 /\ Coming(LoadFile(AsLinked))
AtNames == want = 1 /\ \E names \in Seq(Names) : Coming(NamesThen(Hunks, names))
AtName  ==
  \E name \in Names, names \in Seq(Names) :
    want = Len(name) /\ Coming(name \o NamesThen(Hunks, names))
AtRange == want = 3 /\ Coming(RangeThen(Hunks))
AtSizes == want = 1 /\ Len(table) < Len(Hunks) /\ Coming(SizesThen(Hunks, Len(table)))
AtType  == want = 1 /\ Coming(HunksThen(Hunks, Len(parsed)))
AtLength ==
  /\ want = 1
  /\ IsStarted(hunk, Hunks[HunkNo])
  /\ Coming(<<W(Hunks[HunkNo].size)>> \o BodyThen(Hunks, HunkNo))
AtBody ==
  /\ want = Len(Hunks[HunkNo].data)
  /\ IsSized(hunk, Hunks[HunkNo])
  /\ Coming(BodyThen(Hunks, HunkNo))
AtTrailer ==
  /\ want = 1
  /\ \E blocks \in Seq(TrailBlocks) :
       /\ IsLeft(hunk, Hunks[HunkNo], <<>>, blocks)
       /\ Coming(BlocksThen(Hunks, HunkNo, blocks))
AtRelocs ==
  /\ want = 1
  /\ \E entries \in Seq(ListEntries), blocks \in Seq(TrailBlocks) :
       /\ IsLeft(hunk, Hunks[HunkNo], EntriesRelocs(entries), blocks)
       /\ Coming(EntriesThen(Hunks, HunkNo, entries, blocks))
AtOffsets ==
  \E entry \in ListEntries, entries \in Seq(ListEntries), blocks \in Seq(TrailBlocks) :
    /\ want = Len(entry)
    /\ IsLeft(hunk, Hunks[HunkNo], EntryRelocs(entry) \o EntriesRelocs(entries), blocks)
    /\ Coming(entry \o EntriesThen(Hunks, HunkNo, entries, blocks))
AtSymbols ==
  /\ want = 1
  /\ \E entries \in Seq(ListEntries), blocks \in Seq(TrailBlocks) :
       /\ IsLeft(hunk, Hunks[HunkNo], <<>>, blocks)
       /\ Coming(EntriesThen(Hunks, HunkNo, entries, blocks))
AtSymbol ==
  \E entry \in ListEntries, entries \in Seq(ListEntries), blocks \in Seq(TrailBlocks) :
    /\ want = Len(entry)
    /\ IsLeft(hunk, Hunks[HunkNo], <<>>, blocks)
    /\ Coming(entry \o EntriesThen(Hunks, HunkNo, entries, blocks))
AtDebug ==
  /\ want = 1
  /\ \E data \in Seq(Longword), blocks \in Seq(TrailBlocks) :
       /\ IsLeft(hunk, Hunks[HunkNo], <<>>, blocks)
       /\ Coming(<<W(Len(data))>> \o (data \o BlocksThen(Hunks, HunkNo, blocks)))
AtDebugData ==
  \E data \in Seq(Longword), blocks \in Seq(TrailBlocks) :
    /\ want = Len(data)
    /\ IsLeft(hunk, Hunks[HunkNo], <<>>, blocks)
    /\ Coming(data \o BlocksThen(Hunks, HunkNo, blocks))
AtDone  == want = 0 /\ Coming(<<>>)
AtError ==
  /\ want = 0
  /\ parse_error # "OutOfMemory" => ~file.whole /\ parse_error = "Truncated"

IsAt ==
  /\ reading = "magic" => AtMagic
  /\ reading = "names" => AtNames
  /\ reading = "name" => AtName
  /\ reading = "range" => AtRange
  /\ reading = "sizes" => AtSizes
  /\ reading = "type" => AtType
  /\ reading = "length" => AtLength
  /\ reading = "body" => AtBody
  /\ reading = "trailer" => AtTrailer
  /\ reading = "relocs" => AtRelocs
  /\ reading = "offsets" => AtOffsets
  /\ reading = "symbols" => AtSymbols
  /\ reading = "symbol" => AtSymbol
  /\ reading = "debug" => AtDebug
  /\ reading = "debug_data" => AtDebugData
  /\ reading = "done" => AtDone
  /\ reading = "error" => AtError

\* The table and the hunks that have been read are those of the file.
IsEntry(entry, h) == entry = [mem_attr |-> h.attr, size |-> 4 * h.allocated]
TableSoFar ==
  reading \notin HeaderSteps \cup {"error"} =>
    table_size = Len(Hunks) /\ \A n \in DOMAIN table : IsEntry(table[n], Hunks[n])
ParsedSoFar == \A n \in DOMAIN parsed : parsed[n] = HunkOf(Hunks[n])

Track == ~file.altered /\ IsAt /\ TableSoFar /\ ParsedSoFar

\* Everything that is known while a file that was not altered is read.
OnTrack == FilesAssumption /\ ReaderInvariant /\ Track

LEMMA OnTrackFacts ==
  ASSUME OnTrack
  PROVE  /\ FilesAssumption /\ CursorIsSound /\ TableIsSound /\ HunksSoFar /\ ~file.altered
         /\ IsAt /\ TableSoFar /\ ParsedSoFar
         /\ AsLinked \in LinkedFiles /\ Hunks \in ManyHunks /\ AsLinked.names \in Seq(Names)
         /\ Len(Hunks) \in Nat /\ Len(Hunks) > 0
<1>1. /\ FilesAssumption /\ CursorIsSound /\ TableIsSound /\ HunksSoFar /\ ~file.altered
      /\ IsAt /\ TableSoFar /\ ParsedSoFar
  BY DEF OnTrack, Track, ReaderInvariant
<1>2. file \in Files
  BY <1>1 DEF CursorIsSound
<1>3. AsLinked \in LinkedFiles
  BY <1>1, <1>2, AsWritten
<1>4. Hunks \in ManyHunks /\ AsLinked.names \in Seq(Names)
  BY <1>3, LoadFileStart DEF Hunks
<1>5. QED
  BY <1>1, <1>3, <1>4, RangeThenAre

\* A step sees what it faces, and moves on to what is after it.
LEMMA StepSees ==
  ASSUME OnTrack, NEW x, NEW y, Faces(x, y), NEW p, CanRead(p)
  PROVE  \A k \in 1 .. Len(x) : Ahead(k) = x[k]
BY OnTrackFacts, SeesAhead DEF CanRead

LEMMA StepMoves ==
  ASSUME OnTrack, NEW x, NEW y, Faces(x, y), NEW p, Reads(p)
  PROVE  /\ Follows(AsLinked', pos', y) /\ AsLinked' = AsLinked /\ Hunks' = Hunks /\ file' = file
         /\ reading = p /\ CanRead(p)
<1>1. file' = file /\ pos' = pos + want /\ CanRead(p) /\ reading = p
  BY DEF Reads, CanRead
<1>2. AsLinked' = AsLinked
  BY <1>1 DEF AsLinked
<1>3. Follows(AsLinked, pos + want, y)
  BY OnTrackFacts, SeesAhead
<1>4. Follows(AsLinked', pos', y)
  BY <1>1, <1>2, <1>3, Zenon
<1>5. QED
  BY <1>1, <1>2, <1>4 DEF Hunks

\* When the step takes one word.
LEMMA OneFaced ==
  ASSUME OnTrack, NEW w, w \in Longword, NEW y, y \in Seq(Longword), want = 1, Coming(<<w>> \o y)
  PROVE  Faces(<<w>>, y) /\ Len(<<w>>) = 1 /\ <<w>>[1] = w /\ 1 \in 1 .. Len(<<w>>)
<1>1. <<w>> \in Seq(Longword) /\ Len(<<w>>) = 1 /\ <<w>>[1] = w /\ 1 \in 1 .. Len(<<w>>)
  OBVIOUS
<1>2. Faces(<<w>>, y)
  BY <1>1, Zenon DEF Faces, FollowsBoth, Coming
<1>3. QED
  BY <1>1, <1>2

\* Where the table and the hunks stay as they are.
LEMMA TrackKept ==
  ASSUME OnTrack, UNCHANGED <<file, table_size, table, parsed>>,
         reading' \in HeaderSteps \cup {"error"} \/ reading \notin HeaderSteps \cup {"error"}
  PROVE  TableSoFar' /\ ParsedSoFar' /\ ~file'.altered
<1>1. Hunks' = Hunks
  BY DEF Hunks, AsLinked
<1>2. TableSoFar /\ ParsedSoFar /\ ~file.altered
  BY OnTrackFacts
<1>3. TableSoFar'
  BY <1>1, <1>2 DEF TableSoFar
<1>4. ParsedSoFar'
  BY <1>1, <1>2 DEF ParsedSoFar
<1>5. QED
  BY <1>2, <1>3, <1>4

-----------------------------------------------------------------------------
(* What is faced at each step.                                             *)

LEMMA FacesMagic ==
  ASSUME OnTrack, AtMagic
  PROVE  Faces(<<W(HUNK_HEADER)>>, NamesThen(Hunks, AsLinked.names)) /\ want = 1
<1>1. NamesThen(Hunks, AsLinked.names) \in Seq(Longword)
  BY OnTrackFacts, NamesThenStart
<1>2. W(HUNK_HEADER) \in Longword
  BY WordsAre DEF HUNK_HEADER
<1>3. LoadFile(AsLinked) = <<W(HUNK_HEADER)>> \o NamesThen(Hunks, AsLinked.names)
  BY OnTrackFacts, LoadFileStart DEF Hunks
<1>4. want = 1 /\ Coming(<<W(HUNK_HEADER)>> \o NamesThen(Hunks, AsLinked.names))
  BY <1>3, Zenon DEF AtMagic
<1>5. QED
  BY <1>1, <1>2, <1>4, OneFaced

LEMMA FacesNames ==
  ASSUME OnTrack, AtNames
  PROVE  /\ want = 1
         /\ \/ Faces(<<W(0)>>, RangeThen(Hunks))
            \/ \E name \in Names, names \in Seq(Names) :
                 Faces(<<W(Len(name))>>, name \o NamesThen(Hunks, names))
<1>1. PICK names \in Seq(Names) : Coming(NamesThen(Hunks, names)) /\ want = 1
  BY Zenon DEF AtNames
<1>2. Hunks \in ManyHunks
  BY OnTrackFacts
<1>3. CASE names = <<>>
  <2>1. Coming(<<W(0)>> \o RangeThen(Hunks))
    BY <1>1, <1>2, <1>3, NamesThenStart
  <2>2. RangeThen(Hunks) \in Seq(Longword) /\ W(0) \in Longword
    BY <1>2, RangeThenAre, WordsAre
  <2>3. Faces(<<W(0)>>, RangeThen(Hunks))
    BY <1>1, <2>1, <2>2, OneFaced
  <2>4. QED
    BY <1>1, <2>3
<1>4. CASE names # <<>>
  <2> DEFINE name == names[1]
             rest == Tail(names)
  <2>1. /\ name \in Names /\ rest \in Seq(Names)
        /\ NamesThen(Hunks, names) = <<W(Len(name))>> \o (name \o NamesThen(Hunks, rest))
    BY <1>2, <1>4, NamesThenStart
  <2> HIDE DEF name, rest
  <2>2. NamesThen(Hunks, rest) \in Seq(Longword)
    BY <1>2, <2>1, NamesThenStart
  <2>3. name \in Seq(Longword) /\ Len(name) \in Nat
    BY <2>1 DEF Names
  <2>4. name \o NamesThen(Hunks, rest) \in Seq(Longword)
    BY <2>2, <2>3, JoinedIsSeq
  <2>5. W(Len(name)) \in Longword
    BY <2>3, WordsAre
  <2>6. Coming(<<W(Len(name))>> \o (name \o NamesThen(Hunks, rest)))
    BY <1>1, <2>1, Zenon
  <2>7. Faces(<<W(Len(name))>>, name \o NamesThen(Hunks, rest))
    BY <1>1, <2>4, <2>5, <2>6, OneFaced
  <2>8. QED
    BY <1>1, <2>1, <2>7, Zenon
<1>5. QED
  BY <1>3, <1>4

LEMMA FacesName ==
  ASSUME OnTrack, AtName
  PROVE  \E name \in Names, names \in Seq(Names) : Faces(name, NamesThen(Hunks, names))
<1>1. PICK name \in Names, names \in Seq(Names) :
        want = Len(name) /\ Coming(name \o NamesThen(Hunks, names))
  BY Zenon DEF AtName
<1>2. name \in Seq(Longword) /\ NamesThen(Hunks, names) \in Seq(Longword)
  BY OnTrackFacts, NamesThenStart DEF Names
<1>3. Faces(name, NamesThen(Hunks, names))
  BY <1>1, <1>2, Zenon DEF Faces, FollowsBoth, Coming
<1>4. QED
  BY <1>3, Zenon

LEMMA FacesRange ==
  ASSUME OnTrack, AtRange
  PROVE  Faces(RangeWords(Hunks), SizesThen(Hunks, 0)) /\ want = 3
<1>1. /\ RangeWords(Hunks) \in Seq(Longword) /\ Len(RangeWords(Hunks)) = 3
      /\ SizesThen(Hunks, 0) \in Seq(Longword)
  BY OnTrackFacts, RangeThenAre
<1>2. QED
  BY <1>1, Zenon DEF AtRange, RangeThen, Faces, FollowsBoth, Coming

LEMMA FacesSizes ==
  ASSUME OnTrack, AtSizes
  PROVE  /\ want = 1 /\ Len(table) < Len(Hunks) /\ Len(table) \in Nat
         /\ Faces(<<Tagged(AttrBits(Hunks[Len(table) + 1].attr), Hunks[Len(table) + 1].allocated)>>,
                  SizesThen(Hunks, Len(table) + 1))
<1> DEFINE n == Len(table)
           w == Tagged(AttrBits(Hunks[n + 1].attr), Hunks[n + 1].allocated)
<1>1. want = 1 /\ n < Len(Hunks) /\ Coming(SizesThen(Hunks, n))
  BY DEF AtSizes
<1>2. n \in Nat /\ n + 1 \in Nat /\ n + 1 <= Len(Hunks) /\ n <= Len(Hunks) /\ Hunks \in ManyHunks
  BY <1>1, OnTrackFacts DEF TableIsSound
<1>3. SizesThen(Hunks, n + 1) \in Seq(Longword) /\ SizesThen(Hunks, n) = <<w>> \o SizesThen(Hunks, n + 1)
  BY <1>1, <1>2, SizesThenStart
<1>4. w \in Longword
  <2>1. Hunks[n + 1] \in LinkedHunks
    BY <1>1, <1>2, HunksThenStart
  <2>2. Hunks[n + 1].allocated \in Nat /\ Hunks[n + 1].attr \in {"any", "chip", "fast"}
    BY <2>1, HunkIs
  <2>3. AttrBits(Hunks[n + 1].attr) \in 0 .. 3
    BY <2>2, AttrBitsAre
  <2>4. QED
    BY <2>2, <2>3, WordsAre
<1> HIDE DEF w
<1>5. Coming(<<w>> \o SizesThen(Hunks, n + 1))
  BY <1>1, <1>3, Zenon
<1>6. Faces(<<w>>, SizesThen(Hunks, n + 1))
  BY <1>1, <1>3, <1>4, <1>5, OneFaced
<1>7. QED
  BY <1>1, <1>2, <1>6 DEF w

\* The hunk that is read is one of the file's.
LEMMA HunkIsThere ==
  ASSUME OnTrack, reading \in {"type", "length", "body"} \cup BlockSteps
  PROVE  /\ Len(parsed) \in Nat /\ HunkNo = Len(parsed) + 1 /\ HunkNo \in Nat /\ HunkNo <= Len(Hunks)
         /\ Len(parsed) < Len(Hunks) /\ HunkNo \in 1 .. Len(Hunks)
         /\ Hunks[HunkNo] \in LinkedHunks
         /\ BodyThen(Hunks, HunkNo) \in Seq(Longword)
         /\ table_size = Len(Hunks) /\ Len(table) = table_size
<1>1. table_size = Len(Hunks) /\ Len(table) = table_size /\ Len(parsed) < table_size
  BY OnTrackFacts DEF TableSoFar, TableIsSound, HunksSoFar, HeaderSteps, BlockSteps
<1>2. Len(parsed) \in Nat /\ Len(Hunks) \in Nat
  BY OnTrackFacts DEF HunksSoFar
<1>3. Hunks[HunkNo] \in LinkedHunks /\ BodyThen(Hunks, HunkNo) \in Seq(Longword)
  BY <1>1, <1>2, OnTrackFacts, HunksThenStart DEF HunkNo
<1>4. QED
  BY <1>1, <1>2, <1>3 DEF HunkNo

LEMMA FacesType ==
  ASSUME OnTrack, AtType, reading = "type"
  PROVE  /\ want = 1
         /\ Faces(<<Tagged(Hunks[HunkNo].advice, Hunks[HunkNo].type)>>,
                  <<W(Hunks[HunkNo].size)>> \o BodyThen(Hunks, HunkNo))
<1> DEFINE w    == Tagged(Hunks[HunkNo].advice, Hunks[HunkNo].type)
           rest == <<W(Hunks[HunkNo].size)>> \o BodyThen(Hunks, HunkNo)
<1>1. /\ Len(parsed) \in Nat /\ HunkNo = Len(parsed) + 1 /\ Len(parsed) < Len(Hunks)
      /\ Hunks[HunkNo] \in LinkedHunks /\ BodyThen(Hunks, HunkNo) \in Seq(Longword)
  BY HunkIsThere
<1>2. want = 1 /\ Coming(HunksThen(Hunks, Len(parsed)))
  BY DEF AtType
<1>3. HunksThen(Hunks, Len(parsed)) = <<w>> \o rest
  BY <1>1, OnTrackFacts, HunksThenStart
<1>4. w \in Longword /\ W(Hunks[HunkNo].size) \in Longword
  <2>1. /\ Hunks[HunkNo].type \in Nat /\ Hunks[HunkNo].advice \in 0 .. 3
        /\ Hunks[HunkNo].size \in Nat
    BY <1>1, HunkIs DEF Kinds, HUNK_CODE, HUNK_DATA, HUNK_BSS
  <2>2. QED
    BY <2>1, WordsAre
<1>5. rest \in Seq(Longword)
  <2>1. <<W(Hunks[HunkNo].size)>> \in Seq(Longword)
    BY <1>4
  <2>2. QED
    BY <1>1, <2>1, JoinedIsSeq
<1> HIDE DEF w, rest
<1>6. Faces(<<w>>, rest)
  <2>1. Coming(<<w>> \o rest)
    BY <1>2, <1>3, Zenon
  <2>2. QED
    BY <1>2, <1>4, <1>5, <2>1, OneFaced
<1>7. QED
  BY <1>2, <1>6 DEF w, rest

LEMMA FacesLength ==
  ASSUME OnTrack, AtLength, reading = "length"
  PROVE  Faces(<<W(Hunks[HunkNo].size)>>, BodyThen(Hunks, HunkNo)) /\ want = 1
<1>1. Hunks[HunkNo] \in LinkedHunks /\ BodyThen(Hunks, HunkNo) \in Seq(Longword)
  BY HunkIsThere
<1>2. W(Hunks[HunkNo].size) \in Longword
  BY <1>1, HunkIs, WordsAre
<1>3. want = 1 /\ Coming(<<W(Hunks[HunkNo].size)>> \o BodyThen(Hunks, HunkNo))
  BY DEF AtLength
<1>4. QED
  BY <1>1, <1>2, <1>3, OneFaced

LEMMA FacesBody ==
  ASSUME OnTrack, AtBody, reading = "body"
  PROVE  Faces(Hunks[HunkNo].data, BlocksThen(Hunks, HunkNo, Hunks[HunkNo].blocks))
<1>1. Hunks[HunkNo] \in LinkedHunks /\ HunkNo \in Nat /\ HunkNo <= Len(Hunks) /\ Hunks \in ManyHunks
  BY HunkIsThere, OnTrackFacts
<1>2. Hunks[HunkNo].data \in Seq(Longword) /\ Hunks[HunkNo].blocks \in Seq(TrailBlocks)
  BY <1>1, HunkIs
<1>3. BlocksThen(Hunks, HunkNo, Hunks[HunkNo].blocks) \in Seq(Longword)
  BY <1>1, <1>2, BlocksThenAre
<1>4. QED
  BY <1>2, <1>3, Zenon DEF AtBody, BodyThen, Faces, FollowsBoth, Coming

\* The relocations that are still to come, when nothing is, when the next block
\* begins, and when those of an entry are read.
LEMMA RelocsOf ==
  ASSUME NEW hk, hk \in ReadHunk
  PROVE  hk.relocs \in Seq(Refs) /\ [hk EXCEPT !.relocs = hk.relocs] = hk
BY DEF ReadHunk, Refs

LEMMA NothingLeft ==
  ASSUME NEW hk, hk \in ReadHunk, NEW h, IsLeft(hk, h, <<>>, <<>>)
  PROVE  hk = HunkOf(h)
<1> DEFINE relocs == hk.relocs
<1>1. HunkOf(h) = [hk EXCEPT !.relocs = (relocs \o <<>>) \o BlocksRelocs(<<>>)]
  BY DEF IsLeft
<1>2. BlocksRelocs(<<>>) = <<>>
  <2>1. <<>> \in Seq(TrailBlocks)
    OBVIOUS
  <2>2. QED
    BY <2>1, BlocksSplit
<1>3. relocs \in Seq(Refs) /\ [hk EXCEPT !.relocs = relocs] = hk
  BY RelocsOf
<1> HIDE DEF relocs
<1>4. (relocs \o <<>>) \o <<>> = relocs
  BY <1>3, NothingAdded
<1>5. QED
  BY <1>1, <1>2, <1>3, <1>4

LEMMA BlockLeft ==
  ASSUME NEW hk, hk \in ReadHunk, NEW h, NEW blocks, blocks \in Seq(TrailBlocks), blocks # <<>>,
         IsLeft(hk, h, <<>>, blocks)
  PROVE  IsLeft(hk, h, BlockRelocs(blocks[1]), Tail(blocks))
<1> DEFINE relocs == hk.relocs
           first  == BlockRelocs(blocks[1])
           more   == BlocksRelocs(Tail(blocks))
<1>1. HunkOf(h) = [hk EXCEPT !.relocs = (relocs \o <<>>) \o BlocksRelocs(blocks)]
  BY DEF IsLeft
<1>2. blocks[1] \in TrailBlocks /\ Tail(blocks) \in Seq(TrailBlocks) /\ BlocksRelocs(blocks) = first \o more
  BY BlocksSplit
<1>3. relocs \in Seq(Refs) /\ first \in Seq(Refs) /\ more \in Seq(Refs)
  BY <1>2, RelocsOf, BlockIs, BlocksSplit
<1>4. (IsLeft(hk, h, first, Tail(blocks))) <=> (HunkOf(h) = [hk EXCEPT !.relocs = (relocs \o first) \o more])
  BY DEF IsLeft
<1> HIDE DEF relocs, first, more
<1>5. relocs \o <<>> = relocs
  BY <1>3, NothingAdded
<1>6. Regroups(relocs, first, more)
  BY <1>3, RegroupThree, Zenon
<1>7. (relocs \o <<>>) \o BlocksRelocs(blocks) = (relocs \o first) \o more
  BY <1>2, <1>5, <1>6, Zenon DEF Regroups
<1>8. HunkOf(h) = [hk EXCEPT !.relocs = (relocs \o first) \o more]
  BY <1>1, <1>7, Zenon
<1>9. QED
  BY <1>4, <1>8 DEF first

LEMMA EntryLeft ==
  ASSUME NEW hk, hk \in ReadHunk, NEW h, NEW blocks, NEW a, NEW b, a \in Seq(Refs), b \in Seq(Refs),
         IsLeft(hk, h, a \o b, blocks)
  PROVE  IsLeft([hk EXCEPT !.relocs = @ \o a], h, b, blocks)
<1> DEFINE relocs == hk.relocs
           more   == BlocksRelocs(blocks)
           next   == [hk EXCEPT !.relocs = relocs \o a]
<1>1. HunkOf(h) = [hk EXCEPT !.relocs = (relocs \o (a \o b)) \o more]
  BY DEF IsLeft
<1>2. next.relocs = relocs \o a /\ \A r : [next EXCEPT !.relocs = r] = [hk EXCEPT !.relocs = r]
  BY DEF ReadHunk
<1>3. relocs \in Seq(Refs)
  BY RelocsOf
<1>4. IsLeft(next, h, b, blocks) <=> HunkOf(h) = [next EXCEPT !.relocs = (next.relocs \o b) \o more]
  BY DEF IsLeft
<1>5. next = [hk EXCEPT !.relocs = @ \o a]
  OBVIOUS
<1> HIDE DEF relocs, more, next
<1>6. Regroups(relocs, a, b)
  BY <1>3, RegroupThree, Zenon
<1>7. (next.relocs \o b) \o more = (relocs \o (a \o b)) \o more
  BY <1>2, <1>6, Zenon DEF Regroups
<1>8. HunkOf(h) = [next EXCEPT !.relocs = (next.relocs \o b) \o more]
  BY <1>1, <1>2, <1>7, Zenon
<1>9. QED
  BY <1>4, <1>5, <1>8

LEMMA InBlocks ==
  ASSUME OnTrack, reading \in BlockSteps
  PROVE  /\ hunk \in ReadHunk /\ Hunks \in ManyHunks /\ HunkNo \in Nat /\ HunkNo <= Len(Hunks)
         /\ Hunks[HunkNo] \in LinkedHunks
         /\ \A blocks \in Seq(TrailBlocks) : BlocksThen(Hunks, HunkNo, blocks) \in Seq(Longword)
         /\ \A entries \in Seq(ListEntries), blocks \in Seq(TrailBlocks) :
              EntriesThen(Hunks, HunkNo, entries, blocks) \in Seq(Longword)
<1>1. hunk \in ReadHunk
  BY OnTrackFacts DEF HunksSoFar, IsSound
<1>2. Hunks \in ManyHunks /\ HunkNo \in Nat /\ HunkNo <= Len(Hunks) /\ Hunks[HunkNo] \in LinkedHunks
  BY OnTrackFacts, HunkIsThere
<1>3. QED
  BY <1>1, <1>2, BlocksThenAre, EntriesThenAre

LEMMA FacesTrailer ==
  ASSUME OnTrack, AtTrailer, reading = "trailer"
  PROVE  /\ want = 1
         /\ \/ /\ hunk = HunkOf(Hunks[HunkNo])
               /\ Faces(<<W(HUNK_END)>>, HunksThen(Hunks, HunkNo))
            \/ \E entries \in Seq(ListEntries), blocks \in Seq(TrailBlocks) :
                 /\ IsLeft(hunk, Hunks[HunkNo], EntriesRelocs(entries), blocks)
                 /\ Faces(<<W(HUNK_RELOC32)>>, EntriesThen(Hunks, HunkNo, entries, blocks))
            \/ \E entries \in Seq(ListEntries), blocks \in Seq(TrailBlocks) :
                 /\ IsLeft(hunk, Hunks[HunkNo], <<>>, blocks)
                 /\ Faces(<<W(HUNK_SYMBOL)>>, EntriesThen(Hunks, HunkNo, entries, blocks))
            \/ \E data \in Seq(Longword), blocks \in Seq(TrailBlocks) :
                 /\ IsLeft(hunk, Hunks[HunkNo], <<>>, blocks)
                 /\ Faces(<<W(HUNK_DEBUG)>>,
                          <<W(Len(data))>> \o (data \o BlocksThen(Hunks, HunkNo, blocks)))
<1>0. reading \in BlockSteps
  BY DEF BlockSteps
<1>1. PICK blocks : /\ blocks \in Seq(TrailBlocks) /\ want = 1
                    /\ IsLeft(hunk, Hunks[HunkNo], <<>>, blocks)
                    /\ Coming(BlocksThen(Hunks, HunkNo, blocks))
  BY Zenon DEF AtTrailer
<1>2. /\ hunk \in ReadHunk /\ Hunks \in ManyHunks /\ HunkNo \in Nat /\ HunkNo <= Len(Hunks)
  BY <1>0, InBlocks
<1>3. CASE blocks = <<>>
  <2>1. hunk = HunkOf(Hunks[HunkNo])
    BY <1>1, <1>2, <1>3, NothingLeft
  <2>2. HunksThen(Hunks, HunkNo) \in Seq(Longword) /\ W(HUNK_END) \in Longword
    BY <1>2, HunksThenAre, WordsAre DEF HUNK_END
  <2>3. BlocksThen(Hunks, HunkNo, blocks) = <<W(HUNK_END)>> \o HunksThen(Hunks, HunkNo)
    BY <1>1, <1>2, <1>3, BlocksThenStart
  <2>4. Coming(<<W(HUNK_END)>> \o HunksThen(Hunks, HunkNo))
    BY <1>1, <2>3, Zenon
  <2>5. Faces(<<W(HUNK_END)>>, HunksThen(Hunks, HunkNo))
    BY <1>1, <2>2, <2>4, OneFaced
  <2>6. QED
    BY <1>1, <2>1, <2>5, Zenon
<1>4. CASE blocks # <<>>
  <2> DEFINE block == blocks[1]
             more  == Tail(blocks)
  <2>1. /\ block \in TrailBlocks /\ more \in Seq(TrailBlocks)
        /\ block.type = HUNK_DEBUG =>
             BlocksThen(Hunks, HunkNo, blocks) =
               <<W(block.type)>> \o (<<W(Len(block.data))>> \o (block.data \o BlocksThen(Hunks, HunkNo, more)))
        /\ block.type # HUNK_DEBUG =>
             BlocksThen(Hunks, HunkNo, blocks) =
               <<W(block.type)>> \o EntriesThen(Hunks, HunkNo, block.entries, more)
    BY <1>1, <1>2, <1>4, BlocksThenStart
  <2>2. IsLeft(hunk, Hunks[HunkNo], BlockRelocs(block), more)
    BY <1>1, <1>2, <1>4, BlockLeft
  <2> HIDE DEF block, more
  <2>3. /\ block.type \in {HUNK_RELOC32, HUNK_SYMBOL, HUNK_DEBUG}
        /\ block.type = HUNK_DEBUG => block.data \in Seq(Longword)
        /\ block.type # HUNK_DEBUG => block.entries \in Seq(ListEntries)
    BY <2>1, BlockIs
  <2>4. W(block.type) \in Longword
    <3>1. block.type \in Nat
      BY <2>3 DEF HUNK_RELOC32, HUNK_SYMBOL, HUNK_DEBUG
    <3>2. QED
      BY <3>1, WordsAre
  <2>5. CASE block.type = HUNK_DEBUG
    <3> DEFINE data == block.data
               rest == <<W(Len(data))>> \o (data \o BlocksThen(Hunks, HunkNo, more))
    <3>1. data \in Seq(Longword) /\ Len(data) \in Nat
      BY <2>3, <2>5
    <3>2. rest \in Seq(Longword)
      <4>1. BlocksThen(Hunks, HunkNo, more) \in Seq(Longword)
        BY <1>2, <2>1, BlocksThenAre
      <4>2. data \o BlocksThen(Hunks, HunkNo, more) \in Seq(Longword)
        BY <3>1, <4>1, JoinedIsSeq
      <4>3. <<W(Len(data))>> \in Seq(Longword)
        BY <3>1, WordsAre
      <4>4. QED
        BY <4>2, <4>3, JoinedIsSeq
    <3>3. BlocksThen(Hunks, HunkNo, blocks) = <<W(block.type)>> \o rest
      BY <2>1, <2>5
    <3>4. BlockRelocs(block) = <<>>
      BY <2>5 DEF BlockRelocs, HUNK_RELOC32, HUNK_DEBUG
    <3> HIDE DEF rest
    <3>5. Coming(<<W(block.type)>> \o rest)
      BY <1>1, <3>3, Zenon
    <3>6. Faces(<<W(block.type)>>, rest)
      BY <1>1, <2>4, <3>2, <3>5, OneFaced
    <3>7. Faces(<<W(HUNK_DEBUG)>>, rest) /\ IsLeft(hunk, Hunks[HunkNo], <<>>, more)
      BY <2>2, <2>5, <3>4, <3>6, Zenon
    <3> HIDE DEF data
    <3>8. QED
      BY <1>1, <2>1, <3>1, <3>7, Zenon DEF rest
  <2>6. CASE block.type # HUNK_DEBUG
    <3> DEFINE entries == block.entries
               rest    == EntriesThen(Hunks, HunkNo, entries, more)
    <3>1. entries \in Seq(ListEntries)
      BY <2>3, <2>6
    <3>2. rest \in Seq(Longword)
      BY <1>2, <2>1, <3>1, EntriesThenAre
    <3>3. BlocksThen(Hunks, HunkNo, blocks) = <<W(block.type)>> \o rest
      BY <2>1, <2>6
    <3>4. /\ block.type = HUNK_RELOC32 => BlockRelocs(block) = EntriesRelocs(entries)
          /\ block.type # HUNK_RELOC32 => BlockRelocs(block) = <<>>
      BY DEF BlockRelocs
    <3> HIDE DEF rest, entries
    <3>5. Coming(<<W(block.type)>> \o rest)
      BY <1>1, <3>3, Zenon
    <3>6. Faces(<<W(block.type)>>, rest)
      BY <1>1, <2>4, <3>2, <3>5, OneFaced
    <3>7. CASE block.type = HUNK_RELOC32
      <4>1. Faces(<<W(HUNK_RELOC32)>>, rest) /\ IsLeft(hunk, Hunks[HunkNo], EntriesRelocs(entries), more)
        BY <2>2, <3>4, <3>6, <3>7, Zenon
      <4>2. QED
        BY <1>1, <2>1, <3>1, <4>1, Zenon DEF rest
    <3>8. CASE block.type = HUNK_SYMBOL
      <4>1. block.type # HUNK_RELOC32
        BY <3>8 DEF HUNK_RELOC32, HUNK_SYMBOL
      <4>2. Faces(<<W(HUNK_SYMBOL)>>, rest) /\ IsLeft(hunk, Hunks[HunkNo], <<>>, more)
        BY <2>2, <3>4, <3>6, <3>8, <4>1, Zenon
      <4>3. QED
        BY <1>1, <2>1, <3>1, <4>2, Zenon DEF rest
    <3>9. QED
      BY <2>3, <2>6, <3>7, <3>8
  <2>7. QED
    BY <2>5, <2>6
<1>5. QED
  BY <1>3, <1>4

\* The next word of a list: its end, or the length of an entry.
LEMMA EntriesComing ==
  ASSUME OnTrack, reading \in BlockSteps, want = 1,
         NEW entries, entries \in Seq(ListEntries), NEW blocks, blocks \in Seq(TrailBlocks),
         Coming(EntriesThen(Hunks, HunkNo, entries, blocks))
  PROVE  /\ entries = <<>> => Faces(<<W(0)>>, BlocksThen(Hunks, HunkNo, blocks))
         /\ entries # <<>> =>
              /\ entries[1] \in ListEntries /\ Tail(entries) \in Seq(ListEntries)
              /\ Faces(<<W(Len(entries[1]) - 1)>>,
                       entries[1] \o EntriesThen(Hunks, HunkNo, Tail(entries), blocks))
<1>1. Hunks \in ManyHunks /\ HunkNo \in Nat /\ HunkNo <= Len(Hunks)
  BY InBlocks
<1>2. ASSUME entries = <<>>
      PROVE  Faces(<<W(0)>>, BlocksThen(Hunks, HunkNo, blocks))
  <2>1. W(0) \in Longword /\ BlocksThen(Hunks, HunkNo, blocks) \in Seq(Longword)
    BY <1>1, WordsAre, BlocksThenAre
  <2>2. EntriesThen(Hunks, HunkNo, entries, blocks) = <<W(0)>> \o BlocksThen(Hunks, HunkNo, blocks)
    BY <1>1, <1>2, EntriesThenStart
  <2>3. Coming(<<W(0)>> \o BlocksThen(Hunks, HunkNo, blocks))
    BY <2>2, Zenon
  <2>4. QED
    BY <2>1, <2>3, OneFaced
<1>3. ASSUME entries # <<>>
      PROVE  /\ entries[1] \in ListEntries /\ Tail(entries) \in Seq(ListEntries)
             /\ Faces(<<W(Len(entries[1]) - 1)>>,
                      entries[1] \o EntriesThen(Hunks, HunkNo, Tail(entries), blocks))
  <2> DEFINE entry == entries[1]
             rest  == entry \o EntriesThen(Hunks, HunkNo, Tail(entries), blocks)
  <2>1. /\ entry \in ListEntries /\ Tail(entries) \in Seq(ListEntries)
        /\ EntriesThen(Hunks, HunkNo, entries, blocks) = <<W(Len(entry) - 1)>> \o rest
    BY <1>1, <1>3, EntriesThenStart
  <2>2. entry \in Seq(Longword) /\ Len(entry) - 1 \in Nat
    <3>1. entry \in Seq(Longword) /\ Len(entry) \in Nat /\ Len(entry) >= 2
      BY <2>1, EntryIs
    <3>2. QED
      BY <3>1
  <2>3. EntriesThen(Hunks, HunkNo, Tail(entries), blocks) \in Seq(Longword)
    BY <1>1, <2>1, EntriesThenAre
  <2>4. rest \in Seq(Longword)
    BY <2>2, <2>3, JoinedIsSeq
  <2>5. W(Len(entry) - 1) \in Longword
    BY <2>2, WordsAre
  <2> HIDE DEF rest, entry
  <2>6. Coming(<<W(Len(entry) - 1)>> \o rest)
    BY <2>1, Zenon
  <2>7. Faces(<<W(Len(entry) - 1)>>, rest)
    BY <2>4, <2>5, <2>6, OneFaced
  <2>8. QED
    BY <2>1, <2>7 DEF rest, entry
<1>4. QED
  BY <1>2, <1>3

LEMMA FacesRelocs ==
  ASSUME OnTrack, AtRelocs, reading = "relocs"
  PROVE  /\ want = 1
         /\ \/ \E blocks \in Seq(TrailBlocks) :
                 /\ IsLeft(hunk, Hunks[HunkNo], <<>>, blocks)
                 /\ Faces(<<W(0)>>, BlocksThen(Hunks, HunkNo, blocks))
            \/ \E entry \in ListEntries, entries \in Seq(ListEntries), blocks \in Seq(TrailBlocks) :
                 /\ IsLeft(hunk, Hunks[HunkNo], EntryRelocs(entry) \o EntriesRelocs(entries), blocks)
                 /\ Faces(<<W(Len(entry) - 1)>>, entry \o EntriesThen(Hunks, HunkNo, entries, blocks))
<1>0. reading \in BlockSteps
  BY DEF BlockSteps
<1>1. PICK entries, blocks :
        /\ want = 1 /\ entries \in Seq(ListEntries) /\ blocks \in Seq(TrailBlocks)
        /\ IsLeft(hunk, Hunks[HunkNo], EntriesRelocs(entries), blocks)
        /\ Coming(EntriesThen(Hunks, HunkNo, entries, blocks))
  BY Zenon DEF AtRelocs
<1>2. CASE entries = <<>>
  <2>1. EntriesRelocs(entries) = <<>>
    BY <1>1, <1>2, EntriesSplit
  <2>2. Faces(<<W(0)>>, BlocksThen(Hunks, HunkNo, blocks))
    BY <1>0, <1>1, <1>2, EntriesComing
  <2>3. QED
    BY <1>1, <2>1, <2>2, Zenon
<1>3. CASE entries # <<>>
  <2>1. EntriesRelocs(entries) = EntryRelocs(entries[1]) \o EntriesRelocs(Tail(entries))
    BY <1>1, <1>3, EntriesSplit
  <2>2. /\ entries[1] \in ListEntries /\ Tail(entries) \in Seq(ListEntries)
        /\ Faces(<<W(Len(entries[1]) - 1)>>,
                 entries[1] \o EntriesThen(Hunks, HunkNo, Tail(entries), blocks))
    BY <1>0, <1>1, <1>3, EntriesComing
  <2>3. IsLeft(hunk, Hunks[HunkNo], EntryRelocs(entries[1]) \o EntriesRelocs(Tail(entries)), blocks)
    BY <1>1, <2>1, Zenon
  <2>4. QED
    BY <1>1, <2>2, <2>3, Zenon
<1>4. QED
  BY <1>2, <1>3

LEMMA FacesSymbols ==
  ASSUME OnTrack, AtSymbols, reading = "symbols"
  PROVE  /\ want = 1
         /\ \/ \E blocks \in Seq(TrailBlocks) :
                 /\ IsLeft(hunk, Hunks[HunkNo], <<>>, blocks)
                 /\ Faces(<<W(0)>>, BlocksThen(Hunks, HunkNo, blocks))
            \/ \E entry \in ListEntries, entries \in Seq(ListEntries), blocks \in Seq(TrailBlocks) :
                 /\ IsLeft(hunk, Hunks[HunkNo], <<>>, blocks)
                 /\ Faces(<<W(Len(entry) - 1)>>, entry \o EntriesThen(Hunks, HunkNo, entries, blocks))
<1>0. reading \in BlockSteps
  BY DEF BlockSteps
<1>1. PICK entries, blocks :
        /\ want = 1 /\ entries \in Seq(ListEntries) /\ blocks \in Seq(TrailBlocks)
        /\ IsLeft(hunk, Hunks[HunkNo], <<>>, blocks)
        /\ Coming(EntriesThen(Hunks, HunkNo, entries, blocks))
  BY Zenon DEF AtSymbols
<1>2. CASE entries = <<>>
  <2>1. Faces(<<W(0)>>, BlocksThen(Hunks, HunkNo, blocks))
    BY <1>0, <1>1, <1>2, EntriesComing
  <2>2. QED
    BY <1>1, <2>1, Zenon
<1>3. CASE entries # <<>>
  <2>1. /\ entries[1] \in ListEntries /\ Tail(entries) \in Seq(ListEntries)
        /\ Faces(<<W(Len(entries[1]) - 1)>>,
                 entries[1] \o EntriesThen(Hunks, HunkNo, Tail(entries), blocks))
    BY <1>0, <1>1, <1>3, EntriesComing
  <2>2. QED
    BY <1>1, <2>1, Zenon
<1>4. QED
  BY <1>2, <1>3

\* The words of an entry.
LEMMA FacesOffsets ==
  ASSUME OnTrack, AtOffsets, reading = "offsets"
  PROVE  \E entry \in ListEntries, entries \in Seq(ListEntries), blocks \in Seq(TrailBlocks) :
           /\ want = Len(entry)
           /\ IsLeft(hunk, Hunks[HunkNo], EntryRelocs(entry) \o EntriesRelocs(entries), blocks)
           /\ Faces(entry, EntriesThen(Hunks, HunkNo, entries, blocks))
<1>1. PICK entry \in ListEntries, entries \in Seq(ListEntries), blocks \in Seq(TrailBlocks) :
        /\ want = Len(entry)
        /\ IsLeft(hunk, Hunks[HunkNo], EntryRelocs(entry) \o EntriesRelocs(entries), blocks)
        /\ Coming(entry \o EntriesThen(Hunks, HunkNo, entries, blocks))
  BY Zenon DEF AtOffsets
<1>2. EntriesThen(Hunks, HunkNo, entries, blocks) \in Seq(Longword)
  BY InBlocks DEF BlockSteps
<1>3. entry \in Seq(Longword)
  BY EntryIs
<1>4. Faces(entry, EntriesThen(Hunks, HunkNo, entries, blocks))
  BY <1>1, <1>2, <1>3, Zenon DEF Faces, FollowsBoth, Coming
<1>5. QED
  BY <1>1, <1>4, Zenon

LEMMA FacesSymbol ==
  ASSUME OnTrack, AtSymbol, reading = "symbol"
  PROVE  \E entry \in ListEntries, entries \in Seq(ListEntries), blocks \in Seq(TrailBlocks) :
           /\ IsLeft(hunk, Hunks[HunkNo], <<>>, blocks)
           /\ Faces(entry, EntriesThen(Hunks, HunkNo, entries, blocks))
<1>1. PICK entry \in ListEntries, entries \in Seq(ListEntries), blocks \in Seq(TrailBlocks) :
        /\ want = Len(entry)
        /\ IsLeft(hunk, Hunks[HunkNo], <<>>, blocks)
        /\ Coming(entry \o EntriesThen(Hunks, HunkNo, entries, blocks))
  BY Zenon DEF AtSymbol
<1>2. EntriesThen(Hunks, HunkNo, entries, blocks) \in Seq(Longword)
  BY InBlocks DEF BlockSteps
<1>3. entry \in Seq(Longword)
  BY EntryIs
<1>4. Faces(entry, EntriesThen(Hunks, HunkNo, entries, blocks))
  BY <1>1, <1>2, <1>3, Zenon DEF Faces, FollowsBoth, Coming
<1>5. QED
  BY <1>1, <1>4, Zenon

LEMMA FacesDebug ==
  ASSUME OnTrack, AtDebug, reading = "debug"
  PROVE  /\ want = 1
         /\ \E data \in Seq(Longword), blocks \in Seq(TrailBlocks) :
              /\ IsLeft(hunk, Hunks[HunkNo], <<>>, blocks)
              /\ Faces(<<W(Len(data))>>, data \o BlocksThen(Hunks, HunkNo, blocks))
<1>1. PICK data, blocks :
        /\ want = 1 /\ data \in Seq(Longword) /\ blocks \in Seq(TrailBlocks)
        /\ IsLeft(hunk, Hunks[HunkNo], <<>>, blocks)
        /\ Coming(<<W(Len(data))>> \o (data \o BlocksThen(Hunks, HunkNo, blocks)))
  BY Zenon DEF AtDebug
<1>2. BlocksThen(Hunks, HunkNo, blocks) \in Seq(Longword)
  BY <1>1, InBlocks DEF BlockSteps
<1>3. data \o BlocksThen(Hunks, HunkNo, blocks) \in Seq(Longword)
  BY <1>1, <1>2, JoinedIsSeq
<1>4. W(Len(data)) \in Longword
  <2>1. Len(data) \in Nat
    BY <1>1
  <2>2. QED
    BY <2>1, WordsAre
<1> DEFINE rest == data \o BlocksThen(Hunks, HunkNo, blocks)
<1>5. rest \in Seq(Longword) /\ Coming(<<W(Len(data))>> \o rest)
  BY <1>1, <1>3, Zenon
<1> HIDE DEF rest
<1>6. Faces(<<W(Len(data))>>, rest)
  BY <1>1, <1>4, <1>5, OneFaced
<1>7. QED
  BY <1>1, <1>6, Zenon DEF rest

LEMMA FacesDebugData ==
  ASSUME OnTrack, AtDebugData, reading = "debug_data"
  PROVE  \E data \in Seq(Longword), blocks \in Seq(TrailBlocks) :
           /\ IsLeft(hunk, Hunks[HunkNo], <<>>, blocks)
           /\ Faces(data, BlocksThen(Hunks, HunkNo, blocks))
<1>1. PICK data, blocks :
        /\ want = Len(data) /\ data \in Seq(Longword) /\ blocks \in Seq(TrailBlocks)
        /\ IsLeft(hunk, Hunks[HunkNo], <<>>, blocks)
        /\ Coming(data \o BlocksThen(Hunks, HunkNo, blocks))
  BY Zenon DEF AtDebugData
<1>2. BlocksThen(Hunks, HunkNo, blocks) \in Seq(Longword)
  BY <1>1, InBlocks DEF BlockSteps
<1>3. Faces(data, BlocksThen(Hunks, HunkNo, blocks))
  BY <1>1, <1>2, Zenon DEF Faces, FollowsBoth, Coming
<1>4. QED
  BY <1>1, <1>3, Zenon

-----------------------------------------------------------------------------
(* The reader of a file that was not altered: its steps.                   *)

Arrives ==
  \/ reading = "names" /\ AtNames
  \/ reading = "name" /\ AtName
  \/ reading = "range" /\ AtRange
  \/ reading = "sizes" /\ AtSizes
  \/ reading = "type" /\ AtType
  \/ reading = "length" /\ AtLength
  \/ reading = "body" /\ AtBody
  \/ reading = "trailer" /\ AtTrailer
  \/ reading = "relocs" /\ AtRelocs
  \/ reading = "offsets" /\ AtOffsets
  \/ reading = "symbols" /\ AtSymbols
  \/ reading = "symbol" /\ AtSymbol
  \/ reading = "debug" /\ AtDebug
  \/ reading = "debug_data" /\ AtDebugData
  \/ reading = "done" /\ AtDone
  \/ reading = "error" /\ AtError

LEMMA ArrivesIsAt == ASSUME Arrives' PROVE IsAt'
BY DEF Arrives, IsAt

\* A step that leaves the table and the hunks as they are.
LEMMA PassesOn ==
  ASSUME OnTrack, UNCHANGED <<file, table_size, table, parsed>>, Arrives',
         reading' \in HeaderSteps \cup {"error"} \/ reading \notin HeaderSteps \cup {"error"}
  PROVE  Track'
BY ArrivesIsAt, TrackKept DEF Track

LEMMA TrackMagic ==
  ASSUME OnTrack, ReadMagic
  PROVE  Track'
<1>1. reading = "magic" /\ AtMagic /\ Reads("magic")
  BY OnTrackFacts DEF IsAt, ReadMagic, Reads, CanRead
<1>2. Follows(AsLinked', pos', NamesThen(Hunks, AsLinked.names)) /\ AsLinked' = AsLinked /\ Hunks' = Hunks
  BY <1>1, FacesMagic, StepMoves
<1>3. reading' = "names" /\ want' = 1 /\ UNCHANGED <<file, table_size, table, parsed>>
  BY DEF ReadMagic, Goto, Reads
<1>4. AtNames'
  <2>1. AsLinked.names \in Seq(Names)
    BY OnTrackFacts
  <2>2. Follows(AsLinked', pos', NamesThen(Hunks', AsLinked.names))
    BY <1>2, Zenon
  <2>3. QED
    BY <1>3, <2>1, <2>2, Zenon DEF AtNames, Coming
<1>5. QED
  BY <1>3, <1>4, PassesOn DEF HeaderSteps, Arrives

LEMMA TrackNames ==
  ASSUME OnTrack, ReadNameLength
  PROVE  Track'
<1>1. reading = "names" /\ AtNames /\ Reads("names") /\ CanRead("names")
  BY OnTrackFacts DEF IsAt, ReadNameLength, Reads, CanRead
<1>2. UNCHANGED <<file, table_size, table, parsed>>
  BY DEF ReadNameLength, Reads
<1>3. want = 1 /\ \/ Faces(<<W(0)>>, RangeThen(Hunks))
                  \/ \E name \in Names, names \in Seq(Names) :
                       Faces(<<W(Len(name))>>, name \o NamesThen(Hunks, names))
  BY <1>1, FacesNames
<1>4. CASE Faces(<<W(0)>>, RangeThen(Hunks))
  <2>1. Ahead(1) = W(0)
    <3>1. \A k \in 1 .. Len(<<W(0)>>) : Ahead(k) = <<W(0)>>[k]
      BY <1>1, <1>4, StepSees
    <3>2. QED
      BY <3>1
  <2>2. Follows(AsLinked', pos', RangeThen(Hunks)) /\ Hunks' = Hunks
    BY <1>1, <1>4, StepMoves
  <2>3. reading' = "range" /\ want' = 3
    BY <2>1 DEF ReadNameLength, Goto
  <2>4. AtRange'
    BY <2>2, <2>3, Zenon DEF AtRange, Coming
  <2>5. QED
    BY <1>2, <2>3, <2>4, PassesOn DEF HeaderSteps, Arrives
<1>5. ASSUME NEW name \in Names, NEW names \in Seq(Names),
             Faces(<<W(Len(name))>>, name \o NamesThen(Hunks, names))
      PROVE  Track'
  <2> DEFINE w    == W(Len(name))
             rest == name \o NamesThen(Hunks, names)
  <2>1. Ahead(1) = w
    <3>1. \A k \in 1 .. Len(<<w>>) : Ahead(k) = <<w>>[k]
      BY <1>1, <1>5, StepSees
    <3> HIDE DEF w
    <3>2. QED
      BY <3>1
  <2>2. Follows(AsLinked', pos', rest) /\ Hunks' = Hunks
    BY <1>1, <1>5, StepMoves
  <2>3. Len(name) \in Nat /\ Len(name) # 0
    <3>1. name \in Seq(Longword) /\ name # <<>>
      BY DEF Names
    <3>2. QED
      BY <3>1
  <2>4. w # W(0) /\ Count(w) = Len(name)
    BY <2>3 DEF W, Count
  <2>5. reading' = "name" /\ want' = Len(name)
    BY <2>1, <2>4, Zenon DEF ReadNameLength, Goto
  <2>6. AtName'
    BY <2>2, <2>5, Zenon DEF AtName, Coming
  <2>7. QED
    BY <1>2, <2>5, <2>6, PassesOn DEF HeaderSteps, Arrives
<1>6. QED
  BY <1>3, <1>4, <1>5

LEMMA TrackName ==
  ASSUME OnTrack, SkipName
  PROVE  Track'
<1>1. reading = "name" /\ AtName /\ Reads("name")
  BY OnTrackFacts DEF IsAt, SkipName, Reads, CanRead
<1>2. PICK name \in Names, names \in Seq(Names) : Faces(name, NamesThen(Hunks, names))
  BY <1>1, FacesName
<1>3. Follows(AsLinked', pos', NamesThen(Hunks, names)) /\ Hunks' = Hunks
  BY <1>1, <1>2, StepMoves
<1>4. reading' = "names" /\ want' = 1 /\ UNCHANGED <<file, table_size, table, parsed>>
  BY DEF SkipName, Goto, Reads
<1>5. AtNames'
  BY <1>3, <1>4, Zenon DEF AtNames, Coming
<1>6. QED
  BY <1>4, <1>5, PassesOn DEF HeaderSteps, Arrives

\* The range: all hunks of the file.
LEMMA RangeAhead ==
  ASSUME OnTrack, CanRead("range")
  PROVE  /\ reading = "range" /\ AtRange
         /\ Ahead(1) = W(Len(Hunks)) /\ Ahead(2) = W(0) /\ Ahead(3) = W(Len(Hunks) - 1)
         /\ WholeRange
<1>1. reading = "range" /\ AtRange
  BY OnTrackFacts DEF IsAt, CanRead
<1>2. Faces(RangeWords(Hunks), SizesThen(Hunks, 0))
  BY <1>1, FacesRange
<1>3. \A k \in 1 .. Len(RangeWords(Hunks)) : Ahead(k) = RangeWords(Hunks)[k]
  BY <1>2, StepSees
<1>4. Ahead(1) = W(Len(Hunks)) /\ Ahead(2) = W(0) /\ Ahead(3) = W(Len(Hunks) - 1)
  <2>1. /\ Len(RangeWords(Hunks)) = 3 /\ RangeWords(Hunks)[1] = W(Len(Hunks))
        /\ RangeWords(Hunks)[2] = W(0) /\ RangeWords(Hunks)[3] = W(Len(Hunks) - 1)
    BY OnTrackFacts, RangeThenAre
  <2>2. 1 \in 1 .. 3 /\ 2 \in 1 .. 3 /\ 3 \in 1 .. 3
    OBVIOUS
  <2>3. QED
    BY <1>3, <2>1, <2>2, Zenon
<1>5. WholeRange
  <2>1. Len(Hunks) \in Nat /\ Len(Hunks) > 0
    BY OnTrackFacts
  <2>2. W(Len(Hunks)).value > 0 /\ W(Len(Hunks) - 1) = [W(Len(Hunks)) EXCEPT !.value = @ - 1]
    BY <2>1 DEF W
  <2>3. QED
    BY <1>4, <2>2 DEF WholeRange
<1>6. QED
  BY <1>1, <1>4, <1>5

LEMMA TrackRange ==
  ASSUME OnTrack, ReadRange
  PROVE  Track'
<1>1. Reads("range") /\ CanRead("range")
  BY DEF ReadRange, Reads
<1>2. /\ reading = "range" /\ AtRange /\ Ahead(1) = W(Len(Hunks))
  BY <1>1, RangeAhead
<1>3. Len(Hunks) \in Nat /\ Len(Hunks) > 0 /\ table = <<>>
  BY <1>2, OnTrackFacts DEF TableIsSound, HeaderSteps
<1>4. Follows(AsLinked', pos', SizesThen(Hunks, 0)) /\ Hunks' = Hunks
  BY <1>1, <1>2, FacesRange, StepMoves
<1>5. /\ reading' = "sizes" /\ want' = 1 /\ table_size' = Len(Hunks)
      /\ UNCHANGED <<file, table, hunk, parsed>>
  <2>1. W(Len(Hunks)) # W(0) /\ Count(W(Len(Hunks))) = Len(Hunks)
    BY <1>3 DEF W, Count
  <2>2. QED
    BY <1>2, <2>1 DEF ReadRange, Goto, Reads
<1>6. table' = <<>> /\ Len(table') = 0 /\ DOMAIN table' = {}
  BY <1>3, <1>5
<1>7. AtSizes'
  <2>1. Len(table') < Len(Hunks')
    BY <1>3, <1>4, <1>6
  <2>2. Follows(AsLinked', pos', SizesThen(Hunks', Len(table')))
    BY <1>4, <1>6, Zenon
  <2>3. QED
    BY <1>5, <2>1, <2>2, Zenon DEF AtSizes, Coming
<1>8. TableSoFar'
  BY <1>4, <1>5, <1>6 DEF TableSoFar
<1>9. ParsedSoFar' /\ ~file'.altered
  BY <1>4, <1>5, OnTrackFacts DEF ParsedSoFar
<1>10. IsAt'
  BY <1>5, <1>7, ArrivesIsAt DEF Arrives
<1>11. QED
  BY <1>8, <1>9, <1>10 DEF Track

\* What is seen of one word.
LEMMA WordAhead ==
  ASSUME OnTrack, NEW w, NEW y, Faces(<<w>>, y), NEW p, CanRead(p)
  PROVE  Ahead(1) = w
<1>1. \A k \in 1 .. Len(<<w>>) : Ahead(k) = <<w>>[k]
  BY StepSees
<1>2. 1 \in 1 .. Len(<<w>>) /\ <<w>>[1] = w
  OBVIOUS
<1>3. QED
  BY <1>1, <1>2, Zenon

LEMMA AppendedIs ==
  ASSUME NEW S, NEW s, s \in Seq(S), NEW last, last \in S
  PROVE  \A n \in DOMAIN Append(s, last) :
           \/ n \in DOMAIN s /\ Append(s, last)[n] = s[n]
           \/ n = Len(s) + 1 /\ Append(s, last)[n] = last
<1>1. Len(s) \in Nat /\ DOMAIN s = 1 .. Len(s)
  OBVIOUS
<1>2. Append(s, last) \in Seq(S) /\ Len(Append(s, last)) = Len(s) + 1
  OBVIOUS
<1>3. DOMAIN Append(s, last) = 1 .. Len(s) + 1
  BY <1>2
<1>4. \A n \in 1 .. Len(s) : Append(s, last)[n] = s[n]
  OBVIOUS
<1>5. Append(s, last)[Len(s) + 1] = last
  OBVIOUS
<1>6. \A n \in 1 .. Len(s) + 1 : n \in 1 .. Len(s) \/ n = Len(s) + 1
  BY <1>1
<1>7. QED
  BY <1>1, <1>3, <1>4, <1>5, <1>6, Zenon

LEMMA SizeAhead ==
  ASSUME OnTrack, CanRead("sizes")
  PROVE  /\ reading = "sizes" /\ AtSizes /\ Len(table) \in Nat /\ Len(table) < Len(Hunks)
         /\ Ahead(1).flags # 3
         /\ IsEntry([mem_attr |-> MemAttrs[Ahead(1).flags + 1], size |-> 4 * Ahead(1).value],
                    Hunks[Len(table) + 1])
<1> DEFINE h == Hunks[Len(table) + 1]
<1>1. reading = "sizes" /\ AtSizes
  BY OnTrackFacts DEF IsAt, CanRead
<1>2. /\ Len(table) < Len(Hunks) /\ Len(table) \in Nat
      /\ Faces(<<Tagged(AttrBits(h.attr), h.allocated)>>, SizesThen(Hunks, Len(table) + 1))
  BY <1>1, FacesSizes
<1>3. Ahead(1) = Tagged(AttrBits(h.attr), h.allocated)
  BY <1>2, WordAhead
<1>4. h \in LinkedHunks
  BY <1>2, OnTrackFacts, HunksThenStart
<1> HIDE DEF h
<1>5. h.attr \in {"any", "chip", "fast"}
  BY <1>4, HunkIs
<1>6. AttrBits(h.attr) \in 0 .. 2 /\ MemAttrs[AttrBits(h.attr) + 1] = h.attr
  BY <1>5, AttrBitsAre
<1>7. Ahead(1).flags = AttrBits(h.attr) /\ Ahead(1).value = h.allocated
  BY <1>3 DEF Tagged
<1>8. Ahead(1).flags # 3
  BY <1>6, <1>7
<1>9. [mem_attr |-> MemAttrs[Ahead(1).flags + 1], size |-> 4 * Ahead(1).value]
        = [mem_attr |-> h.attr, size |-> 4 * h.allocated]
  BY <1>6, <1>7, Zenon
<1>10. QED
  BY <1>1, <1>2, <1>8, <1>9 DEF IsEntry, h

LEMMA TrackSize ==
  ASSUME OnTrack, ReadSize
  PROVE  Track'
<1>1. Reads("sizes") /\ CanRead("sizes")
  BY DEF ReadSize, Reads
<1> DEFINE entry == [mem_attr |-> MemAttrs[Ahead(1).flags + 1], size |-> 4 * Ahead(1).value]
<1>2. /\ reading = "sizes" /\ AtSizes /\ Len(table) \in Nat /\ Len(table) < Len(Hunks)
      /\ IsEntry(entry, Hunks[Len(table) + 1])
  BY <1>1, SizeAhead
<1>3. /\ table' = Append(table, entry) /\ UNCHANGED <<file, table_size, hunk, parsed>>
      /\ IF Len(table') < table_size THEN Goto("sizes", 1) ELSE Goto("type", 1)
  BY DEF ReadSize, Reads
<1>4. Follows(AsLinked', pos', SizesThen(Hunks, Len(table) + 1)) /\ Hunks' = Hunks
  BY <1>1, <1>2, FacesSizes, StepMoves
<1>5. table_size = Len(Hunks) /\ (\A n \in DOMAIN table : IsEntry(table[n], Hunks[n])) /\ table \in Seq(Entry)
  BY <1>2, OnTrackFacts DEF TableSoFar, TableIsSound, HeaderSteps
<1>6. parsed = <<>> /\ Len(Hunks) \in Nat /\ Hunks \in ManyHunks
  BY <1>2, OnTrackFacts DEF HunksSoFar
<1>7. entry \in Entry
  <2>1. Hunks[Len(table) + 1] \in LinkedHunks
    BY <1>2, <1>6, HunksThenStart
  <2>2. entry = [mem_attr |-> Hunks[Len(table) + 1].attr, size |-> 4 * Hunks[Len(table) + 1].allocated]
    BY <1>2 DEF IsEntry
  <2>3. Hunks[Len(table) + 1].attr \in Memory /\ Hunks[Len(table) + 1].allocated \in Nat
    BY <2>1, HunkIs DEF Memory
  <2> HIDE DEF entry
  <2>4. QED
    BY <2>2, <2>3 DEF Entry
<1> HIDE DEF entry
<1>8. Len(table') = Len(table) + 1
  BY <1>3, <1>5
<1>9. \A n \in DOMAIN table' : IsEntry(table'[n], Hunks[n])
  <2>1. \A n \in DOMAIN table' :
          \/ n \in DOMAIN table /\ table'[n] = table[n]
          \/ n = Len(table) + 1 /\ table'[n] = entry
    <3>1. \A n \in DOMAIN Append(table, entry) :
            \/ n \in DOMAIN table /\ Append(table, entry)[n] = table[n]
            \/ n = Len(table) + 1 /\ Append(table, entry)[n] = entry
      BY <1>5, <1>7, AppendedIs
    <3>2. QED
      BY <1>3, <3>1, Zenon
  <2>2. IsEntry(entry, Hunks[Len(table) + 1])
    BY <1>2, Zenon
  <2>3. \A n \in DOMAIN table : IsEntry(table[n], Hunks[n])
    BY <1>5, Zenon
  <2>4. QED
    BY <2>1, <2>2, <2>3, Zenon
<1>10. TableSoFar' /\ ParsedSoFar' /\ ~file'.altered
  <2>1. TableSoFar'
    BY <1>3, <1>4, <1>5, <1>9, Zenon DEF TableSoFar
  <2>2. ParsedSoFar' /\ ~file'.altered
    BY <1>3, <1>4, OnTrackFacts DEF ParsedSoFar
  <2>3. QED
    BY <2>1, <2>2
<1>11. CASE Len(table') < table_size
  <2>1. reading' = "sizes" /\ want' = 1
    BY <1>3, <1>11 DEF Goto
  <2>2. Len(table') < Len(Hunks') /\ Follows(AsLinked', pos', SizesThen(Hunks', Len(table')))
    <3>1. Len(table') < Len(Hunks')
      BY <1>4, <1>5, <1>11
    <3>2. QED
      BY <1>4, <1>8, <3>1, Zenon
  <2>3. AtSizes'
    BY <2>1, <2>2, Zenon DEF AtSizes, Coming
  <2>4. QED
    BY <1>10, <2>1, <2>3, ArrivesIsAt DEF Arrives, Track
<1>12. CASE ~(Len(table') < table_size)
  <2>1. reading' = "type" /\ want' = 1
    BY <1>3, <1>12 DEF Goto
  <2>2. Len(table) + 1 = Len(Hunks) /\ Len(table) + 1 \in Nat /\ Len(table) + 1 <= Len(Hunks)
    BY <1>2, <1>5, <1>6, <1>8, <1>12
  <2>3. SizesThen(Hunks, Len(table) + 1) = HunksThen(Hunks, 0)
    BY <1>6, <2>2, SizesThenStart
  <2>4. Len(parsed') = 0
    BY <1>3, <1>6
  <2>5. Follows(AsLinked', pos', HunksThen(Hunks', Len(parsed')))
    BY <1>4, <2>3, <2>4, Zenon
  <2>6. AtType'
    BY <2>1, <2>5, Zenon DEF AtType, Coming
  <2>7. QED
    BY <1>10, <2>1, <2>6, ArrivesIsAt DEF Arrives, Track
<1>13. QED
  BY <1>11, <1>12

\* The type of a hunk, and its entry in the table.
LEMMA TypeAhead ==
  ASSUME OnTrack, CanRead("type")
  PROVE  /\ reading = "type" /\ AtType
         /\ Ahead(1).value = Hunks[HunkNo].type /\ Ahead(1).value \in DOMAIN Kinds
<1>1. reading = "type" /\ AtType
  BY OnTrackFacts DEF IsAt, CanRead
<1>2. Faces(<<Tagged(Hunks[HunkNo].advice, Hunks[HunkNo].type)>>,
                  <<W(Hunks[HunkNo].size)>> \o BodyThen(Hunks, HunkNo))
  BY <1>1, FacesType
<1>3. Ahead(1) = Tagged(Hunks[HunkNo].advice, Hunks[HunkNo].type)
  BY <1>2, WordAhead
<1>4. Hunks[HunkNo].type \in DOMAIN Kinds
  BY <1>1, HunkIsThere, HunkIs
<1>5. QED
  BY <1>1, <1>3, <1>4 DEF Tagged

LEMMA PlannedIs ==
  ASSUME OnTrack, reading \in {"type", "length", "body"} \cup BlockSteps
  PROVE  IsEntry(Planned, Hunks[HunkNo])
<1>1. /\ Len(table) = Len(Hunks) /\ HunkNo \in 1 .. Len(Hunks)
  BY HunkIsThere
<1>2. table \in Seq(Entry) /\ \A n \in DOMAIN table : IsEntry(table[n], Hunks[n])
  BY OnTrackFacts DEF TableSoFar, TableIsSound, HeaderSteps, BlockSteps
<1>3. HunkNo \in DOMAIN table
  BY <1>1, <1>2
<1>4. QED
  BY <1>2, <1>3, Zenon DEF Planned, HunkNo

LEMMA TrackType ==
  ASSUME OnTrack, ReadType
  PROVE  Track'
<1>1. Reads("type") /\ CanRead("type")
  BY DEF ReadType, Reads
<1> DEFINE h == Hunks[HunkNo]
<1>2. reading = "type" /\ AtType /\ Ahead(1).value = h.type
  BY <1>1, TypeAhead
<1>3. /\ Follows(AsLinked', pos', <<W(h.size)>> \o BodyThen(Hunks, HunkNo))
      /\ Hunks' = Hunks
  BY <1>1, <1>2, FacesType, StepMoves
<1>4. /\ hunk' = [NoHunk EXCEPT !.kind = Kinds[h.type], !.mem_attr = Planned.mem_attr,
                                !.allocated_size = Planned.size]
      /\ reading' = "length" /\ want' = 1 /\ UNCHANGED <<file, table_size, table, parsed>>
  BY <1>2 DEF ReadType, Goto, Reads
<1>5. Planned = [mem_attr |-> h.attr, size |-> 4 * h.allocated]
  BY <1>2, PlannedIs DEF IsEntry
<1>6. HunkNo' = HunkNo
  BY <1>4 DEF HunkNo
<1> HIDE DEF h
<1>7. IsStarted(hunk', h)
  <2>1. Planned.mem_attr = h.attr /\ Planned.size = 4 * h.allocated
    BY <1>5
  <2>2. QED
    BY <1>4, <2>1 DEF IsStarted, NoHunk
<1>8. AtLength'
  <2>1. /\ IsStarted(hunk', Hunks'[HunkNo'])
        /\ Follows(AsLinked', pos', <<W(Hunks'[HunkNo'].size)>> \o BodyThen(Hunks', HunkNo'))
    BY <1>3, <1>6, <1>7, Zenon DEF h
  <2>2. QED
    BY <1>4, <2>1, Zenon DEF AtLength, Coming
<1>9. QED
  BY <1>2, <1>4, <1>8, PassesOn DEF HeaderSteps, Arrives

\* Its length.
LEMMA LengthAhead ==
  ASSUME OnTrack, CanRead("length")
  PROVE  /\ reading = "length" /\ AtLength
         /\ Ahead(1) = W(Hunks[HunkNo].size)
         /\ 4 * Ahead(1).value <= Planned.size /\ Ahead(1).flags = 0
<1> DEFINE h == Hunks[HunkNo]
<1>1. reading = "length" /\ AtLength
  BY OnTrackFacts DEF IsAt, CanRead
<1>2. Ahead(1) = W(h.size)
  BY <1>1, FacesLength, WordAhead
<1>3. h \in LinkedHunks
  BY <1>1, HunkIsThere
<1>4. Planned.size = 4 * h.allocated
  BY <1>1, PlannedIs DEF IsEntry
<1> HIDE DEF h
<1>5. h.size \in Nat /\ h.allocated \in Nat /\ h.size <= h.allocated
  BY <1>3, HunkIs
<1>6. QED
  BY <1>1, <1>2, <1>4, <1>5 DEF W, h

LEMMA TrackLength ==
  ASSUME OnTrack, ReadLength
  PROVE  Track'
<1>1. Reads("length") /\ CanRead("length")
  BY DEF ReadLength, Reads
<1> DEFINE h == Hunks[HunkNo]
<1>2. reading = "length" /\ AtLength /\ Ahead(1).value = h.size
  BY <1>1, LengthAhead DEF W
<1>3. Follows(AsLinked', pos', BodyThen(Hunks, HunkNo)) /\ Hunks' = Hunks
  BY <1>1, <1>2, FacesLength, StepMoves
<1>4. IsStarted(hunk, h)
  BY <1>2 DEF AtLength
<1>5. h \in LinkedHunks
  BY <1>2, HunkIsThere
<1>6. /\ hunk' = [hunk EXCEPT !.size_bytes = 4 * h.size]
      /\ reading' = "body" /\ want' = IF hunk.kind = "bss" THEN 0 ELSE h.size
      /\ UNCHANGED <<file, table_size, table, parsed>>
  BY <1>2 DEF ReadLength, Goto, Reads
<1>7. HunkNo' = HunkNo
  BY <1>6 DEF HunkNo
<1> HIDE DEF h
<1>8. IsSized(hunk', h)
  BY <1>4, <1>6 DEF IsStarted, IsSized
<1>9. want' = Len(h.data)
  <2>1. h.type \in DOMAIN Kinds /\ Len(h.data) = IF h.type = HUNK_BSS THEN 0 ELSE h.size
    BY <1>5, HunkIs
  <2>2. hunk.kind = Kinds[h.type]
    BY <1>4 DEF IsStarted
  <2>3. h.type = HUNK_BSS <=> Kinds[h.type] = "bss"
    BY <2>1 DEF Kinds, HUNK_CODE, HUNK_DATA, HUNK_BSS
  <2>4. QED
    BY <1>6, <2>1, <2>2, <2>3
<1>10. AtBody'
  <2>1. /\ IsSized(hunk', Hunks'[HunkNo']) /\ want' = Len(Hunks'[HunkNo'].data)
        /\ Follows(AsLinked', pos', BodyThen(Hunks', HunkNo'))
    BY <1>3, <1>7, <1>8, <1>9, Zenon DEF h
  <2>2. QED
    BY <2>1, Zenon DEF AtBody, Coming
<1>11. QED
  BY <1>2, <1>6, <1>10, PassesOn DEF HeaderSteps, Arrives

\* Its longwords.
LEMMA TrackBody ==
  ASSUME OnTrack, ReadBody
  PROVE  Track'
<1>1. Reads("body") /\ CanRead("body") /\ reading = "body" /\ AtBody
  BY OnTrackFacts DEF ReadBody, Reads, CanRead, IsAt
<1> DEFINE h == Hunks[HunkNo]
<1>2. h \in LinkedHunks
  BY <1>1, HunkIsThere
<1>3. Faces(h.data, BlocksThen(Hunks, HunkNo, h.blocks))
  BY <1>1, FacesBody
<1>4. Follows(AsLinked', pos', BlocksThen(Hunks, HunkNo, h.blocks)) /\ Hunks' = Hunks
  BY <1>1, <1>3, StepMoves
<1>5. \A k \in 1 .. Len(h.data) : Ahead(k) = h.data[k]
  BY <1>1, <1>3, StepSees
<1>6. IsSized(hunk, h) /\ want = Len(h.data)
  BY <1>1 DEF AtBody
<1>7. /\ hunk' = [hunk EXCEPT !.data = SubSeq(file.words, pos + 1, pos + want)]
      /\ reading' = "trailer" /\ want' = 1 /\ UNCHANGED <<file, table_size, table, parsed>>
  BY DEF ReadBody, Goto, Reads
<1>8. HunkNo' = HunkNo
  BY <1>7 DEF HunkNo
<1>9. h.data \in Seq(Longword) /\ Len(h.data) \in Nat /\ h.blocks \in Seq(TrailBlocks)
  BY <1>2, HunkIs
<1> HIDE DEF h
<1>10. SubSeq(file.words, pos + 1, pos + want) = h.data
  <2>1. /\ file.words \in Seq(Longword) /\ Len(file.words) \in Nat /\ pos \in Nat
        /\ pos + want <= Len(file.words)
    <3>1. file.words \in Seq(Longword) /\ Len(file.words) \in Nat
      BY OnTrackFacts, FileIsSound DEF CursorIsSound
    <3>2. pos + want \in 0 .. Len(file.words) /\ pos \in 0 .. Len(file.words)
      BY <1>1, OnTrackFacts, AheadIsLongword DEF CursorIsSound
    <3>3. QED
      BY <3>1, <3>2
  <2> DEFINE words == file.words
             body  == SubSeq(words, pos + 1, pos + want)
  <2>2. words \in Seq(Longword) /\ Len(words) \in Nat /\ pos \in Nat /\ want \in Nat /\ pos + want <= Len(words)
    BY <1>6, <1>9, <2>1
  <2>3. \A k \in 1 .. want : words[pos + k] = h.data[k]
    BY <1>5, <1>6 DEF Ahead
  <2> HIDE DEF words
  <2>4. body \in Seq(Longword) /\ Len(body) = want /\ \A k \in 1 .. want : body[k] = words[pos + k]
    BY <2>2
  <2> HIDE DEF body
  <2>5. Len(body) = Len(h.data) /\ \A k \in 1 .. Len(body) : body[k] = h.data[k]
    BY <1>6, <2>3, <2>4
  <2>6. body = h.data
    BY <1>9, <2>4, <2>5, SameSequence
  <2>7. QED
    BY <2>6 DEF body, words
<1>11. IsLeft(hunk', h, <<>>, h.blocks)
  <2> DEFINE relocs == BlocksRelocs(h.blocks)
  <2>1. relocs \in Seq(Refs)
    BY <1>9, BlocksSplit
  <2>2. hunk' = [kind |-> Kinds[h.type], mem_attr |-> h.attr, data |-> h.data, size_bytes |-> 4 * h.size,
                 allocated_size |-> 4 * h.allocated, relocs |-> <<>>]
    BY <1>6, <1>7, <1>10 DEF IsSized
  <2>3. HunkOf(h) = [kind |-> Kinds[h.type], mem_attr |-> h.attr, data |-> h.data, size_bytes |-> 4 * h.size,
                     allocated_size |-> 4 * h.allocated, relocs |-> relocs]
    BY DEF HunkOf
  <2>4. IsLeft(hunk', h, <<>>, h.blocks) <=>
          HunkOf(h) = [hunk' EXCEPT !.relocs = (hunk'.relocs \o <<>>) \o relocs]
    BY DEF IsLeft
  <2> HIDE DEF relocs
  <2>5. (<<>> \o <<>>) \o relocs = relocs
    <3>1. <<>> \o <<>> = <<>>
      OBVIOUS
    <3>2. QED
      BY <2>1, <3>1, NothingAdded
  <2>6. hunk'.relocs = <<>>
    BY <2>2
  <2>7. [hunk' EXCEPT !.relocs = relocs] = HunkOf(h)
    BY <2>2, <2>3
  <2>8. QED
    BY <2>4, <2>5, <2>6, <2>7, Zenon
<1>12. AtTrailer'
  <2>1. /\ IsLeft(hunk', Hunks'[HunkNo'], <<>>, h.blocks)
        /\ Follows(AsLinked', pos', BlocksThen(Hunks', HunkNo', h.blocks))
    BY <1>4, <1>8, <1>11, Zenon DEF h
  <2>2. QED
    BY <1>7, <1>9, <2>1, Zenon DEF AtTrailer, Coming
<1>13. QED
  BY <1>1, <1>7, <1>12, PassesOn DEF HeaderSteps, Arrives

\* A block of the trailer, and its end.
LEMMA TrackBlock ==
  ASSUME OnTrack, ReadBlock
  PROVE  Track'
<1>1. Reads("trailer") /\ CanRead("trailer") /\ reading = "trailer" /\ AtTrailer
  BY OnTrackFacts DEF ReadBlock, Reads, CanRead, IsAt
<1>2. /\ Ahead(1).value \in DOMAIN Blocks
      /\ reading' = Blocks[Ahead(1).value] /\ want' = 1
      /\ UNCHANGED <<file, table_size, table, hunk, parsed>>
  BY DEF ReadBlock, Goto, Reads
<1>3. HunkNo' = HunkNo
  BY <1>2 DEF HunkNo
<1>4. /\ Blocks[HUNK_RELOC32] = "relocs" /\ Blocks[HUNK_SYMBOL] = "symbols" /\ Blocks[HUNK_DEBUG] = "debug"
      /\ HUNK_END \notin DOMAIN Blocks
  BY DEF Blocks, HUNK_RELOC32, HUNK_SYMBOL, HUNK_DEBUG, HUNK_END
<1>5. ASSUME NEW type, NEW y, Faces(<<W(type)>>, y)
      PROVE  Ahead(1).value = type /\ Follows(AsLinked', pos', y) /\ Hunks' = Hunks
  <2>1. Ahead(1) = W(type)
    BY <1>1, <1>5, WordAhead
  <2>2. Follows(AsLinked', pos', y) /\ Hunks' = Hunks
    BY <1>1, <1>5, StepMoves
  <2>3. QED
    BY <2>1, <2>2 DEF W
<1>6. ~Faces(<<W(HUNK_END)>>, HunksThen(Hunks, HunkNo))
  BY <1>2, <1>4, <1>5
<1>7. ASSUME Arrives'
      PROVE  Track'
  BY <1>1, <1>2, <1>7, PassesOn DEF HeaderSteps
<1>8. ASSUME NEW entries, entries \in Seq(ListEntries), NEW blocks, blocks \in Seq(TrailBlocks),
             IsLeft(hunk, Hunks[HunkNo], EntriesRelocs(entries), blocks),
             Faces(<<W(HUNK_RELOC32)>>, EntriesThen(Hunks, HunkNo, entries, blocks))
      PROVE  Track'
  <2>1. /\ Ahead(1).value = HUNK_RELOC32
        /\ Follows(AsLinked', pos', EntriesThen(Hunks, HunkNo, entries, blocks)) /\ Hunks' = Hunks
    BY <1>5, <1>8
  <2>2. reading' = "relocs"
    BY <1>2, <1>4, <2>1
  <2>3. /\ IsLeft(hunk', Hunks'[HunkNo'], EntriesRelocs(entries), blocks)
        /\ Follows(AsLinked', pos', EntriesThen(Hunks', HunkNo', entries, blocks))
    BY <1>2, <1>3, <1>8, <2>1, Zenon
  <2>4. AtRelocs'
    BY <1>2, <1>8, <2>3, Zenon DEF AtRelocs, Coming
  <2>5. QED
    BY <1>7, <2>2, <2>4 DEF Arrives
<1>9. ASSUME NEW entries, entries \in Seq(ListEntries), NEW blocks, blocks \in Seq(TrailBlocks),
             IsLeft(hunk, Hunks[HunkNo], <<>>, blocks),
             Faces(<<W(HUNK_SYMBOL)>>, EntriesThen(Hunks, HunkNo, entries, blocks))
      PROVE  Track'
  <2>1. /\ Ahead(1).value = HUNK_SYMBOL
        /\ Follows(AsLinked', pos', EntriesThen(Hunks, HunkNo, entries, blocks)) /\ Hunks' = Hunks
    BY <1>5, <1>9
  <2>2. reading' = "symbols"
    BY <1>2, <1>4, <2>1
  <2>3. /\ IsLeft(hunk', Hunks'[HunkNo'], <<>>, blocks)
        /\ Follows(AsLinked', pos', EntriesThen(Hunks', HunkNo', entries, blocks))
    BY <1>2, <1>3, <1>9, <2>1, Zenon
  <2>4. AtSymbols'
    BY <1>2, <1>9, <2>3, Zenon DEF AtSymbols, Coming
  <2>5. QED
    BY <1>7, <2>2, <2>4 DEF Arrives
<1>10. ASSUME NEW data, data \in Seq(Longword), NEW blocks, blocks \in Seq(TrailBlocks),
              IsLeft(hunk, Hunks[HunkNo], <<>>, blocks),
              Faces(<<W(HUNK_DEBUG)>>, <<W(Len(data))>> \o (data \o BlocksThen(Hunks, HunkNo, blocks)))
       PROVE  Track'
  <2> DEFINE rest == <<W(Len(data))>> \o (data \o BlocksThen(Hunks, HunkNo, blocks))
  <2>0. Faces(<<W(HUNK_DEBUG)>>, rest)
    BY <1>10
  <2> HIDE DEF rest
  <2>1. /\ Ahead(1).value = HUNK_DEBUG
        /\ Follows(AsLinked', pos', rest) /\ Hunks' = Hunks
    BY <1>5, <2>0
  <2>2. reading' = "debug"
    BY <1>2, <1>4, <2>1
  <2>3. /\ IsLeft(hunk', Hunks'[HunkNo'], <<>>, blocks)
        /\ Follows(AsLinked', pos', <<W(Len(data))>> \o (data \o BlocksThen(Hunks', HunkNo', blocks)))
    BY <1>2, <1>3, <1>10, <2>1, Zenon DEF rest
  <2>4. AtDebug'
    BY <1>2, <1>10, <2>3, Zenon DEF AtDebug, Coming
  <2>5. QED
    BY <1>7, <2>2, <2>4 DEF Arrives
<1>11. QED
  BY <1>1, <1>6, <1>8, <1>9, <1>10, FacesTrailer, Zenon

LEMMA EndAhead ==
  ASSUME OnTrack, CanRead("trailer"), Ahead(1).value = HUNK_END
  PROVE  /\ reading = "trailer" /\ AtTrailer /\ hunk = HunkOf(Hunks[HunkNo])
         /\ Faces(<<W(HUNK_END)>>, HunksThen(Hunks, HunkNo))
<1>1. reading = "trailer" /\ AtTrailer
  BY OnTrackFacts DEF CanRead, IsAt
<1>2. HUNK_END \notin {HUNK_RELOC32, HUNK_SYMBOL, HUNK_DEBUG}
  BY DEF HUNK_RELOC32, HUNK_SYMBOL, HUNK_DEBUG, HUNK_END
<1>3. \A type \in {HUNK_RELOC32, HUNK_SYMBOL, HUNK_DEBUG} : \A y : ~Faces(<<W(type)>>, y)
  <2>1. SUFFICES ASSUME NEW type \in {HUNK_RELOC32, HUNK_SYMBOL, HUNK_DEBUG}, NEW y, Faces(<<W(type)>>, y)
                 PROVE  FALSE
    OBVIOUS
  <2>2. Ahead(1) = W(type)
    BY <2>1, WordAhead
  <2>3. QED
    BY <1>2, <2>2 DEF W
<1>4. QED
  <2>1. /\ HUNK_RELOC32 \in {HUNK_RELOC32, HUNK_SYMBOL, HUNK_DEBUG}
        /\ HUNK_SYMBOL \in {HUNK_RELOC32, HUNK_SYMBOL, HUNK_DEBUG}
        /\ HUNK_DEBUG \in {HUNK_RELOC32, HUNK_SYMBOL, HUNK_DEBUG}
    OBVIOUS
  <2>2. QED
    BY <1>1, <1>3, <2>1, FacesTrailer, Zenon

LEMMA TrackEnd ==
  ASSUME OnTrack, ReadEnd
  PROVE  Track'
<1>1. Reads("trailer") /\ CanRead("trailer") /\ Ahead(1).value = HUNK_END
  BY DEF ReadEnd, Reads
<1>2. /\ reading = "trailer" /\ hunk = HunkOf(Hunks[HunkNo])
      /\ Faces(<<W(HUNK_END)>>, HunksThen(Hunks, HunkNo))
  BY <1>1, EndAhead
<1>3. Follows(AsLinked', pos', HunksThen(Hunks, HunkNo)) /\ Hunks' = Hunks
  BY <1>1, <1>2, StepMoves
<1>4. /\ parsed' = Append(parsed, hunk) /\ UNCHANGED <<file, table_size, table>>
      /\ IF Len(parsed') < table_size THEN Goto("type", 1) ELSE Goto("done", 0)
  BY DEF ReadEnd, Reads
<1>5. /\ parsed \in Seq(ReadHunk) /\ hunk \in ReadHunk
      /\ \A n \in DOMAIN parsed : parsed[n] = HunkOf(Hunks[n])
      /\ Hunks \in ManyHunks
  BY <1>2, OnTrackFacts, InBlocks DEF HunksSoFar, ParsedSoFar, BlockSteps
<1>6. /\ table_size = Len(Hunks) /\ HunkNo = Len(parsed) + 1 /\ HunkNo \in Nat /\ HunkNo <= Len(Hunks)
      /\ Len(Hunks) \in Nat
  BY <1>2, HunkIsThere, OnTrackFacts DEF BlockSteps
<1>7. Len(parsed') = HunkNo
  BY <1>4, <1>5, <1>6
<1>8. ParsedSoFar'
  <2>1. \A n \in DOMAIN Append(parsed, hunk) :
          \/ n \in DOMAIN parsed /\ Append(parsed, hunk)[n] = parsed[n]
          \/ n = Len(parsed) + 1 /\ Append(parsed, hunk)[n] = hunk
    BY <1>5, AppendedIs
  <2>2. \A n \in DOMAIN Append(parsed, hunk) : Append(parsed, hunk)[n] = HunkOf(Hunks[n])
    BY <1>2, <1>5, <1>6, <2>1, Zenon
  <2>3. QED
    BY <1>3, <1>4, <2>2, Zenon DEF ParsedSoFar
<1>9. TableSoFar' /\ ~file'.altered
  <2>1. table_size = Len(Hunks) /\ \A n \in DOMAIN table : IsEntry(table[n], Hunks[n])
    BY <1>2, OnTrackFacts DEF TableSoFar, HeaderSteps
  <2>2. QED
    BY <1>3, <1>4, <2>1, OnTrackFacts DEF TableSoFar
<1>10. CASE Len(parsed') < table_size
  <2>1. reading' = "type" /\ want' = 1
    BY <1>4, <1>10 DEF Goto
  <2>2. Follows(AsLinked', pos', HunksThen(Hunks', Len(parsed')))
    BY <1>3, <1>7, Zenon
  <2>3. AtType'
    BY <2>1, <2>2, Zenon DEF AtType, Coming
  <2>4. QED
    BY <1>8, <1>9, <2>1, <2>3, ArrivesIsAt DEF Arrives, Track
<1>11. CASE ~(Len(parsed') < table_size)
  <2>1. reading' = "done" /\ want' = 0
    BY <1>4, <1>11 DEF Goto
  <2>2. HunkNo = Len(Hunks)
    BY <1>6, <1>7, <1>11
  <2>3. HunksThen(Hunks, HunkNo) = <<>>
    BY <1>5, <1>6, <2>2, HunksThenAre
  <2>4. Follows(AsLinked', pos', <<>>)
    BY <1>3, <2>3, Zenon
  <2>5. AtDone'
    BY <2>1, <2>4, Zenon DEF AtDone, Coming
  <2>6. QED
    BY <1>8, <1>9, <2>1, <2>5, ArrivesIsAt DEF Arrives, Track
<1>12. QED
  BY <1>10, <1>11

\* What is behind a trailer's words is never another block.
LEMMA TrailerAhead ==
  ASSUME OnTrack, CanRead("trailer")
  PROVE  Ahead(1).value \in DOMAIN Blocks \cup {HUNK_END}
<1>1. reading = "trailer" /\ AtTrailer
  BY OnTrackFacts DEF CanRead, IsAt
<1>2. PICK type \in {HUNK_END, HUNK_RELOC32, HUNK_SYMBOL, HUNK_DEBUG} : \E y : Faces(<<W(type)>>, y)
  <2>1. /\ HUNK_END \in {HUNK_END, HUNK_RELOC32, HUNK_SYMBOL, HUNK_DEBUG}
        /\ HUNK_RELOC32 \in {HUNK_END, HUNK_RELOC32, HUNK_SYMBOL, HUNK_DEBUG}
        /\ HUNK_SYMBOL \in {HUNK_END, HUNK_RELOC32, HUNK_SYMBOL, HUNK_DEBUG}
        /\ HUNK_DEBUG \in {HUNK_END, HUNK_RELOC32, HUNK_SYMBOL, HUNK_DEBUG}
    OBVIOUS
  <2>2. QED
    BY <1>1, <2>1, FacesTrailer, Zenon
<1>3. Ahead(1) = W(type)
  BY <1>2, WordAhead
<1>4. QED
  BY <1>3 DEF W, Blocks

\* The next entry of a list, or its end.
LEMMA CountAhead ==
  ASSUME OnTrack, NEW entry, entry \in ListEntries
  PROVE  /\ W(Len(entry) - 1) # W(0) /\ Count(W(Len(entry) - 1)) = Len(entry) - 1
         /\ 1 + (Len(entry) - 1) = Len(entry) /\ (Len(entry) - 1) + 1 = Len(entry)
<1>1. Len(entry) \in Nat /\ Len(entry) >= 2
  BY EntryIs
<1>2. QED
  BY <1>1 DEF W, Count

LEMMA TrackRelocCount ==
  ASSUME OnTrack, ReadRelocCount
  PROVE  Track'
<1>1. Reads("relocs") /\ CanRead("relocs") /\ reading = "relocs" /\ AtRelocs
  BY OnTrackFacts DEF ReadRelocCount, Reads, CanRead, IsAt
<1>2. /\ IF Ahead(1) = W(0) THEN Goto("trailer", 1) ELSE Goto("offsets", 1 + Count(Ahead(1)))
      /\ UNCHANGED <<file, table_size, table, hunk, parsed>>
  BY DEF ReadRelocCount, Reads
<1>3. HunkNo' = HunkNo
  BY <1>2 DEF HunkNo
<1>4. ASSUME Arrives'
      PROVE  Track'
  BY <1>1, <1>2, <1>4, PassesOn DEF HeaderSteps
<1>5. ASSUME NEW blocks \in Seq(TrailBlocks),
             IsLeft(hunk, Hunks[HunkNo], <<>>, blocks), Faces(<<W(0)>>, BlocksThen(Hunks, HunkNo, blocks))
      PROVE  Track'
  <2>1. Ahead(1) = W(0)
    BY <1>1, <1>5, WordAhead
  <2>2. Follows(AsLinked', pos', BlocksThen(Hunks, HunkNo, blocks)) /\ Hunks' = Hunks
    BY <1>1, <1>5, StepMoves
  <2>3. reading' = "trailer" /\ want' = 1
    BY <1>2, <2>1 DEF Goto
  <2>4. /\ IsLeft(hunk', Hunks'[HunkNo'], <<>>, blocks)
        /\ Follows(AsLinked', pos', BlocksThen(Hunks', HunkNo', blocks))
    BY <1>2, <1>3, <1>5, <2>2, Zenon
  <2>5. AtTrailer'
    BY <2>3, <2>4, Zenon DEF AtTrailer, Coming
  <2>6. QED
    BY <1>4, <2>3, <2>5 DEF Arrives
<1>6. ASSUME NEW entry \in ListEntries, NEW entries \in Seq(ListEntries), NEW blocks \in Seq(TrailBlocks),
             IsLeft(hunk, Hunks[HunkNo], EntryRelocs(entry) \o EntriesRelocs(entries), blocks),
             Faces(<<W(Len(entry) - 1)>>, entry \o EntriesThen(Hunks, HunkNo, entries, blocks))
      PROVE  Track'
  <2> DEFINE rest   == entry \o EntriesThen(Hunks, HunkNo, entries, blocks)
             relocs == EntryRelocs(entry) \o EntriesRelocs(entries)
  <2>1. Faces(<<W(Len(entry) - 1)>>, rest) /\ IsLeft(hunk, Hunks[HunkNo], relocs, blocks)
    BY <1>6
  <2> HIDE DEF rest, relocs
  <2>2. Ahead(1) = W(Len(entry) - 1)
    BY <1>1, <2>1, WordAhead
  <2>3. Follows(AsLinked', pos', rest) /\ Hunks' = Hunks
    BY <1>1, <2>1, StepMoves
  <2>4. reading' = "offsets" /\ want' = Len(entry)
    BY <1>2, <2>2, CountAhead DEF Goto
  <2>5. /\ IsLeft(hunk', Hunks'[HunkNo'], EntryRelocs(entry) \o EntriesRelocs(entries), blocks)
        /\ Follows(AsLinked', pos', entry \o EntriesThen(Hunks', HunkNo', entries, blocks))
    BY <1>2, <1>3, <2>1, <2>3, Zenon DEF rest, relocs
  <2>6. AtOffsets'
    BY <2>4, <2>5, Zenon DEF AtOffsets, Coming
  <2>7. QED
    BY <1>4, <2>4, <2>6 DEF Arrives
<1>7. QED
  BY <1>1, <1>5, <1>6, FacesRelocs, Zenon

LEMMA TrackOffsets ==
  ASSUME OnTrack, ReadOffsets
  PROVE  Track'
<1>1. Reads("offsets") /\ CanRead("offsets") /\ reading = "offsets" /\ AtOffsets
  BY OnTrackFacts DEF ReadOffsets, Reads, CanRead, IsAt
<1> DEFINE read == [n \in 1 .. want - 1 |-> [target |-> Ahead(1), offset |-> Ahead(n + 1)]]
<1>2. /\ hunk' = [hunk EXCEPT !.relocs = @ \o read]
      /\ reading' = "relocs" /\ want' = 1
      /\ UNCHANGED <<file, table_size, table, parsed>>
  BY DEF ReadOffsets, Reads, Goto
<1>3. HunkNo' = HunkNo
  BY <1>2 DEF HunkNo
<1>4. PICK entry \in ListEntries, entries \in Seq(ListEntries), blocks \in Seq(TrailBlocks) :
        /\ want = Len(entry)
        /\ IsLeft(hunk, Hunks[HunkNo], EntryRelocs(entry) \o EntriesRelocs(entries), blocks)
        /\ Faces(entry, EntriesThen(Hunks, HunkNo, entries, blocks))
  BY <1>1, FacesOffsets
<1>5. Follows(AsLinked', pos', EntriesThen(Hunks, HunkNo, entries, blocks)) /\ Hunks' = Hunks
  BY <1>1, <1>4, StepMoves
<1>6. \A k \in 1 .. Len(entry) : Ahead(k) = entry[k]
  BY <1>1, <1>4, StepSees
<1>7. Len(entry) \in Nat /\ Len(entry) >= 2 /\ EntryRelocs(entry) \in Seq(Refs)
  BY EntryIs
<1>8. EntriesRelocs(entries) \in Seq(Refs)
  BY EntriesSplit
<1>9. read = EntryRelocs(entry)
  <2>1. 1 \in 1 .. Len(entry) /\ \A n \in 1 .. Len(entry) - 1 : n + 1 \in 1 .. Len(entry)
    BY <1>7
  <2>2. \A n \in 1 .. Len(entry) - 1 :
          [target |-> Ahead(1), offset |-> Ahead(n + 1)] = [target |-> entry[1], offset |-> entry[n + 1]]
    BY <1>6, <2>1, Zenon
  <2>3. read = [n \in 1 .. Len(entry) - 1 |-> [target |-> Ahead(1), offset |-> Ahead(n + 1)]]
    BY <1>4, Zenon
  <2> HIDE DEF read
  <2>4. QED
    BY <2>2, <2>3, Zenon DEF EntryRelocs
<1> HIDE DEF read
<1>10. hunk \in ReadHunk
  BY <1>1, InBlocks DEF BlockSteps
<1> DEFINE a == EntryRelocs(entry)
           b == EntriesRelocs(entries)
<1>11. IsLeft([hunk EXCEPT !.relocs = @ \o a], Hunks[HunkNo], b, blocks)
  <2>1. IsLeft(hunk, Hunks[HunkNo], a \o b, blocks) /\ a \in Seq(Refs) /\ b \in Seq(Refs)
    BY <1>4, <1>7, <1>8, Zenon
  <2> HIDE DEF a, b
  <2>2. QED
    BY <1>10, <2>1, EntryLeft, Zenon
<1>12. hunk' = [hunk EXCEPT !.relocs = @ \o a]
  <2>1. read = a
    BY <1>9
  <2> HIDE DEF a
  <2>2. QED
    BY <1>2, <2>1, Zenon
<1>13. AtRelocs'
  <2>1. /\ IsLeft(hunk', Hunks'[HunkNo'], EntriesRelocs(entries), blocks)
        /\ Follows(AsLinked', pos', EntriesThen(Hunks', HunkNo', entries, blocks))
    <3>1. IsLeft(hunk', Hunks[HunkNo], EntriesRelocs(entries), blocks)
      BY <1>11, <1>12, Zenon
    <3>2. QED
      BY <1>3, <1>5, <3>1, Zenon
  <2>2. QED
    BY <1>2, <2>1, Zenon DEF AtRelocs, Coming
<1>14. QED
  BY <1>1, <1>2, <1>13, PassesOn DEF HeaderSteps, Arrives

LEMMA TrackSymbolLength ==
  ASSUME OnTrack, ReadSymbolLength
  PROVE  Track'
<1>1. Reads("symbols") /\ CanRead("symbols") /\ reading = "symbols" /\ AtSymbols
  BY OnTrackFacts DEF ReadSymbolLength, Reads, CanRead, IsAt
<1>2. /\ IF Ahead(1) = W(0) THEN Goto("trailer", 1) ELSE Goto("symbol", Count(Ahead(1)) + 1)
      /\ UNCHANGED <<file, table_size, table, hunk, parsed>>
  BY DEF ReadSymbolLength, Reads
<1>3. HunkNo' = HunkNo
  BY <1>2 DEF HunkNo
<1>4. ASSUME Arrives'
      PROVE  Track'
  BY <1>1, <1>2, <1>4, PassesOn DEF HeaderSteps
<1>5. ASSUME NEW blocks \in Seq(TrailBlocks),
             IsLeft(hunk, Hunks[HunkNo], <<>>, blocks), Faces(<<W(0)>>, BlocksThen(Hunks, HunkNo, blocks))
      PROVE  Track'
  <2>1. Ahead(1) = W(0)
    BY <1>1, <1>5, WordAhead
  <2>2. Follows(AsLinked', pos', BlocksThen(Hunks, HunkNo, blocks)) /\ Hunks' = Hunks
    BY <1>1, <1>5, StepMoves
  <2>3. reading' = "trailer" /\ want' = 1
    BY <1>2, <2>1 DEF Goto
  <2>4. /\ IsLeft(hunk', Hunks'[HunkNo'], <<>>, blocks)
        /\ Follows(AsLinked', pos', BlocksThen(Hunks', HunkNo', blocks))
    BY <1>2, <1>3, <1>5, <2>2, Zenon
  <2>5. AtTrailer'
    BY <2>3, <2>4, Zenon DEF AtTrailer, Coming
  <2>6. QED
    BY <1>4, <2>3, <2>5 DEF Arrives
<1>6. ASSUME NEW entry \in ListEntries, NEW entries \in Seq(ListEntries), NEW blocks \in Seq(TrailBlocks),
             IsLeft(hunk, Hunks[HunkNo], <<>>, blocks),
             Faces(<<W(Len(entry) - 1)>>, entry \o EntriesThen(Hunks, HunkNo, entries, blocks))
      PROVE  Track'
  <2> DEFINE rest == entry \o EntriesThen(Hunks, HunkNo, entries, blocks)
  <2>1. Faces(<<W(Len(entry) - 1)>>, rest)
    BY <1>6
  <2> HIDE DEF rest
  <2>2. Ahead(1) = W(Len(entry) - 1)
    BY <1>1, <2>1, WordAhead
  <2>3. Follows(AsLinked', pos', rest) /\ Hunks' = Hunks
    BY <1>1, <2>1, StepMoves
  <2>4. reading' = "symbol" /\ want' = Len(entry)
    BY <1>2, <2>2, CountAhead DEF Goto
  <2>5. /\ IsLeft(hunk', Hunks'[HunkNo'], <<>>, blocks)
        /\ Follows(AsLinked', pos', entry \o EntriesThen(Hunks', HunkNo', entries, blocks))
    BY <1>2, <1>3, <1>6, <2>3, Zenon DEF rest
  <2>6. AtSymbol'
    BY <2>4, <2>5, Zenon DEF AtSymbol, Coming
  <2>7. QED
    BY <1>4, <2>4, <2>6 DEF Arrives
<1>7. QED
  BY <1>1, <1>5, <1>6, FacesSymbols, Zenon

LEMMA TrackSymbol ==
  ASSUME OnTrack, SkipSymbol
  PROVE  Track'
<1>1. Reads("symbol") /\ reading = "symbol" /\ AtSymbol
  BY OnTrackFacts DEF SkipSymbol, Reads, CanRead, IsAt
<1>2. reading' = "symbols" /\ want' = 1 /\ UNCHANGED <<file, table_size, table, hunk, parsed>>
  BY DEF SkipSymbol, Reads, Goto
<1>3. HunkNo' = HunkNo
  BY <1>2 DEF HunkNo
<1>4. PICK entry \in ListEntries, entries \in Seq(ListEntries), blocks \in Seq(TrailBlocks) :
        /\ IsLeft(hunk, Hunks[HunkNo], <<>>, blocks)
        /\ Faces(entry, EntriesThen(Hunks, HunkNo, entries, blocks))
  BY <1>1, FacesSymbol
<1>5. Follows(AsLinked', pos', EntriesThen(Hunks, HunkNo, entries, blocks)) /\ Hunks' = Hunks
  BY <1>1, <1>4, StepMoves
<1>6. /\ IsLeft(hunk', Hunks'[HunkNo'], <<>>, blocks)
      /\ Follows(AsLinked', pos', EntriesThen(Hunks', HunkNo', entries, blocks))
  BY <1>2, <1>3, <1>4, <1>5, Zenon
<1>7. AtSymbols'
  BY <1>2, <1>6, Zenon DEF AtSymbols, Coming
<1>8. QED
  BY <1>1, <1>2, <1>7, PassesOn DEF HeaderSteps, Arrives

LEMMA TrackDebugLength ==
  ASSUME OnTrack, ReadDebugLength
  PROVE  Track'
<1>1. Reads("debug") /\ CanRead("debug") /\ reading = "debug" /\ AtDebug
  BY OnTrackFacts DEF ReadDebugLength, Reads, CanRead, IsAt
<1>2. /\ reading' = "debug_data" /\ want' = Count(Ahead(1))
      /\ UNCHANGED <<file, table_size, table, hunk, parsed>>
  BY DEF ReadDebugLength, Reads, Goto
<1>3. HunkNo' = HunkNo
  BY <1>2 DEF HunkNo
<1>4. PICK data \in Seq(Longword), blocks \in Seq(TrailBlocks) :
        /\ IsLeft(hunk, Hunks[HunkNo], <<>>, blocks)
        /\ Faces(<<W(Len(data))>>, data \o BlocksThen(Hunks, HunkNo, blocks))
  BY <1>1, FacesDebug
<1> DEFINE rest == data \o BlocksThen(Hunks, HunkNo, blocks)
<1>5. Faces(<<W(Len(data))>>, rest)
  BY <1>4
<1> HIDE DEF rest
<1>6. Ahead(1) = W(Len(data))
  BY <1>1, <1>5, WordAhead
<1>7. Follows(AsLinked', pos', rest) /\ Hunks' = Hunks
  BY <1>1, <1>5, StepMoves
<1>8. want' = Len(data)
  BY <1>2, <1>6 DEF Count, W
<1>9. /\ IsLeft(hunk', Hunks'[HunkNo'], <<>>, blocks)
      /\ Follows(AsLinked', pos', data \o BlocksThen(Hunks', HunkNo', blocks))
  BY <1>2, <1>3, <1>4, <1>7, Zenon DEF rest
<1>10. AtDebugData'
  BY <1>8, <1>9, Zenon DEF AtDebugData, Coming
<1>11. QED
  BY <1>1, <1>2, <1>10, PassesOn DEF HeaderSteps, Arrives

LEMMA TrackDebug ==
  ASSUME OnTrack, SkipDebug
  PROVE  Track'
<1>1. Reads("debug_data") /\ reading = "debug_data" /\ AtDebugData
  BY OnTrackFacts DEF SkipDebug, Reads, CanRead, IsAt
<1>2. reading' = "trailer" /\ want' = 1 /\ UNCHANGED <<file, table_size, table, hunk, parsed>>
  BY DEF SkipDebug, Reads, Goto
<1>3. HunkNo' = HunkNo
  BY <1>2 DEF HunkNo
<1>4. PICK data \in Seq(Longword), blocks \in Seq(TrailBlocks) :
        /\ IsLeft(hunk, Hunks[HunkNo], <<>>, blocks)
        /\ Faces(data, BlocksThen(Hunks, HunkNo, blocks))
  BY <1>1, FacesDebugData
<1>5. Follows(AsLinked', pos', BlocksThen(Hunks, HunkNo, blocks)) /\ Hunks' = Hunks
  BY <1>1, <1>4, StepMoves
<1>6. /\ IsLeft(hunk', Hunks'[HunkNo'], <<>>, blocks)
      /\ Follows(AsLinked', pos', BlocksThen(Hunks', HunkNo', blocks))
  BY <1>2, <1>3, <1>4, <1>5, Zenon
<1>7. AtTrailer'
  BY <1>2, <1>6, Zenon DEF AtTrailer, Coming
<1>8. QED
  BY <1>1, <1>2, <1>7, PassesOn DEF HeaderSteps, Arrives

-----------------------------------------------------------------------------
(* The reader of a file that was not altered: it fails for want of memory, *)
(* or because the file is cut short.                                       *)

LEMMA TrackFails ==
  ASSUME OnTrack, NEW e, ParseFails(e), e # "OutOfMemory" => ~file.whole /\ e = "Truncated"
  PROVE  Track'
<1>1. /\ reading' = "error" /\ parse_error' = e /\ want' = 0
      /\ UNCHANGED <<file, table_size, table, parsed>>
  BY DEF ParseFails
<1>2. AtError'
  BY <1>1 DEF AtError
<1>3. QED
  BY <1>1, <1>2, PassesOn DEF Arrives

LEMMA SomethingFaced ==
  ASSUME OnTrack, reading \notin {"done", "error"}
  PROVE  \E x, y : Faces(x, y)
<1>1. reading \in HeaderSteps \cup {"sizes", "type", "length", "body"} \cup BlockSteps /\ IsAt
  BY OnTrackFacts DEF CursorIsSound
<1>2. CASE reading = "magic"
  <2>1. AtMagic
    BY <1>1, <1>2, Zenon DEF IsAt
  <2>2. QED
    BY <1>2, <2>1, FacesMagic, Zenon
<1>3. CASE reading = "names"
  <2>1. AtNames
    BY <1>1, <1>3, Zenon DEF IsAt
  <2>2. QED
    BY <1>3, <2>1, FacesNames, Zenon
<1>4. CASE reading = "name"
  <2>1. AtName
    BY <1>1, <1>4, Zenon DEF IsAt
  <2>2. QED
    BY <1>4, <2>1, FacesName, Zenon
<1>5. CASE reading = "range"
  <2>1. AtRange
    BY <1>1, <1>5, Zenon DEF IsAt
  <2>2. QED
    BY <1>5, <2>1, FacesRange, Zenon
<1>6. CASE reading = "sizes"
  <2>1. AtSizes
    BY <1>1, <1>6, Zenon DEF IsAt
  <2>2. QED
    BY <1>6, <2>1, FacesSizes, Zenon
<1>7. CASE reading = "type"
  <2>1. AtType
    BY <1>1, <1>7, Zenon DEF IsAt
  <2>2. QED
    BY <1>7, <2>1, FacesType, Zenon
<1>8. CASE reading = "length"
  <2>1. AtLength
    BY <1>1, <1>8, Zenon DEF IsAt
  <2>2. QED
    BY <1>8, <2>1, FacesLength, Zenon
<1>9. CASE reading = "body"
  <2>1. AtBody
    BY <1>1, <1>9, Zenon DEF IsAt
  <2>2. QED
    BY <1>9, <2>1, FacesBody, Zenon
<1>10. CASE reading = "trailer"
  <2>1. AtTrailer
    BY <1>1, <1>10, Zenon DEF IsAt
  <2>2. QED
    BY <1>10, <2>1, FacesTrailer, Zenon
<1>11. CASE reading = "relocs"
  <2>1. AtRelocs
    BY <1>1, <1>11, Zenon DEF IsAt
  <2>2. QED
    BY <1>11, <2>1, FacesRelocs, Zenon
<1>12. CASE reading = "offsets"
  <2>1. AtOffsets
    BY <1>1, <1>12, Zenon DEF IsAt
  <2>2. QED
    BY <1>12, <2>1, FacesOffsets, Zenon
<1>13. CASE reading = "symbols"
  <2>1. AtSymbols
    BY <1>1, <1>13, Zenon DEF IsAt
  <2>2. QED
    BY <1>13, <2>1, FacesSymbols, Zenon
<1>14. CASE reading = "symbol"
  <2>1. AtSymbol
    BY <1>1, <1>14, Zenon DEF IsAt
  <2>2. QED
    BY <1>14, <2>1, FacesSymbol, Zenon
<1>15. CASE reading = "debug"
  <2>1. AtDebug
    BY <1>1, <1>15, Zenon DEF IsAt
  <2>2. QED
    BY <1>15, <2>1, FacesDebug, Zenon
<1>16. CASE reading = "debug_data"
  <2>1. AtDebugData
    BY <1>1, <1>16, Zenon DEF IsAt
  <2>2. QED
    BY <1>16, <2>1, FacesDebugData, Zenon
<1>17. QED
  BY <1>1, <1>2, <1>3, <1>4, <1>5, <1>6, <1>7, <1>8, <1>9, <1>10, <1>11, <1>12, <1>13, <1>14, <1>15, <1>16
     DEF HeaderSteps, BlockSteps

LEMMA TrackTruncated ==
  ASSUME OnTrack, Truncated
  PROVE  Track'
<1>1. want > Left /\ ParseFails("Truncated")
  BY DEF Truncated
<1>2. reading \notin {"done", "error"}
  <2>1. reading \in {"done", "error"} => want = 0
    BY OnTrackFacts DEF IsAt, AtDone, AtError
  <2>2. Len(file.words) \in Nat /\ pos \in 0 .. Len(file.words)
    BY OnTrackFacts, FileIsSound DEF CursorIsSound
  <2>3. QED
    BY <1>1, <2>1, <2>2 DEF Left
<1>3. PICK x, y : Faces(x, y)
  BY <1>2, SomethingFaced
<1>4. ~file.whole
  BY <1>1, <1>3, OnTrackFacts, SeesAhead
<1>5. QED
  BY <1>1, <1>4, TrackFails

LEMMA MagicAhead ==
  ASSUME OnTrack, CanRead("magic")
  PROVE  Ahead(1) = W(HUNK_HEADER)
<1>1. reading = "magic" /\ AtMagic
  BY OnTrackFacts DEF CanRead, IsAt
<1>2. QED
  BY <1>1, FacesMagic, WordAhead

\* The errors that only an altered file gives.
LEMMA NoOtherError ==
  ASSUME OnTrack
  PROVE  /\ ~NotAHunkFile /\ ~PartialRange /\ ~ExtendedSize /\ ~BadType
         /\ ~TooLong /\ ~LengthOverflows /\ ~BadBlock
<1>1. ~NotAHunkFile
  BY MagicAhead DEF NotAHunkFile
<1>2. ~PartialRange
  BY RangeAhead DEF PartialRange
<1>3. ~ExtendedSize
  BY SizeAhead DEF ExtendedSize
<1>4. ~BadType
  BY TypeAhead DEF BadType
<1>5. ~LengthOverflows
  BY LengthAhead DEF LengthOverflows
<1>6. ~TooLong
  <2>1. SUFFICES ASSUME CanRead("length"), 4 * Ahead(1).value > Planned.size
                 PROVE  FALSE
    BY DEF TooLong
  <2>2. 4 * Ahead(1).value <= Planned.size /\ Ahead(1) = W(Hunks[HunkNo].size) /\ reading = "length"
    BY <2>1, LengthAhead
  <2>3. Ahead(1).value \in Nat /\ Planned.size \in Nat
    <3>1. Hunks[HunkNo] \in LinkedHunks /\ IsEntry(Planned, Hunks[HunkNo])
      BY <2>2, HunkIsThere, PlannedIs
    <3>2. Hunks[HunkNo].size \in Nat /\ Hunks[HunkNo].allocated \in Nat
      BY <3>1, HunkIs
    <3>3. Planned.size = 4 * Hunks[HunkNo].allocated /\ Ahead(1).value = Hunks[HunkNo].size
      BY <2>2, <3>1 DEF IsEntry, W
    <3>4. QED
      BY <3>2, <3>3
  <2>4. QED
    BY <2>1, <2>2, <2>3
<1>7. ~BadBlock
  BY TrailerAhead DEF BadBlock
<1>8. QED
  BY <1>1, <1>2, <1>3, <1>4, <1>5, <1>6, <1>7

LEMMA InitTrack ==
  ASSUME FilesAssumption, ParseInit, ~file.altered
  PROVE  Track
<1>1. /\ file \in Files /\ reading = "magic" /\ want = 1 /\ pos = 0 /\ parsed = <<>>
  BY DEF ParseInit
<1>2. AsLinked \in LinkedFiles
  BY <1>1, AsWritten
<1>3. Follows(AsLinked, 0, LoadFile(AsLinked))
  <2>1. LoadFile(AsLinked) \in Seq(Longword)
    BY <1>2, LoadFileStart
  <2>2. <<>> \in Seq(Longword) /\ Len(<<>>) = 0
    OBVIOUS
  <2>3. LoadFile(AsLinked) = <<>> \o LoadFile(AsLinked)
    BY <2>1, NothingAdded
  <2>4. QED
    BY <2>1, <2>2, <2>3, Zenon DEF Follows
<1>4. AtMagic
  BY <1>1, <1>3, Zenon DEF AtMagic, Coming
<1>5. IsAt
  BY <1>1, <1>4 DEF IsAt
<1>6. TableSoFar /\ ParsedSoFar
  BY <1>1 DEF TableSoFar, ParsedSoFar, HeaderSteps
<1>7. QED
  BY <1>5, <1>6 DEF Track

LEMMA NextTrack ==
  ASSUME OnTrack, [ParseNext]_parse_vars
  PROVE  Track'
<1>1. CASE \/ NotAHunkFile \/ PartialRange \/ ExtendedSize \/ BadType
           \/ TooLong \/ LengthOverflows \/ BadBlock
  BY <1>1, NoOtherError
<1>2. CASE Truncated
  BY <1>2, TrackTruncated
<1>3. CASE ListCannotGrow
  BY <1>3, TrackFails DEF ListCannotGrow
<1>4. CASE ReadMagic \/ ReadNameLength \/ SkipName \/ ReadRange \/ ReadSize
  BY <1>4, TrackMagic, TrackNames, TrackName, TrackRange, TrackSize
<1>5. CASE ReadType \/ ReadLength \/ ReadBody \/ ReadBlock \/ ReadEnd
  BY <1>5, TrackType, TrackLength, TrackBody, TrackBlock, TrackEnd
<1>6. CASE \/ ReadRelocCount \/ ReadOffsets \/ ReadSymbolLength
           \/ SkipSymbol \/ ReadDebugLength \/ SkipDebug
  BY <1>6, TrackRelocCount, TrackOffsets, TrackSymbolLength, TrackSymbol, TrackDebugLength, TrackDebug
<1>7. CASE UNCHANGED parse_vars
  <2>1. UNCHANGED <<file, reading, want, pos, table_size, table, hunk, parsed, parse_error>>
    BY <1>7 DEF parse_vars
  <2>2. AsLinked' = AsLinked /\ Hunks' = Hunks /\ HunkNo' = HunkNo
    BY <2>1 DEF AsLinked, Hunks, HunkNo
  <2>3. /\ AtMagic' = AtMagic /\ AtNames' = AtNames /\ AtName' = AtName /\ AtRange' = AtRange
        /\ AtSizes' = AtSizes /\ AtType' = AtType /\ AtLength' = AtLength /\ AtBody' = AtBody
        /\ AtTrailer' = AtTrailer /\ AtDone' = AtDone /\ AtError' = AtError
    BY <2>1, <2>2 DEF AtMagic, AtNames, AtName, AtRange, AtSizes, AtType, AtLength, AtBody, AtTrailer,
       AtDone, AtError, Coming
  <2>4. /\ AtRelocs' = AtRelocs /\ AtOffsets' = AtOffsets /\ AtSymbols' = AtSymbols /\ AtSymbol' = AtSymbol
        /\ AtDebug' = AtDebug /\ AtDebugData' = AtDebugData
    BY <2>1, <2>2 DEF AtRelocs, AtOffsets, AtSymbols, AtSymbol, AtDebug, AtDebugData, Coming
  <2>5. IsAt /\ TableSoFar /\ ParsedSoFar /\ ~file.altered
    BY OnTrackFacts
  <2>6. IsAt'
    BY <2>1, <2>3, <2>4, <2>5 DEF IsAt
  <2>7. TableSoFar' /\ ParsedSoFar'
    BY <2>1, <2>2, <2>5 DEF TableSoFar, ParsedSoFar
  <2>8. QED
    BY <2>1, <2>5, <2>6, <2>7 DEF Track
<1>8. QED
  BY <1>1, <1>2, <1>3, <1>4, <1>5, <1>6, <1>7 DEF ParseNext

\* When the reader stops.
LEMMA StopsRight ==
  ASSUME OnTrack
  PROVE  /\ reading = "done" => file.whole /\ parsed = HunksOf(AsLinked)
         /\ reading = "error" /\ parse_error # "OutOfMemory" => ~file.whole /\ parse_error = "Truncated"
<1>1. ASSUME reading = "error", parse_error # "OutOfMemory"
      PROVE  ~file.whole /\ parse_error = "Truncated"
  BY <1>1, OnTrackFacts DEF IsAt, AtError
<1>2. ASSUME reading = "done"
      PROVE  file.whole
  <2>1. Follows(AsLinked, pos, <<>>)
    BY <1>2, OnTrackFacts DEF IsAt, AtDone, Coming
  <2>2. PICK read : read \in Seq(Longword) /\ Len(read) = pos /\ LoadFile(AsLinked) = read \o <<>>
    BY <2>1, Zenon DEF Follows
  <2>3. read \o <<>> = read
    BY <2>2, NothingAdded
  <2>4. LoadFile(AsLinked) = read
    BY <2>2, <2>3, Zenon
  <2>5. Len(LoadFile(AsLinked)) = pos
    BY <2>2, <2>4, Zenon
  <2>6. file \in Files /\ Len(file.words) \in Nat /\ pos \in 0 .. Len(file.words)
    BY OnTrackFacts, FileIsSound DEF CursorIsSound
  <2>7. ~file.whole => Len(file.words) < Len(LoadFile(AsLinked))
    BY <2>6, OnTrackFacts, AsWritten
  <2>8. QED
    BY <2>5, <2>6, <2>7
<1>3. ASSUME reading = "done"
      PROVE  parsed = HunksOf(AsLinked)
  <2>1. /\ parsed \in Seq(ReadHunk) /\ Len(parsed) = Len(Hunks) /\ Hunks \in ManyHunks
        /\ \A n \in DOMAIN parsed : parsed[n] = HunkOf(Hunks[n])
    BY <1>3, OnTrackFacts DEF HunksSoFar, TableSoFar, ParsedSoFar, HeaderSteps
  <2>2. DOMAIN parsed = DOMAIN Hunks
    BY <2>1 DEF ManyHunks
  <2>3. parsed = [n \in DOMAIN parsed |-> parsed[n]]
    BY <2>1
  <2>4. QED
    BY <2>1, <2>2, <2>3, Zenon DEF HunksOf, Hunks
<1>4. QED
  BY <1>1, <1>2, <1>3

\* The reader gives back what was written: from the load file of any list of
\* hunks, by the packer or by a linker, with whatever names, symbols and debug
\* blocks are to be skipped and whatever follows, parse makes those hunks, to
\* the last relocation; it refuses the file only if a list cannot grow, and
\* takes no file that is cut short for a whole one.
THEOREM WrittenIsReadBack ==
  ASSUME FilesAssumption
  PROVE  ParseSpec => []ReadsBack
<1> DEFINE Inv == ReaderInvariant /\ (~file.altered => Track)
<1>1. ParseInit => Inv
  BY InitReader, InitTrack
<1>2. Inv /\ [ParseNext]_parse_vars => Inv'
  <2> SUFFICES ASSUME ReaderInvariant, ~file.altered => Track, [ParseNext]_parse_vars
               PROVE  Inv'
    OBVIOUS
  <2>1. ReaderInvariant'
    BY NextReader
  <2>2. file' = file
    BY DEF ParseNext, parse_vars, Truncated, ReadMagic, NotAHunkFile, ReadNameLength, SkipName, ReadRange,
       PartialRange, ReadSize, ExtendedSize, ReadType, BadType, ReadLength, TooLong, LengthOverflows,
       ReadBody, ReadBlock, ReadEnd, BadBlock, ReadRelocCount, ReadOffsets, ReadSymbolLength, SkipSymbol,
       ReadDebugLength, SkipDebug, ListCannotGrow, Reads, ParseFails
  <2>3. ~file.altered => Track'
    BY NextTrack DEF OnTrack
  <2>4. QED
    BY <2>1, <2>2, <2>3
<1>3. Inv => ReadsBack
  <2> SUFFICES ASSUME ReaderInvariant, ~file.altered => Track
               PROVE  ReadsBack
    OBVIOUS
  <2>1. ~file.altered => OnTrack
    BY DEF OnTrack
  <2>2. QED
    BY <2>1, StopsRight DEF ReadsBack, AsLinked
<1>4. QED
  BY <1>1, <1>2, <1>3, PTL DEF ParseSpec

-----------------------------------------------------------------------------
(* The packer's own files.                                                 *)

Part ==
  {part \in [attr : {"any", "chip", "fast"}, longs : Nat, data : Seq(Longword)] :
     Len(part.data) <= part.longs}

LEMMA OwnHunk ==
  ASSUME NEW h, h.type = HUNK_CODE, h.advice = 0, h.size = Len(h.data), h.blocks = <<>>,
         h.data \in Seq(Longword)
  PROVE  HunkWords(h) = HunkBody(h.data)
<1> DEFINE start == <<W(HUNK_CODE), W(Len(h.data))>>
           close == <<W(HUNK_END)>>
           data  == h.data
<1>1. Len(data) \in Nat
  OBVIOUS
<1>2. W(HUNK_CODE) \in Longword /\ W(Len(data)) \in Longword
  BY <1>1, WordsAre DEF HUNK_CODE
<1>3. start \in Seq(Longword)
  BY <1>2
<1>4. BlocksWords(h.blocks) = <<>>
  <2>1. <<>> \in Seq(TrailBlocks)
    OBVIOUS
  <2>2. QED
    BY <2>1, BlocksSplit
<1>5. <<Tagged(h.advice, h.type), W(h.size)>> = start
  BY DEF W, Tagged
<1>6. start \o data \in Seq(Longword)
  BY <1>3, JoinedIsSeq
<1>7. (start \o data) \o <<>> = start \o data
  BY <1>6, NothingAdded
<1>8. HunkWords(h) = (((start \o data) \o <<>>) \o close)
  BY <1>4, <1>5, Zenon DEF HunkWords
<1>9. HunkBody(data) = (start \o data) \o close
  BY Zenon DEF HunkBody
<1>10. QED
  BY <1>7, <1>8, <1>9, Zenon

JoinsFive(a, b, c, d, e) == (<<a>> \o <<b>>) \o <<c, d, e>> = <<a, b, c, d, e>>

LEMMA FiveWords ==
  ASSUME NEW S, NEW a \in S, NEW b \in S, NEW c \in S, NEW d \in S, NEW e \in S
  PROVE  JoinsFive(a, b, c, d, e)
<1> DEFINE two   == <<a>> \o <<b>>
           three == <<c, d, e>>
           five  == two \o three
<1>1. two \in Seq(S) /\ Len(two) = 2 /\ two[1] = a /\ two[2] = b
  OBVIOUS
<1>2. three \in Seq(S) /\ Len(three) = 3 /\ three[1] = c /\ three[2] = d /\ three[3] = e
  OBVIOUS
<1> HIDE DEF two, three
<1>3. IsJoin(five, two, three) /\ five \in Seq(S)
  BY <1>1, <1>2, JoinedElements, JoinedIsSeq
<1> HIDE DEF five
<1>4. five[1] = a /\ five[2] = b
  BY <1>1, <1>2, <1>3 DEF IsJoin
<1>5. five[3] = c /\ five[4] = d /\ five[5] = e
  <2>1. \A k \in 1 .. 3 : five[2 + k] = three[k]
    BY <1>1, <1>2, <1>3 DEF IsJoin
  <2>2. five[2 + 1] = three[1] /\ five[2 + 2] = three[2] /\ five[2 + 3] = three[3]
    BY <2>1
  <2>3. QED
    BY <1>2, <2>2
<1>6. Len(five) = 5
  BY <1>1, <1>2, <1>3 DEF IsJoin
<1>7. five = <<a, b, c, d, e>>
  <2> DEFINE words == <<a, b, c, d, e>>
  <2>1. words \in Seq(S) /\ Len(words) = 5 /\ \A k \in 1 .. 5 : words[k] = five[k]
    <3>1. \A k \in 1 .. 5 : k = 1 \/ k = 2 \/ k = 3 \/ k = 4 \/ k = 5
      OBVIOUS
    <3>2. words \in Seq(S) /\ Len(words) = 5
      OBVIOUS
    <3>3. words[1] = a /\ words[2] = b /\ words[3] = c /\ words[4] = d /\ words[5] = e
      OBVIOUS
    <3> HIDE DEF words
    <3>4. QED
      BY <1>4, <1>5, <3>1, <3>2, <3>3, Zenon
  <2> HIDE DEF words
  <2>2. five = words
    BY <1>3, <1>6, <2>1, SameSequence
  <2>3. QED
    BY <2>2 DEF words
<1>8. QED
  BY <1>7, Zenon DEF five, two, three, JoinsFive

\* What writeHunkExecutable writes, and build of the mixed container, is the
\* load file of its parts: what the reader gives back of linkers' files holds
\* for the packer's own, which info reads.
THEOREM OwnFilesAreLoadFiles ==
  ASSUME NEW parts \in Seq(Part), parts # <<>>
  PROVE  Written(parts) \in LinkedFiles /\ WriteHunkExecutable(parts) = LoadFile(Written(parts))
<1> DEFINE hs == Written(parts).hunks
           own(n) == [type |-> HUNK_CODE, advice |-> 0, attr |-> parts[n].attr, allocated |-> parts[n].longs,
                      size |-> Len(parts[n].data), data |-> parts[n].data, blocks |-> <<>>]
<1>1. Written(parts) = [names |-> <<>>, hunks |-> [n \in DOMAIN parts |-> own(n)]]
  BY DEF Written
<1>2. hs = [n \in DOMAIN parts |-> own(n)] /\ Written(parts).names = <<>>
  BY <1>1
<1>3. Len(parts) \in Nat /\ Len(parts) # 0 /\ DOMAIN parts = 1 .. Len(parts) /\ \A n \in DOMAIN parts : parts[n] \in Part
  OBVIOUS
<1>4. \A n \in DOMAIN parts : own(n) \in LinkedHunks
  <2>1. SUFFICES ASSUME NEW n \in DOMAIN parts
                 PROVE  own(n) \in LinkedHunks
    OBVIOUS
  <2>2. /\ parts[n].attr \in {"any", "chip", "fast"} /\ parts[n].longs \in Nat
        /\ parts[n].data \in Seq(Longword) /\ Len(parts[n].data) \in Nat /\ Len(parts[n].data) <= parts[n].longs
    BY <1>3 DEF Part
  <2>3. HUNK_CODE \in DOMAIN Kinds /\ HUNK_CODE # HUNK_BSS /\ <<>> \in Seq(TrailBlocks)
    BY DEF Kinds, HUNK_CODE, HUNK_BSS
  <2>4. QED
    BY <2>2, <2>3 DEF LinkedHunks
<1>5. hs \in Seq(LinkedHunks) /\ Len(hs) = Len(parts) /\ hs # <<>> /\ DOMAIN hs = DOMAIN parts
  <2> HIDE DEF own, hs
  <2>1. QED
    BY <1>2, <1>3, <1>4
<1>6. Written(parts) \in LinkedFiles
  <2>1. <<>> \in Seq(Seq(Longword) \ {<<>>})
    OBVIOUS
  <2> DEFINE linked == [n \in DOMAIN parts |-> own(n)]
  <2>2. linked \in Seq(LinkedHunks) \ {<<>>}
    BY <1>2, <1>5
  <2>3. Written(parts) = [names |-> <<>>, hunks |-> linked]
    BY <1>1
  <2> HIDE DEF linked
  <2>4. QED
    BY <2>1, <2>2, <2>3 DEF LinkedFiles
<1>7. \A n \in DOMAIN parts :
        /\ HunkWords(hs[n]) = HunkBody(parts[n].data)
        /\ hs[n].attr = parts[n].attr /\ hs[n].allocated = parts[n].longs
  <2>1. SUFFICES ASSUME NEW n \in DOMAIN parts
                 PROVE  /\ HunkWords(hs[n]) = HunkBody(parts[n].data)
                        /\ hs[n].attr = parts[n].attr /\ hs[n].allocated = parts[n].longs
    OBVIOUS
  <2>2. hs[n] = own(n)
    BY <1>2
  <2> HIDE DEF hs
  <2>3. /\ hs[n].type = HUNK_CODE /\ hs[n].advice = 0 /\ hs[n].size = Len(hs[n].data) /\ hs[n].blocks = <<>>
        /\ hs[n].data = parts[n].data /\ hs[n].attr = parts[n].attr /\ hs[n].allocated = parts[n].longs
    BY <2>2
  <2>4. hs[n].data \in Seq(Longword)
    BY <1>3, <2>3 DEF Part
  <2>5. HunkWords(hs[n]) = HunkBody(hs[n].data)
    BY <2>3, <2>4, OwnHunk
  <2>6. QED
    BY <2>3, <2>5
<1> DEFINE sizes  == [n \in DOMAIN parts |-> Tagged(AttrBits(parts[n].attr), parts[n].longs)]
           bodies == FlattenSeq([n \in DOMAIN parts |-> HunkBody(parts[n].data)])
           magic  == <<W(HUNK_HEADER)>>
           close  == <<W(0)>>
           range  == <<W(Len(parts)), W(0), W(Len(parts) - 1)>>
<1>8. [n \in DOMAIN hs |-> Tagged(AttrBits(hs[n].attr), hs[n].allocated)] = sizes
  <2> HIDE DEF hs
  <2>1. QED
    BY <1>5, <1>7, Zenon
<1>9. HunksWords(hs) = bodies
  <2> HIDE DEF hs
  <2>1. [n \in DOMAIN hs |-> HunkWords(hs[n])] = [n \in DOMAIN parts |-> HunkBody(parts[n].data)]
    BY <1>5, <1>7, Zenon
  <2>2. QED
    BY <2>1, Zenon DEF HunksWords
<1>10. NamesWords(Written(parts).names) = <<>>
  <2>1. <<>> \in Seq(Seq(Longword) \ {<<>>})
    OBVIOUS
  <2>2. NamesWords(<<>>) = <<>>
    BY <2>1, NamesSplit
  <2>3. QED
    BY <1>2, <2>2, Zenon
<1>11. LoadFile(Written(parts)) = ((((magic \o <<>>) \o close) \o range) \o sizes) \o bodies
  <2>1. <<W(Len(hs)), W(0), W(Len(hs) - 1)>> = range
    BY <1>5, Zenon
  <2>2. /\ [n \in DOMAIN Written(parts).hunks |->
                Tagged(AttrBits(Written(parts).hunks[n].attr), Written(parts).hunks[n].allocated)] = sizes
        /\ HunksWords(Written(parts).hunks) = bodies
        /\ <<W(Len(Written(parts).hunks)), W(0), W(Len(Written(parts).hunks) - 1)>> = range
    BY <1>8, <1>9, <2>1
  <2> DEFINE f     == Written(parts)
             words == [n \in DOMAIN f.hunks |-> Tagged(AttrBits(f.hunks[n].attr), f.hunks[n].allocated)]
             names == NamesWords(f.names)
             three == <<W(Len(f.hunks)), W(0), W(Len(f.hunks) - 1)>>
             all   == HunksWords(f.hunks)
  <2>3. LoadFile(f) = ((((magic \o names) \o close) \o three) \o words) \o all
    BY Zenon DEF LoadFile
  <2>4. names = <<>> /\ three = range /\ words = sizes /\ all = bodies
    BY <1>10, <2>2
  <2> HIDE DEF hs, sizes, bodies, range, magic, close, words, names, three, all
  <2>5. QED
    BY <2>3, <2>4, Zenon
<1>12. ((magic \o <<>>) \o close) \o range = <<W(HUNK_HEADER), W(0), W(Len(parts)), W(0), W(Len(parts) - 1)>>
  <2>1. magic \in Seq(Longword)
    BY WordsAre DEF HUNK_HEADER
  <2>2. magic \o <<>> = magic
    BY <2>1, NothingAdded
  <2>3. /\ W(HUNK_HEADER) \in Longword /\ W(0) \in Longword /\ W(Len(parts)) \in Longword
        /\ W(Len(parts) - 1) \in Longword
    <3>1. HUNK_HEADER \in Nat /\ 0 \in Nat /\ Len(parts) \in Nat /\ Len(parts) - 1 \in Nat
      BY <1>3 DEF HUNK_HEADER
    <3>2. QED
      BY <3>1, WordsAre
  <2>4. (magic \o close) \o range = <<W(HUNK_HEADER), W(0), W(Len(parts)), W(0), W(Len(parts) - 1)>>
    <3>1. JoinsFive(W(HUNK_HEADER), W(0), W(Len(parts)), W(0), W(Len(parts) - 1))
      BY <2>3, FiveWords
    <3>2. QED
      BY <3>1, Zenon DEF JoinsFive
  <2> HIDE DEF magic, close, range
  <2>5. QED
    BY <2>2, <2>4, Zenon
<1>13. WriteHunkExecutable(parts) =
         (<<W(HUNK_HEADER), W(0), W(Len(parts)), W(0), W(Len(parts) - 1)>> \o sizes) \o bodies
  BY Zenon DEF WriteHunkExecutable
<1>14. WriteHunkExecutable(parts) = LoadFile(Written(parts))
  <2> HIDE DEF sizes, bodies, magic, close, range
  <2>1. QED
    BY <1>11, <1>12, <1>13, Zenon
<1>15. QED
  BY <1>6, <1>14

-----------------------------------------------------------------------------
(* The groups: layout.                                                     *)

\* sub has the hunks S of h, N of them, in their order.
IsPart(sub, N, e, h, S) ==
  /\ IsExecutable(h) /\ IsExecutable(sub)
  /\ S \in SUBSET DOMAIN h /\ N \in Nat
  /\ \A n \in 1 .. N : e[n] \in S
  /\ \A j \in S : \E n \in 1 .. N : e[n] = j
  /\ \A n, m \in 1 .. N : n < m <=> e[n] < e[m]
  /\ DOMAIN sub = 1 .. N /\ \A n \in 1 .. N : sub[n] = h[e[n]]

\* They are merged as if the others were not there.
MergesAsPart(sub, N, e, h, S) ==
  /\ SizeOf(sub, LoadedHunks(sub)) = SizeOf(h, S \cap LoadedHunks(h))
  /\ \A n \in 1 .. N :
       MergeBase(sub)[n] = IF e[n] \in BssHunks(h)
                           THEN SizeOf(h, S \cap LoadedHunks(h)) + SizeOf(h, Preceding(S \cap BssHunks(h), e[n]))
                           ELSE SizeOf(h, Preceding(S \cap LoadedHunks(h), e[n]))

LEMMA PartOfExecutable ==
  ASSUME NEW h, NEW S, NEW N, NEW e, NEW sub, IsPart(sub, N, e, h, S)
  PROVE  MergesAsPart(sub, N, e, h, S)
<1> USE DEF IsPart
<1> DEFINE loaded == S \cap LoadedHunks(h)
           zeroed == S \cap BssHunks(h)
           Image(T) == {e[n] : n \in T}
<1>1. Len(h) \in Nat /\ DOMAIN h = 1 .. Len(h) /\ \A j \in DOMAIN h : h[j].size \in Nat
  BY FileFacts
<1>2. DOMAIN sub = 1 .. N /\ \A n \in 1 .. N : e[n] \in S /\ e[n] \in DOMAIN h /\ sub[n] = h[e[n]] /\ e[n] \in Nat
  BY <1>1
<1>4. ASSUME NEW T \in SUBSET (1 .. N)
      PROVE  SizeOf(sub, T) = SizeOf(h, Image(T))
  <2> DEFINE f == [j \in DOMAIN h |-> h[j].size]
             s == [n \in DOMAIN sub |-> sub[n].size]
  <2>1. \A n \in T : s[n] = f[e[n]] /\ s[n] \in Int
    BY <1>1, <1>2
  <2>2. \A n, m \in T : n # m => e[n] # e[m]
    <3>1. \A n, m \in 1 .. N : n # m => n < m \/ m < n
      OBVIOUS
    <3>2. \A n, m \in 1 .. N : n < m => e[n] < e[m]
      OBVIOUS
    <3>3. \A n, m \in 1 .. N : e[n] < e[m] => e[n] # e[m]
      BY <1>2
    <3>4. QED
      BY <3>1, <3>2, <3>3
  <2>3. IsFiniteSet(T)
    BY FirstCount, FS_Subset
  <2> DEFINE R == Image(T)
  <2>4. SizeOf(sub, T) = SumFunctionOnSet(s, T) /\ SizeOf(h, R) = SumFunctionOnSet(f, R)
    BY DEF SizeOf
  <2>a. (\A n \in T : e[n] \in R) /\ \A y \in R : \E n \in T : e[n] = y
    OBVIOUS
  <2> HIDE DEF f, s, R
  <2>5. SumFunctionOnSet(s, T) = SumFunctionOnSet(f, R)
    <3>1. Renames(s, T, e, f, R)
      BY <2>1, <2>2, <2>3, <2>a DEF Renames
    <3>2. QED
      BY <3>1, SumRenamed
  <2>6. SizeOf(sub, T) = SizeOf(h, R)
    BY <2>4, <2>5
  <2>7. QED
    BY <2>6 DEF R
<1>5. /\ LoadedHunks(sub) \in SUBSET (1 .. N) /\ BssHunks(sub) \in SUBSET (1 .. N)
      /\ \A n \in 1 .. N : /\ n \in BssHunks(sub) <=> e[n] \in BssHunks(h)
                           /\ n \in LoadedHunks(sub) <=> n \notin BssHunks(sub)
                           /\ e[n] \in LoadedHunks(h) <=> e[n] \notin BssHunks(h)
  BY <1>2 DEF LoadedHunks, BssHunks
<1>6. Image(LoadedHunks(sub)) = loaded
  <2>1. \A n \in LoadedHunks(sub) : e[n] \in loaded
    BY <1>2, <1>5
  <2>2. \A j \in loaded : \E n \in LoadedHunks(sub) : e[n] = j
    BY <1>5
  <2>3. QED
    BY <2>1, <2>2
<1>7. ASSUME NEW n \in 1 .. N
      PROVE  /\ Image(Preceding(LoadedHunks(sub), n)) = Preceding(loaded, e[n])
             /\ Image(Preceding(BssHunks(sub), n)) = Preceding(zeroed, e[n])
             /\ Preceding(LoadedHunks(sub), n) \in SUBSET (1 .. N)
             /\ Preceding(BssHunks(sub), n) \in SUBSET (1 .. N)
  <2>1. \A m \in 1 .. N : m < n <=> e[m] < e[n]
    OBVIOUS
  <2>2. \A m \in Preceding(LoadedHunks(sub), n) : e[m] \in Preceding(loaded, e[n])
    BY <1>2, <1>5, <2>1 DEF Preceding
  <2>3. \A j \in Preceding(loaded, e[n]) : \E m \in Preceding(LoadedHunks(sub), n) : e[m] = j
    <3> SUFFICES ASSUME NEW j \in loaded, j < e[n]
                 PROVE  \E m \in Preceding(LoadedHunks(sub), n) : e[m] = j
      BY DEF Preceding
    <3>1. PICK m \in 1 .. N : e[m] = j
      OBVIOUS
    <3>2. QED
      BY <1>5, <2>1, <3>1 DEF Preceding
  <2>4. \A m \in Preceding(BssHunks(sub), n) : e[m] \in Preceding(zeroed, e[n])
    BY <1>2, <1>5, <2>1 DEF Preceding
  <2>5. \A j \in Preceding(zeroed, e[n]) : \E m \in Preceding(BssHunks(sub), n) : e[m] = j
    <3> SUFFICES ASSUME NEW j \in zeroed, j < e[n]
                 PROVE  \E m \in Preceding(BssHunks(sub), n) : e[m] = j
      BY DEF Preceding
    <3>1. PICK m \in 1 .. N : e[m] = j
      OBVIOUS
    <3>2. QED
      BY <1>5, <2>1, <3>1 DEF Preceding
  <2>6. Preceding(LoadedHunks(sub), n) \in SUBSET (1 .. N) /\ Preceding(BssHunks(sub), n) \in SUBSET (1 .. N)
    BY <1>5 DEF Preceding
  <2> HIDE DEF loaded, zeroed
  <2>7. Image(Preceding(LoadedHunks(sub), n)) = Preceding(loaded, e[n])
    BY <2>2, <2>3
  <2>8. Image(Preceding(BssHunks(sub), n)) = Preceding(zeroed, e[n])
    BY <2>4, <2>5
  <2>9. QED
    BY <2>6, <2>7, <2>8
<1>8. SizeOf(sub, LoadedHunks(sub)) = SizeOf(h, loaded)
  BY <1>4, <1>5, <1>6
<1>9. ASSUME NEW n \in 1 .. N
      PROVE  MergeBase(sub)[n] = IF e[n] \in BssHunks(h)
                                 THEN SizeOf(h, loaded) + SizeOf(h, Preceding(zeroed, e[n]))
                                 ELSE SizeOf(h, Preceding(loaded, e[n]))
  <2>1. /\ SizeOf(sub, Preceding(LoadedHunks(sub), n)) = SizeOf(h, Preceding(loaded, e[n]))
        /\ SizeOf(sub, Preceding(BssHunks(sub), n)) = SizeOf(h, Preceding(zeroed, e[n]))
    BY <1>4, <1>7
  <2>2. MergeBase(sub)[n] = IF n \in BssHunks(sub)
                            THEN SizeOf(sub, LoadedHunks(sub)) + SizeOf(sub, Preceding(BssHunks(sub), n))
                            ELSE SizeOf(sub, Preceding(LoadedHunks(sub), n))
    BY <1>2 DEF MergeBase, Preceding
  <2> HIDE DEF loaded, zeroed
  <2>3. QED
    BY <1>5, <1>8, <2>1, <2>2
<1>10. QED
  BY <1>8, <1>9 DEF MergesAsPart

-----------------------------------------------------------------------------
(* The groups: their inductive invariant.                                  *)

\* Those of the hunks S that belong to group grp.
Of(S, grp) == {j \in S : group_ids[j] = grp}

LoadedOf(grp) == Of(LoadedHunks(all_hunks), grp)
ZeroedOf(grp) == Of(BssHunks(all_hunks), grp)

\* Where a hunk lies in its group's image: MergeBase of the group's hunks alone.
Spot(j) ==
  LET grp == group_ids[j]
  IN  IF all_hunks[j].kind = "bss"
      THEN SizeOf(all_hunks, LoadedOf(grp)) + SizeOf(all_hunks, Preceding(ZeroedOf(grp), j))
      ELSE SizeOf(all_hunks, Preceding(LoadedOf(grp), j))

GroupsProgress ==
  /\ all_hunks \in GroupedFiles
  /\ building \in {"check", "classify", "flatten", "base", "fold", "done", "error"}
  /\ building # "error" => at_hunk \in 1 .. Len(all_hunks) + 1 /\ g \in Nat
  /\ building \notin {"check", "error"} => all_hunks # <<>> /\ all_hunks[1].kind # "bss"

\* The first n hunks have groups, one for each kind of memory.
Classed(n) ==
  /\ attrs \in Seq(Memory) /\ IsInjective(attrs)
  /\ DOMAIN group_ids = 1 .. n
  /\ \A j \in 1 .. n : group_ids[j] \in Groups /\ attrs[group_ids[j] + 1] = all_hunks[j].attr
  /\ IF n = 0 THEN attrs = <<>> ELSE group_ids[1] = 0

GroupsClassed ==
  /\ building = "check" => attrs = <<>> /\ group_ids = <<>> /\ at_hunk = 1 /\ g = 0
  /\ building = "classify" => group_ids \in Seq(Groups) /\ Classed(at_hunk - 1) /\ g = 0
  /\ building \in {"flatten", "base", "fold", "done"} => Classed(Len(all_hunks))

\* The bases of group g, hunk by hunk, and all those of the groups before it.
BasesSoFar ==
  /\ building \in {"check", "classify"} => DOMAIN bases = {}
  /\ building \in {"flatten", "base"} => /\ g <= Len(attrs)
                                         /\ \A j \in DOMAIN bases : bases[j] = Spot(j)
  /\ building = "flatten" => DOMAIN bases = {j \in DOMAIN all_hunks : group_ids[j] < g}
  /\ building = "base" =>
       /\ g < Len(attrs)
       /\ DOMAIN bases = {j \in DOMAIN all_hunks : group_ids[j] < g} \cup Preceding(Of(DOMAIN all_hunks, g), at_hunk)
       /\ code_offset = SizeOf(all_hunks, Preceding(LoadedOf(g), at_hunk))
       /\ bss_offset = SizeOf(all_hunks, LoadedOf(g)) + SizeOf(all_hunks, Preceding(ZeroedOf(g), at_hunk))
  /\ building \in {"fold", "done"} => DOMAIN bases = DOMAIN all_hunks /\ \A j \in DOMAIN all_hunks : bases[j] = Spot(j)

GroupsInvariant == GroupsProgress /\ GroupsClassed /\ BasesSoFar

-----------------------------------------------------------------------------
(* The groups: what the layout comes to.                                   *)

LEMMA ExecutableFacts ==
  ASSUME GroupedFilesAssumption, all_hunks \in GroupedFiles
  PROVE  /\ IsExecutable(all_hunks) /\ Len(all_hunks) \in Nat /\ DOMAIN all_hunks = 1 .. Len(all_hunks)
         /\ \A j \in DOMAIN all_hunks : /\ all_hunks[j].size \in Nat /\ all_hunks[j].attr \in Memory
                                        /\ j \in BssHunks(all_hunks) <=> all_hunks[j].kind = "bss"
                                        /\ j \in LoadedHunks(all_hunks) <=> all_hunks[j].kind # "bss"
<1>1. IsExecutable(all_hunks)
  BY DEF GroupedFilesAssumption, IsExecutable
<1>2. \A j \in DOMAIN all_hunks : all_hunks[j].attr \in Memory
  BY <1>1 DEF IsExecutable, IsHunk, Memory
<1>3. \A j \in DOMAIN all_hunks : /\ j \in BssHunks(all_hunks) <=> all_hunks[j].kind = "bss"
                                  /\ j \in LoadedHunks(all_hunks) <=> all_hunks[j].kind # "bss"
  BY DEF BssHunks, LoadedHunks
<1>4. QED
  BY <1>1, <1>2, <1>3, FileFacts

LEMMA MembersAre ==
  ASSUME GroupedFilesAssumption, all_hunks \in GroupedFiles, NEW grp
  PROVE  LET S == Of(DOMAIN all_hunks, grp)
             e == Members(grp)
             N == Cardinality(S)
         IN  /\ N \in Nat /\ e \in [1 .. N -> S] /\ S \in SUBSET DOMAIN all_hunks
             /\ \A j \in S : \E n \in 1 .. N : e[n] = j
             /\ \A n, m \in 1 .. N : n < m <=> e[n] < e[m]
<1> DEFINE S == Of(DOMAIN all_hunks, grp)
           N == Cardinality(S)
           e == Members(grp)
<1>1. S \in SUBSET Nat /\ S \in SUBSET DOMAIN all_hunks /\ IsFiniteSet(S)
  <2>1. S \in SUBSET DOMAIN all_hunks /\ DOMAIN all_hunks = 1 .. Len(all_hunks) /\ Len(all_hunks) \in Nat
    BY ExecutableFacts DEF Of
  <2>2. QED
    BY <2>1, FirstCount, FS_Subset
<1>2. e = [n \in 1 .. Cardinality(S) |-> CHOOSE j \in S : Cardinality({m \in S : m <= j}) = n]
  BY DEF Members, Of
<1> HIDE DEF S, e
<1>3. ASSUME NEW n \in 1 .. Cardinality(S)
      PROVE  e[n] \in S /\ Cardinality(Through(S, e[n])) = n
  <2>1. \E j \in S : Cardinality({m \in S : m <= j}) = n
    BY <1>1, NumbersAreRanked DEF Through
  <2>2. e[n] = CHOOSE j \in S : Cardinality({m \in S : m <= j}) = n
    BY <1>2
  <2>3. e[n] \in S /\ Cardinality({m \in S : m <= e[n]}) = n
    BY <2>1, <2>2
  <2>4. QED
    BY <2>3 DEF Through
<1>4. e \in [1 .. Cardinality(S) -> S]
  BY <1>2, <1>3
<1>5. /\ Cardinality(S) \in Nat
      /\ \A j \in S : \E n \in 1 .. Cardinality(S) : e[n] = j
      /\ \A n, m \in 1 .. Cardinality(S) : n < m <=> e[n] < e[m]
  BY <1>1, <1>3, <1>4, Enumerated
<1>6. QED
  BY <1>1, <1>4, <1>5 DEF S, e

LEMMA GroupLayout ==
  ASSUME GroupedFilesAssumption, all_hunks \in GroupedFiles
  PROVE  /\ \A grp : GroupSize(grp) = SizeOf(all_hunks, LoadedOf(grp)) /\ IsExecutable(Subset(grp))
         /\ \A j \in DOMAIN all_hunks : PlaceOf(j) = Spot(j)
<1> DEFINE S(grp) == Of(DOMAIN all_hunks, grp)
           N(grp) == Cardinality(S(grp))
           e(grp) == Members(grp)
           sub(grp) == Subset(grp)
<1>1. IsExecutable(all_hunks)
  BY ExecutableFacts
<1>2. ASSUME NEW grp
      PROVE  /\ S(grp) \cap LoadedHunks(all_hunks) = LoadedOf(grp)
             /\ S(grp) \cap BssHunks(all_hunks) = ZeroedOf(grp)
  BY DEF Of, LoadedOf, ZeroedOf, LoadedHunks, BssHunks
<1>3. ASSUME NEW grp
      PROVE  /\ N(grp) \in Nat /\ DOMAIN e(grp) = 1 .. N(grp) /\ S(grp) \in SUBSET DOMAIN all_hunks
             /\ \A n \in 1 .. N(grp) : e(grp)[n] \in S(grp)
             /\ \A j \in S(grp) : \E n \in 1 .. N(grp) : e(grp)[n] = j
             /\ \A n, m \in 1 .. N(grp) : n < m <=> e(grp)[n] < e(grp)[m]
  BY MembersAre
<1>4. ASSUME NEW grp
      PROVE  /\ DOMAIN sub(grp) = 1 .. N(grp)
             /\ IsExecutable(sub(grp))
             /\ \A n \in 1 .. N(grp) : sub(grp)[n] = all_hunks[e(grp)[n]]
  <2>1. DOMAIN Members(grp) = 1 .. N(grp) /\ \A n \in 1 .. N(grp) : Members(grp)[n] \in DOMAIN all_hunks
    BY <1>3
  <2>2. sub(grp) = [n \in 1 .. N(grp) |-> all_hunks[Members(grp)[n]]]
    BY <2>1 DEF Subset
  <2>3. N(grp) \in Nat
    BY <1>3
  <2>4. sub(grp) \in [1 .. N(grp) -> Range(sub(grp))]
    BY <2>2 DEF Range
  <2>5. \A n \in 1 .. N(grp) : sub(grp)[n] = all_hunks[Members(grp)[n]] /\ IsHunk(sub(grp)[n])
    BY <1>1, <2>1, <2>2 DEF IsExecutable
  <2>6. sub(grp) \in Seq(Range(sub(grp))) /\ DOMAIN sub(grp) = 1 .. N(grp)
    BY <2>2, <2>3, <2>4
  <2> HIDE DEF sub, N
  <2>7. QED
    BY <2>5, <2>6 DEF IsExecutable
<1> HIDE DEF S, N, e, sub
<1>5. ASSUME NEW grp
      PROVE  MergesAsPart(sub(grp), N(grp), e(grp), all_hunks, S(grp))
  <2>1. /\ N(grp) \in Nat /\ S(grp) \in SUBSET DOMAIN all_hunks
        /\ \A n \in 1 .. N(grp) : e(grp)[n] \in S(grp)
        /\ \A j \in S(grp) : \E n \in 1 .. N(grp) : e(grp)[n] = j
        /\ \A n, m \in 1 .. N(grp) : n < m <=> e(grp)[n] < e(grp)[m]
    BY <1>3
  <2>2. /\ DOMAIN sub(grp) = 1 .. N(grp) /\ IsExecutable(sub(grp))
        /\ \A n \in 1 .. N(grp) : sub(grp)[n] = all_hunks[e(grp)[n]]
    BY <1>4
  <2>3. QED
    <3>1. IsPart(sub(grp), N(grp), e(grp), all_hunks, S(grp))
      BY <1>1, <2>1, <2>2 DEF IsPart
    <3>2. QED
      BY <3>1, PartOfExecutable
<1>6. ASSUME NEW grp
      PROVE  GroupSize(grp) = SizeOf(all_hunks, LoadedOf(grp)) /\ IsExecutable(Subset(grp))
  BY <1>2, <1>4, <1>5 DEF GroupSize, MergesAsPart, sub
<1>7. ASSUME NEW j \in DOMAIN all_hunks
      PROVE  PlaceOf(j) = Spot(j)
  <2> DEFINE grp == group_ids[j]
             n == CHOOSE m \in DOMAIN Members(grp) : Members(grp)[m] = j
  <2>1. j \in S(grp)
    BY DEF S, Of
  <2>2. n \in 1 .. N(grp) /\ e(grp)[n] = j
    BY <1>3, <2>1 DEF e
  <2>3. PlaceOf(j) = MergeBase(sub(grp))[n]
    BY DEF PlaceOf, sub
  <2> HIDE DEF grp, n
  <2>4. MergeBase(sub(grp))[n] =
          IF j \in BssHunks(all_hunks)
          THEN SizeOf(all_hunks, LoadedOf(grp)) + SizeOf(all_hunks, Preceding(ZeroedOf(grp), j))
          ELSE SizeOf(all_hunks, Preceding(LoadedOf(grp), j))
    BY <1>2, <1>5, <2>2 DEF MergesAsPart
  <2>5. j \in BssHunks(all_hunks) <=> all_hunks[j].kind = "bss"
    BY ExecutableFacts
  <2>6. QED
    BY <2>3, <2>4, <2>5 DEF Spot, grp
<1>8. QED
  BY <1>6, <1>7

-----------------------------------------------------------------------------
(* The groups: the invariant is kept.                                      *)

LEMMA InitGroups == GroupedFilesAssumption /\ BuildInit => GroupsInvariant
<1> SUFFICES ASSUME GroupedFilesAssumption, BuildInit
             PROVE  GroupsInvariant
  OBVIOUS
<1>1. Len(all_hunks) \in Nat
  BY ExecutableFacts DEF BuildInit
<1>2. GroupsProgress
  BY <1>1 DEF BuildInit, GroupsProgress
<1>3. GroupsClassed
  BY DEF BuildInit, GroupsClassed
<1>4. BasesSoFar
  BY DEF BuildInit, BasesSoFar
<1>5. QED
  BY <1>2, <1>3, <1>4 DEF GroupsInvariant

\* With the hunks and their groups, all that is said of these stays.
LEMMA GroupsStay ==
  ASSUME UNCHANGED <<all_hunks, attrs, group_ids>>
  PROVE  /\ \A n : Classed(n)' <=> Classed(n)
         /\ \A j : Spot(j)' = Spot(j)
         /\ \A grp : LoadedOf(grp)' = LoadedOf(grp) /\ ZeroedOf(grp)' = ZeroedOf(grp)
         /\ \A S, grp : Of(S, grp)' = Of(S, grp)
<1>1. \A S, grp : Of(S, grp)' = Of(S, grp)
  BY DEF Of
<1>2. \A grp : LoadedOf(grp)' = LoadedOf(grp) /\ ZeroedOf(grp)' = ZeroedOf(grp)
  BY DEF Of, LoadedOf, ZeroedOf
<1>3. \A j : Spot(j)' = Spot(j)
  BY DEF Of, LoadedOf, ZeroedOf, Spot
<1>4. \A n : Classed(n)' <=> Classed(n)
  BY DEF Classed, Groups
<1>5. QED
  BY <1>1, <1>2, <1>3, <1>4

\* A step that only goes from one hunk or relocation to the next, or fails.
LEMMA PassingStep ==
  ASSUME GroupedFilesAssumption, GroupsInvariant,
         UNCHANGED <<all_hunks, attrs, group_ids, offsets, bases>>,
         \/ building' = "error"
         \/ building = "fold" /\ building' \in {"fold", "done"} /\ at_hunk' \in 1 .. Len(all_hunks) + 1 /\ g' \in Nat
         \/ UNCHANGED <<building, at_hunk, g>>
  PROVE  GroupsInvariant'
<1>1. /\ \A n : Classed(n)' <=> Classed(n)
      /\ \A j : Spot(j)' = Spot(j)
      /\ \A grp : LoadedOf(grp)' = LoadedOf(grp) /\ ZeroedOf(grp)' = ZeroedOf(grp)
      /\ \A S, grp : Of(S, grp)' = Of(S, grp)
  BY GroupsStay
<1>2. GroupsProgress'
  BY DEF GroupsInvariant, GroupsProgress
<1>3. GroupsClassed'
  <2>1. CASE building' = "error"
    BY <2>1 DEF GroupsClassed
  <2>2. CASE building = "fold" /\ building' \in {"fold", "done"}
    BY <1>1, <2>2 DEF GroupsInvariant, GroupsClassed
  <2>3. CASE UNCHANGED <<building, at_hunk, g>>
    BY <1>1, <2>3 DEF GroupsInvariant, GroupsClassed, Groups
  <2>4. QED
    BY <2>1, <2>2, <2>3
<1>4. BasesSoFar'
  <2>1. CASE building' = "error"
    BY <2>1 DEF BasesSoFar
  <2>2. CASE building = "fold" /\ building' \in {"fold", "done"}
    BY <1>1, <2>2 DEF GroupsInvariant, BasesSoFar
  <2>3. CASE UNCHANGED <<building, at_hunk, g>>
    BY <1>1, <2>3 DEF GroupsInvariant, BasesSoFar, offsets
  <2>4. QED
    BY <2>1, <2>2, <2>3
<1>5. QED
  BY <1>2, <1>3, <1>4 DEF GroupsInvariant

LEMMA AcceptedGroups ==
  ASSUME GroupedFilesAssumption, GroupsInvariant, AcceptFile
  PROVE  GroupsInvariant'
<1>1. all_hunks' = all_hunks /\ all_hunks # <<>> /\ all_hunks[1].kind # "bss" /\ building' = "classify" /\ at_hunk' = at_hunk /\ g' = g
  BY DEF AcceptFile, Check
<1>2. attrs = <<>> /\ group_ids = <<>> /\ at_hunk = 1 /\ g = 0 /\ attrs' = attrs /\ group_ids' = group_ids
  BY DEF AcceptFile, GroupsInvariant, GroupsClassed
<1>3. GroupsProgress'
  BY <1>1, <1>2 DEF AcceptFile, GroupsInvariant, GroupsProgress
<1>4. GroupsClassed'
  <2>1. Classed(0)
    BY <1>2 DEF Classed, IsInjective
  <2>2. Classed(0)'
    BY <1>1, <1>2, <2>1, GroupsStay
  <2>3. group_ids \in Seq(Groups)
    BY <1>2
  <2>4. group_ids' \in Seq(Groups')
    BY <1>2, <2>3 DEF Groups
  <2>5. at_hunk' - 1 = 0
    BY <1>1, <1>2
  <2>6. QED
    BY <1>1, <1>2, <2>2, <2>4, <2>5 DEF GroupsClassed
<1>5. BasesSoFar'
  BY <1>1 DEF AcceptFile, GroupsInvariant, BasesSoFar
<1>6. QED
  BY <1>3, <1>4, <1>5 DEF GroupsInvariant

\* A hunk joins the group of its kind of memory, or opens it.
LEMMA ClassifiedHunk ==
  ASSUME GroupedFilesAssumption, GroupsInvariant, Classify
  PROVE  Classed(at_hunk - 1)' /\ group_ids' \in Seq(Groups')
<1>1. /\ all_hunks' = all_hunks /\ at_hunk \in 1 .. Len(all_hunks) /\ all_hunks[at_hunk].attr \in Memory
      /\ Len(all_hunks) \in Nat /\ at_hunk \in Nat \ {0} /\ at_hunk - 1 \in Nat
  <2>1. at_hunk \in DOMAIN all_hunks /\ all_hunks' = all_hunks /\ all_hunks \in GroupedFiles
    BY DEF Classify, HunkLeft, GroupsInvariant, GroupsProgress
  <2>2. QED
    BY <2>1, ExecutableFacts
<1>2. Classed(at_hunk - 1) /\ group_ids \in Seq(Groups)
  BY DEF Classify, GroupsInvariant, GroupsClassed
<1>3. attrs \in Seq(Memory) /\ IsInjective(attrs) /\ DOMAIN group_ids = 1 .. at_hunk - 1
      /\ \A j \in 1 .. at_hunk - 1 : group_ids[j] \in 0 .. Len(attrs) - 1 /\ attrs[group_ids[j] + 1] = all_hunks[j].attr
  BY <1>2 DEF Classed, Groups
<1>a. (at_hunk - 1 = 0 => attrs = <<>>) /\ (at_hunk - 1 # 0 => group_ids[1] = 0)
  BY <1>2 DEF Classed
<1>4. attrs' = IF Contains(attrs, all_hunks[at_hunk].attr) THEN attrs ELSE Append(attrs, all_hunks[at_hunk].attr)
  BY DEF Classify, ThisHunk
<1>5. PICK n \in DOMAIN attrs' : attrs'[n] = all_hunks[at_hunk].attr /\ group_ids' = Append(group_ids, n - 1)
  BY DEF Classify, ThisHunk
<1>6. /\ attrs' \in Seq(Memory) /\ IsInjective(attrs') /\ Len(attrs) <= Len(attrs')
      /\ \A m \in 1 .. Len(attrs) : attrs'[m] = attrs[m]
      /\ attrs = <<>> => Len(attrs') = 1
  <2>1. CASE Contains(attrs, all_hunks[at_hunk].attr)
    <3>1. attrs # <<>>
      BY <1>3, <2>1 DEF Contains
    <3>2. QED
      BY <1>3, <1>4, <2>1, <3>1
  <2>2. CASE ~Contains(attrs, all_hunks[at_hunk].attr)
    <3>1. attrs' = Append(attrs, all_hunks[at_hunk].attr)
      BY <1>4, <2>2
    <3>2. \A m \in 1 .. Len(attrs) : attrs[m] # all_hunks[at_hunk].attr
      BY <1>3, <2>2 DEF Contains
    <3>3. IsInjective(attrs')
      BY <1>1, <1>3, <3>1, <3>2 DEF IsInjective
    <3>4. QED
      BY <1>1, <1>3, <3>1, <3>3
  <2>3. QED
    BY <2>1, <2>2
<1>7. /\ group_ids' \in Seq(Nat) /\ DOMAIN group_ids' = 1 .. at_hunk /\ group_ids'[at_hunk] = n - 1
      /\ \A j \in 1 .. at_hunk - 1 : group_ids'[j] = group_ids[j]
      /\ n - 1 \in 0 .. Len(attrs') - 1
  <2>1. group_ids \in Seq(Nat) /\ Len(group_ids) = at_hunk - 1
    BY <1>1, <1>2, <1>3 DEF Groups
  <2>2. n - 1 \in 0 .. Len(attrs') - 1
    BY <1>5, <1>6
  <2>3. QED
    BY <1>1, <1>5, <2>1, <2>2
<1>8. \A j \in 1 .. at_hunk : group_ids'[j] \in 0 .. Len(attrs') - 1 /\ attrs'[group_ids'[j] + 1] = all_hunks[j].attr
  <2>1. \A j \in 1 .. at_hunk - 1 : group_ids'[j] \in 0 .. Len(attrs') - 1 /\ attrs'[group_ids'[j] + 1] = all_hunks[j].attr
    <3>1. Len(attrs) \in Nat /\ Len(attrs') \in Nat
      BY <1>3, <1>6
    <3>2. ASSUME NEW j \in 1 .. at_hunk - 1
          PROVE  group_ids'[j] \in 0 .. Len(attrs') - 1 /\ attrs'[group_ids'[j] + 1] = all_hunks[j].attr
      <4>1. group_ids'[j] = group_ids[j]
        BY <1>7
      <4>2. group_ids[j] \in 0 .. Len(attrs) - 1 /\ attrs[group_ids[j] + 1] = all_hunks[j].attr
        BY <1>3
      <4>3. group_ids[j] + 1 \in 1 .. Len(attrs) /\ Len(attrs) <= Len(attrs')
        BY <1>6, <3>1, <4>2
      <4>4. QED
        BY <1>6, <3>1, <4>1, <4>2, <4>3
    <3>3. QED
      BY <3>2
  <2>2. attrs'[(n - 1) + 1] = all_hunks[at_hunk].attr
    BY <1>5, <1>6
  <2>3. QED
    BY <1>1, <1>7, <2>1, <2>2
<1>9. group_ids'[1] = 0
  <2>1. CASE at_hunk = 1
    <3>a. at_hunk - 1 = 0
      BY <2>1
    <3>1. attrs = <<>>
      BY <1>a, <3>a
    <3>2. n = 1
      BY <1>5, <1>6, <3>1
    <3>3. QED
      BY <1>7, <2>1, <3>2
  <2>2. CASE at_hunk # 1
    BY <1>1, <1>a, <1>7, <2>2
  <2>3. QED
    BY <2>1, <2>2
<1>10. Classed(at_hunk - 1)'
  <2>1. at_hunk' - 1 = at_hunk /\ at_hunk # 0
    BY <1>1 DEF Classify, NextInLoop
  <2>2. /\ attrs' \in Seq(Memory) /\ IsInjective(attrs')
        /\ DOMAIN group_ids' = 1 .. at_hunk' - 1
        /\ \A j \in 1 .. at_hunk' - 1 :
             group_ids'[j] \in 0 .. Len(attrs') - 1 /\ attrs'[group_ids'[j] + 1] = all_hunks'[j].attr
        /\ at_hunk' - 1 # 0 /\ group_ids'[1] = 0
    BY <1>1, <1>6, <1>7, <1>8, <1>9, <2>1
  <2>3. QED
    BY <2>2 DEF Classed, Groups
<1>11. group_ids' \in Seq(Groups')
  <2>1. group_ids' \in [1 .. at_hunk -> 0 .. Len(attrs') - 1]
    BY <1>7, <1>8
  <2>2. group_ids' \in Seq(0 .. Len(attrs') - 1)
    BY <1>1, <2>1
  <2>3. QED
    BY <2>2 DEF Groups
<1>12. QED
  BY <1>10, <1>11

LEMMA ClassifyGroups ==
  ASSUME GroupedFilesAssumption, GroupsInvariant, Classify
  PROVE  GroupsInvariant'
<1>1. /\ all_hunks' = all_hunks /\ building = "classify" /\ building' = "classify" /\ g' = g /\ at_hunk' = at_hunk + 1
      /\ at_hunk \in 1 .. Len(all_hunks) /\ Len(all_hunks) \in Nat /\ bases' = bases
  <2>1. at_hunk \in DOMAIN all_hunks /\ all_hunks \in GroupedFiles
    BY DEF Classify, HunkLeft, GroupsInvariant, GroupsProgress
  <2>2. QED
    BY <2>1, ExecutableFacts DEF Classify, NextInLoop
<1>2. GroupsProgress'
  BY <1>1 DEF GroupsInvariant, GroupsProgress
<1>3. GroupsClassed'
  BY <1>1, ClassifiedHunk DEF GroupsInvariant, GroupsClassed
<1>4. BasesSoFar'
  BY <1>1 DEF GroupsInvariant, BasesSoFar
<1>5. QED
  BY <1>2, <1>3, <1>4 DEF GroupsInvariant

LEMMA ClassifiedGroups ==
  ASSUME GroupedFilesAssumption, GroupsInvariant, Classified
  PROVE  GroupsInvariant'
<1>1. /\ building = "classify" /\ building' = "flatten" /\ UNCHANGED <<all_hunks, g, at_hunk, attrs, group_ids, bases>>
      /\ at_hunk \notin DOMAIN all_hunks
  BY DEF Classified, HunkLeft
<1>2. /\ all_hunks \in GroupedFiles /\ at_hunk \in 1 .. Len(all_hunks) + 1 /\ g = 0 /\ Classed(at_hunk - 1) /\ bases = bases
      /\ all_hunks # <<>> /\ all_hunks[1].kind # "bss" /\ DOMAIN bases = {}
  BY <1>1 DEF GroupsInvariant, GroupsProgress, GroupsClassed, BasesSoFar
<1>3. Len(all_hunks) \in Nat /\ DOMAIN all_hunks = 1 .. Len(all_hunks)
  BY <1>2, ExecutableFacts
<1>4. at_hunk - 1 = Len(all_hunks)
  BY <1>1, <1>2, <1>3
<1>5. Classed(Len(all_hunks)) /\ \A n : Classed(n)' <=> Classed(n)
  BY <1>1, <1>2, <1>4, GroupsStay
<1>6. GroupsProgress'
  BY <1>1, <1>2 DEF GroupsInvariant, GroupsProgress
<1>7. GroupsClassed'
  BY <1>1, <1>5 DEF GroupsClassed
<1>8. BasesSoFar'
  <2>1. Len(attrs) \in Nat /\ \A j \in DOMAIN all_hunks : group_ids[j] \in 0 .. Len(attrs) - 1
    BY <1>3, <1>5 DEF Classed, Groups
  <2>2. {j \in DOMAIN all_hunks : group_ids[j] < 0} = {}
    BY <2>1
  <2>3. QED
    BY <1>1, <1>2, <2>1, <2>2 DEF BasesSoFar
<1>9. QED
  BY <1>6, <1>7, <1>8 DEF GroupsInvariant

\* From here on the hunks are classed.
LEMMA ClassedFacts ==
  ASSUME GroupedFilesAssumption, GroupsInvariant, building \in {"flatten", "base", "fold", "done"}
  PROVE  /\ all_hunks \in GroupedFiles /\ all_hunks # <<>> /\ all_hunks[1].kind # "bss"
         /\ Classed(Len(all_hunks)) /\ Len(attrs) \in Nat /\ g \in Nat /\ at_hunk \in 1 .. Len(all_hunks) + 1
         /\ IsInjective(attrs) /\ group_ids[1] = 0
         /\ \A j \in DOMAIN all_hunks : /\ group_ids[j] \in 0 .. Len(attrs) - 1
                                        /\ attrs[group_ids[j] + 1] = all_hunks[j].attr
         /\ IsExecutable(all_hunks) /\ Len(all_hunks) \in Nat \ {0} /\ DOMAIN all_hunks = 1 .. Len(all_hunks)
<1>1. /\ all_hunks \in GroupedFiles /\ all_hunks # <<>> /\ all_hunks[1].kind # "bss" /\ Classed(Len(all_hunks))
      /\ g \in Nat /\ at_hunk \in 1 .. Len(all_hunks) + 1
  BY DEF GroupsInvariant, GroupsProgress, GroupsClassed
<1>2. IsExecutable(all_hunks) /\ Len(all_hunks) \in Nat /\ DOMAIN all_hunks = 1 .. Len(all_hunks)
  BY <1>1, ExecutableFacts
<1>3. Len(all_hunks) # 0
  <2>1. all_hunks \in Seq(Range(all_hunks))
    BY <1>2 DEF IsExecutable
  <2>2. QED
    BY <1>1, <2>1
<1>4. /\ attrs \in Seq(Memory) /\ IsInjective(attrs)
      /\ \A j \in 1 .. Len(all_hunks) : group_ids[j] \in 0 .. Len(attrs) - 1 /\ attrs[group_ids[j] + 1] = all_hunks[j].attr
  BY <1>1 DEF Classed, Groups
<1>5. Len(attrs) \in Nat
  BY <1>4
<1>6. group_ids[1] = 0
  BY <1>1, <1>2, <1>3 DEF Classed
<1>7. QED
  BY <1>1, <1>2, <1>3, <1>4, <1>5, <1>6

LEMMA OfFacts ==
  ASSUME NEW grp
  PROVE  /\ LoadedOf(grp) \in SUBSET DOMAIN all_hunks /\ ZeroedOf(grp) \in SUBSET DOMAIN all_hunks
         /\ Of(DOMAIN all_hunks, grp) \in SUBSET DOMAIN all_hunks
BY DEF LoadedOf, ZeroedOf, Of, LoadedHunks, BssHunks

LEMMA FlattenedGroup ==
  ASSUME GroupedFilesAssumption, GroupsInvariant, FlattenGroup
  PROVE  GroupsInvariant'
<1>1. /\ building = "flatten" /\ building' = "base" /\ g < Len(attrs) /\ at_hunk' = 1
      /\ code_offset' = 0 /\ bss_offset' = GroupSize(g)
      /\ UNCHANGED <<all_hunks, g, attrs, group_ids, bases>>
  BY DEF FlattenGroup
<1>2. /\ all_hunks \in GroupedFiles /\ all_hunks # <<>> /\ all_hunks[1].kind # "bss" /\ Classed(Len(all_hunks)) /\ g \in Nat
      /\ IsExecutable(all_hunks) /\ Len(all_hunks) \in Nat
  BY <1>1, ClassedFacts
<1>3. /\ \A n : Classed(n)' <=> Classed(n)
      /\ \A j : Spot(j)' = Spot(j)
      /\ \A grp : LoadedOf(grp)' = LoadedOf(grp) /\ ZeroedOf(grp)' = ZeroedOf(grp)
      /\ \A S, grp : Of(S, grp)' = Of(S, grp)
  BY <1>1, GroupsStay
<1>4. GroupsProgress'
  BY <1>1, <1>2 DEF GroupsProgress
<1>5. GroupsClassed'
  BY <1>1, <1>2, <1>3 DEF GroupsClassed
<1>6. BasesSoFar'
  <2>1. PICK r \in Nat : r = g
    BY <1>2
  <2>2. /\ Preceding(LoadedOf(r), 1) = {} /\ Preceding(ZeroedOf(r), 1) = {}
        /\ Preceding(Of(DOMAIN all_hunks, r), 1) = {}
    BY <1>2, OfFacts, BeforeFacts
  <2>3. SizeOf(all_hunks, {}) = 0 /\ SizeOf(all_hunks, LoadedOf(r)) \in Nat
    BY <1>2, OfFacts, SizeFacts
  <2>4. GroupSize(r) = SizeOf(all_hunks, LoadedOf(r))
    BY <1>2, GroupLayout
  <2>5. g' = r
    BY <1>1, <2>1
  <2>6. /\ code_offset' = SizeOf(all_hunks', Preceding(LoadedOf(r)', at_hunk'))
        /\ bss_offset' = SizeOf(all_hunks', LoadedOf(r)') + SizeOf(all_hunks', Preceding(ZeroedOf(r)', at_hunk'))
    <3>1. LoadedOf(r)' = LoadedOf(r) /\ ZeroedOf(r)' = ZeroedOf(r)
      BY <1>3
    <3>2. bss_offset' = SizeOf(all_hunks, LoadedOf(r))
      BY <1>1, <2>1, <2>4
    <3>3. \A n \in Nat : n + 0 = n
      OBVIOUS
    <3>4. SizeOf(all_hunks, LoadedOf(r)) + SizeOf(all_hunks, {}) = SizeOf(all_hunks, LoadedOf(r))
      BY <2>3, <3>3
    <3>5. all_hunks' = all_hunks /\ at_hunk' = 1 /\ code_offset' = 0
      BY <1>1
    <3>6. QED
      BY <2>2, <2>3, <3>1, <3>2, <3>4, <3>5
  <2>7. DOMAIN bases' = {j \in DOMAIN all_hunks' : group_ids'[j] < r} \cup Preceding(Of(DOMAIN all_hunks, r)', at_hunk')
    BY <1>1, <1>3, <2>1, <2>2 DEF GroupsInvariant, BasesSoFar
  <2>8. r <= Len(attrs') /\ r < Len(attrs') /\ \A j \in DOMAIN bases' : bases'[j] = Spot(j)'
    BY <1>1, <1>3, <2>1 DEF GroupsInvariant, BasesSoFar
  <2>9. QED
    BY <1>1, <2>5, <2>6, <2>7, <2>8 DEF BasesSoFar
<1>7. QED
  BY <1>4, <1>5, <1>6 DEF GroupsInvariant

\* The next hunk's base is its spot in its group's image.
LEMMA BasedHunk ==
  ASSUME GroupedFilesAssumption, GroupsInvariant, BaseOfHunk
  PROVE  GroupsInvariant'
<1>1. /\ building = "base" /\ building' = "base" /\ at_hunk' = at_hunk + 1 /\ at_hunk \in DOMAIN all_hunks
      /\ UNCHANGED <<all_hunks, g, attrs, group_ids>>
  BY DEF BaseOfHunk, HunkLeft, NextInLoop
<1>2. /\ all_hunks \in GroupedFiles /\ all_hunks # <<>> /\ all_hunks[1].kind # "bss" /\ Classed(Len(all_hunks)) /\ g \in Nat
      /\ IsExecutable(all_hunks) /\ Len(all_hunks) \in Nat /\ DOMAIN all_hunks = 1 .. Len(all_hunks)
  BY <1>1, ClassedFacts
<1>3. /\ \A n : Classed(n)' <=> Classed(n)
      /\ \A j : Spot(j)' = Spot(j)
      /\ \A grp : LoadedOf(grp)' = LoadedOf(grp) /\ ZeroedOf(grp)' = ZeroedOf(grp)
      /\ \A S, grp : Of(S, grp)' = Of(S, grp)
  BY <1>1, GroupsStay
<1>4. GroupsProgress'
  BY <1>1, <1>2 DEF GroupsProgress
<1>5. GroupsClassed'
  BY <1>1, <1>2, <1>3 DEF GroupsClassed
<1>6. PICK r \in Nat, n \in 1 .. Len(all_hunks) : r = g /\ n = at_hunk
  BY <1>1, <1>2
<1> DEFINE reached(S, m) == SizeOf(all_hunks, Preceding(S, m))
           Done == {j \in DOMAIN all_hunks : group_ids[j] < r}
<1>7. /\ r < Len(attrs)
      /\ DOMAIN bases = Done \cup Preceding(Of(DOMAIN all_hunks, r), n)
      /\ code_offset = reached(LoadedOf(r), n)
      /\ bss_offset = SizeOf(all_hunks, LoadedOf(r)) + reached(ZeroedOf(r), n)
      /\ \A j \in DOMAIN bases : bases[j] = Spot(j)
  BY <1>1, <1>6 DEF GroupsInvariant, BasesSoFar
<1>8. /\ n \in Of(DOMAIN all_hunks, r) <=> group_ids[n] = r
      /\ n \in LoadedOf(r) <=> group_ids[n] = r /\ all_hunks[n].kind # "bss"
      /\ n \in ZeroedOf(r) <=> group_ids[n] = r /\ all_hunks[n].kind = "bss"
  BY <1>2, ExecutableFacts DEF Of, LoadedOf, ZeroedOf
<1>9. ASSUME NEW S, S \in {Of(DOMAIN all_hunks, r), LoadedOf(r), ZeroedOf(r)}
      PROVE  /\ n \in S => /\ Preceding(S, n + 1) = Preceding(S, n) \cup {n}
                            /\ reached(S, n + 1) = reached(S, n) + all_hunks[n].size
             /\ n \notin S => Preceding(S, n + 1) = Preceding(S, n) /\ reached(S, n + 1) = reached(S, n)
             /\ reached(S, n) \in Nat
  <2>1. S \in SUBSET DOMAIN all_hunks
    BY <1>9, OfFacts
  <2>2. /\ n \in S => /\ Preceding(S, n + 1) = Preceding(S, n) \cup {n}
                       /\ SizeOf(all_hunks, Preceding(S, n + 1)) = SizeOf(all_hunks, Preceding(S, n)) + all_hunks[n].size
        /\ n \notin S => Preceding(S, n + 1) = Preceding(S, n)
    <3>1. IsExecutable(all_hunks) /\ n \in 1 .. Len(all_hunks)
      BY <1>2, <1>6
    <3>2. n \in S => Preceding(S, n + 1) = Preceding(S, n) \cup {n}
      BY <2>1, <3>1, BeforeNext
    <3>3. n \in S => SizeOf(all_hunks, Preceding(S, n + 1)) = SizeOf(all_hunks, Preceding(S, n)) + all_hunks[n].size
      BY <2>1, <3>1, BeforeNext
    <3>4. n \notin S => Preceding(S, n + 1) = Preceding(S, n)
      BY <2>1, <3>1, BeforeSkips
    <3>5. QED
      BY <3>2, <3>3, <3>4
  <2>3. SizeOf(all_hunks, Preceding(S, n)) \in Nat
    BY <1>2, <2>1, BeforeFacts
  <2>4. QED
    BY <2>2, <2>3
<1>10. all_hunks[n].size \in Nat /\ SizeOf(all_hunks, LoadedOf(r)) \in Nat
  BY <1>2, OfFacts, SizeFacts, ExecutableFacts
<1> HIDE DEF reached, Done
<1>11. /\ DOMAIN bases' = Done \cup Preceding(Of(DOMAIN all_hunks, r), n + 1)
       /\ code_offset' = reached(LoadedOf(r), n + 1)
       /\ bss_offset' = SizeOf(all_hunks, LoadedOf(r)) + reached(ZeroedOf(r), n + 1)
       /\ \A j \in DOMAIN bases' : bases'[j] = Spot(j)
  <2>1. CASE group_ids[n] # r
    <3>1. bases' = bases /\ code_offset' = code_offset /\ bss_offset' = bss_offset
      BY <1>6, <2>1 DEF BaseOfHunk, Mine, offsets
    <3>2. n \notin Of(DOMAIN all_hunks, r) /\ n \notin LoadedOf(r) /\ n \notin ZeroedOf(r)
      BY <1>8, <2>1
    <3>3. QED
      BY <1>7, <1>9, <3>1, <3>2
  <2>2. CASE group_ids[n] = r /\ all_hunks[n].kind = "bss"
    <3>1. /\ bases' = [j \in DOMAIN bases \cup {n} |-> IF j = n THEN bss_offset ELSE bases[j]]
          /\ code_offset' = code_offset /\ bss_offset' = bss_offset + all_hunks[n].size
      BY <1>6, <2>2 DEF BaseOfHunk, Mine, ThisHunk, SetBase
    <3>2. n \in Of(DOMAIN all_hunks, r) /\ n \notin LoadedOf(r) /\ n \in ZeroedOf(r)
      BY <1>8, <2>2
    <3>3. Spot(n) = bss_offset
      BY <1>7, <2>2 DEF Spot, reached
    <3>4. DOMAIN bases' = Done \cup Preceding(Of(DOMAIN all_hunks, r), n + 1)
      BY <1>7, <1>9, <3>1, <3>2
    <3>5. \A j \in DOMAIN bases' : bases'[j] = Spot(j)
      BY <1>7, <3>1, <3>3
    <3>6. code_offset' = reached(LoadedOf(r), n + 1)
      BY <1>7, <1>9, <3>1, <3>2
    <3>7. bss_offset' = SizeOf(all_hunks, LoadedOf(r)) + reached(ZeroedOf(r), n + 1)
      <4>1. reached(ZeroedOf(r), n + 1) = reached(ZeroedOf(r), n) + all_hunks[n].size /\ reached(ZeroedOf(r), n) \in Nat
        BY <1>9, <3>2
      <4>2. \A x, y, z \in Nat : (x + y) + z = x + (y + z)
        OBVIOUS
      <4>3. QED
        BY <1>7, <1>10, <3>1, <4>1, <4>2
    <3>8. QED
      BY <3>4, <3>5, <3>6, <3>7
  <2>3. CASE group_ids[n] = r /\ all_hunks[n].kind # "bss"
    <3>1. /\ bases' = [j \in DOMAIN bases \cup {n} |-> IF j = n THEN code_offset ELSE bases[j]]
          /\ code_offset' = code_offset + all_hunks[n].size /\ bss_offset' = bss_offset
      BY <1>6, <2>3 DEF BaseOfHunk, Mine, ThisHunk, SetBase
    <3>2. n \in Of(DOMAIN all_hunks, r) /\ n \in LoadedOf(r) /\ n \notin ZeroedOf(r)
      BY <1>8, <2>3
    <3>3. Spot(n) = code_offset
      BY <1>7, <2>3 DEF Spot, reached
    <3>4. DOMAIN bases' = Done \cup Preceding(Of(DOMAIN all_hunks, r), n + 1)
      BY <1>7, <1>9, <3>1, <3>2
    <3>5. \A j \in DOMAIN bases' : bases'[j] = Spot(j)
      BY <1>7, <3>1, <3>3
    <3>6. code_offset' = reached(LoadedOf(r), n + 1)
      BY <1>7, <1>9, <3>1, <3>2
    <3>7. bss_offset' = SizeOf(all_hunks, LoadedOf(r)) + reached(ZeroedOf(r), n + 1)
      BY <1>7, <1>9, <3>1, <3>2
    <3>8. QED
      BY <3>4, <3>5, <3>6, <3>7
  <2>4. QED
    BY <2>1, <2>2, <2>3
<1>12. BasesSoFar'
  <2>1. g' = r /\ at_hunk' = n + 1 /\ all_hunks' = all_hunks /\ attrs' = attrs /\ group_ids' = group_ids
    BY <1>1, <1>6
  <2>2. /\ LoadedOf(g)' = LoadedOf(r) /\ ZeroedOf(g)' = ZeroedOf(r)
        /\ Of(DOMAIN all_hunks, g)' = Of(DOMAIN all_hunks, r)
    BY <2>1 DEF LoadedOf, ZeroedOf, Of
  <2>3. {j \in DOMAIN all_hunks' : group_ids'[j] < g'} = Done
    BY <2>1 DEF Done
  <2>4. \A j \in DOMAIN bases' : bases'[j] = Spot(j)'
    BY <1>3, <1>11
  <2>5. building' = "base"
    BY <1>1
  <2>6. QED
    BY <1>7, <1>11, <2>1, <2>2, <2>3, <2>4, <2>5 DEF BasesSoFar, reached
<1>13. QED
  BY <1>4, <1>5, <1>12 DEF GroupsInvariant

LEMMA BasedGroup ==
  ASSUME GroupedFilesAssumption, GroupsInvariant, GroupBased
  PROVE  GroupsInvariant'
<1>1. /\ building = "base" /\ building' = "flatten" /\ g' = g + 1 /\ at_hunk \notin DOMAIN all_hunks
      /\ UNCHANGED <<all_hunks, at_hunk, attrs, group_ids, bases>>
  BY DEF GroupBased, HunkLeft
<1>2. /\ all_hunks \in GroupedFiles /\ all_hunks # <<>> /\ all_hunks[1].kind # "bss" /\ Classed(Len(all_hunks)) /\ g \in Nat
      /\ IsExecutable(all_hunks) /\ Len(all_hunks) \in Nat /\ DOMAIN all_hunks = 1 .. Len(all_hunks) /\ at_hunk \in 1 .. Len(all_hunks) + 1
      /\ Len(attrs) \in Nat /\ \A j \in DOMAIN all_hunks : group_ids[j] \in 0 .. Len(attrs) - 1
  BY <1>1, ClassedFacts
<1>3. (\A n : Classed(n)' <=> Classed(n)) /\ \A j : Spot(j)' = Spot(j)
  BY <1>1, GroupsStay
<1>4. GroupsProgress'
  BY <1>1, <1>2 DEF GroupsProgress
<1>5. GroupsClassed'
  BY <1>1, <1>2, <1>3 DEF GroupsClassed
<1>6. BasesSoFar'
  <2>1. /\ g < Len(attrs) /\ \A j \in DOMAIN bases : bases[j] = Spot(j)
        /\ DOMAIN bases = {j \in DOMAIN all_hunks : group_ids[j] < g} \cup Preceding(Of(DOMAIN all_hunks, g), at_hunk)
    BY <1>1 DEF GroupsInvariant, BasesSoFar
  <2>2. Preceding(Of(DOMAIN all_hunks, g), at_hunk) = {j \in DOMAIN all_hunks : group_ids[j] = g}
    <3>1. \A j \in DOMAIN all_hunks : j < at_hunk
      BY <1>1, <1>2
    <3>2. QED
      BY <3>1 DEF Preceding, Of
  <2>3. \A j \in DOMAIN all_hunks : group_ids[j] < g + 1 <=> group_ids[j] < g \/ group_ids[j] = g
    BY <1>2
  <2>4. DOMAIN bases = {j \in DOMAIN all_hunks : group_ids[j] < g + 1}
    BY <2>1, <2>2, <2>3
  <2>5. g + 1 <= Len(attrs)
    BY <1>2, <2>1
  <2>6. \A j \in DOMAIN bases' : bases'[j] = Spot(j)'
    BY <1>1, <1>3, <2>1
  <2>7. g' <= Len(attrs') /\ DOMAIN bases' = {j \in DOMAIN all_hunks' : group_ids'[j] < g'}
    BY <1>1, <2>4, <2>5
  <2>8. QED
    BY <1>1, <2>6, <2>7 DEF BasesSoFar
<1>7. QED
  BY <1>4, <1>5, <1>6 DEF GroupsInvariant

LEMMA AllBased ==
  ASSUME GroupedFilesAssumption, GroupsInvariant, AllFlattened
  PROVE  GroupsInvariant'
<1>1. /\ building = "flatten" /\ building' = "fold" /\ g = Len(attrs) /\ g' = 0 /\ at_hunk' = 1
      /\ UNCHANGED <<all_hunks, attrs, group_ids, bases>>
  BY DEF AllFlattened
<1>2. /\ all_hunks \in GroupedFiles /\ all_hunks # <<>> /\ all_hunks[1].kind # "bss" /\ Classed(Len(all_hunks))
      /\ Len(all_hunks) \in Nat /\ Len(attrs) \in Nat
      /\ \A j \in DOMAIN all_hunks : group_ids[j] \in 0 .. Len(attrs) - 1
  BY <1>1, ClassedFacts
<1>3. (\A n : Classed(n)' <=> Classed(n)) /\ \A j : Spot(j)' = Spot(j)
  BY <1>1, GroupsStay
<1>4. GroupsProgress'
  BY <1>1, <1>2 DEF GroupsProgress
<1>5. GroupsClassed'
  BY <1>1, <1>2, <1>3 DEF GroupsClassed
<1>6. BasesSoFar'
  <2>1. /\ \A j \in DOMAIN bases : bases[j] = Spot(j)
        /\ DOMAIN bases = {j \in DOMAIN all_hunks : group_ids[j] < g}
    BY <1>1 DEF GroupsInvariant, BasesSoFar
  <2>2. \A j \in DOMAIN all_hunks : group_ids[j] < g
    BY <1>1, <1>2
  <2>3. DOMAIN bases = DOMAIN all_hunks
    BY <2>1, <2>2
  <2>4. QED
    BY <1>1, <1>3, <2>1, <2>3 DEF BasesSoFar
<1>7. QED
  BY <1>4, <1>5, <1>6 DEF GroupsInvariant

LEMMA NextGroups == GroupedFilesAssumption /\ GroupsInvariant /\ [BuildNext]_build_vars => GroupsInvariant'
<1> SUFFICES ASSUME GroupedFilesAssumption, GroupsInvariant, [BuildNext]_build_vars
             PROVE  GroupsInvariant'
  OBVIOUS
<1>1. CASE RejectFile \/ RejectFold \/ BuildCannotGrow
  BY <1>1, PassingStep DEF RejectFile, RejectFold, BuildCannotGrow, BuildFails, offsets
<1>2. CASE AcceptFile
  BY <1>2, AcceptedGroups
<1>3. CASE Classify
  BY <1>3, ClassifyGroups
<1>4. CASE Classified
  BY <1>4, ClassifiedGroups
<1>5. CASE FlattenGroup
  BY <1>5, FlattenedGroup
<1>6. CASE BaseOfHunk
  BY <1>6, BasedHunk
<1>7. CASE GroupBased
  BY <1>7, BasedGroup
<1>8. CASE AllFlattened
  BY <1>8, AllBased
<1>9. CASE FoldInGroup
  BY <1>9, PassingStep DEF FoldInGroup, offsets
<1>10. CASE SkipHunk
  <2>1. building = "fold" /\ at_hunk \in DOMAIN all_hunks /\ at_hunk' = at_hunk + 1 /\ UNCHANGED <<all_hunks, building, g, attrs, group_ids, offsets, bases>>
    BY <1>10 DEF SkipHunk, Folding, HunkLeft, NextInLoop
  <2>2. g \in Nat /\ Len(all_hunks) \in Nat /\ DOMAIN all_hunks = 1 .. Len(all_hunks)
    BY <2>1, ClassedFacts
  <2>3. at_hunk' \in 1 .. Len(all_hunks) + 1
    BY <2>1, <2>2
  <2>4. QED
    BY <2>1, <2>2, <2>3, PassingStep
<1>11. CASE EncodeGroup
  <2>1. building = "fold" /\ at_hunk' = 1 /\ g' = g + 1 /\ UNCHANGED <<all_hunks, building, attrs, group_ids, offsets, bases>>
    BY <1>11 DEF EncodeGroup, Folding
  <2>2. g \in Nat /\ Len(all_hunks) \in Nat
    BY <2>1, ClassedFacts
  <2>3. at_hunk' \in 1 .. Len(all_hunks) + 1 /\ g' \in Nat
    BY <2>1, <2>2
  <2>4. QED
    BY <2>1, <2>3, PassingStep
<1>12. CASE Return
  <2>1. building = "fold" /\ building' = "done" /\ UNCHANGED <<all_hunks, at_hunk, g, attrs, group_ids, offsets, bases>>
    BY <1>12 DEF Return
  <2>2. at_hunk' \in 1 .. Len(all_hunks) + 1 /\ g' \in Nat
    BY <2>1, ClassedFacts
  <2>3. QED
    BY <2>1, <2>2, PassingStep
<1>13. CASE UNCHANGED build_vars
  BY <1>13, PassingStep DEF build_vars
<1>14. QED
  BY <1>1, <1>2, <1>3, <1>4, <1>5, <1>6, <1>7, <1>8, <1>9, <1>10, <1>11, <1>12, <1>13 DEF BuildNext

\* Whatever hunk.zig parsed: each hunk is in the one group of its kind of
\* memory; the bases build computes for relocating are where flatten put the
\* hunks of each group; and the entry point is the start of group 0.
THEOREM BasesAreRight ==
  ASSUME GroupedFilesAssumption
  PROVE  BuildSpec => []BasesAgree
<1>1. GroupsInvariant => BasesAgree
  <2> SUFFICES ASSUME GroupsInvariant, building \in {"fold", "done"}
               PROVE  /\ \A j \in DOMAIN all_hunks : attrs[group_ids[j] + 1] = all_hunks[j].attr
                      /\ IsInjective(attrs)
                      /\ \A j \in DOMAIN all_hunks : bases[j] = PlaceOf(j)
                      /\ group_ids[1] = 0 /\ bases[1] = 0
    BY DEF BasesAgree
  <2>1. /\ all_hunks \in GroupedFiles /\ all_hunks[1].kind # "bss" /\ IsInjective(attrs) /\ group_ids[1] = 0
        /\ \A j \in DOMAIN all_hunks : attrs[group_ids[j] + 1] = all_hunks[j].attr
        /\ IsExecutable(all_hunks) /\ Len(all_hunks) \in Nat \ {0} /\ DOMAIN all_hunks = 1 .. Len(all_hunks)
    BY ClassedFacts
  <2>2. \A j \in DOMAIN all_hunks : bases[j] = Spot(j)
    BY DEF GroupsInvariant, BasesSoFar
  <2>3. \A j \in DOMAIN all_hunks : bases[j] = PlaceOf(j)
    BY <2>1, <2>2, GroupLayout
  <2>4. Preceding(LoadedOf(group_ids[1]), 1) = {} /\ SizeOf(all_hunks, {}) = 0
    BY <2>1, OfFacts, BeforeFacts, SizeFacts
  <2>5. bases[1] = 0
    <3>1. 1 \in DOMAIN all_hunks /\ all_hunks[1].kind # "bss"
      BY <2>1
    <3>2. Spot(1) = SizeOf(all_hunks, Preceding(LoadedOf(group_ids[1]), 1))
      BY <3>1 DEF Spot
    <3>3. QED
      BY <2>2, <2>4, <3>1, <3>2
  <2>6. QED
    BY <2>1, <2>3, <2>5
<1>2. QED
  BY <1>1, InitGroups, NextGroups, PTL DEF BuildSpec

-----------------------------------------------------------------------------
(* The groups: sorting.                                                    *)

\* Sites in the image, as they are found: not sorted.
AreInImage(ss) ==
  /\ ss \in Seq([offset : Nat, target : 0 .. End - 1])
  /\ \A n \in DOMAIN ss : ss[n].offset % 2 = 0 /\ ss[n].offset < Word

NotAfter(s, m) == {l \in DOMAIN s : \/ s[l].offset < s[m].offset
                                    \/ s[l].offset = s[m].offset /\ l <= m}

Sorts(s, order) ==
  /\ DOMAIN SortByOffset(s) = 1 .. Len(s)
  /\ \A n \in 1 .. Len(s) : order[n] \in 1 .. Len(s) /\ SortByOffset(s)[n] = s[order[n]]
  /\ \A n, m \in 1 .. Len(s) : n # m => order[n] # order[m]
  /\ \A m \in 1 .. Len(s) : \E n \in 1 .. Len(s) : order[n] = m
  /\ \A n, m \in 1 .. Len(s) : n <= m => s[order[n]].offset <= s[order[m]].offset

LEMMA SiteFacts ==
  ASSUME NEW s, AreInImage(s)
  PROVE  /\ Len(s) \in Nat /\ DOMAIN s = 1 .. Len(s)
         /\ \A n \in 1 .. Len(s) : /\ s[n] \in [offset : Nat, target : 0 .. End - 1]
                                   /\ s[n].offset \in Nat /\ s[n].target \in 0 .. End - 1
                                   /\ s[n].offset % 2 = 0 /\ s[n].offset < Word
<1> DEFINE Site == [offset : Nat, target : 0 .. End - 1]
<1>1. s \in Seq(Site)
  BY DEF AreInImage
<1> HIDE DEF Site
<1>2. Len(s) \in Nat /\ DOMAIN s = 1 .. Len(s) /\ \A n \in 1 .. Len(s) : s[n] \in Site
  BY <1>1
<1>3. \A n \in 1 .. Len(s) : s[n].offset \in Nat /\ s[n].target \in 0 .. End - 1
  BY <1>2 DEF Site
<1>4. QED
  BY <1>2, <1>3 DEF AreInImage, Site

LEMMA SortingOrders ==
  ASSUME NEW s, AreInImage(s)
  PROVE  \E order : Sorts(s, order)
<1> DEFINE N == Len(s)
           S == 1 .. N
           upTo == [m \in S |-> NotAfter(s, m)]
           order == [n \in S |-> CHOOSE m \in S : Cardinality(NotAfter(s, m)) = n]
<1>1. N \in Nat /\ DOMAIN s = S /\ \A n \in S : s[n].offset \in Nat /\ n \in Nat
  BY SiteFacts
<1>2. IsFiniteSet(S) /\ Cardinality(S) = N /\ 1 .. Cardinality(S) = S
  BY <1>1, FirstCount
<1> HIDE DEF S
<1>3. \A m \in S : NotAfter(s, m) \in SUBSET S /\ m \in NotAfter(s, m)
  BY <1>1 DEF NotAfter
<1>4. ASSUME NEW n \in S, NEW m \in S, s[n].offset < s[m].offset \/ (s[n].offset = s[m].offset /\ n < m)
      PROVE  NotAfter(s, n) \subseteq NotAfter(s, m) \ {m}
  <2> SUFFICES ASSUME NEW l \in NotAfter(s, n)
               PROVE  l \in NotAfter(s, m) /\ l # m
    OBVIOUS
  <2>1. l \in S /\ (s[l].offset < s[n].offset \/ (s[l].offset = s[n].offset /\ l <= n))
    BY <1>1 DEF NotAfter
  <2>2. l \in Nat /\ n \in Nat /\ m \in Nat /\ s[l].offset \in Nat /\ s[n].offset \in Nat /\ s[m].offset \in Nat
    BY <1>1, <2>1
  <2>3. s[l].offset < s[m].offset \/ (s[l].offset = s[m].offset /\ l <= m)
    BY <1>4, <2>1, <2>2
  <2>4. l # m
    BY <1>4, <2>1, <2>2
  <2>5. QED
    BY <1>1, <2>1, <2>3, <2>4 DEF NotAfter
<1>5. \A n, m \in S : n # m => NotAfter(s, n) \subseteq NotAfter(s, m) \ {m} \/ NotAfter(s, m) \subseteq NotAfter(s, n) \ {n}
  <2> SUFFICES ASSUME NEW n \in S, NEW m \in S, n # m
               PROVE  NotAfter(s, n) \subseteq NotAfter(s, m) \ {m} \/ NotAfter(s, m) \subseteq NotAfter(s, n) \ {n}
    OBVIOUS
  <2>1. n \in Nat /\ m \in Nat /\ s[n].offset \in Nat /\ s[m].offset \in Nat
    BY <1>1
  <2>2. \/ s[n].offset < s[m].offset
        \/ s[n].offset = s[m].offset /\ n < m
        \/ s[m].offset < s[n].offset
        \/ s[m].offset = s[n].offset /\ m < n
    <3>1. \A x, y, v, w \in Nat : x # y => v < w \/ (v = w /\ x < y) \/ w < v \/ (w = v /\ y < x)
      OBVIOUS
    <3>2. QED
      BY <2>1, <3>1
  <2>3. QED
    BY <1>4, <2>2
<1>6. \A m \in S : upTo[m] = NotAfter(s, m)
  OBVIOUS
<1> HIDE DEF upTo
<1>7. /\ \A m \in S : Cardinality(upTo[m]) \in 1 .. Cardinality(S)
      /\ \A n, m \in S : Cardinality(upTo[n]) = Cardinality(upTo[m]) => n = m
      /\ \A n \in 1 .. Cardinality(S) : \E m \in S : Cardinality(upTo[m]) = n
  <2>1. \A m \in S : upTo[m] \in SUBSET S /\ m \in upTo[m]
    BY <1>3, <1>6
  <2>2. \A n, m \in S : n # m => upTo[n] \subseteq upTo[m] \ {m} \/ upTo[m] \subseteq upTo[n] \ {n}
    BY <1>5, <1>6
  <2>3. QED
    BY <1>2, <2>1, <2>2, RanksAreTaken
<1>8. /\ \A m \in S : Cardinality(NotAfter(s, m)) \in S
      /\ \A n, m \in S : Cardinality(NotAfter(s, n)) = Cardinality(NotAfter(s, m)) => n = m
      /\ \A n \in S : \E m \in S : Cardinality(NotAfter(s, m)) = n
  <2>1. \A m \in S : Cardinality(NotAfter(s, m)) \in S
    BY <1>2, <1>6, <1>7
  <2>2. \A n \in S : \E m \in S : Cardinality(NotAfter(s, m)) = n
    BY <1>2, <1>6, <1>7
  <2>3. QED
    BY <1>6, <1>7, <2>1, <2>2
<1>9. \A n \in S : order[n] \in S /\ Cardinality(NotAfter(s, order[n])) = n
  <2> SUFFICES ASSUME NEW n \in S
               PROVE  order[n] \in S /\ Cardinality(NotAfter(s, order[n])) = n
    OBVIOUS
  <2>1. \E m \in S : Cardinality(NotAfter(s, m)) = n
    BY <1>8
  <2>2. order[n] = CHOOSE m \in S : Cardinality(NotAfter(s, m)) = n
    OBVIOUS
  <2> HIDE DEF order
  <2>3. QED
    BY <2>1, <2>2
<1>10. DOMAIN SortByOffset(s) = S /\ \A n \in S : SortByOffset(s)[n] = s[order[n]]
  <2>1. SortByOffset(s) = [n \in DOMAIN s |-> s[CHOOSE m \in DOMAIN s : Cardinality(NotAfter(s, m)) = n]]
    BY DEF SortByOffset, NotAfter
  <2>2. SortByOffset(s) = [n \in S |-> s[CHOOSE m \in S : Cardinality(NotAfter(s, m)) = n]]
    BY <1>1, <2>1
  <2>3. QED
    BY <2>2
<1> HIDE DEF order
<1>11. \A n, m \in S : n # m => order[n] # order[m]
  BY <1>9
<1>12. \A m \in S : \E n \in S : order[n] = m
  <2> SUFFICES ASSUME NEW m \in S
               PROVE  \E n \in S : order[n] = m
    OBVIOUS
  <2> DEFINE n == Cardinality(NotAfter(s, m))
  <2>1. n \in S
    BY <1>8
  <2>2. order[n] \in S /\ Cardinality(NotAfter(s, order[n])) = n
    BY <1>9, <2>1
  <2>3. order[n] = m
    BY <1>8, <2>2
  <2>4. QED
    BY <2>1, <2>3
<1>13. \A n, m \in S : n <= m => s[order[n]].offset <= s[order[m]].offset
  <2> SUFFICES ASSUME NEW n \in S, NEW m \in S, n <= m, ~(s[order[n]].offset <= s[order[m]].offset)
               PROVE  FALSE
    OBVIOUS
  <2>1. order[n] \in S /\ order[m] \in S /\ Cardinality(NotAfter(s, order[n])) = n /\ Cardinality(NotAfter(s, order[m])) = m
    BY <1>9
  <2>2. s[order[n]].offset \in Nat /\ s[order[m]].offset \in Nat
    BY <1>1, <2>1
  <2>3. s[order[m]].offset < s[order[n]].offset
    BY <2>2
  <2> DEFINE x == order[n]
             y == order[m]
  <2>a. x \in S /\ y \in S /\ s[y].offset < s[x].offset
    BY <2>1, <2>3
  <2> HIDE DEF x, y
  <2>b. NotAfter(s, y) \subseteq NotAfter(s, x) \ {x}
    BY <1>4, <2>a
  <2>4. NotAfter(s, order[m]) \subseteq NotAfter(s, order[n])
    BY <2>b DEF x, y
  <2>5. IsFiniteSet(NotAfter(s, order[n]))
    BY <1>2, <1>3, <2>1, FS_Subset
  <2>6. m <= n
    BY <2>1, <2>4, <2>5, FS_Subset
  <2>7. n = m
    BY <1>1, <2>6
  <2>8. QED
    BY <2>2, <2>3, <2>7
<1>14. Sorts(s, order)
  <2>1. \A n \in S : order[n] \in S /\ SortByOffset(s)[n] = s[order[n]]
    BY <1>9, <1>10
  <2>2. /\ DOMAIN SortByOffset(s) = 1 .. Len(s)
        /\ \A n \in 1 .. Len(s) : order[n] \in 1 .. Len(s) /\ SortByOffset(s)[n] = s[order[n]]
    BY <1>10, <2>1 DEF S
  <2>3. \A n, m \in 1 .. Len(s) : n # m => order[n] # order[m]
    BY <1>11 DEF S
  <2>4. \A m \in 1 .. Len(s) : \E n \in 1 .. Len(s) : order[n] = m
    BY <1>12 DEF S
  <2>5. \A n, m \in 1 .. Len(s) : n <= m => s[order[n]].offset <= s[order[m]].offset
    BY <1>13 DEF S
  <2>6. QED
    BY <2>2, <2>3, <2>4, <2>5 DEF Sorts
<1>15. QED
  BY <1>14

Landing(ss, a) == {n \in DOMAIN ss : ss[n].offset = a}
AddedAt(ss, at) == [n \in DOMAIN ss |-> at[ss[n].target]]

\* What a stream can be made of; and no site is lost, added or given another target.
LEMMA SortingKeeps ==
  ASSUME RoomAssumption, NEW s, AreInImage(s)
  PROVE  /\ AreGroupSites(SortByOffset(s)) /\ AreInImage(SortByOffset(s))
         /\ \A n \in DOMAIN SortByOffset(s) : \E m \in DOMAIN s : SortByOffset(s)[n].target = s[m].target
         /\ \A a : \A at \in [Nat -> Nat] :
              SumFunctionOnSet(AddedAt(SortByOffset(s), at), Landing(SortByOffset(s), a))
                = SumFunctionOnSet(AddedAt(s, at), Landing(s, a))
<1> DEFINE N == Len(s)
           S == 1 .. N
           t == SortByOffset(s)
           Site == [offset : Nat, target : 0 .. End - 1]
<1>1. /\ N \in Nat /\ DOMAIN s = S
      /\ \A n \in S : /\ s[n] \in Site /\ s[n].offset \in Nat /\ s[n].target \in 0 .. End - 1
                      /\ s[n].offset % 2 = 0 /\ s[n].offset < Word
  BY SiteFacts
<1>2. PICK order : Sorts(s, order)
  BY SortingOrders
<1>3. /\ DOMAIN t = S
      /\ \A n \in S : order[n] \in S /\ t[n] = s[order[n]]
      /\ \A n, m \in S : n # m => order[n] # order[m]
      /\ \A m \in S : \E n \in S : order[n] = m
      /\ \A n, m \in S : n <= m => s[order[n]].offset <= s[order[m]].offset
  BY <1>2 DEF Sorts
<1>4. IsFiniteSet(S)
  BY <1>1, FirstCount
<1>5. t = [n \in S |-> t[n]]
  BY <1>1 DEF SortByOffset
<1>a. \A n \in S : t[n] = s[order[n]] /\ s[order[n]] \in Site /\ t[n].offset = s[order[n]].offset
                  /\ t[n].target = s[order[n]].target /\ order[n] \in S
  BY <1>1, <1>3
<1>b. \A n \in S : t[n].offset \in Nat /\ t[n].offset % 2 = 0 /\ t[n].offset < Word
  <2> HIDE DEF t, S, Site
  <2>1. QED
    BY <1>1, <1>a
<1> HIDE DEF t, Site
<1>6. t \in Seq(Site) /\ Len(t) = N
  <2>1. \A n \in S : t[n] \in Site
    BY <1>1, <1>3
  <2>2. QED
    BY <1>1, <1>5, <2>1
<1>7. AreGroupSites(t)
  <2>1. Offsets(t) = [n \in S |-> t[n].offset]
    BY <1>6 DEF Offsets
  <2>2. \A n \in S : t[n].offset \in Nat /\ t[n].offset % 2 = 0 /\ t[n].offset < Word
    BY <1>b
  <2>3. Offsets(t) \in Seq(Nat) /\ DOMAIN Offsets(t) = S /\ \A n \in S : Offsets(t)[n] = t[n].offset
    BY <1>1, <2>1, <2>2
  <2>4. \A n \in S : n > 1 => Offsets(t)[n - 1] <= Offsets(t)[n]
    <3> SUFFICES ASSUME NEW n \in S, n > 1
                 PROVE  Offsets(t)[n - 1] <= Offsets(t)[n]
      OBVIOUS
    <3>1. n - 1 \in S /\ n - 1 <= n
      BY <1>1
    <3> HIDE DEF S
    <3>2. t[n - 1].offset <= t[n].offset
      BY <1>3, <3>1
    <3>3. QED
      BY <2>3, <3>1, <3>2
  <2>5. Word <= 2 * Longwords /\ Longwords \in Nat /\ Word \in Nat
    BY RadixAssumption, WordAssumption DEF RoomAssumption, Longwords
  <2>6. \A v \in Nat : v < Word => v < 2 * Longwords
    BY <2>5
  <2>7. AreSites(Offsets(t))
    BY <2>2, <2>3, <2>4, <2>6 DEF AreSites
  <2>8. QED
    BY <1>6, <2>7 DEF AreGroupSites, Site
<1>8. ASSUME NEW a, NEW at \in [Nat -> Nat]
      PROVE  SumFunctionOnSet(AddedAt(t, at), Landing(t, a)) = SumFunctionOnSet(AddedAt(s, at), Landing(s, a))
  <2>1. Landing(t, a) = {n \in S : t[n].offset = a} /\ Landing(s, a) = {n \in S : s[n].offset = a}
    BY <1>1, <1>3 DEF Landing
  <2>2. \A n \in S : AddedAt(t, at)[n] = at[t[n].target] /\ AddedAt(s, at)[n] = at[s[n].target]
    BY <1>1, <1>3 DEF AddedAt
  <2>3. \A n \in S : AddedAt(t, at)[n] = AddedAt(s, at)[order[n]]
    <3> HIDE DEF S
    <3>1. \A n \in S : AddedAt(t, at)[n] = at[s[order[n]].target] /\ AddedAt(s, at)[order[n]] = at[s[order[n]].target]
      BY <1>a, <2>2
    <3>2. QED
      BY <3>1
  <2>4. \A n \in S : AddedAt(s, at)[n] \in Int
    <3>1. \A x : x \in 0 .. End - 1 => x \in Nat
      OBVIOUS
    <3> HIDE DEF S
    <3>2. \A n \in S : s[n].target \in Nat
      BY <1>1, <3>1
    <3>3. \A v \in Nat : at[v] \in Int
      OBVIOUS
    <3>4. \A n \in S : at[s[n].target] \in Int
      BY <3>2, <3>3
    <3>5. QED
      BY <2>2, <3>4
  <2>5. IsFiniteSet(Landing(t, a))
    BY <1>4, <2>1, FS_Subset
  <2> HIDE DEF S
  <2>6. \A n \in Landing(t, a) : AddedAt(t, at)[n] = AddedAt(s, at)[order[n]] /\ AddedAt(t, at)[n] \in Int
    BY <1>3, <2>1, <2>3, <2>4
  <2>7. \A n, m \in Landing(t, a) : n # m => order[n] # order[m]
    BY <1>3, <2>1
  <2>8. \A n \in Landing(t, a) : order[n] \in Landing(s, a)
    BY <1>3, <2>1
  <2>9. \A m \in Landing(s, a) : \E n \in Landing(t, a) : order[n] = m
    BY <1>3, <2>1
  <2>10. Renames(AddedAt(t, at), Landing(t, a), order, AddedAt(s, at), Landing(s, a))
    BY <2>5, <2>6, <2>7, <2>8, <2>9 DEF Renames
  <2>11. QED
    BY <2>10, SumRenamed
<1>9. AreInImage(t)
  BY <1>3, <1>6, <1>b DEF AreInImage, Site
<1>10. \A n \in DOMAIN t : \E m \in DOMAIN s : t[n].target = s[m].target
  <2> HIDE DEF S
  <2>1. QED
    BY <1>1, <1>3, <1>a
<1>11. QED
  BY <1>7, <1>8, <1>9, <1>10 DEF t

-----------------------------------------------------------------------------
(* The groups: folding.  The inductive invariant.                          *)

IsValid(h, q) == ValidReloc(all_hunks, h, all_hunks[h].relocs[q])

\* The relocations among S that are at offset o of hunk h; what each of hunk
\* h's relocations adds to its longword; and what the runtime will add to it,
\* with group n at at[n].
Here(S, h, o)  == {q \in S : all_hunks[h].relocs[q].offset = o}
TargetBases(h) == [q \in DOMAIN all_hunks[h].relocs |-> bases[all_hunks[h].relocs[q].target]]
Wanted(h, at)  == [q \in DOMAIN all_hunks[h].relocs |-> at[group_ids[all_hunks[h].relocs[q].target]]]

\* Relocations S of hunk h, and no others, are in the longwords ls, and in the sites ss.
AreFolded(ls, h, S) ==
  \A o \in DOMAIN all_hunks[h].longs :
    /\ bases[h] + o \in DOMAIN ls
    /\ ls[bases[h] + o] = (all_hunks[h].longs[o] + SumFunctionOnSet(TargetBases(h), Here(S, h, o))) % Word

AreNamed(ss, h, S) ==
  \A o \in DOMAIN all_hunks[h].longs : \A at \in [Nat -> Nat] :
    SumFunctionOnSet(AddedAt(ss, at), Landing(ss, bases[h] + o)) = SumFunctionOnSet(Wanted(h, at), Here(S, h, o))

\* The sites name groups there are.
AreTold(ss) == AreInImage(ss) /\ \A n \in DOMAIN ss : ss[n].target \in Groups

IsImage(m) == m = [size |-> m.size, longs |-> m.longs, stream |-> m.stream]

\* The relocations of hunk h that are folded when the loops have come to group
\* r, hunk n and relocation p.
Handled(h, r, n, p) ==
  IF group_ids[h] < r \/ (group_ids[h] = r /\ h < n) THEN DOMAIN all_hunks[h].relocs
  ELSE IF group_ids[h] = r /\ h = n THEN 1 .. p - 1 ELSE {}

\* Hunk h's image, and the sites of its group or what became of them.
IsFolded(ims, ss, r, h, S) ==
  /\ AreFolded(ims[group_ids[h] + 1].longs, h, S)
  /\ group_ids[h] = r => AreNamed(ss, h, S)
  /\ group_ids[h] < r => LET decoded == DecodeGroupStream(ims[group_ids[h] + 1].stream)
                         IN  AreNamed(decoded, h, S) /\ AreTold(decoded)

IsFold(ims, ss, r, n, p) ==
  /\ DOMAIN ims = 1 .. Len(attrs) /\ \A m \in DOMAIN ims : IsImage(ims[m])
  /\ r \in Nat /\ r <= Len(attrs)
  /\ p \in Nat \ {0} /\ (n \in DOMAIN all_hunks => p <= Len(all_hunks[n].relocs) + 1)
  /\ AreTold(ss)
  /\ \A h \in DOMAIN all_hunks : \A q \in Handled(h, r, n, p) : IsValid(h, q)
  /\ \A h \in LoadedHunks(all_hunks) : IsFolded(ims, ss, r, h, Handled(h, r, n, p))

\* flatten has copied hunk h.
IsCopied(ls, h) ==
  \A o \in DOMAIN all_hunks[h].longs : Spot(h) + o \in DOMAIN ls /\ ls[Spot(h) + o] = all_hunks[h].longs[o]

AreCopied(ims, n) ==
  /\ ims \in Seq(Range(ims)) /\ Len(ims) = n /\ \A m \in DOMAIN ims : IsImage(ims[m])
  /\ \A h \in LoadedHunks(all_hunks) : group_ids[h] < n => IsCopied(ims[group_ids[h] + 1].longs, h)

FoldInvariant ==
  /\ building \notin {"check", "error"} => SizeOf(all_hunks, DOMAIN all_hunks) < Word
  /\ building \in {"check", "classify", "flatten", "base"} => group_sites = <<>>
  /\ building \in {"check", "classify"} => images = <<>>
  /\ building = "flatten" => AreCopied(images, g)
  /\ building = "base" => AreCopied(images, g + 1)
  /\ building = "fold" => IsFold(images, group_sites, g, at_hunk, at_reloc)
  /\ building = "done" => \E n, p : IsFold(images, group_sites, Len(attrs), n, p)

-----------------------------------------------------------------------------
(* The groups: what folding relies on.                                     *)

LEMMA RelocFacts ==
  ASSUME GroupedFilesAssumption, all_hunks \in GroupedFiles, NEW h \in DOMAIN all_hunks
  PROVE  /\ DOMAIN all_hunks[h].relocs = 1 .. Len(all_hunks[h].relocs) /\ Len(all_hunks[h].relocs) \in Nat
         /\ IsFiniteSet(DOMAIN all_hunks[h].relocs)
         /\ \A q \in DOMAIN all_hunks[h].relocs : all_hunks[h].relocs[q].offset \in Nat
         /\ \A o \in DOMAIN all_hunks[h].longs : /\ o \in 0 .. all_hunks[h].size - 1 /\ o \in Nat
                                                 /\ all_hunks[h].longs[o] \in 0 .. Word - 1 /\ all_hunks[h].longs[o] \in Nat
                                                 /\ h \in LoadedHunks(all_hunks)
         /\ \A q \in DOMAIN all_hunks[h].relocs : IsValid(h, q) =>
              /\ h \in LoadedHunks(all_hunks) /\ all_hunks[h].relocs[q].target \in DOMAIN all_hunks
              /\ all_hunks[h].relocs[q].offset \in DOMAIN all_hunks[h].longs /\ all_hunks[h].relocs[q].offset % 2 = 0
<1>1. IsExecutable(all_hunks) /\ all_hunks[h].size \in Nat
  BY ExecutableFacts
<1>2. IsHunk(all_hunks[h])
  BY <1>1 DEF IsExecutable
<1>3. all_hunks[h].relocs \in Seq(Range(all_hunks[h].relocs))
  BY <1>2 DEF IsHunk
<1>4. DOMAIN all_hunks[h].relocs = 1 .. Len(all_hunks[h].relocs) /\ Len(all_hunks[h].relocs) \in Nat
  BY <1>3
<1>5. IsFiniteSet(DOMAIN all_hunks[h].relocs)
  BY <1>4, FirstCount
<1>6. \A q \in DOMAIN all_hunks[h].relocs : all_hunks[h].relocs[q].offset \in Nat
  BY <1>2 DEF IsHunk, IsReloc
<1>7. \A o \in DOMAIN all_hunks[h].longs : /\ o \in 0 .. all_hunks[h].size - 1 /\ o \in Nat
                                           /\ all_hunks[h].longs[o] \in 0 .. Word - 1 /\ all_hunks[h].longs[o] \in Nat
                                           /\ h \in LoadedHunks(all_hunks)
  <2> SUFFICES ASSUME NEW o \in DOMAIN all_hunks[h].longs
               PROVE  /\ o \in 0 .. all_hunks[h].size - 1 /\ o \in Nat
                      /\ all_hunks[h].longs[o] \in 0 .. Word - 1 /\ all_hunks[h].longs[o] \in Nat
                      /\ h \in LoadedHunks(all_hunks)
    OBVIOUS
  <2>1. /\ o \in Nat /\ o + 4 <= all_hunks[h].len /\ all_hunks[h].longs[o] \in 0 .. Word - 1
        /\ all_hunks[h].len \in 0 .. all_hunks[h].size /\ (all_hunks[h].kind = "bss" => all_hunks[h].len = 0)
    BY <1>2 DEF IsHunk
  <2>2. all_hunks[h].kind # "bss"
    BY <2>1
  <2>3. o \in 0 .. all_hunks[h].size - 1
    BY <1>1, <2>1
  <2>4. QED
    BY <2>1, <2>2, <2>3, ExecutableFacts, WordAssumption
<1>8. ASSUME NEW q \in DOMAIN all_hunks[h].relocs, IsValid(h, q)
      PROVE  /\ h \in LoadedHunks(all_hunks) /\ all_hunks[h].relocs[q].target \in DOMAIN all_hunks
             /\ all_hunks[h].relocs[q].offset \in DOMAIN all_hunks[h].longs /\ all_hunks[h].relocs[q].offset % 2 = 0
  <2>1. /\ all_hunks[h].kind # "bss" /\ all_hunks[h].relocs[q].target \in DOMAIN all_hunks
        /\ all_hunks[h].relocs[q].offset % 2 = 0 /\ all_hunks[h].relocs[q].offset + 4 <= all_hunks[h].len
    BY <1>8 DEF IsValid, ValidReloc
  <2>2. all_hunks[h].relocs[q].offset \in DOMAIN all_hunks[h].longs
    BY <1>2, <2>1 DEF IsHunk
  <2>3. QED
    BY <2>1, <2>2, ExecutableFacts
<1>9. QED
  BY <1>4, <1>5, <1>6, <1>7, <1>8

\* A group's hunks lie side by side, aligned, in its image.
LEMMA SpotFacts ==
  ASSUME GroupedFilesAssumption, all_hunks \in GroupedFiles
  PROVE  /\ \A j \in DOMAIN all_hunks : Spot(j) \in Nat
         /\ \A j \in LoadedHunks(all_hunks) :
              /\ j \in DOMAIN all_hunks /\ Spot(j) % 4 = 0
              /\ \A o \in 0 .. all_hunks[j].size - 1 : Spot(j) + o \in 0 .. SizeOf(all_hunks, DOMAIN all_hunks) - 1
         /\ \A j, h \in LoadedHunks(all_hunks) : \A o \in 0 .. all_hunks[j].size - 1, p \in 0 .. all_hunks[h].size - 1 :
              group_ids[j] = group_ids[h] /\ Spot(j) + o = Spot(h) + p => j = h /\ o = p
<1>1. /\ IsExecutable(all_hunks) /\ Len(all_hunks) \in Nat /\ DOMAIN all_hunks = 1 .. Len(all_hunks)
      /\ \A j \in DOMAIN all_hunks : /\ all_hunks[j].size \in Nat
                                     /\ (j \in LoadedHunks(all_hunks) <=> all_hunks[j].kind # "bss")
  BY ExecutableFacts
<1>2. LoadedHunks(all_hunks) \in SUBSET DOMAIN all_hunks
  BY DEF LoadedHunks
<1>3. ASSUME NEW j \in LoadedHunks(all_hunks)
      PROVE  Spot(j) = 0 + SizeOf(all_hunks, Preceding(LoadedOf(group_ids[j]), j))
  <2>1. all_hunks[j].kind # "bss"
    BY <1>1, <1>2
  <2>2. Spot(j) = SizeOf(all_hunks, Preceding(LoadedOf(group_ids[j]), j))
    BY <2>1 DEF Spot
  <2>3. SizeOf(all_hunks, Preceding(LoadedOf(group_ids[j]), j)) \in Nat
    BY <1>1, OfFacts, BeforeFacts
  <2>4. QED
    BY <2>2, <2>3
<1>4. ASSUME NEW j \in DOMAIN all_hunks
      PROVE  Spot(j) \in Nat
  <2>1. /\ SizeOf(all_hunks, Preceding(LoadedOf(group_ids[j]), j)) \in Nat
        /\ SizeOf(all_hunks, Preceding(ZeroedOf(group_ids[j]), j)) \in Nat
        /\ SizeOf(all_hunks, LoadedOf(group_ids[j])) \in Nat
    BY <1>1, OfFacts, BeforeFacts, SizeFacts
  <2>2. QED
    BY <2>1 DEF Spot
<1>5. ASSUME NEW j \in LoadedHunks(all_hunks)
      PROVE  Spot(j) % 4 = 0
  <2> DEFINE S == Preceding(LoadedOf(group_ids[j]), j)
             f == [n \in DOMAIN all_hunks |-> all_hunks[n].size]
  <2>1. S \in SUBSET DOMAIN all_hunks
    BY <1>1, OfFacts, BeforeFacts
  <2>2. IsFiniteSet(S)
    BY <1>1, <2>1, SizeFacts
  <2>3. \A n \in S : f[n] \in Nat /\ f[n] % 4 = 0
    <3>1. \A n \in DOMAIN all_hunks : all_hunks[n].size \in Nat /\ all_hunks[n].size % 4 = 0
      BY <1>1 DEF IsExecutable, IsHunk
    <3>2. QED
      BY <2>1, <3>1
  <2>4. SizeOf(all_hunks, S) = SumFunctionOnSet(f, S)
    BY DEF SizeOf
  <2>5. Spot(j) = 0 + SizeOf(all_hunks, S)
    BY <1>3
  <2> HIDE DEF S, f
  <2>6. SumFunctionOnSet(f, S) \in Nat /\ SumFunctionOnSet(f, S) % 4 = 0
    BY <2>2, <2>3, SumOfMultiples
  <2>7. QED
    BY <2>4, <2>5, <2>6
<1> DEFINE base == [j \in DOMAIN all_hunks |-> Spot(j)]
<1>6. ASSUME NEW r
      PROVE  /\ UNION {Area(all_hunks, base, j) : j \in LoadedOf(r)} = 0 .. SizeOf(all_hunks, LoadedOf(r)) - 1
             /\ \A j, h \in LoadedOf(r) : j # h => Area(all_hunks, base, j) \cap Area(all_hunks, base, h) = {}
             /\ SizeOf(all_hunks, LoadedOf(r)) \in Nat /\ SizeOf(all_hunks, LoadedOf(r)) <= SizeOf(all_hunks, DOMAIN all_hunks)
             /\ SizeOf(all_hunks, DOMAIN all_hunks) \in Nat
  <2> DEFINE S == LoadedOf(r)
  <2>1. S \in SUBSET DOMAIN all_hunks
    BY OfFacts
  <2>2. \A j \in S : j \in LoadedHunks(all_hunks) /\ group_ids[j] = r /\ j \in DOMAIN all_hunks
    BY <2>1 DEF LoadedOf, Of
  <2>3. \A j \in S : base[j] = 0 + SizeOf(all_hunks, Preceding(S, j))
    BY <1>3, <2>2
  <2>4. SizeOf(all_hunks, S) \in Nat /\ SizeOf(all_hunks, DOMAIN all_hunks) = SizeOf(all_hunks, S) + SizeOf(all_hunks, DOMAIN all_hunks \ S)
        /\ SizeOf(all_hunks, DOMAIN all_hunks \ S) \in Nat
    <3>1. DOMAIN all_hunks \in SUBSET DOMAIN all_hunks /\ S \in SUBSET DOMAIN all_hunks /\ DOMAIN all_hunks \ S \in SUBSET DOMAIN all_hunks
      BY <2>1
    <3> HIDE DEF S
    <3>2. \A A \in SUBSET DOMAIN all_hunks : SizeOf(all_hunks, A) \in Nat
      BY <1>1, SizeFacts
    <3>3. SizeOf(all_hunks, DOMAIN all_hunks) = SizeOf(all_hunks, S) + SizeOf(all_hunks, DOMAIN all_hunks \ S)
      <4>1. \A A \in SUBSET DOMAIN all_hunks : \A B \in SUBSET A : SizeOf(all_hunks, A) = SizeOf(all_hunks, B) + SizeOf(all_hunks, A \ B)
        BY <1>1, SizeFacts
      <4> DEFINE D == DOMAIN all_hunks
      <4>2. D \in SUBSET D /\ S \in SUBSET D
        BY <3>1
      <4>3. \A A \in SUBSET D : \A B \in SUBSET A : SizeOf(all_hunks, A) = SizeOf(all_hunks, B) + SizeOf(all_hunks, A \ B)
        BY <4>1
      <4> HIDE DEF D
      <4>4. SizeOf(all_hunks, D) = SizeOf(all_hunks, S) + SizeOf(all_hunks, D \ S)
        BY <4>2, <4>3
      <4>5. QED
        BY <4>4 DEF D
    <3>4. QED
      BY <3>1, <3>2, <3>3
  <2> HIDE DEF S, base
  <2>5. Tile(all_hunks, base, S, 0, 0 + SizeOf(all_hunks, S))
    BY <1>1, <2>1, <2>3, PlacedHunksTile
  <2>6. 0 + SizeOf(all_hunks, S) = SizeOf(all_hunks, S)
    BY <2>4
  <2>7. /\ UNION {Area(all_hunks, base, j) : j \in S} = 0 .. SizeOf(all_hunks, S) - 1
        /\ \A j, h \in S : j # h => Area(all_hunks, base, j) \cap Area(all_hunks, base, h) = {}
    BY <2>5, <2>6 DEF Tile
  <2>8. SizeOf(all_hunks, S) <= SizeOf(all_hunks, DOMAIN all_hunks) /\ SizeOf(all_hunks, DOMAIN all_hunks) \in Nat
    BY <2>4
  <2>9. QED
    BY <2>4, <2>7, <2>8 DEF S
<1>7. ASSUME NEW j \in LoadedHunks(all_hunks), NEW o \in 0 .. all_hunks[j].size - 1
      PROVE  Spot(j) + o \in Area(all_hunks, base, j)
  <2>1. j \in DOMAIN all_hunks /\ Spot(j) \in Nat /\ all_hunks[j].size \in Nat
    BY <1>1, <1>2, <1>4
  <2>2. Area(all_hunks, base, j) = Spot(j) .. Spot(j) + all_hunks[j].size - 1
    <3>1. base[j] = Spot(j)
      BY <2>1
    <3> HIDE DEF base
    <3>2. QED
      BY <3>1 DEF Area
  <2>3. o \in Nat /\ o < all_hunks[j].size
    BY <2>1
  <2>4. \A x, y, z \in Nat : y < z => x + y \in x .. x + z - 1
    OBVIOUS
  <2>5. QED
    BY <2>1, <2>2, <2>3, <2>4
<1> HIDE DEF base
<1>8. ASSUME NEW j \in LoadedHunks(all_hunks), NEW o \in 0 .. all_hunks[j].size - 1
      PROVE  Spot(j) + o \in 0 .. SizeOf(all_hunks, DOMAIN all_hunks) - 1
  <2> PICK r : r = group_ids[j]
    OBVIOUS
  <2>1. j \in LoadedOf(r)
    BY DEF LoadedOf, Of
  <2>2. Spot(j) + o \in UNION {Area(all_hunks, base, n) : n \in LoadedOf(r)}
    BY <1>7, <2>1
  <2>3. Spot(j) + o \in 0 .. SizeOf(all_hunks, LoadedOf(r)) - 1
    BY <1>6, <2>2
  <2>4. SizeOf(all_hunks, LoadedOf(r)) \in Nat /\ SizeOf(all_hunks, LoadedOf(r)) <= SizeOf(all_hunks, DOMAIN all_hunks)
        /\ SizeOf(all_hunks, DOMAIN all_hunks) \in Nat
    BY <1>6
  <2>5. \A x, y \in Nat : x <= y => \A z \in 0 .. x - 1 : z \in 0 .. y - 1
    OBVIOUS
  <2>6. QED
    BY <2>3, <2>4, <2>5
<1>9. ASSUME NEW j \in LoadedHunks(all_hunks), NEW h \in LoadedHunks(all_hunks),
             NEW o \in 0 .. all_hunks[j].size - 1, NEW p \in 0 .. all_hunks[h].size - 1,
             group_ids[j] = group_ids[h], Spot(j) + o = Spot(h) + p
      PROVE  j = h /\ o = p
  <2> PICK r : r = group_ids[j]
    OBVIOUS
  <2>1. j \in LoadedOf(r) /\ h \in LoadedOf(r)
    BY <1>9 DEF LoadedOf, Of
  <2>2. Spot(j) + o \in Area(all_hunks, base, j) /\ Spot(h) + p \in Area(all_hunks, base, h)
    BY <1>7
  <2>3. j = h
    BY <1>6, <1>9, <2>1, <2>2
  <2>4. Spot(j) \in Nat /\ o \in Int /\ p \in Int
    <3>1. j \in DOMAIN all_hunks
      BY <1>2
    <3>2. all_hunks[j].size \in Nat /\ Spot(j) \in Nat
      BY <1>1, <1>4, <3>1
    <3>3. QED
      BY <2>3, <3>2
  <2>5. \A x, y, z \in Int : x + y = x + z => y = z
    OBVIOUS
  <2>6. QED
    BY <1>9, <2>3, <2>4, <2>5
<1>10. QED
  <2>1. \A j \in LoadedHunks(all_hunks) : j \in DOMAIN all_hunks /\ Spot(j) % 4 = 0
    BY <1>2, <1>5
  <2>2. QED
    BY <1>4, <1>8, <1>9, <2>1

\* With the hunks, their groups and bases, all that is said of these stays.
LEMMA FoldStays ==
  ASSUME UNCHANGED <<all_hunks, bases, attrs, group_ids>>
  PROVE  \A ims, ss, r, n, p : IsFold(ims, ss, r, n, p)' <=> IsFold(ims, ss, r, n, p)
<1>1. LoadedHunks(all_hunks)' = LoadedHunks(all_hunks)
  OBVIOUS
<1>2. \A h, q : IsValid(h, q)' <=> IsValid(h, q)
  BY DEF IsValid
<1>3. \A h, r, n, p : Handled(h, r, n, p)' = Handled(h, r, n, p)
  BY DEF Handled
<1>4. \A S, h, o : Here(S, h, o)' = Here(S, h, o)
  BY DEF Here
<1>5. \A h : TargetBases(h)' = TargetBases(h) /\ \A at : Wanted(h, at)' = Wanted(h, at)
  BY DEF TargetBases, Wanted
<1>6. \A ss, at, a : AddedAt(ss, at)' = AddedAt(ss, at) /\ Landing(ss, a)' = Landing(ss, a)
  BY DEF AddedAt, Landing
<1>7. \A ls, h, S : AreFolded(ls, h, S)' <=> AreFolded(ls, h, S)
  BY <1>4, <1>5 DEF AreFolded
<1>8. \A ss, h, S : AreNamed(ss, h, S)' <=> AreNamed(ss, h, S)
  BY <1>4, <1>5, <1>6 DEF AreNamed
<1>a. \A ss : AreTold(ss)' <=> AreTold(ss)
  BY DEF AreTold, Groups
<1>9. \A ims, ss, r, h, S : IsFolded(ims, ss, r, h, S)' <=> IsFolded(ims, ss, r, h, S)
  BY <1>7, <1>8, <1>a DEF IsFolded
<1>10. \A ims, ss, r, n, p : IsFold(ims, ss, r, n, p)' <=> IsFold(ims, ss, r, n, p)
  BY <1>1, <1>2, <1>3, <1>9, <1>a DEF IsFold
<1>11. QED
  BY <1>10

LEMMA CopyStays ==
  ASSUME UNCHANGED <<all_hunks, attrs, group_ids>>
  PROVE  \A ims, n : AreCopied(ims, n)' <=> AreCopied(ims, n)
<1>1. LoadedHunks(all_hunks)' = LoadedHunks(all_hunks) /\ \A h : Spot(h)' = Spot(h)
  BY GroupsStay
<1>2. \A ls, h : IsCopied(ls, h)' <=> IsCopied(ls, h)
  BY <1>1 DEF IsCopied
<1>3. QED
  BY <1>1, <1>2 DEF AreCopied

\* So it is enough to say what the step has made of the images and the sites.
LEMMA FoldNext ==
  ASSUME UNCHANGED <<all_hunks, bases, attrs, group_ids>>,
         NEW n, NEW p, NEW r, IsFold(images', group_sites', r, n, p)
  PROVE  IsFold(images, group_sites, r, n, p)'
BY FoldStays

\* One more site: it counts where it lies, and nowhere else.
LEMMA OneMoreName ==
  ASSUME NEW ss, AreInImage(ss), NEW at \in [Nat -> Nat],
         NEW s \in [offset : Nat, target : 0 .. End - 1]
  PROVE  /\ SumFunctionOnSet(AddedAt(Append(ss, s), at), Landing(Append(ss, s), s.offset))
              = SumFunctionOnSet(AddedAt(ss, at), Landing(ss, s.offset)) + at[s.target]
         /\ \A a : a # s.offset =>
              SumFunctionOnSet(AddedAt(Append(ss, s), at), Landing(Append(ss, s), a))
                = SumFunctionOnSet(AddedAt(ss, at), Landing(ss, a))
<1> DEFINE t == Append(ss, s)
           N == Len(ss)
           Site == [offset : Nat, target : 0 .. End - 1]
           f == AddedAt(ss, at)
           h == AddedAt(t, at)
<1>1. /\ N \in Nat /\ DOMAIN ss = 1 .. N
      /\ \A n \in 1 .. N : ss[n] \in Site /\ ss[n].target \in 0 .. End - 1
  BY SiteFacts
<1>2. DOMAIN t = 1 .. N + 1 /\ (\A n \in 1 .. N : t[n] = ss[n]) /\ t[N + 1] = s
  <2> HIDE DEF Site
  <2>1. ss \in Seq(Site) /\ s \in Site
    BY DEF AreInImage, Site
  <2>2. QED
    BY <2>1
<1>3. s.target \in 0 .. End - 1
  OBVIOUS
<1>4. \A v \in 0 .. End - 1 : at[v] \in Nat
  OBVIOUS
<1>5. /\ \A n : n \in 1 .. N + 1 <=> n \in 1 .. N \/ n = N + 1
      /\ N + 1 \notin 1 .. N
  <2>1. \A m \in Nat : \A n : n \in 1 .. m + 1 <=> n \in 1 .. m \/ n = m + 1
    OBVIOUS
  <2>2. \A m \in Nat : m + 1 \notin 1 .. m
    OBVIOUS
  <2> HIDE DEF N
  <2>3. QED
    BY <1>1, <2>1, <2>2
<1>7. /\ \A n \in 1 .. N : f[n] = at[ss[n].target] /\ h[n] = at[ss[n].target]
      /\ h[N + 1] = at[s.target]
  <2> HIDE DEF t
  <2>1. \A n \in DOMAIN t : h[n] = at[t[n].target]
    BY DEF AddedAt
  <2>2. \A n \in DOMAIN ss : f[n] = at[ss[n].target]
    BY DEF AddedAt
  <2>3. QED
    BY <1>1, <1>2, <1>5, <2>1, <2>2
<1> HIDE DEF t, f, h, N, Site
<1>8. \A n \in 1 .. N : f[n] = h[n] /\ f[n] \in Nat /\ h[n] \in Nat
  BY <1>1, <1>4, <1>7
<1>9. h[N + 1] \in Nat
  BY <1>3, <1>4, <1>7
<1>10. ASSUME NEW a
       PROVE  /\ Landing(ss, a) \subseteq 1 .. N /\ IsFiniteSet(Landing(ss, a))
              /\ SumFunctionOnSet(h, Landing(ss, a)) = SumFunctionOnSet(f, Landing(ss, a))
  <2>1. Landing(ss, a) \subseteq 1 .. N
    BY <1>1 DEF Landing
  <2>2. IsFiniteSet(Landing(ss, a))
    BY <1>1, <2>1, FirstCount, FS_Subset
  <2>3. IsNumeric(h, Landing(ss, a))
    BY <1>8, <2>1 DEF IsNumeric
  <2>4. \A n \in Landing(ss, a) : h[n] = f[n]
    BY <1>8, <2>1
  <2>5. QED
    BY <2>1, <2>2, <2>3, <2>4, SumsAgree
<1>11. ASSUME NEW a, a # s.offset
       PROVE  Landing(t, a) = Landing(ss, a)
  BY <1>1, <1>2, <1>5, <1>11 DEF Landing
<1>12. Landing(t, s.offset) = Landing(ss, s.offset) \cup {N + 1}
  BY <1>1, <1>2, <1>5 DEF Landing
<1>13. SumFunctionOnSet(h, Landing(t, s.offset)) = SumFunctionOnSet(f, Landing(ss, s.offset)) + at[s.target]
  <2> DEFINE S == Landing(ss, s.offset)
  <2>1. S \subseteq 1 .. N /\ IsFiniteSet(S) /\ SumFunctionOnSet(h, S) = SumFunctionOnSet(f, S)
    BY <1>10
  <2> HIDE DEF S
  <2>2. IsNumeric(h, S \cup {N + 1})
    BY <1>8, <1>9, <2>1 DEF IsNumeric
  <2>3. N + 1 \notin S
    BY <1>5, <2>1
  <2>4. SumFunctionOnSet(h, S \cup {N + 1}) = SumFunctionOnSet(h, S) + h[N + 1]
    BY <2>1, <2>2, <2>3, SumOfOneMore
  <2>5. QED
    BY <1>7, <1>12, <2>1, <2>4 DEF S
<1>14. QED
  BY <1>10, <1>11, <1>13 DEF t, f, h

\* So an image with one more site is still one a stream can be made for.
LEMMA OneMoreInImage ==
  ASSUME NEW ss, AreInImage(ss), NEW s \in [offset : Nat, target : 0 .. End - 1],
         s.offset % 2 = 0, s.offset < Word
  PROVE  AreInImage(Append(ss, s))
<1> DEFINE Site == [offset : Nat, target : 0 .. End - 1]
<1>1. ss \in Seq(Site) /\ s \in Site
  BY DEF AreInImage
<1>2. \A n \in DOMAIN ss : ss[n].offset % 2 = 0 /\ ss[n].offset < Word
  BY DEF AreInImage
<1> HIDE DEF Site
<1>3. Append(ss, s) \in Seq(Site)
  BY <1>1
<1>4. \A n \in DOMAIN Append(ss, s) : Append(ss, s)[n].offset % 2 = 0 /\ Append(ss, s)[n].offset < Word
  <2> SUFFICES ASSUME NEW n \in DOMAIN Append(ss, s)
               PROVE  Append(ss, s)[n].offset % 2 = 0 /\ Append(ss, s)[n].offset < Word
    OBVIOUS
  <2>1. \/ n \in DOMAIN ss /\ Append(ss, s)[n] = ss[n]
        \/ Append(ss, s)[n] = s
    BY <1>1
  <2>2. QED
    BY <1>2, <2>1
<1>5. QED
  BY <1>3, <1>4 DEF AreInImage, Site

\* A group's image has its hunks' longwords, each where flatten put the hunk.
LEMMA GroupLongsAre ==
  ASSUME GroupedFilesAssumption, all_hunks \in GroupedFiles, NEW h \in LoadedHunks(all_hunks)
  PROVE  IsCopied(GroupLongs(group_ids[h]), h)
<1> PICK r : r = group_ids[h]
  OBVIOUS
<1> DEFINE S  == {j \in DOMAIN all_hunks : group_ids[j] = r}
           at == UNION {{<<j, o>> : o \in DOMAIN all_hunks[j].longs} : j \in S}
           from(a) == CHOOSE q \in at : PlaceOf(q[1]) + q[2] = a
<1>1. GroupLongs(r) = [a \in {PlaceOf(p[1]) + p[2] : p \in at} |-> all_hunks[from(a)[1]].longs[from(a)[2]]]
  BY DEF GroupLongs
<1>2. \A p \in at : /\ p[1] \in DOMAIN all_hunks /\ group_ids[p[1]] = r /\ p[2] \in DOMAIN all_hunks[p[1]].longs
                    /\ p = <<p[1], p[2]>>
  OBVIOUS
<1>3. \A p \in at : /\ p[1] \in LoadedHunks(all_hunks) /\ p[2] \in 0 .. all_hunks[p[1]].size - 1
                    /\ group_ids[p[1]] = r /\ PlaceOf(p[1]) = Spot(p[1])
  <2> SUFFICES ASSUME NEW p \in at
               PROVE  /\ p[1] \in LoadedHunks(all_hunks) /\ p[2] \in 0 .. all_hunks[p[1]].size - 1
                      /\ group_ids[p[1]] = r /\ PlaceOf(p[1]) = Spot(p[1])
    OBVIOUS
  <2>1. p[1] \in DOMAIN all_hunks /\ group_ids[p[1]] = r /\ p[2] \in DOMAIN all_hunks[p[1]].longs
    BY <1>2
  <2> DEFINE j == p[1]
             o == p[2]
  <2>2. j \in DOMAIN all_hunks /\ o \in DOMAIN all_hunks[j].longs
    BY <2>1
  <2> HIDE DEF j, o
  <2>3. j \in LoadedHunks(all_hunks) /\ o \in 0 .. all_hunks[j].size - 1
    BY <2>2, RelocFacts
  <2>4. PlaceOf(j) = Spot(j)
    BY <2>2, GroupLayout
  <2>5. QED
    BY <2>1, <2>3, <2>4 DEF j, o
<1>4. ASSUME NEW o \in DOMAIN all_hunks[h].longs
      PROVE  Spot(h) + o \in DOMAIN GroupLongs(r) /\ GroupLongs(r)[Spot(h) + o] = all_hunks[h].longs[o]
  <2> DEFINE p == <<h, o>>
             a == Spot(h) + o
             q == from(a)
  <2>1. h \in DOMAIN all_hunks
    BY DEF LoadedHunks
  <2>2. p \in at /\ p[1] = h /\ p[2] = o
    BY <2>1
  <2> HIDE DEF at, p
  <2>3. PlaceOf(p[1]) + p[2] = a /\ o \in 0 .. all_hunks[h].size - 1
    BY <1>3, <2>2
  <2>4. a \in {PlaceOf(m[1]) + m[2] : m \in at}
    BY <2>2, <2>3
  <2>5. q \in at /\ PlaceOf(q[1]) + q[2] = a
    BY <2>2, <2>3
  <2> HIDE DEF q
  <2>6. q[1] \in LoadedHunks(all_hunks) /\ q[2] \in 0 .. all_hunks[q[1]].size - 1 /\ group_ids[q[1]] = r /\ Spot(q[1]) + q[2] = a
    BY <1>3, <2>5
  <2>7. q[1] = h /\ q[2] = o
    <3> DEFINE j == q[1]
               m == q[2]
    <3>1. j \in LoadedHunks(all_hunks) /\ m \in 0 .. all_hunks[j].size - 1 /\ group_ids[j] = group_ids[h] /\ Spot(j) + m = Spot(h) + o
      BY <2>6
    <3> HIDE DEF j, m, a
    <3>2. j = h /\ m = o
      BY <2>3, <3>1, SpotFacts
    <3>3. QED
      BY <3>2 DEF j, m
  <2>8. a \in DOMAIN GroupLongs(r) /\ GroupLongs(r)[a] = all_hunks[q[1]].longs[q[2]]
    <3> HIDE DEF a
    <3>1. QED
      BY <1>1, <2>4 DEF q
  <2>9. QED
    BY <2>7, <2>8
<1>5. QED
  BY <1>4 DEF IsCopied

\* Before a hunk's first relocation is folded its image is as flatten left it.
LEMMA NothingFolded ==
  ASSUME GroupedFilesAssumption, all_hunks \in GroupedFiles, NEW h \in LoadedHunks(all_hunks),
         bases[h] = Spot(h), NEW ls, IsCopied(ls, h)
  PROVE  AreFolded(ls, h, {})
<1>1. h \in DOMAIN all_hunks
  BY DEF LoadedHunks
<1>2. \A o : Here({}, h, o) = {}
  BY DEF Here
<1>3. SumFunctionOnSet(TargetBases(h), {}) = 0
  BY SumEmpty
<1>4. ASSUME NEW o \in DOMAIN all_hunks[h].longs
      PROVE  (all_hunks[h].longs[o] + SumFunctionOnSet(TargetBases(h), Here({}, h, o))) % Word = all_hunks[h].longs[o]
  <2>1. all_hunks[h].longs[o] \in 0 .. Word - 1
    BY <1>1, RelocFacts
  <2>2. \A v \in 0 .. Word - 1 : (v + 0) % Word = v
    BY WordAssumption
  <2>3. QED
    BY <1>2, <1>3, <2>1, <2>2
<1>5. QED
  BY <1>4 DEF AreFolded, IsCopied

LEMMA NothingNamed == ASSUME NEW h PROVE AreNamed(<<>>, h, {})
<1>1. \A o : Here({}, h, o) = {} /\ Landing(<<>>, bases[h] + o) = {}
  BY DEF Here, Landing
<1>2. ASSUME NEW at \in [Nat -> Nat], NEW o
      PROVE  SumFunctionOnSet(AddedAt(<<>>, at), Landing(<<>>, bases[h] + o)) = SumFunctionOnSet(Wanted(h, at), Here({}, h, o))
  BY <1>1, SumEmpty
<1>3. QED
  BY <1>2 DEF AreNamed

\* Relocation q of hunk h is not among S, and is at offset o.
CountsAt(h, S, q, f, o) ==
  /\ h \in DOMAIN all_hunks /\ S \in SUBSET DOMAIN all_hunks[h].relocs
  /\ q \in DOMAIN all_hunks[h].relocs /\ q \notin S
  /\ \A n \in S \cup {q} : f[n] \in Nat
  /\ o = all_hunks[h].relocs[q].offset

\* One more relocation of a hunk: it counts at its own offset, and nowhere else.
LEMMA OneMoreHere ==
  ASSUME GroupedFilesAssumption, all_hunks \in GroupedFiles, NEW h, NEW S, NEW q, NEW f, NEW o, CountsAt(h, S, q, f, o)
  PROVE  /\ SumFunctionOnSet(f, Here(S, h, o)) \in Nat
         /\ SumFunctionOnSet(f, Here(S \cup {q}, h, o)) = SumFunctionOnSet(f, Here(S, h, o)) + f[q]
         /\ \A p : p # o => Here(S \cup {q}, h, p) = Here(S, h, p)
<1> USE DEF CountsAt
<1>1. \A p : p # o => Here(S \cup {q}, h, p) = Here(S, h, p)
  BY DEF Here
<1>2. Here(S \cup {q}, h, o) = Here(S, h, o) \cup {q} /\ q \notin Here(S, h, o)
  BY DEF Here
<1>3. IsFiniteSet(Here(S, h, o))
  <2>1. Here(S, h, o) \in SUBSET DOMAIN all_hunks[h].relocs
    BY DEF Here
  <2>2. IsFiniteSet(DOMAIN all_hunks[h].relocs)
    BY RelocFacts
  <2>3. QED
    BY <2>1, <2>2, FS_Subset
<1>4. \A n \in Here(S, h, o) \cup {q} : f[n] \in Nat
  <2>1. Here(S, h, o) \subseteq S
    BY DEF Here
  <2>2. QED
    BY <2>1
<1>5. SumFunctionOnSet(f, Here(S, h, o)) \in Nat
  BY <1>3, <1>4, SumIsNat
<1>6. IsNumeric(f, Here(S, h, o) \cup {q})
  BY <1>4 DEF IsNumeric
<1>7. SumFunctionOnSet(f, Here(S, h, o) \cup {q}) = SumFunctionOnSet(f, Here(S, h, o)) + f[q]
  BY <1>2, <1>3, <1>6, SumOfOneMore
<1>8. QED
  BY <1>1, <1>2, <1>5, <1>7

\* Hunks are where flatten has put them, and have groups a stream can name.
AreGrouped ==
  \A j \in DOMAIN all_hunks : bases[j] = Spot(j) /\ bases[j] \in Nat /\ group_ids[j] \in 0 .. End - 1

\* Relocation q of hunk h comes after those of S.
ComesNext(h, S, q) ==
  /\ h \in LoadedHunks(all_hunks) /\ h \in DOMAIN all_hunks
  /\ S \in SUBSET DOMAIN all_hunks[h].relocs /\ q \in DOMAIN all_hunks[h].relocs /\ q \notin S
  /\ \A n \in S \cup {q} : IsValid(h, n)

LEMMA AddendsAre ==
  ASSUME GroupedFilesAssumption, all_hunks \in GroupedFiles, AreGrouped, NEW h \in DOMAIN all_hunks,
         NEW q \in DOMAIN all_hunks[h].relocs, IsValid(h, q)
  PROVE  /\ TargetBases(h)[q] = bases[all_hunks[h].relocs[q].target] /\ TargetBases(h)[q] \in Nat
         /\ \A at \in [Nat -> Nat] : /\ Wanted(h, at)[q] = at[group_ids[all_hunks[h].relocs[q].target]]
                                     /\ Wanted(h, at)[q] \in Nat
<1>1. all_hunks[h].relocs[q].target \in DOMAIN all_hunks
  BY RelocFacts
<1>2. TargetBases(h)[q] = bases[all_hunks[h].relocs[q].target] /\ bases[all_hunks[h].relocs[q].target] \in Nat
  BY <1>1 DEF TargetBases, AreGrouped
<1>3. group_ids[all_hunks[h].relocs[q].target] \in Nat
  BY <1>1 DEF AreGrouped
<1>4. QED
  BY <1>2, <1>3 DEF Wanted

\* The step's effect on a group's longwords, for the hunk it is about.
LEMMA LongsFolded ==
  ASSUME GroupedFilesAssumption, all_hunks \in GroupedFiles, AreGrouped, NEW h, NEW S, NEW q, ComesNext(h, S, q),
         NEW ls, AreFolded(ls, h, S), NEW site, site = bases[h] + all_hunks[h].relocs[q].offset,
         NEW ms, DOMAIN ms = DOMAIN ls, ms[site] = (ls[site] + bases[all_hunks[h].relocs[q].target]) % Word,
         \A a \in DOMAIN ls : a # site => ms[a] = ls[a]
  PROVE  AreFolded(ms, h, S \cup {q})
<1> DEFINE f == TargetBases(h)
           at == all_hunks[h].relocs[q].offset
<1>1. /\ h \in DOMAIN all_hunks /\ bases[h] \in Nat /\ at \in DOMAIN all_hunks[h].longs
      /\ S \in SUBSET DOMAIN all_hunks[h].relocs /\ q \in DOMAIN all_hunks[h].relocs /\ q \notin S
      /\ \A n \in S \cup {q} : n \in DOMAIN all_hunks[h].relocs /\ IsValid(h, n)
  <2>1. h \in DOMAIN all_hunks /\ q \in DOMAIN all_hunks[h].relocs /\ IsValid(h, q)
    BY DEF ComesNext
  <2>2. at \in DOMAIN all_hunks[h].longs
    BY <2>1, RelocFacts
  <2>3. QED
    BY <2>1, <2>2 DEF ComesNext, AreGrouped
<1>2. (\A n \in S \cup {q} : f[n] \in Nat) /\ f[q] = bases[all_hunks[h].relocs[q].target]
  BY <1>1, AddendsAre
<1> HIDE DEF f, at
<1>3. /\ SumFunctionOnSet(f, Here(S, h, at)) \in Nat
      /\ SumFunctionOnSet(f, Here(S \cup {q}, h, at)) = SumFunctionOnSet(f, Here(S, h, at)) + f[q]
      /\ \A p : p # at => Here(S \cup {q}, h, p) = Here(S, h, p)
  <2>1. at = all_hunks[h].relocs[q].offset
    BY DEF at
  <2>2. \A n \in S \cup {q} : f[n] \in Nat
    BY <1>2
  <2>3. /\ h \in DOMAIN all_hunks /\ S \in SUBSET DOMAIN all_hunks[h].relocs
        /\ q \in DOMAIN all_hunks[h].relocs /\ q \notin S
    BY <1>1
  <2>4. CountsAt(h, S, q, f, at)
    BY <2>1, <2>2, <2>3 DEF CountsAt
  <2> DEFINE more == S \cup {q}
  <2>5. /\ SumFunctionOnSet(f, Here(S, h, at)) \in Nat
        /\ SumFunctionOnSet(f, Here(more, h, at)) = SumFunctionOnSet(f, Here(S, h, at)) + f[q]
    BY <2>4, OneMoreHere
  <2>6. \A p : p # at => Here(more, h, p) = Here(S, h, p)
    BY <2>4 DEF CountsAt, Here
  <2>7. QED
    BY <2>5, <2>6
<1>4. ASSUME NEW o \in DOMAIN all_hunks[h].longs
      PROVE  /\ bases[h] + o \in DOMAIN ls /\ all_hunks[h].longs[o] \in Nat /\ o \in Nat
             /\ ls[bases[h] + o] = (all_hunks[h].longs[o] + SumFunctionOnSet(f, Here(S, h, o))) % Word
  BY <1>1, RelocFacts DEF AreFolded, f
<1>5. ASSUME NEW o \in DOMAIN all_hunks[h].longs, o # at
      PROVE  ms[bases[h] + o] = (all_hunks[h].longs[o] + SumFunctionOnSet(f, Here(S \cup {q}, h, o))) % Word
  <2>1. at \in Nat /\ o \in Nat
    BY <1>1, <1>4
  <2>2. bases[h] + o # site
    BY <1>1, <1>5, <2>1 DEF at
  <2>3. ms[bases[h] + o] = ls[bases[h] + o]
    BY <1>4, <2>2
  <2>4. Here(S \cup {q}, h, o) = Here(S, h, o)
    BY <1>3, <1>5
  <2>5. QED
    BY <1>4, <2>3, <2>4
<1>6. ms[bases[h] + at] = (all_hunks[h].longs[at] + SumFunctionOnSet(f, Here(S \cup {q}, h, at))) % Word
  <2> DEFINE l == all_hunks[h].longs[at]
             sum == SumFunctionOnSet(f, Here(S, h, at))
             b == f[q]
  <2>1. l \in Nat /\ sum \in Nat /\ b \in Nat /\ ls[bases[h] + at] = (l + sum) % Word
    BY <1>1, <1>2, <1>3, <1>4
  <2>2. ms[bases[h] + at] = (ls[bases[h] + at] + b) % Word
    BY <1>2 DEF at
  <2> HIDE DEF l, sum, b
  <2>3. (((l + sum) % Word) + b) % Word = ((l + sum) + b) % Word
    <3>1. l + sum \in Int /\ b \in Int /\ Word \in Nat \ {0}
      BY <2>1, WordAssumption
    <3>2. QED
      BY <3>1, WrapsOnce
  <2>4. (l + sum) + b = l + (sum + b)
    BY <2>1
  <2>5. ms[bases[h] + at] = (l + (sum + b)) % Word
    BY <2>1, <2>2, <2>3, <2>4
  <2>6. QED
    BY <1>3, <2>5 DEF l, sum, b
<1>7. QED
  <2>1. \A o \in DOMAIN all_hunks[h].longs : ms[bases[h] + o] = (all_hunks[h].longs[o] + SumFunctionOnSet(f, Here(S \cup {q}, h, o))) % Word
    BY <1>5, <1>6
  <2>2. \A o \in DOMAIN all_hunks[h].longs : bases[h] + o \in DOMAIN ms
    BY <1>4
  <2>3. QED
    BY <2>1, <2>2 DEF AreFolded, f

\* A site of one hunk is in no other of its group.
LEMMA SiteIsOwn ==
  ASSUME GroupedFilesAssumption, all_hunks \in GroupedFiles, AreGrouped, NEW h, NEW S, NEW q, ComesNext(h, S, q),
         NEW j \in LoadedHunks(all_hunks), group_ids[j] = group_ids[h], j # h,
         NEW o \in DOMAIN all_hunks[j].longs
  PROVE  bases[j] + o # bases[h] + all_hunks[h].relocs[q].offset
<1> DEFINE at == all_hunks[h].relocs[q].offset
<1>1. h \in LoadedHunks(all_hunks) /\ h \in DOMAIN all_hunks /\ q \in DOMAIN all_hunks[h].relocs /\ IsValid(h, q)
  BY DEF ComesNext
<1>2. at \in DOMAIN all_hunks[h].longs
  BY <1>1, RelocFacts
<1>3. j \in DOMAIN all_hunks
  BY DEF LoadedHunks
<1> HIDE DEF at
<1>4. at \in 0 .. all_hunks[h].size - 1
  BY <1>1, <1>2, RelocFacts
<1>5. o \in 0 .. all_hunks[j].size - 1
  BY <1>3, RelocFacts
<1>6. bases[j] = Spot(j) /\ bases[h] = Spot(h)
  BY <1>1, <1>3 DEF AreGrouped
<1>7. Spot(j) + o # Spot(h) + at
  BY <1>1, <1>4, <1>5, SpotFacts
<1>8. QED
  BY <1>6, <1>7 DEF at

LEMMA LongsKept ==
  ASSUME GroupedFilesAssumption, all_hunks \in GroupedFiles, AreGrouped, NEW h, NEW S, NEW q, ComesNext(h, S, q),
         NEW site, site = bases[h] + all_hunks[h].relocs[q].offset,
         NEW j \in LoadedHunks(all_hunks), group_ids[j] = group_ids[h], j # h,
         NEW ls, NEW R, AreFolded(ls, j, R),
         NEW ms, DOMAIN ms = DOMAIN ls, \A a \in DOMAIN ls : a # site => ms[a] = ls[a]
  PROVE  AreFolded(ms, j, R)
<1>1. \A o \in DOMAIN all_hunks[j].longs : bases[j] + o # site
  BY SiteIsOwn
<1>2. QED
  BY <1>1 DEF AreFolded

\* The step's effect on the sites.
LEMMA NamesFolded ==
  ASSUME GroupedFilesAssumption, all_hunks \in GroupedFiles, AreGrouped, NEW h, NEW S, NEW q, ComesNext(h, S, q),
         NEW ss, AreInImage(ss), AreNamed(ss, h, S),
         NEW s \in [offset : Nat, target : 0 .. End - 1],
         s.offset = bases[h] + all_hunks[h].relocs[q].offset,
         s.target = group_ids[all_hunks[h].relocs[q].target]
  PROVE  AreNamed(Append(ss, s), h, S \cup {q})
<1> DEFINE a == all_hunks[h].relocs[q].offset
<1>1. /\ h \in DOMAIN all_hunks /\ bases[h] \in Nat /\ a \in DOMAIN all_hunks[h].longs /\ a \in Nat
      /\ S \in SUBSET DOMAIN all_hunks[h].relocs /\ q \in DOMAIN all_hunks[h].relocs /\ q \notin S
      /\ \A n \in S \cup {q} : n \in DOMAIN all_hunks[h].relocs /\ IsValid(h, n)
  <2>1. h \in DOMAIN all_hunks /\ q \in DOMAIN all_hunks[h].relocs /\ IsValid(h, q)
    BY DEF ComesNext
  <2>2. a \in DOMAIN all_hunks[h].longs /\ a \in Nat
    BY <2>1, RelocFacts
  <2>3. QED
    BY <2>1, <2>2 DEF ComesNext, AreGrouped
<1>2. ASSUME NEW at \in [Nat -> Nat], NEW o \in DOMAIN all_hunks[h].longs
      PROVE  SumFunctionOnSet(AddedAt(Append(ss, s), at), Landing(Append(ss, s), bases[h] + o))
               = SumFunctionOnSet(Wanted(h, at), Here(S \cup {q}, h, o))
  <2> DEFINE f == Wanted(h, at)
             t == Append(ss, s)
  <2>1. (\A n \in S \cup {q} : f[n] \in Nat) /\ f[q] = at[s.target]
    BY <1>1, AddendsAre
  <2> HIDE DEF f, a, t
  <2>2. CountsAt(h, S, q, f, a)
    BY <1>1, <2>1 DEF CountsAt, a
  <2>3. /\ SumFunctionOnSet(f, Here(S \cup {q}, h, a)) = SumFunctionOnSet(f, Here(S, h, a)) + f[q]
        /\ \A p : p # a => Here(S \cup {q}, h, p) = Here(S, h, p)
    <3>1. \A p : p # a => Here(S \cup {q}, h, p) = Here(S, h, p)
      BY <2>2 DEF CountsAt, Here
    <3>2. SumFunctionOnSet(f, Here(S \cup {q}, h, a)) = SumFunctionOnSet(f, Here(S, h, a)) + f[q]
      BY <2>2, OneMoreHere
    <3>3. QED
      BY <3>1, <3>2
  <2>4. SumFunctionOnSet(AddedAt(ss, at), Landing(ss, bases[h] + o)) = SumFunctionOnSet(f, Here(S, h, o))
    BY DEF AreNamed, f
  <2>5. CASE o = a
    <3>1. bases[h] + o = s.offset
      BY <2>5 DEF a
    <3>2. SumFunctionOnSet(AddedAt(t, at), Landing(t, s.offset))
            = SumFunctionOnSet(AddedAt(ss, at), Landing(ss, s.offset)) + at[s.target]
      BY OneMoreName DEF t
    <3>3. QED
      BY <2>1, <2>3, <2>4, <2>5, <3>1, <3>2 DEF f, t
  <2>6. CASE o # a
    <3>1. o \in Nat
      BY <1>1, RelocFacts
    <3>2. bases[h] + o # s.offset
      <4>1. \A x, y, z \in Nat : y # z => x + y # x + z
        OBVIOUS
      <4>2. s.offset = bases[h] + a
        BY DEF a
      <4>3. QED
        BY <1>1, <2>6, <3>1, <4>1, <4>2
    <3>3. SumFunctionOnSet(AddedAt(t, at), Landing(t, bases[h] + o)) = SumFunctionOnSet(AddedAt(ss, at), Landing(ss, bases[h] + o))
      BY <3>2, OneMoreName DEF t
    <3>4. Here(S \cup {q}, h, o) = Here(S, h, o)
      BY <2>3, <2>6
    <3>5. QED
      BY <2>4, <3>3, <3>4 DEF f, t
  <2>7. QED
    BY <2>5, <2>6
<1>3. QED
  BY <1>2 DEF AreNamed

LEMMA NamesKept ==
  ASSUME GroupedFilesAssumption, all_hunks \in GroupedFiles, AreGrouped, NEW h, NEW S, NEW q, ComesNext(h, S, q),
         NEW ss, AreInImage(ss),
         NEW s \in [offset : Nat, target : 0 .. End - 1],
         s.offset = bases[h] + all_hunks[h].relocs[q].offset,
         NEW j \in LoadedHunks(all_hunks), group_ids[j] = group_ids[h], j # h,
         NEW R, AreNamed(ss, j, R)
  PROVE  AreNamed(Append(ss, s), j, R)
<1>1. \A o \in DOMAIN all_hunks[j].longs : bases[j] + o # s.offset
  BY SiteIsOwn
<1>2. ASSUME NEW at \in [Nat -> Nat], NEW o \in DOMAIN all_hunks[j].longs
      PROVE  SumFunctionOnSet(AddedAt(Append(ss, s), at), Landing(Append(ss, s), bases[j] + o))
               = SumFunctionOnSet(AddedAt(ss, at), Landing(ss, bases[j] + o))
  BY <1>1, OneMoreName
<1>3. QED
  BY <1>2 DEF AreNamed

-----------------------------------------------------------------------------
(* The groups: folding keeps the invariant.                                *)

\* There are three kinds of memory.
LEMMA GroupsAreFew ==
  ASSUME attrs \in Seq(Memory), IsInjective(attrs)
  PROVE  Len(attrs) \in Nat /\ Len(attrs) <= 3
<1>1. Len(attrs) \in Nat /\ DOMAIN attrs = 1 .. Len(attrs)
  OBVIOUS
<1>2. \A n \in 1 .. Len(attrs) : attrs[n] \in {"any", "chip", "fast"}
  BY DEF Memory
<1>3. \A n, m \in 1 .. Len(attrs) : attrs[n] = attrs[m] => n = m
  BY <1>1 DEF IsInjective
<1>4. ASSUME Len(attrs) > 3
      PROVE  FALSE
  <2>1. 1 \in 1 .. Len(attrs) /\ 2 \in 1 .. Len(attrs) /\ 3 \in 1 .. Len(attrs) /\ 4 \in 1 .. Len(attrs)
    BY <1>1, <1>4
  <2>2. /\ attrs[1] # attrs[2] /\ attrs[1] # attrs[3] /\ attrs[1] # attrs[4]
        /\ attrs[2] # attrs[3] /\ attrs[2] # attrs[4] /\ attrs[3] # attrs[4]
    BY <1>3, <2>1
  <2>3. /\ attrs[1] \in {"any", "chip", "fast"} /\ attrs[2] \in {"any", "chip", "fast"}
        /\ attrs[3] \in {"any", "chip", "fast"} /\ attrs[4] \in {"any", "chip", "fast"}
    BY <1>2, <2>1
  <2>4. QED
    BY <2>2, <2>3
<1>5. QED
  BY <1>1, <1>4

LEMMA FoldFacts ==
  ASSUME GroupedFilesAssumption, RoomAssumption, GroupsInvariant, building \in {"fold", "done"}
  PROVE  AreGrouped /\ all_hunks \in GroupedFiles /\ Len(attrs) \in Nat
<1>1. /\ all_hunks \in GroupedFiles /\ Classed(Len(all_hunks)) /\ Len(attrs) \in Nat
      /\ \A j \in DOMAIN all_hunks : group_ids[j] \in 0 .. Len(attrs) - 1
  BY ClassedFacts
<1>2. Len(attrs) <= 3
  BY <1>1, GroupsAreFew DEF Classed
<1>3. End \in Nat /\ 3 <= End
  BY RadixAssumption DEF RoomAssumption, End
<1>4. \A j \in DOMAIN all_hunks : group_ids[j] \in 0 .. End - 1
  <2>1. \A x \in 0 .. Len(attrs) - 1 : x \in 0 .. End - 1
    BY <1>1, <1>2, <1>3
  <2>2. QED
    BY <1>1, <2>1
<1>5. \A j \in DOMAIN all_hunks : bases[j] = Spot(j) /\ bases[j] \in Nat
  BY <1>1, SpotFacts DEF GroupsInvariant, BasesSoFar
<1>6. QED
  BY <1>1, <1>4, <1>5 DEF AreGrouped

\* The relocations folded so far, and one more.
LEMMA HandledNext ==
  ASSUME GroupedFilesAssumption, all_hunks \in GroupedFiles, at_hunk \in DOMAIN all_hunks, at_reloc \in DOMAIN all_hunks[at_hunk].relocs, group_ids[at_hunk] = g,
         g \in Nat
  PROVE  /\ Handled(at_hunk, g, at_hunk, at_reloc) = 1 .. at_reloc - 1 /\ at_reloc \notin 1 .. at_reloc - 1 /\ at_reloc \in Nat \ {0}
         /\ 1 .. at_reloc - 1 \in SUBSET DOMAIN all_hunks[at_hunk].relocs
         /\ Handled(at_hunk, g, at_hunk, at_reloc + 1) = (1 .. at_reloc - 1) \cup {at_reloc}
         /\ \A h \in DOMAIN all_hunks : h # at_hunk => Handled(h, g, at_hunk, at_reloc + 1) = Handled(h, g, at_hunk, at_reloc)
         /\ at_reloc + 1 <= Len(all_hunks[at_hunk].relocs) + 1
<1>1. DOMAIN all_hunks[at_hunk].relocs = 1 .. Len(all_hunks[at_hunk].relocs) /\ Len(all_hunks[at_hunk].relocs) \in Nat
  BY RelocFacts
<1>2. at_hunk \in Nat
  BY ExecutableFacts
<1>3. at_reloc \in Nat \ {0} /\ at_reloc <= Len(all_hunks[at_hunk].relocs)
  BY <1>1
<1>4. \A x, y \in Nat : x # 0 => /\ x \notin 1 .. x - 1 /\ 1 .. (x + 1) - 1 = (1 .. x - 1) \cup {x}
                                 /\ (x <= y => 1 .. x - 1 \in SUBSET (1 .. y))
  OBVIOUS
<1>5. Handled(at_hunk, g, at_hunk, at_reloc) = 1 .. at_reloc - 1 /\ Handled(at_hunk, g, at_hunk, at_reloc + 1) = 1 .. (at_reloc + 1) - 1
  BY <1>2 DEF Handled
<1>6. \A h \in DOMAIN all_hunks : h # at_hunk => Handled(h, g, at_hunk, at_reloc + 1) = Handled(h, g, at_hunk, at_reloc)
  BY DEF Handled
<1>7. QED
  BY <1>1, <1>3, <1>4, <1>5, <1>6

\* The relocation folded next is valid.
LEMMA FoldedIsValid ==
  ASSUME GroupedFilesAssumption, all_hunks \in GroupedFiles, at_hunk \in DOMAIN all_hunks, at_reloc \in DOMAIN all_hunks[at_hunk].relocs,
         FoldError = "none"
  PROVE  IsValid(at_hunk, at_reloc)
<1>1. IsExecutable(all_hunks) /\ Len(all_hunks) \in Nat /\ DOMAIN all_hunks = 1 .. Len(all_hunks)
  BY ExecutableFacts
<1>2. IsHunk(all_hunks[at_hunk])
  BY <1>1 DEF IsExecutable
<1>3. IsReloc(all_hunks[at_hunk].relocs[at_reloc])
  BY <1>2 DEF IsHunk
<1>4. all_hunks[at_hunk].kind # "bss" /\ ~(ThisReloc.target > Len(all_hunks)) /\ ThisReloc.offset % 2 = 0 /\ ~(ThisReloc.offset + 4 > ThisHunk.len)
  BY DEF FoldError, ThisHunk
<1>5. ThisReloc.target \in DOMAIN all_hunks
  BY <1>1, <1>3, <1>4 DEF IsReloc, ThisReloc, ThisHunk
<1>6. ThisReloc.offset + 4 <= ThisHunk.len
  <2>1. ThisReloc.offset \in Nat
    BY <1>3 DEF IsReloc, ThisReloc, ThisHunk
  <2>2. ThisHunk.len \in Nat
    BY <1>1, FileFacts DEF ThisHunk
  <2>3. QED
    BY <1>4, <2>1, <2>2
<1>7. QED
  BY <1>4, <1>5, <1>6 DEF IsValid, ValidReloc, ThisReloc, ThisHunk

LEMMA RelocFolded ==
  ASSUME GroupedFilesAssumption, RoomAssumption, GroupsInvariant, FoldInvariant, FoldInGroup
  PROVE  FoldInvariant'
<1> DEFINE r    == all_hunks[at_hunk].relocs[at_reloc]
           site == bases[at_hunk] + r.offset
           new  == [offset |-> site, target |-> group_ids[r.target]]
           S    == 1 .. at_reloc - 1
           ls   == images[g + 1].longs
           ms   == [ls EXCEPT ![site] = (@ + bases[r.target]) % Word]
<1>1. /\ building = "fold" /\ building' = "fold" /\ g < Len(attrs) /\ at_hunk \in DOMAIN all_hunks /\ group_ids[at_hunk] = g
      /\ at_reloc \in DOMAIN all_hunks[at_hunk].relocs /\ FoldError = "none"
      /\ at_reloc' = at_reloc + 1 /\ at_hunk' = at_hunk /\ g' = g
      /\ UNCHANGED <<all_hunks, bases, attrs, group_ids>>
  BY DEF FoldInGroup, Folding, HunkLeft, Mine, ThisHunk
<1>2. /\ images' = [images EXCEPT ![g + 1].longs[site] = (@ + bases[r.target]) % Word]
      /\ group_sites' = Append(group_sites, new)
  BY DEF FoldInGroup, ThisReloc, ThisHunk
<1>3. AreGrouped /\ all_hunks \in GroupedFiles /\ Len(attrs) \in Nat /\ g \in Nat /\ SizeOf(all_hunks, DOMAIN all_hunks) < Word
  BY <1>1, FoldFacts, ClassedFacts DEF FoldInvariant
<1>4. IsFold(images, group_sites, g, at_hunk, at_reloc)
  BY <1>1 DEF FoldInvariant
<1>5. /\ Handled(at_hunk, g, at_hunk, at_reloc) = S /\ at_reloc \notin S /\ at_reloc \in Nat \ {0} /\ S \in SUBSET DOMAIN all_hunks[at_hunk].relocs
      /\ Handled(at_hunk, g, at_hunk, at_reloc + 1) = S \cup {at_reloc}
      /\ \A h \in DOMAIN all_hunks : h # at_hunk => Handled(h, g, at_hunk, at_reloc + 1) = Handled(h, g, at_hunk, at_reloc)
      /\ at_reloc + 1 <= Len(all_hunks[at_hunk].relocs) + 1
  BY <1>1, <1>3, HandledNext
<1>6. IsValid(at_hunk, at_reloc) /\ at_hunk \in LoadedHunks(all_hunks) /\ r.target \in DOMAIN all_hunks
      /\ r.offset \in DOMAIN all_hunks[at_hunk].longs /\ r.offset % 2 = 0
  BY <1>1, <1>3, FoldedIsValid, RelocFacts
<1>7. ComesNext(at_hunk, S, at_reloc)
  <2>1. \A n \in S : IsValid(at_hunk, n)
    BY <1>1, <1>4, <1>5 DEF IsFold
  <2>2. QED
    BY <1>1, <1>5, <1>6, <2>1 DEF ComesNext
<1> HIDE DEF S
<1>8. site \in Nat /\ site % 2 = 0 /\ site < Word /\ group_ids[r.target] \in 0 .. End - 1
  <2>1. bases[at_hunk] = Spot(at_hunk) /\ bases[at_hunk] \in Nat /\ group_ids[r.target] \in 0 .. End - 1
    BY <1>1, <1>3, <1>6 DEF AreGrouped
  <2>2. r.offset \in Nat /\ r.offset \in 0 .. all_hunks[at_hunk].size - 1
    BY <1>1, <1>3, <1>6, RelocFacts
  <2>3. Spot(at_hunk) % 4 = 0 /\ Spot(at_hunk) + r.offset \in 0 .. SizeOf(all_hunks, DOMAIN all_hunks) - 1
    BY <1>3, <1>6, <2>2, SpotFacts
  <2>4. \A x, y \in Nat : x % 4 = 0 /\ y % 2 = 0 => x + y \in Nat /\ (x + y) % 2 = 0
    OBVIOUS
  <2>5. SizeOf(all_hunks, DOMAIN all_hunks) \in Nat
    <3>1. IsExecutable(all_hunks)
      BY <1>3, ExecutableFacts
    <3>2. \A A \in SUBSET DOMAIN all_hunks : SizeOf(all_hunks, A) \in Nat
      BY <3>1, SizeFacts
    <3>3. QED
      BY <3>2
  <2>6. site < Word
    BY <1>3, <2>1, <2>3, <2>5, WordAssumption
  <2>7. QED
    BY <1>6, <2>1, <2>2, <2>3, <2>4, <2>6
<1> DEFINE Site == [offset : Nat, target : 0 .. End - 1]
<1>9. new \in Site /\ new.offset = site /\ new.target = group_ids[r.target]
  BY <1>8
<1>10. /\ DOMAIN images = 1 .. Len(attrs) /\ \A m \in DOMAIN images : IsImage(images[m])
       /\ AreInImage(group_sites)
       /\ \A h \in DOMAIN all_hunks : \A q \in Handled(h, g, at_hunk, at_reloc) : IsValid(h, q)
       /\ \A h \in LoadedHunks(all_hunks) : IsFolded(images, group_sites, g, h, Handled(h, g, at_hunk, at_reloc))
  BY <1>4 DEF IsFold, AreTold
<1>11. AreTold(group_sites')
  <2>1. new.target \in Groups
    BY <1>1, <1>6, <1>9, ClassedFacts DEF Groups
  <2>2. \A n \in DOMAIN group_sites : group_sites[n].target \in Groups
    BY <1>4 DEF IsFold, AreTold
  <2> HIDE DEF new
  <2>3. AreInImage(Append(group_sites, new))
    BY <1>8, <1>9, <1>10, OneMoreInImage
  <2>4. \A n \in DOMAIN Append(group_sites, new) : Append(group_sites, new)[n].target \in Groups
    <3> SUFFICES ASSUME NEW n \in DOMAIN Append(group_sites, new)
                 PROVE  Append(group_sites, new)[n].target \in Groups
      OBVIOUS
    <3>1. group_sites \in Seq(Site)
      BY <1>10 DEF AreInImage
    <3> HIDE DEF Site
    <3>2. \/ n \in DOMAIN group_sites /\ Append(group_sites, new)[n] = group_sites[n]
          \/ Append(group_sites, new)[n] = new
      BY <1>9, <3>1
    <3>3. QED
      BY <2>1, <2>2, <3>2
  <2>5. QED
    BY <1>2, <2>3, <2>4 DEF AreTold
<1>12. g + 1 \in DOMAIN images /\ IsImage(images[g + 1])
  BY <1>1, <1>3, <1>10
<1>13. /\ DOMAIN images' = 1 .. Len(attrs)
       /\ images'[g + 1] = [size |-> images[g + 1].size, longs |-> ms, stream |-> images[g + 1].stream]
       /\ \A m \in DOMAIN images : m # g + 1 => images'[m] = images[m]
  <2> HIDE DEF site, r
  <2>1. images' = [images EXCEPT ![g + 1] = [images[g + 1] EXCEPT !.longs = ms]]
    BY <1>2
  <2> HIDE DEF ms, ls
  <2>2. images'[g + 1] = [images[g + 1] EXCEPT !.longs = ms]
    BY <1>12, <2>1
  <2>3. [images[g + 1] EXCEPT !.longs = ms] = [size |-> images[g + 1].size, longs |-> ms, stream |-> images[g + 1].stream]
    BY <1>12 DEF IsImage
  <2>4. \A m \in DOMAIN images : m # g + 1 => images'[m] = images[m]
    BY <2>1
  <2>5. QED
    BY <1>10, <2>1, <2>2, <2>3, <2>4
<1>14. \A m \in DOMAIN images' : IsImage(images'[m])
  <2> SUFFICES ASSUME NEW m \in DOMAIN images'
               PROVE  IsImage(images'[m])
    OBVIOUS
  <2> HIDE DEF ms
  <2>1. CASE m = g + 1
    BY <1>13, <2>1 DEF IsImage
  <2>2. CASE m # g + 1
    BY <1>10, <1>13, <2>2
  <2>3. QED
    BY <2>1, <2>2
<1>15. site \in DOMAIN ls
  <2>1. AreFolded(ls, at_hunk, S)
    BY <1>1, <1>5, <1>6, <1>10 DEF IsFolded
  <2>2. QED
    BY <1>6, <2>1 DEF AreFolded
<1>16. /\ DOMAIN ms = DOMAIN ls /\ ms[site] = (ls[site] + bases[r.target]) % Word
       /\ \A a \in DOMAIN ls : a # site => ms[a] = ls[a]
  <2> HIDE DEF ls, site, r
  <2>1. QED
    BY <1>15
<1> HIDE DEF ms, ls, new

<1>17. ASSUME NEW h \in LoadedHunks(all_hunks)
       PROVE  IsFolded(images', group_sites', g, h, Handled(h, g, at_hunk, at_reloc + 1))
  <2> DEFINE R == Handled(h, g, at_hunk, at_reloc)
  <2>1. h \in DOMAIN all_hunks /\ group_ids[h] \in 0 .. Len(attrs) - 1
    BY <1>1, ClassedFacts DEF LoadedHunks
  <2>2. /\ AreFolded(images[group_ids[h] + 1].longs, h, R)
        /\ group_ids[h] = g => AreNamed(group_sites, h, R)
        /\ group_ids[h] < g => LET decoded == DecodeGroupStream(images[group_ids[h] + 1].stream)
                               IN  AreNamed(decoded, h, R) /\ AreTold(decoded)
    BY <1>10 DEF IsFolded
  <2> HIDE DEF R
  <2>3. CASE group_ids[h] # g
    <3>1. h # at_hunk
      BY <1>1, <2>3
    <3>2. images'[group_ids[h] + 1] = images[group_ids[h] + 1]
      <4>1. group_ids[h] + 1 \in DOMAIN images /\ group_ids[h] + 1 # g + 1
        BY <1>3, <1>10, <2>1, <2>3
      <4>2. QED
        BY <1>13, <4>1
    <3>3. Handled(h, g, at_hunk, at_reloc + 1) = R
      BY <1>5, <2>1, <3>1 DEF R
    <3>4. QED
      BY <2>2, <2>3, <3>2, <3>3 DEF IsFolded
  <2>4. CASE group_ids[h] = g /\ h # at_hunk
    <3>1. Handled(h, g, at_hunk, at_reloc + 1) = R
      BY <1>5, <2>1, <2>4 DEF R
    <3>2. AreFolded(ms, h, R)
      <4>1. AreFolded(ls, h, R)
        BY <2>2, <2>4 DEF ls
      <4>2. group_ids[h] = group_ids[at_hunk]
        BY <1>1, <2>4
      <4> HIDE DEF site
      <4>3. site = bases[at_hunk] + all_hunks[at_hunk].relocs[at_reloc].offset
        BY DEF site
      <4>4. QED
        BY <1>3, <1>7, <1>16, <2>4, <4>1, <4>2, <4>3, LongsKept
    <3>3. AreNamed(group_sites', h, R)
      <4>1. group_ids[h] = group_ids[at_hunk] /\ AreNamed(group_sites, h, R)
        BY <1>1, <2>2, <2>4
      <4>2. new.offset = bases[at_hunk] + all_hunks[at_hunk].relocs[at_reloc].offset
        BY <1>9
      <4>3. AreNamed(Append(group_sites, new), h, R)
        BY <1>3, <1>7, <1>9, <1>10, <2>4, <4>1, <4>2, NamesKept
      <4>4. QED
        BY <1>2, <4>3
    <3>4. images'[group_ids[h] + 1].longs = ms /\ ~(group_ids[h] < g)
      BY <1>3, <1>13, <2>4
    <3>5. QED
      BY <2>4, <3>1, <3>2, <3>3, <3>4 DEF IsFolded
  <2>5. CASE group_ids[h] = g /\ h = at_hunk
    <3>1. Handled(h, g, at_hunk, at_reloc + 1) = S \cup {at_reloc} /\ R = S
      BY <1>5, <2>5 DEF R
    <3>2. AreFolded(ms, at_hunk, S \cup {at_reloc})
      <4>1. AreFolded(ls, at_hunk, S)
        BY <2>2, <2>5, <3>1 DEF ls
      <4> HIDE DEF site
      <4>2. site = bases[at_hunk] + all_hunks[at_hunk].relocs[at_reloc].offset
        BY DEF site
      <4>3. ms[site] = (ls[site] + bases[all_hunks[at_hunk].relocs[at_reloc].target]) % Word
        BY <1>16
      <4>4. QED
        BY <1>3, <1>7, <1>16, <4>1, <4>2, <4>3, LongsFolded
    <3>3. AreNamed(group_sites', at_hunk, S \cup {at_reloc})
      <4>1. AreNamed(group_sites, at_hunk, S)
        BY <2>2, <2>5, <3>1
      <4>2. /\ new.offset = bases[at_hunk] + all_hunks[at_hunk].relocs[at_reloc].offset
            /\ new.target = group_ids[all_hunks[at_hunk].relocs[at_reloc].target]
        BY <1>9
      <4>3. AreNamed(Append(group_sites, new), at_hunk, S \cup {at_reloc})
        BY <1>3, <1>7, <1>9, <1>10, <4>1, <4>2, NamesFolded
      <4>4. QED
        BY <1>2, <4>3
    <3>4. images'[group_ids[h] + 1].longs = ms /\ ~(group_ids[h] < g)
      BY <1>3, <1>13, <2>5
    <3>5. QED
      BY <2>5, <3>1, <3>2, <3>3, <3>4 DEF IsFolded
  <2>6. QED
    BY <2>3, <2>4, <2>5
<1>18. \A h \in DOMAIN all_hunks : \A q \in Handled(h, g, at_hunk, at_reloc + 1) : IsValid(h, q)
  <2> SUFFICES ASSUME NEW h \in DOMAIN all_hunks, NEW q \in Handled(h, g, at_hunk, at_reloc + 1)
               PROVE  IsValid(h, q)
    OBVIOUS
  <2>1. CASE h = at_hunk
    BY <1>5, <1>7, <2>1 DEF ComesNext
  <2>2. CASE h # at_hunk
    BY <1>5, <1>10, <2>2
  <2>3. QED
    BY <2>1, <2>2
<1>19. IsFold(images', group_sites', g, at_hunk, at_reloc + 1)
  <2>1. at_reloc + 1 \in Nat \ {0} /\ at_reloc + 1 <= Len(all_hunks[at_hunk].relocs) + 1 /\ g <= Len(attrs)
    BY <1>1, <1>3, <1>5
  <2>2. QED
    BY <1>3, <1>11, <1>13, <1>14, <1>17, <1>18, <2>1 DEF IsFold
<1>20. QED
  <2>1. IsFold(images', group_sites', g', at_hunk', at_reloc')
    BY <1>1, <1>19
  <2>2. IsFold(images, group_sites, g, at_hunk, at_reloc)'
    BY <1>1, <2>1, FoldNext
  <2>3. SizeOf(all_hunks, DOMAIN all_hunks)' < Word
    BY <1>1, <1>3
  <2>4. QED
    BY <1>1, <2>2, <2>3 DEF FoldInvariant

LEMMA HunkFolded ==
  ASSUME GroupedFilesAssumption, RoomAssumption, GroupsInvariant, FoldInvariant, SkipHunk
  PROVE  FoldInvariant'
<1>1. /\ building = "fold" /\ building' = "fold" /\ g < Len(attrs) /\ at_hunk \in DOMAIN all_hunks
      /\ (group_ids[at_hunk] # g \/ at_reloc \notin DOMAIN all_hunks[at_hunk].relocs)
      /\ at_reloc' = 1 /\ at_hunk' = at_hunk + 1
      /\ UNCHANGED <<all_hunks, bases, attrs, group_ids, g, images, group_sites>>
  BY DEF SkipHunk, Folding, HunkLeft, Mine, ThisHunk, NextInLoop
<1>2. all_hunks \in GroupedFiles /\ g \in Nat /\ SizeOf(all_hunks, DOMAIN all_hunks) < Word
  BY <1>1, ClassedFacts DEF FoldInvariant
<1>3. IsFold(images, group_sites, g, at_hunk, at_reloc)
  BY <1>1 DEF FoldInvariant
<1>4. DOMAIN all_hunks[at_hunk].relocs = 1 .. Len(all_hunks[at_hunk].relocs) /\ Len(all_hunks[at_hunk].relocs) \in Nat
  BY <1>1, <1>2, RelocFacts
<1>5. at_reloc \in Nat \ {0} /\ at_reloc <= Len(all_hunks[at_hunk].relocs) + 1
  BY <1>1, <1>3 DEF IsFold
<1>6. at_reloc \notin DOMAIN all_hunks[at_hunk].relocs => 1 .. at_reloc - 1 = DOMAIN all_hunks[at_hunk].relocs
  BY <1>4, <1>5
<1>7. \A h \in DOMAIN all_hunks : h \in Nat
  BY <1>2, ExecutableFacts
<1>8. ASSUME NEW h \in DOMAIN all_hunks
      PROVE  Handled(h, g, at_hunk + 1, 1) = Handled(h, g, at_hunk, at_reloc)
  <2>1. h \in Nat /\ at_hunk \in Nat
    BY <1>1, <1>7
  <2>2. CASE h < at_hunk
    BY <2>1, <2>2 DEF Handled
  <2>3. CASE h = at_hunk
    <3>1. h < at_hunk + 1 /\ ~(h < at_hunk)
      BY <2>1, <2>3
    <3>2. CASE group_ids[h] = g
      BY <1>1, <1>6, <2>3, <3>1, <3>2 DEF Handled
    <3>3. CASE group_ids[h] # g
      BY <3>3 DEF Handled
    <3>4. QED
      BY <3>2, <3>3
  <2>4. CASE at_hunk < h
    <3>1. ~(h < at_hunk) /\ h # at_hunk /\ ~(h < at_hunk + 1) /\ 1 .. 1 - 1 = {}
      BY <2>1, <2>4
    <3>2. QED
      BY <3>1 DEF Handled
  <2>5. QED
    BY <2>1, <2>2, <2>3, <2>4
<1>9. at_hunk + 1 \in DOMAIN all_hunks => 1 <= Len(all_hunks[at_hunk + 1].relocs) + 1
  <2>1. at_hunk + 1 \in DOMAIN all_hunks => Len(all_hunks[at_hunk + 1].relocs) \in Nat
    BY <1>2, RelocFacts
  <2>2. QED
    BY <2>1
<1>10. IsFold(images, group_sites, g, at_hunk + 1, 1)
  <2>1. \A h \in DOMAIN all_hunks : \A q \in Handled(h, g, at_hunk + 1, 1) : IsValid(h, q)
    BY <1>3, <1>8 DEF IsFold
  <2>2. \A h \in LoadedHunks(all_hunks) : IsFolded(images, group_sites, g, h, Handled(h, g, at_hunk + 1, 1))
    BY <1>3, <1>8 DEF IsFold, LoadedHunks
  <2>3. QED
    BY <1>3, <1>9, <2>1, <2>2 DEF IsFold
<1>11. QED
  <2>1. IsFold(images', group_sites', g', at_hunk', at_reloc')
    BY <1>1, <1>10
  <2>2. IsFold(images, group_sites, g, at_hunk, at_reloc)'
    BY <1>1, <2>1, FoldNext
  <2>3. SizeOf(all_hunks, DOMAIN all_hunks)' < Word
    BY <1>1, <1>2
  <2>4. QED
    BY <1>1, <2>2, <2>3 DEF FoldInvariant

\* What the runtime reads in a group's stream is what was folded.
LEMMA GroupFolded ==
  ASSUME GroupedFilesAssumption, RoomAssumption, GroupsInvariant, FoldInvariant, EncodeGroup
  PROVE  FoldInvariant'
<1> DEFINE stream == EncodeGroupStream(SortByOffset(group_sites))
<1>1. /\ building = "fold" /\ building' = "fold" /\ g < Len(attrs) /\ at_hunk \notin DOMAIN all_hunks
      /\ at_reloc' = 1 /\ at_hunk' = 1 /\ g' = g + 1 /\ group_sites' = <<>>
      /\ images' = [images EXCEPT ![g + 1].stream = stream]
      /\ UNCHANGED <<all_hunks, bases, attrs, group_ids>>
  BY DEF EncodeGroup, Folding, HunkLeft
<1>2. /\ all_hunks \in GroupedFiles /\ g \in Nat /\ Len(attrs) \in Nat /\ at_hunk \in 1 .. Len(all_hunks) + 1
      /\ SizeOf(all_hunks, DOMAIN all_hunks) < Word /\ DOMAIN all_hunks = 1 .. Len(all_hunks) /\ Len(all_hunks) \in Nat \ {0}
      /\ \A j \in DOMAIN all_hunks : group_ids[j] \in 0 .. Len(attrs) - 1
  BY <1>1, ClassedFacts DEF FoldInvariant
<1>3. IsFold(images, group_sites, g, at_hunk, at_reloc)
  BY <1>1 DEF FoldInvariant
<1>4. /\ DOMAIN images = 1 .. Len(attrs) /\ \A m \in DOMAIN images : IsImage(images[m])
      /\ AreInImage(group_sites) /\ \A n \in DOMAIN group_sites : group_sites[n].target \in Groups
      /\ \A h \in DOMAIN all_hunks : \A q \in Handled(h, g, at_hunk, at_reloc) : IsValid(h, q)
      /\ \A h \in LoadedHunks(all_hunks) : IsFolded(images, group_sites, g, h, Handled(h, g, at_hunk, at_reloc))
  BY <1>3 DEF IsFold, AreTold
<1>5. at_hunk = Len(all_hunks) + 1
  BY <1>1, <1>2
<1>6. ASSUME NEW h \in DOMAIN all_hunks
      PROVE  /\ Handled(h, g + 1, 1, 1) = Handled(h, g, at_hunk, at_reloc)
             /\ group_ids[h] = g + 1 => Handled(h, g + 1, 1, 1) = {}
  <2>1. h \in Nat \ {0} /\ h < at_hunk /\ group_ids[h] \in Nat
    BY <1>2, <1>5
  <2>2. ~(h < 1) /\ 1 .. 1 - 1 = {}
    BY <2>1
  <2>3. CASE group_ids[h] <= g
    <3>1. group_ids[h] < g + 1 /\ group_ids[h] # g + 1 /\ (group_ids[h] < g \/ group_ids[h] = g)
      BY <1>2, <2>1, <2>3
    <3>2. QED
      BY <2>1, <3>1 DEF Handled
  <2>4. CASE ~(group_ids[h] <= g)
    <3>1. ~(group_ids[h] < g) /\ group_ids[h] # g /\ ~(group_ids[h] < g + 1)
      BY <1>2, <2>1, <2>4
    <3>2. QED
      BY <2>2, <3>1 DEF Handled
  <2>5. QED
    BY <2>3, <2>4
<1>7. DecodeGroupStream(stream) = SortByOffset(group_sites) /\ AreTold(SortByOffset(group_sites))
  <2>1. /\ AreGroupSites(SortByOffset(group_sites)) /\ AreInImage(SortByOffset(group_sites))
        /\ \A n \in DOMAIN SortByOffset(group_sites) : \E m \in DOMAIN group_sites : SortByOffset(group_sites)[n].target = group_sites[m].target
    BY <1>4, SortingKeeps
  <2>2. \A n \in DOMAIN SortByOffset(group_sites) : SortByOffset(group_sites)[n].target \in Groups
    BY <1>4, <2>1
  <2>3. QED
    BY <2>1, <2>2, GroupStreamReadsBack DEF AreTold
<1> HIDE DEF stream
<1>8. g + 1 \in DOMAIN images /\ IsImage(images[g + 1])
  BY <1>1, <1>2, <1>4
<1>9. /\ DOMAIN images' = 1 .. Len(attrs)
      /\ images'[g + 1] = [size |-> images[g + 1].size, longs |-> images[g + 1].longs, stream |-> stream]
      /\ \A m \in DOMAIN images : m # g + 1 => images'[m] = images[m]
  <2>1. images' = [images EXCEPT ![g + 1] = [images[g + 1] EXCEPT !.stream = stream]]
    BY <1>1
  <2>2. images'[g + 1] = [images[g + 1] EXCEPT !.stream = stream]
    BY <1>8, <2>1
  <2>3. [images[g + 1] EXCEPT !.stream = stream]
          = [size |-> images[g + 1].size, longs |-> images[g + 1].longs, stream |-> stream]
    BY <1>8 DEF IsImage
  <2>4. \A m \in DOMAIN images : m # g + 1 => images'[m] = images[m]
    BY <2>1
  <2>5. QED
    BY <1>4, <2>1, <2>2, <2>3, <2>4
<1>10. \A m \in DOMAIN images' : IsImage(images'[m])
  <2> SUFFICES ASSUME NEW m \in DOMAIN images'
               PROVE  IsImage(images'[m])
    OBVIOUS
  <2>1. CASE m = g + 1
    BY <1>9, <2>1 DEF IsImage
  <2>2. CASE m # g + 1
    BY <1>4, <1>9, <2>2
  <2>3. QED
    BY <2>1, <2>2
<1>11. AreTold(<<>>)
  BY DEF AreTold, AreInImage
<1>12. ASSUME NEW h \in LoadedHunks(all_hunks)
       PROVE  IsFolded(images', <<>>, g + 1, h, Handled(h, g + 1, 1, 1))
  <2> DEFINE S == Handled(h, g, at_hunk, at_reloc)
             m == group_ids[h] + 1
  <2>1. h \in DOMAIN all_hunks /\ group_ids[h] \in Nat /\ group_ids[h] < Len(attrs)
    BY <1>2 DEF LoadedHunks
  <2>2. Handled(h, g + 1, 1, 1) = S /\ (group_ids[h] = g + 1 => S = {})
    BY <1>6, <2>1
  <2>3. /\ AreFolded(images[m].longs, h, S)
        /\ group_ids[h] = g => AreNamed(group_sites, h, S)
        /\ group_ids[h] < g => LET decoded == DecodeGroupStream(images[m].stream)
                               IN  AreNamed(decoded, h, S) /\ AreTold(decoded)
    BY <1>4 DEF IsFolded
  <2>4. m \in DOMAIN images
    BY <1>2, <1>4, <2>1
  <2> HIDE DEF S
  <2>5. images'[m].longs = images[m].longs
    BY <1>9, <2>4
  <2>6. group_ids[h] = g + 1 => AreNamed(<<>>, h, S)
    BY <2>2, NothingNamed
  <2>7. ASSUME group_ids[h] < g + 1
        PROVE  LET decoded == DecodeGroupStream(images'[m].stream)
               IN  AreNamed(decoded, h, S) /\ AreTold(decoded)
    <3>1. CASE group_ids[h] < g
      <4>1. m # g + 1
        BY <1>2, <2>1, <3>1
      <4>2. images'[m] = images[m]
        BY <1>9, <2>4, <4>1
      <4>3. QED
        BY <2>3, <3>1, <4>2
    <3>2. CASE group_ids[h] = g
      <4>1. images'[m].stream = stream
        BY <1>9, <3>2
      <4>2. \A a : \A at \in [Nat -> Nat] :
              SumFunctionOnSet(AddedAt(SortByOffset(group_sites), at), Landing(SortByOffset(group_sites), a))
                = SumFunctionOnSet(AddedAt(group_sites, at), Landing(group_sites, a))
        BY <1>4, SortingKeeps
      <4>3. AreNamed(group_sites, h, S)
        BY <2>3, <3>2
      <4>4. AreNamed(SortByOffset(group_sites), h, S)
        BY <4>2, <4>3 DEF AreNamed
      <4>5. QED
        BY <1>7, <4>1, <4>4
    <3>3. QED
      BY <1>2, <2>1, <2>7, <3>1, <3>2
  <2>8. QED
    BY <2>2, <2>3, <2>5, <2>6, <2>7 DEF IsFolded
<1>13. IsFold(images', <<>>, g + 1, 1, 1)
  <2>1. \A h \in DOMAIN all_hunks : \A q \in Handled(h, g + 1, 1, 1) : IsValid(h, q)
    BY <1>4, <1>6
  <2>2. Len(all_hunks[1].relocs) \in Nat
    BY <1>2, RelocFacts
  <2>3. g + 1 \in Nat /\ g + 1 <= Len(attrs) /\ 1 <= Len(all_hunks[1].relocs) + 1 /\ 1 \in Nat \ {0}
    BY <1>1, <1>2, <2>2
  <2>4. QED
    BY <1>9, <1>10, <1>11, <1>12, <2>1, <2>3 DEF IsFold
<1>14. QED
  <2>1. IsFold(images', group_sites', g', at_hunk', at_reloc')
    BY <1>1, <1>13
  <2>2. IsFold(images, group_sites, g, at_hunk, at_reloc)'
    BY <1>1, <2>1, FoldNext
  <2>3. SizeOf(all_hunks, DOMAIN all_hunks)' < Word
    BY <1>1, <1>2
  <2>4. QED
    BY <1>1, <2>2, <2>3 DEF FoldInvariant

LEMMA OneMoreImage ==
  ASSUME NEW ims, ims \in Seq(Range(ims)), NEW m
  PROVE  /\ Append(ims, m) \in Seq(Range(Append(ims, m))) /\ Len(Append(ims, m)) = Len(ims) + 1
         /\ Len(ims) \in Nat /\ DOMAIN ims = 1 .. Len(ims) /\ DOMAIN Append(ims, m) = 1 .. Len(ims) + 1
         /\ \A n \in DOMAIN ims : Append(ims, m)[n] = ims[n]
         /\ Append(ims, m)[Len(ims) + 1] = m
<1> DEFINE T == Range(ims) \cup {m}
           t == Append(ims, m)
<1>1. ims \in Seq(T) /\ m \in T
  <2> DEFINE R == Range(ims)
  <2>1. ims \in Seq(R) /\ R \subseteq T
    OBVIOUS
  <2> HIDE DEF R, T
  <2>2. ims \in Seq(T)
    BY <2>1
  <2>3. QED
    BY <2>2 DEF T
<1> HIDE DEF T
<1>2. /\ t \in Seq(T) /\ Len(t) = Len(ims) + 1
      /\ Len(ims) \in Nat /\ DOMAIN ims = 1 .. Len(ims) /\ DOMAIN t = 1 .. Len(ims) + 1
      /\ \A n \in DOMAIN ims : t[n] = ims[n]
      /\ t[Len(ims) + 1] = m
  BY <1>1
<1> HIDE DEF t
<1>3. t \in Seq(Range(t))
  <2> DEFINE U == Range(t)
             N == Len(ims) + 1
  <2>1. N \in Nat /\ DOMAIN t = 1 .. N /\ Len(t) = N
    BY <1>2
  <2>2. \A n \in 1 .. N : t[n] \in U
    BY <2>1 DEF Range
  <2>3. t = [n \in 1 .. N |-> t[n]]
    <3>1. t \in [1 .. Len(t) -> T]
      BY <1>2
    <3>2. QED
      BY <2>1, <3>1
  <2> HIDE DEF U, N
  <2>4. t \in Seq(U)
    BY <2>1, <2>2, <2>3
  <2>5. QED
    BY <2>4 DEF U
<1>4. QED
  BY <1>2, <1>3 DEF t

\* flatten has copied one more group's hunks.
LEMMA GroupCopied ==
  ASSUME GroupedFilesAssumption, GroupsInvariant, FoldInvariant, FlattenGroup
  PROVE  FoldInvariant'
<1> DEFINE new == [size |-> GroupSize(g), longs |-> GroupLongs(g), stream |-> <<>>]
<1>1. /\ building = "flatten" /\ building' = "base" /\ images' = Append(images, new)
      /\ UNCHANGED <<all_hunks, attrs, group_ids, g, group_sites>>
  BY DEF FlattenGroup
<1>2. /\ all_hunks \in GroupedFiles /\ g \in Nat /\ SizeOf(all_hunks, DOMAIN all_hunks) < Word /\ group_sites = <<>>
      /\ AreCopied(images, g) /\ \A h \in DOMAIN all_hunks : group_ids[h] \in Nat
  BY <1>1, ClassedFacts DEF FoldInvariant
<1>3. new.longs = GroupLongs(g) /\ IsImage(new)
  BY DEF IsImage
<1> HIDE DEF new
<1>4. /\ images' \in Seq(Range(images')) /\ Len(images') = g + 1 /\ DOMAIN images = 1 .. g
      /\ DOMAIN images' = 1 .. g + 1
      /\ \A n \in DOMAIN images : images'[n] = images[n]
      /\ images'[g + 1] = new
  BY <1>1, <1>2, OneMoreImage DEF AreCopied
<1>5. \A n \in DOMAIN images' : IsImage(images'[n])
  <2> SUFFICES ASSUME NEW n \in DOMAIN images'
               PROVE  IsImage(images'[n])
    OBVIOUS
  <2>1. n \in DOMAIN images \/ n = g + 1
    BY <1>2, <1>4
  <2>2. QED
    BY <1>2, <1>3, <1>4, <2>1 DEF AreCopied
<1>6. ASSUME NEW h \in LoadedHunks(all_hunks), group_ids[h] < g + 1
      PROVE  IsCopied(images'[group_ids[h] + 1].longs, h)
  <2>1. group_ids[h] \in Nat
    BY <1>2 DEF LoadedHunks
  <2>2. CASE group_ids[h] = g
    <3>1. IsCopied(GroupLongs(group_ids[h]), h)
      BY <1>2, GroupLongsAre
    <3>2. images'[group_ids[h] + 1].longs = GroupLongs(group_ids[h])
      BY <1>3, <1>4, <2>2
    <3>3. QED
      BY <3>1, <3>2
  <2>3. CASE group_ids[h] < g
    <3>1. group_ids[h] + 1 \in DOMAIN images
      BY <1>2, <1>4, <2>1, <2>3
    <3>2. IsCopied(images[group_ids[h] + 1].longs, h)
      BY <1>2, <2>3 DEF AreCopied
    <3>3. QED
      BY <1>4, <3>1, <3>2
  <2>4. QED
    BY <1>2, <1>6, <2>1, <2>2, <2>3
<1>7. AreCopied(images', g + 1)
  BY <1>4, <1>5, <1>6 DEF AreCopied
<1>8. QED
  <2>1. AreCopied(images', g' + 1)
    BY <1>1, <1>7
  <2>2. AreCopied(images, g + 1)'
    BY <1>1, <2>1, CopyStays
  <2>3. SizeOf(all_hunks, DOMAIN all_hunks)' < Word /\ group_sites' = <<>>
    BY <1>1, <1>2
  <2>4. QED
    BY <1>1, <2>2, <2>3 DEF FoldInvariant

\* Then all are as flatten left them.
LEMMA AllCopied ==
  ASSUME GroupedFilesAssumption, RoomAssumption, GroupsInvariant, FoldInvariant, AllFlattened
  PROVE  FoldInvariant'
<1>1. /\ building = "flatten" /\ building' = "fold" /\ g = Len(attrs) /\ g' = 0 /\ at_hunk' = 1 /\ at_reloc' = 1
      /\ UNCHANGED <<all_hunks, attrs, group_ids, bases, images, group_sites>>
  BY DEF AllFlattened
<1>2. /\ all_hunks \in GroupedFiles /\ g \in Nat /\ SizeOf(all_hunks, DOMAIN all_hunks) < Word /\ group_sites = <<>>
      /\ AreCopied(images, g) /\ Len(attrs) \in Nat
      /\ \A h \in DOMAIN all_hunks : group_ids[h] \in 0 .. Len(attrs) - 1 /\ h \in Nat
      /\ Len(all_hunks) \in Nat \ {0} /\ DOMAIN all_hunks = 1 .. Len(all_hunks)
  BY <1>1, ClassedFacts DEF FoldInvariant
<1>3. \A h \in DOMAIN all_hunks : /\ group_ids[h] \in Nat /\ group_ids[h] < g
                                  /\ bases[h] = Spot(h) /\ Handled(h, 0, 1, 1) = {}
  <2> SUFFICES ASSUME NEW h \in DOMAIN all_hunks
               PROVE  /\ group_ids[h] \in Nat /\ group_ids[h] < g
                      /\ bases[h] = Spot(h) /\ Handled(h, 0, 1, 1) = {}
    OBVIOUS
  <2>1. group_ids[h] \in Nat /\ group_ids[h] < g
    BY <1>1, <1>2
  <2>2. h \in DOMAIN bases /\ bases[h] = Spot(h)
    BY <1>1, <2>1 DEF GroupsInvariant, BasesSoFar
  <2>3. ~(group_ids[h] < 0) /\ ~(h < 1) /\ 1 .. 1 - 1 = {}
    BY <1>2, <2>1
  <2>4. Handled(h, 0, 1, 1) = {}
    BY <2>3 DEF Handled
  <2>5. QED
    BY <2>1, <2>2, <2>4
<1>4. ASSUME NEW h \in LoadedHunks(all_hunks)
      PROVE  IsFolded(images, <<>>, 0, h, Handled(h, 0, 1, 1))
  <2>1. h \in DOMAIN all_hunks
    BY DEF LoadedHunks
  <2>2. IsCopied(images[group_ids[h] + 1].longs, h)
    BY <1>2, <1>3, <2>1 DEF AreCopied
  <2>3. AreFolded(images[group_ids[h] + 1].longs, h, {})
    BY <1>2, <1>3, <2>1, <2>2, NothingFolded
  <2>4. ~(group_ids[h] < 0)
    BY <1>3, <2>1
  <2>5. QED
    BY <1>3, <2>1, <2>3, <2>4, NothingNamed DEF IsFolded
<1>5. IsFold(images, <<>>, 0, 1, 1)
  <2>1. AreTold(<<>>)
    BY DEF AreTold, AreInImage
  <2>2. DOMAIN images = 1 .. Len(attrs) /\ \A m \in DOMAIN images : IsImage(images[m])
    <3>1. images \in Seq(Range(images)) /\ Len(images) = g
      BY <1>2 DEF AreCopied
    <3>2. DOMAIN images = 1 .. Len(images)
      BY <3>1
    <3>3. QED
      BY <1>1, <1>2, <3>1, <3>2 DEF AreCopied
  <2>3. Len(all_hunks[1].relocs) \in Nat
    BY <1>2, RelocFacts
  <2>4. 0 \in Nat /\ 0 <= Len(attrs) /\ 1 \in Nat \ {0} /\ 1 <= Len(all_hunks[1].relocs) + 1
    BY <1>2, <2>3
  <2>5. \A h \in DOMAIN all_hunks : \A q \in Handled(h, 0, 1, 1) : IsValid(h, q)
    BY <1>3
  <2>6. QED
    BY <1>4, <2>1, <2>2, <2>4, <2>5 DEF IsFold
<1>6. QED
  <2>1. IsFold(images', group_sites', g', at_hunk', at_reloc')
    BY <1>1, <1>2, <1>5
  <2>2. IsFold(images, group_sites, g, at_hunk, at_reloc)'
    BY <1>1, <2>1, FoldNext
  <2>3. SizeOf(all_hunks, DOMAIN all_hunks)' < Word
    BY <1>1, <1>2
  <2>4. QED
    BY <1>1, <2>2, <2>3 DEF FoldInvariant

LEMMA InitFold == BuildInit => FoldInvariant
BY DEF BuildInit, FoldInvariant

\* Until the first group is flattened there is nothing to fold.
LEMMA NothingCopied ==
  ASSUME GroupedFilesAssumption, GroupsInvariant, FoldInvariant, AcceptFile \/ Classify \/ Classified
  PROVE  FoldInvariant'
<1>1. UNCHANGED <<all_hunks, images, group_sites>> /\ images = <<>> /\ group_sites = <<>>
  BY DEF FoldInvariant, AcceptFile, Classify, Classified
<1>2. CASE AcceptFile
  <2>1. building' = "classify" /\ Check = "none"
    BY <1>2 DEF AcceptFile
  <2>2. ~(SizeOf(all_hunks, DOMAIN all_hunks) > Word - 1)
    BY <2>1 DEF Check
  <2>3. SizeOf(all_hunks, DOMAIN all_hunks) \in Nat
    <3>1. IsExecutable(all_hunks)
      BY ExecutableFacts DEF GroupsInvariant, GroupsProgress
    <3>2. \A A \in SUBSET DOMAIN all_hunks : SizeOf(all_hunks, A) \in Nat
      BY <3>1, SizeFacts
    <3>3. QED
      BY <3>2
  <2>4. SizeOf(all_hunks, DOMAIN all_hunks) < Word
    BY <2>2, <2>3, WordAssumption
  <2>5. SizeOf(all_hunks, DOMAIN all_hunks)' < Word
    BY <1>1, <2>4
  <2>6. QED
    BY <1>1, <2>1, <2>5 DEF FoldInvariant
<1>3. CASE Classify
  <2>1. building = "classify" /\ building' = "classify"
    BY <1>3 DEF Classify
  <2>2. SizeOf(all_hunks, DOMAIN all_hunks)' < Word
    BY <1>1, <2>1 DEF FoldInvariant
  <2>3. QED
    BY <1>1, <2>1, <2>2 DEF FoldInvariant
<1>4. CASE Classified
  <2>1. /\ building = "classify" /\ building' = "flatten" /\ at_hunk \notin DOMAIN all_hunks
        /\ UNCHANGED <<g, attrs, group_ids>>
    BY <1>4 DEF Classified, HunkLeft
  <2>2. SizeOf(all_hunks, DOMAIN all_hunks)' < Word
    BY <1>1, <2>1 DEF FoldInvariant
  <2>3. all_hunks \in GroupedFiles /\ g = 0 /\ Classed(at_hunk - 1) /\ at_hunk \in 1 .. Len(all_hunks) + 1
    BY <2>1 DEF GroupsInvariant, GroupsProgress, GroupsClassed
  <2>4. DOMAIN all_hunks = 1 .. Len(all_hunks) /\ Len(all_hunks) \in Nat
    BY <2>3, ExecutableFacts
  <2>5. at_hunk - 1 = Len(all_hunks)
    BY <2>1, <2>3, <2>4
  <2>6. \A h \in DOMAIN all_hunks : ~(group_ids[h] < 0)
    <3>1. attrs \in Seq(Memory) /\ \A h \in 1 .. Len(all_hunks) : group_ids[h] \in Groups
      BY <2>3, <2>5 DEF Classed
    <3>2. Len(attrs) \in Nat
      BY <3>1
    <3>3. QED
      BY <2>4, <3>1, <3>2 DEF Groups
  <2>7. AreCopied(images, 0)
    <3>1. <<>> \in Seq(Range(<<>>)) /\ Len(<<>>) = 0 /\ DOMAIN <<>> = {}
      OBVIOUS
    <3>2. QED
      BY <1>1, <2>6, <3>1 DEF AreCopied, LoadedHunks
  <2>8. AreCopied(images, g)'
    <3>1. AreCopied(images', g')
      BY <1>1, <2>1, <2>3, <2>7
    <3>2. QED
      BY <1>1, <2>1, <3>1, CopyStays
  <2>9. QED
    BY <1>1, <2>1, <2>2, <2>8 DEF FoldInvariant
<1>5. QED
  BY <1>2, <1>3, <1>4

LEMMA CopyPasses ==
  ASSUME FoldInvariant, BaseOfHunk \/ GroupBased
  PROVE  FoldInvariant'
<1>1. /\ UNCHANGED <<all_hunks, attrs, group_ids, images, group_sites>> /\ building = "base" /\ group_sites = <<>>
      /\ (building' = "base" /\ g' = g) \/ (building' = "flatten" /\ g' = g + 1)
  BY DEF FoldInvariant, BaseOfHunk, GroupBased
<1>2. AreCopied(images, g + 1) /\ SizeOf(all_hunks, DOMAIN all_hunks) < Word
  BY <1>1 DEF FoldInvariant
<1>3. SizeOf(all_hunks, DOMAIN all_hunks)' < Word
  BY <1>1, <1>2
<1>4. \A n : AreCopied(images', n) => AreCopied(images, n)'
  BY <1>1, CopyStays
<1>5. CASE building' = "base" /\ g' = g
  <2>1. AreCopied(images', g' + 1)
    BY <1>1, <1>2, <1>5
  <2>2. AreCopied(images, g + 1)'
    BY <1>4, <2>1
  <2>3. QED
    BY <1>1, <1>3, <1>5, <2>2 DEF FoldInvariant
<1>6. CASE building' = "flatten" /\ g' = g + 1
  <2>1. AreCopied(images', g')
    BY <1>1, <1>2, <1>6
  <2>2. AreCopied(images, g)'
    BY <1>4, <2>1
  <2>3. QED
    BY <1>1, <1>3, <1>6, <2>2 DEF FoldInvariant
<1>7. QED
  BY <1>1, <1>5, <1>6

LEMMA FoldReturned ==
  ASSUME FoldInvariant, Return
  PROVE  FoldInvariant'
<1>1. /\ building = "fold" /\ building' = "done" /\ g = Len(attrs)
      /\ UNCHANGED <<all_hunks, bases, attrs, group_ids, images, group_sites>>
  BY DEF Return
<1>2. IsFold(images, group_sites, g, at_hunk, at_reloc) /\ SizeOf(all_hunks, DOMAIN all_hunks) < Word
  BY <1>1 DEF FoldInvariant
<1>3. IsFold(images', group_sites', Len(attrs'), at_hunk, at_reloc)
  BY <1>1, <1>2
<1>4. IsFold(images', group_sites', Len(attrs'), at_hunk, at_reloc) => \E n, p : IsFold(images', group_sites', Len(attrs'), n, p)
  OBVIOUS
<1>5. PICK n, p : IsFold(images', group_sites', Len(attrs'), n, p)
  BY <1>3, <1>4
<1>6. IsFold(images, group_sites, Len(attrs), n, p)'
  BY <1>1, <1>5, FoldNext
<1>7. SizeOf(all_hunks, DOMAIN all_hunks)' < Word
  BY <1>1, <1>2
<1>8. QED
  BY <1>1, <1>6, <1>7 DEF FoldInvariant

LEMMA FoldRests ==
  ASSUME FoldInvariant, UNCHANGED build_vars
  PROVE  FoldInvariant'
<1>1. UNCHANGED <<all_hunks, building, g, at_hunk, at_reloc, attrs, group_ids, bases, images, group_sites>>
  BY DEF build_vars
<1>2. /\ building' \notin {"check", "error"} => SizeOf(all_hunks, DOMAIN all_hunks)' < Word
      /\ building' \in {"check", "classify", "flatten", "base"} => group_sites' = <<>>
      /\ building' \in {"check", "classify"} => images' = <<>>
  BY <1>1 DEF FoldInvariant
<1>3. \A n : AreCopied(images', n) => AreCopied(images, n)'
  BY <1>1, CopyStays
<1>4. building' = "flatten" => AreCopied(images, g)'
  <2>1. building' = "flatten" => AreCopied(images', g')
    BY <1>1 DEF FoldInvariant
  <2>2. QED
    BY <1>3, <2>1
<1>5. building' = "base" => AreCopied(images, g + 1)'
  <2>1. building' = "base" => AreCopied(images', g' + 1)
    BY <1>1 DEF FoldInvariant
  <2>2. QED
    BY <1>3, <2>1
<1>6. building' = "fold" => IsFold(images, group_sites, g, at_hunk, at_reloc)'
  <2>1. building' = "fold" => IsFold(images', group_sites', g', at_hunk', at_reloc')
    BY <1>1 DEF FoldInvariant
  <2>2. QED
    BY <1>1, <2>1, FoldNext
<1>7. ASSUME building' = "done" PROVE \E n, p : IsFold(images, group_sites, Len(attrs), n, p)'
  <2>1. PICK n, p : IsFold(images, group_sites, Len(attrs), n, p)
    BY <1>1, <1>7 DEF FoldInvariant
  <2>2. IsFold(images', group_sites', Len(attrs'), n, p)
    BY <1>1, <2>1
  <2>3. IsFold(images, group_sites, Len(attrs), n, p)'
    BY <1>1, <2>2, FoldNext
  <2>4. QED
    BY <2>3
<1>8. QED
  BY <1>2, <1>4, <1>5, <1>6, <1>7 DEF FoldInvariant

LEMMA NextFold ==
  GroupedFilesAssumption /\ RoomAssumption /\ GroupsInvariant /\ FoldInvariant /\ [BuildNext]_build_vars => FoldInvariant'
<1> SUFFICES ASSUME GroupedFilesAssumption, RoomAssumption, GroupsInvariant, FoldInvariant, [BuildNext]_build_vars
             PROVE  FoldInvariant'
  OBVIOUS
<1>1. CASE RejectFile \/ RejectFold \/ BuildCannotGrow
  <2>1. building' = "error"
    BY <1>1 DEF RejectFile, RejectFold, BuildCannotGrow, BuildFails
  <2>2. QED
    BY <2>1 DEF FoldInvariant
<1>2. CASE AcceptFile \/ Classify \/ Classified
  BY <1>2, NothingCopied
<1>3. CASE FlattenGroup
  BY <1>3, GroupCopied
<1>4. CASE BaseOfHunk \/ GroupBased
  BY <1>4, CopyPasses
<1>5. CASE AllFlattened
  BY <1>5, AllCopied
<1>6. CASE FoldInGroup
  BY <1>6, RelocFolded
<1>7. CASE SkipHunk
  BY <1>7, HunkFolded
<1>8. CASE EncodeGroup
  BY <1>8, GroupFolded
<1>9. CASE Return
  BY <1>9, FoldReturned
<1>10. CASE UNCHANGED build_vars
  BY <1>10, FoldRests
<1>11. QED
  BY <1>1, <1>2, <1>3, <1>4, <1>5, <1>6, <1>7, <1>8, <1>9, <1>10 DEF BuildNext

-----------------------------------------------------------------------------
(* The groups: what the runtime makes of the images.                       *)

\* What a relocated longword comes to, once the runtime has added where the
\* groups are, is what LoadSeg makes of it.
LEMMA LongwordIsRight ==
  ASSUME GroupedFilesAssumption, RoomAssumption, GroupsInvariant, FoldInvariant, building = "done",
         NEW at \in [Groups -> LoadBases], NEW j \in LoadedHunks(all_hunks), NEW q \in DOMAIN all_hunks[j].relocs
  PROVE  LET o       == all_hunks[j].relocs[q].offset
             mine    == images[group_ids[j] + 1]
             decoded == DecodeGroupStream(mine.stream)
             here    == {n \in DOMAIN decoded : decoded[n].offset = Spot(j) + o}
         IN  (mine.longs[Spot(j) + o] + SumFunctionOnSet([n \in here |-> at[decoded[n].target]], here)) % Word
               = LoadSegLong(all_hunks, j, o, [t \in DOMAIN all_hunks |-> at[group_ids[t]] + bases[t]])
<1> DEFINE o       == all_hunks[j].relocs[q].offset
           mine    == images[group_ids[j] + 1]
           decoded == DecodeGroupStream(mine.stream)
           landing == Landing(decoded, Spot(j) + o)
           here    == Here(DOMAIN all_hunks[j].relocs, j, o)
           l       == all_hunks[j].longs[o]
           shift   == [m \in Nat |-> IF m \in Groups THEN at[m] ELSE 0]
           told    == [n \in landing |-> at[decoded[n].target]]
           added   == [n \in here |-> at[group_ids[all_hunks[j].relocs[n].target]] + bases[all_hunks[j].relocs[n].target]]
           first   == SumFunctionOnSet(TargetBases(j), here)
           second  == SumFunctionOnSet(Wanted(j, shift), here)
<1>1. AreGrouped /\ all_hunks \in GroupedFiles /\ Len(attrs) \in Nat
  BY FoldFacts
<1>2. j \in DOMAIN all_hunks /\ group_ids[j] \in Groups /\ Groups \subseteq Nat
      /\ \A t \in DOMAIN all_hunks : group_ids[t] \in Groups
  <2>1. Classed(Len(all_hunks)) /\ DOMAIN all_hunks = 1 .. Len(all_hunks)
    BY <1>1, ExecutableFacts DEF GroupsInvariant, GroupsClassed
  <2>2. QED
    BY <1>1, <2>1 DEF Classed, LoadedHunks, Groups
<1>3. /\ \A n \in DOMAIN all_hunks[j].relocs : IsValid(j, n)
      /\ AreFolded(mine.longs, j, DOMAIN all_hunks[j].relocs)
      /\ AreNamed(decoded, j, DOMAIN all_hunks[j].relocs) /\ AreTold(decoded)
  <2>1. PICK n, p : IsFold(images, group_sites, Len(attrs), n, p)
    BY DEF FoldInvariant
  <2>2. group_ids[j] < Len(attrs)
    BY <1>1, <1>2 DEF Groups
  <2>3. Handled(j, Len(attrs), n, p) = DOMAIN all_hunks[j].relocs
    BY <2>2 DEF Handled
  <2>4. /\ \A m \in Handled(j, Len(attrs), n, p) : IsValid(j, m)
        /\ IsFolded(images, group_sites, Len(attrs), j, Handled(j, Len(attrs), n, p))
    BY <1>2, <2>1 DEF IsFold
  <2>5. QED
    BY <2>2, <2>3, <2>4 DEF IsFolded
<1>4. o \in DOMAIN all_hunks[j].longs /\ l \in Nat /\ IsFiniteSet(DOMAIN all_hunks[j].relocs) /\ bases[j] = Spot(j)
  BY <1>1, <1>2, <1>3, RelocFacts DEF AreGrouped
<1>5. shift \in [Nat -> Nat] /\ \A m \in Groups : shift[m] = at[m] /\ at[m] \in Nat
  BY <1>2 DEF RoomAssumption
<1>6. /\ mine.longs[Spot(j) + o] = (l + first) % Word
      /\ SumFunctionOnSet(AddedAt(decoded, shift), landing) = second
  BY <1>3, <1>4, <1>5 DEF AreFolded, AreNamed
<1> HIDE DEF shift
<1>7. SumFunctionOnSet(told, landing) = second
  <2>1. Len(decoded) \in Nat /\ DOMAIN decoded = 1 .. Len(decoded)
    BY <1>3, SiteFacts DEF AreTold
  <2>2. landing \in SUBSET DOMAIN decoded
    BY DEF Landing
  <2>3. IsFiniteSet(landing)
    BY <2>1, <2>2, FirstCount, FS_Subset
  <2>4. \A n \in landing : told[n] \in Nat /\ AddedAt(decoded, shift)[n] = told[n]
    BY <1>3, <1>5, <2>2 DEF AreTold, AddedAt
  <2> HIDE DEF landing, told
  <2>5. IsNumeric(told, landing)
    BY <2>4 DEF IsNumeric
  <2>6. SumFunctionOnSet(told, landing) = SumFunctionOnSet(AddedAt(decoded, shift), landing)
    BY <2>3, <2>4, <2>5, SumsAgree
  <2>7. QED
    BY <1>6, <2>6
<1>8. IsFiniteSet(here) /\ here \in SUBSET DOMAIN all_hunks[j].relocs
  <2>1. here \in SUBSET DOMAIN all_hunks[j].relocs
    BY DEF Here
  <2>2. QED
    BY <1>4, <2>1, FS_Subset
<1>9. ASSUME NEW n \in here
      PROVE  /\ TargetBases(j)[n] \in Nat /\ Wanted(j, shift)[n] \in Nat
             /\ added[n] = TargetBases(j)[n] + Wanted(j, shift)[n]
  <2>1. n \in DOMAIN all_hunks[j].relocs /\ IsValid(j, n)
    BY <1>3, <1>8
  <2>2. /\ TargetBases(j)[n] = bases[all_hunks[j].relocs[n].target] /\ TargetBases(j)[n] \in Nat
        /\ Wanted(j, shift)[n] = shift[group_ids[all_hunks[j].relocs[n].target]] /\ Wanted(j, shift)[n] \in Nat
    BY <1>1, <1>2, <1>5, <2>1, AddendsAre
  <2>3. all_hunks[j].relocs[n].target \in DOMAIN all_hunks
    BY <1>1, <1>2, <2>1, RelocFacts
  <2>4. shift[group_ids[all_hunks[j].relocs[n].target]] = at[group_ids[all_hunks[j].relocs[n].target]]
    BY <1>2, <1>5, <2>3
  <2>5. added[n] = at[group_ids[all_hunks[j].relocs[n].target]] + bases[all_hunks[j].relocs[n].target]
    OBVIOUS
  <2>6. \A x, y \in Nat : x + y = y + x
    OBVIOUS
  <2>7. QED
    BY <2>2, <2>4, <2>5, <2>6
<1>10. LoadSegLong(all_hunks, j, o, [t \in DOMAIN all_hunks |-> at[group_ids[t]] + bases[t]])
         = (l + SumFunctionOnSet(added, here)) % Word
  <2>1. {n \in DOMAIN all_hunks[j].relocs : all_hunks[j].relocs[n].offset = o} = here
    BY DEF Here
  <2>2. [n \in here |-> [t \in DOMAIN all_hunks |-> at[group_ids[t]] + bases[t]][all_hunks[j].relocs[n].target]] = added
    <3>1. \A n \in here : all_hunks[j].relocs[n].target \in DOMAIN all_hunks
      BY <1>1, <1>2, <1>3, <1>8, RelocFacts
    <3>2. QED
      BY <3>1
  <2>3. DOMAIN added = here
    OBVIOUS
  <2>4. QED
    BY <2>1, <2>2, <2>3 DEF LoadSegLong, SumFunction
<1> HIDE DEF added
<1>11. first \in Nat /\ second \in Nat /\ SumFunctionOnSet(added, here) = first + second
  <2>1. \A n \in here : /\ TargetBases(j)[n] \in Nat /\ Wanted(j, shift)[n] \in Nat
                        /\ added[n] = TargetBases(j)[n] + Wanted(j, shift)[n]
    BY <1>9
  <2> HIDE DEF here
  <2>2. IsNumeric(TargetBases(j), here) /\ IsNumeric(Wanted(j, shift), here)
    BY <2>1 DEF IsNumeric
  <2>3. first \in Nat /\ second \in Nat
    BY <1>8, <2>1, SumIsNat
  <2>4. QED
    BY <1>8, <2>1, <2>2, <2>3, SumOfSums
<1> HIDE DEF l, first, second, told
<1>12. (((l + first) % Word) + second) % Word = ((l + first) + second) % Word
  <2>1. l + first \in Int /\ second \in Int
    BY <1>4, <1>11
  <2>2. QED
    BY <2>1, WordAssumption, WrapsOnce
<1>13. (l + first) + second = l + (first + second)
  BY <1>4, <1>11
<1>14. (mine.longs[Spot(j) + o] + SumFunctionOnSet(told, landing)) % Word
         = LoadSegLong(all_hunks, j, o, [t \in DOMAIN all_hunks |-> at[group_ids[t]] + bases[t]])
  BY <1>6, <1>7, <1>10, <1>11, <1>12, <1>13
<1>15. QED
  BY <1>14 DEF told, Landing

\* Wherever the groups of an image are loaded, each of its relocated longwords
\* ends up as LoadSeg would have made it: flattenGroups and the dispatcher
\* together do what the operating system does.
THEOREM PointersAreRight ==
  ASSUME GroupedFilesAssumption, RoomAssumption
  PROVE  BuildSpec => []PointersAcrossGroups
<1>1. GroupsInvariant /\ FoldInvariant => PointersAcrossGroups
  <2> SUFFICES ASSUME GroupsInvariant, FoldInvariant, building = "done",
                      NEW at \in [Groups -> LoadBases], NEW j \in LoadedHunks(all_hunks),
                      NEW r \in Range(all_hunks[j].relocs)
               PROVE  LET mine    == images[group_ids[j] + 1]
                          decoded == DecodeGroupStream(mine.stream)
                          site    == PlaceOf(j) + r.offset
                          here    == {n \in DOMAIN decoded : decoded[n].offset = site}
                      IN  (mine.longs[site] + SumFunction([n \in here |-> at[decoded[n].target]])) % Word
                            = LoadSegLong(all_hunks, j, r.offset, [t \in DOMAIN all_hunks |-> at[group_ids[t]] + PlaceOf(t)])
    BY DEF PointersAcrossGroups
  <2>1. AreGrouped /\ all_hunks \in GroupedFiles
    BY FoldFacts
  <2>2. \A t \in DOMAIN all_hunks : PlaceOf(t) = Spot(t) /\ PlaceOf(t) = bases[t]
    BY <2>1, ClassedFacts, GroupLayout DEF AreGrouped
  <2>3. j \in DOMAIN all_hunks
    BY DEF LoadedHunks
  <2>4. [t \in DOMAIN all_hunks |-> at[group_ids[t]] + PlaceOf(t)] = [t \in DOMAIN all_hunks |-> at[group_ids[t]] + bases[t]]
    BY <2>2
  <2>5. PICK q \in DOMAIN all_hunks[j].relocs : r = all_hunks[j].relocs[q]
    BY DEF Range
  <2> DEFINE decoded == DecodeGroupStream(images[group_ids[j] + 1].stream)
             here    == {n \in DOMAIN decoded : decoded[n].offset = Spot(j) + r.offset}
             told    == [n \in here |-> at[decoded[n].target]]
  <2>6. SumFunction(told) = SumFunctionOnSet(told, here)
    <3>1. DOMAIN told = here
      OBVIOUS
    <3>2. QED
      BY <3>1 DEF SumFunction
  <2>7. (images[group_ids[j] + 1].longs[Spot(j) + r.offset] + SumFunctionOnSet(told, here)) % Word
          = LoadSegLong(all_hunks, j, r.offset, [t \in DOMAIN all_hunks |-> at[group_ids[t]] + bases[t]])
    BY <2>5, LongwordIsRight
  <2>8. QED
    BY <2>2, <2>3, <2>4, <2>6, <2>7
<1>2. QED
  BY <1>1, InitGroups, NextGroups, InitFold, NextFold, PTL DEF BuildSpec
=============================================================================
