------------------------------ MODULE HunkFile ------------------------------
(***************************************************************************)
(* Reading an AmigaDOS load file: parse of src/hunk.zig.  One to three     *)
(* bytes after the last whole longword are never read, and left out.       *)
(* Names are the reader's own, so that a module may also extend one of     *)
(* those that take what it has read.                                       *)
(***************************************************************************)
EXTENDS HunkFormat

CONSTANT Files   \* what is parsed, and what it was written from

\* A file is what was written, perhaps with more after it, unless it is cut
\* short (not whole), or altered in a longword.
FilesAssumption ==
  \A f \in Files :
    /\ f.words \in Seq(Longword)
    /\ f.written \in LinkedFiles
    /\ {f.whole, f.altered} \subseteq BOOLEAN
    /\ ~f.altered => IF f.whole THEN IsPrefix(LoadFile(f.written), f.words)
                                ELSE IsStrictPrefix(f.words, LoadFile(f.written))

VARIABLES
  file,
  reading,     \* what is read next
  want,        \* in how many longwords
  pos,         \* longwords consumed
  table_size,
  table,       \* mem_attrs and planned_sizes
  hunk,        \* the hunk being read
  parsed,      \* the hunks read
  parse_error

parse_vars == <<file, reading, want, pos, table_size, table, hunk, parsed, parse_error>>

NoHunk == [kind |-> "bss", mem_attr |-> "any", data |-> <<>>, size_bytes |-> 0,
           allocated_size |-> 0, relocs |-> <<>>]

ParseInit ==
  /\ file \in Files
  /\ reading = "magic" /\ want = 1 /\ pos = 0
  /\ table_size = 0 /\ table = <<>>
  /\ hunk = NoHunk /\ parsed = <<>>
  /\ parse_error = "none"

-----------------------------------------------------------------------------
(* The cursor: u32be and take.                                             *)

Left     == Len(file.words) - pos
Ahead(k) == file.words[pos + k]

\* A count with its high bits set is more than any file has.
Count(w) == IF w.flags = 0 THEN w.value ELSE Len(file.words) + 1

\* The step at p has its words; it continues at next, which takes n.
CanRead(p)  == reading = p /\ want <= Left
Reads(p)    == CanRead(p) /\ pos' = pos + want /\ file' = file /\ parse_error' = parse_error
Goto(p, n)  == reading' = p /\ want' = n
ParseFails(e) ==
  /\ reading' = "error" /\ parse_error' = e /\ want' = 0
  /\ UNCHANGED <<file, pos, table_size, table, hunk, parsed>>

Truncated == want > Left /\ ParseFails("Truncated")

-----------------------------------------------------------------------------
(* The header.                                                             *)

ReadMagic ==
  /\ Reads("magic")
  /\ Ahead(1) = W(HUNK_HEADER)
  /\ Goto("names", 1)
  /\ UNCHANGED <<table_size, table, hunk, parsed>>

NotAHunkFile == CanRead("magic") /\ Ahead(1) # W(HUNK_HEADER) /\ ParseFails("NotAHunkFile")

\* Resident library names are skipped, as the comment there says
\* (hunk.zig:126); the one at the top says that they are rejected (hunk.zig:13).
ReadNameLength ==
  /\ Reads("names")
  /\ IF Ahead(1) = W(0) THEN Goto("range", 3) ELSE Goto("name", Count(Ahead(1)))
  /\ UNCHANGED <<table_size, table, hunk, parsed>>

SkipName ==
  /\ Reads("name")
  /\ Goto("names", 1)
  /\ UNCHANGED <<table_size, table, hunk, parsed>>

WholeRange ==
  /\ Ahead(2) = W(0)
  /\ \/ Ahead(1) = W(0)
     \/ Ahead(1).value > 0 /\ Ahead(3) = [Ahead(1) EXCEPT !.value = @ - 1]

ReadRange ==
  /\ Reads("range")
  /\ WholeRange
  /\ table_size' = Count(Ahead(1))
  /\ IF Ahead(1) = W(0) THEN Goto("done", 0) ELSE Goto("sizes", 1)
  /\ UNCHANGED <<table, hunk, parsed>>

PartialRange == CanRead("range") /\ ~WholeRange /\ ParseFails("UnsupportedOverlay")

ReadSize ==
  /\ Reads("sizes")
  /\ Ahead(1).flags # 3
  /\ table' = Append(table, [mem_attr |-> MemAttrs[Ahead(1).flags + 1], size |-> 4 * Ahead(1).value])
  /\ IF Len(table') < table_size THEN Goto("sizes", 1) ELSE Goto("type", 1)
  /\ UNCHANGED <<table_size, hunk, parsed>>

ExtendedSize == CanRead("sizes") /\ Ahead(1).flags = 3 /\ ParseFails("UnsupportedExtendedMemFlags")

-----------------------------------------------------------------------------
(* One hunk.                                                               *)

Planned == table[Len(parsed) + 1]

\* TYPE_MASK drops the advisory bits.
ReadType ==
  /\ Reads("type")
  /\ Ahead(1).value \in DOMAIN Kinds
  /\ hunk' = [NoHunk EXCEPT !.kind = Kinds[Ahead(1).value], !.mem_attr = Planned.mem_attr,
                            !.allocated_size = Planned.size]
  /\ Goto("length", 1)
  /\ UNCHANGED <<table_size, table, parsed>>

BadType ==
  /\ CanRead("type") /\ Ahead(1).value \notin DOMAIN Kinds
  /\ ParseFails(IF Ahead(1).value \in {HUNK_OVERLAY, HUNK_LIB, HUNK_INDEX}
           THEN "UnsupportedOverlay" ELSE "UnsupportedHunkType")

\* Faulty: the body may be longer than the allocation.
ReadLengthUnchecked ==
  /\ Reads("length")
  /\ hunk' = [hunk EXCEPT !.size_bytes = 4 * Ahead(1).value]
  /\ Goto("body", IF hunk.kind = "bss" THEN 0 ELSE Ahead(1).value)
  /\ UNCHANGED <<table_size, table, parsed>>

\* length_longs * 4 in 32 bits, where the product is not checked.
ReadLength ==
  /\ Reads("length")
  /\ 4 * Ahead(1).value <= Planned.size
  /\ hunk' = [hunk EXCEPT !.size_bytes = 4 * Ahead(1).value]
  /\ Goto("body", IF hunk.kind = "bss" THEN 0 ELSE Ahead(1).value)
  /\ UNCHANGED <<table_size, table, parsed>>

TooLong == CanRead("length") /\ 4 * Ahead(1).value > Planned.size /\ ParseFails("MalformedHunk")

\* Where the product is checked, the program panics.
LengthOverflows == CanRead("length") /\ Ahead(1).flags # 0 /\ ParseFails("panic")

ReadBody ==
  /\ Reads("body")
  /\ hunk' = [hunk EXCEPT !.data = SubSeq(file.words, pos + 1, pos + want)]
  /\ Goto("trailer", 1)
  /\ UNCHANGED <<table_size, table, parsed>>

Blocks ==
  [type \in {HUNK_RELOC32, HUNK_SYMBOL, HUNK_DEBUG} |->
     CASE type = HUNK_RELOC32 -> "relocs" [] type = HUNK_SYMBOL -> "symbols" [] OTHER -> "debug"]

ReadBlock ==
  /\ Reads("trailer")
  /\ Ahead(1).value \in DOMAIN Blocks
  /\ Goto(Blocks[Ahead(1).value], 1)
  /\ UNCHANGED <<table_size, table, hunk, parsed>>

ReadEnd ==
  /\ Reads("trailer")
  /\ Ahead(1).value = HUNK_END
  /\ parsed' = Append(parsed, hunk)
  /\ hunk' = NoHunk
  /\ IF Len(parsed') < table_size THEN Goto("type", 1) ELSE Goto("done", 0)
  /\ UNCHANGED <<table_size, table>>

BadBlock ==
  /\ CanRead("trailer")
  /\ Ahead(1).value \notin DOMAIN Blocks \cup {HUNK_END}
  /\ ParseFails("UnsupportedHunkType")

-----------------------------------------------------------------------------
(* readReloc32Block, skipSymbolTable and skipLengthPrefixed.               *)

ReadRelocCount ==
  /\ Reads("relocs")
  /\ IF Ahead(1) = W(0) THEN Goto("trailer", 1) ELSE Goto("offsets", 1 + Count(Ahead(1)))
  /\ UNCHANGED <<table_size, table, hunk, parsed>>

\* Faulty: only one group of relocations is expected.
ReadOneGroup ==
  /\ Reads("offsets")
  /\ hunk' = [hunk EXCEPT !.relocs = @ \o [n \in 1 .. want - 1 |-> [target |-> Ahead(1), offset |-> Ahead(n + 1)]]]
  /\ Goto("trailer", 1)
  /\ UNCHANGED <<table_size, table, parsed>>

\* The target hunk, then the offsets that refer to it.
ReadOffsets ==
  /\ Reads("offsets")
  /\ hunk' = [hunk EXCEPT !.relocs = @ \o [n \in 1 .. want - 1 |-> [target |-> Ahead(1), offset |-> Ahead(n + 1)]]]
  /\ Goto("relocs", 1)
  /\ UNCHANGED <<table_size, table, parsed>>

ReadSymbolLength ==
  /\ Reads("symbols")
  /\ IF Ahead(1) = W(0) THEN Goto("trailer", 1) ELSE Goto("symbol", Count(Ahead(1)) + 1)
  /\ UNCHANGED <<table_size, table, hunk, parsed>>

SkipSymbol ==
  /\ Reads("symbol")
  /\ Goto("symbols", 1)
  /\ UNCHANGED <<table_size, table, hunk, parsed>>

ReadDebugLength ==
  /\ Reads("debug")
  /\ Goto("debug_data", Count(Ahead(1)))
  /\ UNCHANGED <<table_size, table, hunk, parsed>>

SkipDebug ==
  /\ Reads("debug_data")
  /\ Goto("trailer", 1)
  /\ UNCHANGED <<table_size, table, hunk, parsed>>

\* The lists of the table, of the hunks and of the relocations may fail to grow.
ListCannotGrow ==
  /\ \/ reading = "sizes" /\ table = <<>>
     \/ reading = "type" /\ parsed = <<>>
     \/ reading = "offsets" /\ Left > 1
     \/ CanRead("trailer") /\ Ahead(1).value = HUNK_END
  /\ ParseFails("OutOfMemory")

ParseNext ==
  \/ Truncated \/ ReadMagic \/ NotAHunkFile \/ ReadNameLength \/ SkipName
  \/ ReadRange \/ PartialRange \/ ReadSize \/ ExtendedSize
  \/ ReadType \/ BadType \/ ReadLength \/ TooLong \/ LengthOverflows \/ ReadBody
  \/ ReadBlock \/ ReadEnd \/ BadBlock
  \/ ReadRelocCount \/ ReadOffsets \/ ReadSymbolLength \/ SkipSymbol
  \/ ReadDebugLength \/ SkipDebug \/ ListCannotGrow
  \/ reading \in {"done", "error"} /\ UNCHANGED parse_vars

ParseSpec == ParseInit /\ [][ParseNext]_parse_vars

-----------------------------------------------------------------------------
(* Properties.                                                             *)

\* What was written, by the packer or by a linker, is read back hunk by hunk
\* and to the last relocation, whatever blocks are skipped on the way; and no
\* file cut short is taken for a whole one.  That goes for files with names of
\* resident libraries, too: here the code is followed, which skips them, and
\* not hunk.zig:11-16, according to which they are "rejected with a clear error".
ReadsBack ==
  /\ reading = "done" /\ ~file.altered => file.whole /\ parsed = HunksOf(file.written)
  /\ reading = "error" /\ ~file.altered /\ parse_error # "OutOfMemory" =>
       ~file.whole /\ parse_error = "Truncated"

\* Altered or not, a file that is accepted has the hunks of its table, each no
\* longer than its allocation and with as many bytes as it says: what flatten
\* and memory_groups.build take for granted.
HunksAreSound ==
  reading = "done" =>
    /\ Len(parsed) = table_size
    /\ pos <= Len(file.words)
    /\ \A n \in DOMAIN parsed :
         /\ parsed[n].size_bytes <= parsed[n].allocated_size
         /\ 4 * Len(parsed[n].data) = IF parsed[n].kind = "bss" THEN 0 ELSE parsed[n].size_bytes
         /\ parsed[n].mem_attr \in {"any", "chip", "fast"}
=============================================================================
