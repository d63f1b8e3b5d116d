----------------------------- MODULE FlatLayout -----------------------------
(***************************************************************************)
(* Executables as sequences of hunks, where merging them puts each hunk,   *)
(* and what relocating the merged image must yield.  A hunk's bytes are    *)
(* named by where they come from; of its longwords only the relocated ones *)
(* have values, which are what the relocations add addresses to.           *)
(***************************************************************************)
EXTENDS Integers, Sequences, Functions

CONSTANT Word   \* values of a 32-bit word, fewer in the models

ASSUME WordAssumption == Word \in Nat \ {0}

IsReloc(r) == r.offset \in Nat /\ r.target \in Nat \ {0}

\* size: what LoadSeg allocates; len: the bytes the file holds of it.
\* Targets count hunks from one.
IsHunk(h) ==
  /\ h.kind \in {"code", "data", "bss"}
  /\ h.attr \in {"any", "chip", "fast"}
  /\ h.size \in 0 .. Word - 1 /\ h.size % 4 = 0
  /\ h.len \in 0 .. h.size /\ h.len % 4 = 0
  /\ h.kind = "bss" => h.len = 0
  /\ h.relocs \in Seq(Range(h.relocs))
  /\ \A k \in DOMAIN h.relocs : IsReloc(h.relocs[k])
  /\ \A o \in DOMAIN h.longs : o \in Nat /\ o + 4 <= h.len /\ h.longs[o] \in 0 .. Word - 1
  /\ \A k \in DOMAIN h.relocs :
       h.relocs[k].offset % 2 = 0 /\ h.relocs[k].offset + 4 <= h.len =>
         h.relocs[k].offset \in DOMAIN h.longs

BssHunks(hunks)    == {i \in DOMAIN hunks : hunks[i].kind = "bss"}
LoadedHunks(hunks) == DOMAIN hunks \ BssHunks(hunks)

SizeOf(hunks, S) == SumFunctionOnSet([i \in DOMAIN hunks |-> hunks[i].size], S)

\* Hunks with bytes come first, each kind in the file's order.
MergeBase(hunks) ==
  LET before(S, i) == SizeOf(hunks, {j \in S : j < i})
  IN  [i \in DOMAIN hunks |->
        IF i \in BssHunks(hunks)
        THEN SizeOf(hunks, LoadedHunks(hunks)) + before(BssHunks(hunks), i)
        ELSE before(LoadedHunks(hunks), i)]

Area(hunks, base, i) == base[i] .. base[i] + hunks[i].size - 1

\* The areas of hunks S are side by side in from .. to - 1, with no gap.
Tile(hunks, base, S, from, to) ==
  /\ UNION {Area(hunks, base, i) : i \in S} = from .. to - 1
  /\ \A i, j \in S : i # j => Area(hunks, base, i) \cap Area(hunks, base, j) = {}

Pad == <<0, 0>>   \* a byte no hunk defines

\* Byte k of hunk i.
Origin(hunks, i, k) == IF k < hunks[i].len THEN <<i, k>> ELSE Pad

ValidReloc(hunks, i, r) ==
  /\ hunks[i].kind # "bss"
  /\ r.target \in DOMAIN hunks
  /\ r.offset % 2 = 0
  /\ r.offset + 4 <= hunks[i].len

\* The longword at offset o of hunk i, once LoadSeg has put hunk j at at[j].
LoadSegLong(hunks, i, o, at) ==
  LET relocs == hunks[i].relocs
      here   == {k \in DOMAIN relocs : relocs[k].offset = o}
      added  == [k \in here |-> at[relocs[k].target]]
  IN  (hunks[i].longs[o] + SumFunction(added)) % Word
=============================================================================
