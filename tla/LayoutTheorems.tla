--------------------------- MODULE LayoutTheorems ---------------------------
(***************************************************************************)
(* What the other proofs share.  Facts about sizes: those of module        *)
(* ContainerLayout, for every image, payload and margin; and the sums they *)
(* are added up in.  Induction over the natural numbers is stated of a set *)
(* instead of a predicate; with it, SumFunctionOnSet of module Functions   *)
(* does not depend on the order of its additions, and is monotonic.        *)
(* Then what the packer makes of an executable, for every executable, word *)
(* and radix: where merging puts the hunks; and what the relocation stream *)
(* tells the runtime, for every ascending sequence of even sites: record   *)
(* by record, the distances it was made of.                                *)
(***************************************************************************)
EXTENDS ContainerLayout, FlatLayout, RelocStream, Integers, FiniteSets, Functions,
        FiniteSetTheorems, WellFoundedInduction, TLAPS

-----------------------------------------------------------------------------
(* The packed file.                                                        *)

\* Align4 rounds up to a multiple of four, by less than four
\* (std.mem.alignForward and the runtime's addq.l #3 / and.b #$fc).
LEMMA Align4Rounds ==
  ASSUME NEW n \in Nat
  PROVE  /\ Align4(n) \in Nat
         /\ n <= Align4(n)
         /\ Align4(n) <= n + 3
         /\ Align4(n) % 4 = 0
BY DEF Align4

\* Align4 is monotonic and keeps multiples of four.
LEMMA Align4Monotonic ==
  ASSUME NEW m \in Nat, NEW n \in Nat, m <= n
  PROVE  Align4(m) <= Align4(n)
BY DEF Align4

LEMMA Align4Fixed ==
  ASSUME NEW n \in Nat, n % 4 = 0
  PROVE  Align4(n) = n
BY DEF Align4

LEMMA LargerIsUpperBound ==
  ASSUME NEW m \in Nat, NEW n \in Nat
  PROVE  /\ Larger(m, n) \in Nat
         /\ m <= Larger(m, n)
         /\ n <= Larger(m, n)
         /\ \A k \in Nat : m <= k /\ n <= k => Larger(m, n) <= k
BY DEF Larger

LEMMA LargerIsNat ==
  ASSUME NEW m \in Nat, NEW n \in Nat
  PROVE  Larger(m, n) \in Nat
BY DEF Larger

\* Rounding up and taking the larger commute.
LEMMA Align4OfLarger ==
  ASSUME NEW m \in Nat, NEW n \in Nat
  PROVE  Align4(Larger(m, n)) = Larger(Align4(m), Align4(n))
<1>1. CASE m < n
  <2>1. Align4(m) <= Align4(n) /\ Align4(m) \in Nat /\ Align4(n) \in Nat
    BY <1>1, Align4Monotonic, Align4Rounds
  <2> QED
    BY <1>1, <2>1 DEF Larger
<1>2. CASE ~(m < n)
  <2>1. Align4(n) <= Align4(m) /\ Align4(m) \in Nat /\ Align4(n) \in Nat
    BY <1>2, Align4Monotonic, Align4Rounds
  <2> QED
    BY <1>2, <2>1 DEF Larger
<1> QED
  BY <1>1, <1>2

\* The difference of two multiples of four is one.
LEMMA MultiplesOfFour ==
  ASSUME NEW m \in Nat, NEW n \in Nat, m % 4 = 0, n % 4 = 0, n <= m
  PROVE  (m - n) % 4 = 0 /\ m - n \in Nat
OBVIOUS

-----------------------------------------------------------------------------
\* Both size computations, packer's and runtime's, are the rounded-up maximum
\* of the same three needs; with no relocation sites the runtime's resident
\* need may be smaller, because the header stores 0 for a stream of length 1.
LEMMA ResidentTailFacts ==
  ASSUME NEW image \in Images
  PROVE  /\ ResidentTailSize(image) \in Nat
         /\ DepackedSize(image) <= ResidentTailSize(image)
         /\ image.code + image.bss <= ResidentTailSize(image)
<1>1. image.code \in Nat /\ image.bss \in Nat /\ image.stream \in Nat
  BY DEF Images
<1>2. DEFINE tail == Larger(image.bss, image.stream)
<1>3. tail \in Nat /\ image.bss <= tail /\ image.stream <= tail
  BY <1>1, LargerIsUpperBound
<1>4. image.code + tail \in Nat
  BY <1>1, <1>3
<1>5. Align4(image.code + tail) \in Nat /\ image.code + tail <= Align4(image.code + tail)
  BY <1>4, Align4Rounds
<1> QED
  BY <1>1, <1>3, <1>5 DEF ResidentTailSize, DepackedSize

\* An overlapping region has room for the payload as loaded, for the payload
\* the margin above the output's start, and for what stays.
LEMMA OverlapSizeCovers ==
  ASSUME NEW prefix \in Nat, NEW payload \in Nat, NEW margin \in Nat, NEW resident \in Nat
  PROVE  LET allocated == OverlapAllocatedSize(prefix, payload, margin, resident)
         IN  /\ allocated \in Nat /\ allocated % 4 = 0
             /\ prefix + Align4(payload) <= allocated
             /\ margin + Align4(payload) <= allocated
             /\ resident <= allocated
<1> DEFINE moved    == Align4(payload)
           inner    == Larger(resident, margin + moved)
           need     == Larger(prefix + moved, inner)
<1>1. moved \in Nat
  BY Align4Rounds
<1>2. inner \in Nat /\ resident <= inner /\ margin + moved <= inner
  <2> HIDE DEF moved
  <2> QED BY <1>1 DEF Larger
<1>3. need \in Nat /\ prefix + moved <= need /\ inner <= need
  <2> HIDE DEF inner, moved
  <2> QED BY <1>1, <1>2 DEF Larger
<1>4. Align4(need) \in Nat /\ Align4(need) % 4 = 0 /\ need <= Align4(need)
  <2> HIDE DEF need
  <2> QED BY <1>3, Align4Rounds
<1>5. OverlapAllocatedSize(prefix, payload, margin, resident) = Align4(need)
  BY DEF OverlapAllocatedSize
<1> HIDE DEF need, inner, moved
<1>6. /\ Align4(need) \in Nat /\ Align4(need) % 4 = 0
      /\ prefix + moved <= Align4(need)
      /\ margin + moved <= Align4(need)
      /\ resident <= Align4(need)
  BY <1>1, <1>2, <1>3, <1>4
<1> QED
  BY <1>5, <1>6 DEF moved

\* So has the packer's hunk 0, which starts with the trampoline.
LEMMA AllocatedSizeCovers ==
  ASSUME LayoutAssumption, NEW image \in Images, NEW payload \in Nat, NEW margin \in Nat
  PROVE  LET allocated == OverlapAllocatedSize(TrampolineSize, payload, margin, Hunk0Size(image))
         IN  /\ allocated \in Nat
             /\ TrampolineSize + Align4(payload) <= allocated
             /\ margin + Align4(payload) <= allocated
             /\ ResidentTailSize(image) <= allocated
<1> DEFINE resident == Hunk0Size(image)
           allocated == OverlapAllocatedSize(TrampolineSize, payload, margin, resident)
<1>1. TrampolineSize \in Nat /\ Align4(TrampolineSize) \in Nat
  BY Align4Rounds, LayoutAssumption DEF LayoutAssumption
<1>2. ResidentTailSize(image) \in Nat
  BY ResidentTailFacts
<1>3. resident \in Nat /\ ResidentTailSize(image) <= resident
  BY <1>1, <1>2, LargerIsUpperBound DEF Hunk0Size
<1> HIDE DEF resident
<1>4. /\ allocated \in Nat
      /\ TrampolineSize + Align4(payload) <= allocated
      /\ margin + Align4(payload) <= allocated
      /\ resident <= allocated
  BY <1>1, <1>3, OverlapSizeCovers
<1> HIDE DEF allocated
<1>5. ResidentTailSize(image) <= allocated
  BY <1>2, <1>3, <1>4
<1> QED
  BY <1>4, <1>5 DEF allocated, resident

\* Where the runtime puts the payload: long-aligned, not below where LoadSeg
\* put it, at least the margin above the output, and inside hunk 0 even though
\* the runtime's idea of hunk 0's size may be smaller than the packer's.
THEOREM PayloadOffsetIsSafe ==
  ASSUME LayoutAssumption, NEW image \in Images, NEW payload \in Nat, NEW margin \in Nat
  PROVE  LET h      == Header(image, payload, margin)
             offset == OverlapPayloadOffset(h)
         IN  /\ offset \in Nat
             /\ offset % 4 = 0
             /\ TrampolineSize <= offset
             /\ margin <= offset
             /\ offset + Align4(payload)
                  <= OverlapAllocatedSize(TrampolineSize, payload, margin, Hunk0Size(image))
<1> DEFINE h         == Header(image, payload, margin)
           stored    == h.reloc_stream_size
           moved     == Align4(payload)
           resident  == Align4(image.code + Larger(image.bss, stored))
           inner     == Larger(resident, TrampolineSize + moved)
           need      == Larger(inner, margin + moved)
           allocated == OverlapAllocatedSize(TrampolineSize, payload, margin, Hunk0Size(image))
<1>1. /\ image.code \in Nat /\ image.bss \in Nat /\ image.stream \in Nat
      /\ TrampolineSize \in Nat
  BY LayoutAssumption DEF Images, LayoutAssumption
<1>2. stored \in Nat /\ stored <= image.stream
  BY <1>1 DEF Header
<1>3. /\ h.code_data_size = image.code /\ h.bss_size = image.bss
      /\ h.compressed_size = payload /\ h.safety_margin = margin
      /\ h.trampoline_size = TrampolineSize
  BY DEF Header
<1>4. RuntimeAllocatedSize(h) = Align4(need)
  BY <1>3 DEF RuntimeAllocatedSize
<1>5. moved \in Nat /\ moved % 4 = 0
  BY Align4Rounds
<1>6. resident \in Nat /\ resident <= ResidentTailSize(image)
  <2> DEFINE tail == Larger(image.bss, image.stream)
             low  == Larger(image.bss, stored)
  <2> HIDE DEF h, stored
  <2>1. /\ tail \in Nat /\ low \in Nat
        /\ image.bss <= tail /\ image.stream <= tail
    BY <1>1, <1>2, LargerIsUpperBound
  <2>2. low <= tail
    <3>1. stored <= tail
      <4> HIDE DEF tail
      <4> QED BY <1>1, <1>2, <2>1
    <3>2. \A k \in Nat : image.bss <= k /\ stored <= k => Larger(image.bss, stored) <= k
      BY <1>1, <1>2, LargerIsUpperBound
    <3> QED BY <2>1, <3>1, <3>2
  <2>3. image.code + low \in Nat /\ image.code + tail \in Nat /\ image.code + low <= image.code + tail
    <3> HIDE DEF tail, low
    <3> QED BY <1>1, <2>1, <2>2
  <2> HIDE DEF tail
  <2>4. Align4(image.code + low) <= Align4(image.code + tail) /\ Align4(image.code + low) \in Nat
    <3> HIDE DEF low
    <3> QED BY <2>3, Align4Monotonic, Align4Rounds
  <2> QED BY <2>4 DEF ResidentTailSize, tail
<1>7. inner \in Nat /\ resident <= inner /\ TrampolineSize + moved <= inner
  <2> HIDE DEF resident, moved
  <2> QED BY <1>1, <1>5, <1>6 DEF Larger
<1>8. need \in Nat /\ inner <= need /\ margin + moved <= need
  <2> HIDE DEF inner, moved
  <2> QED BY <1>5, <1>7 DEF Larger
<1>9. Align4(need) \in Nat /\ need <= Align4(need) /\ Align4(need) % 4 = 0
  <2> HIDE DEF need
  <2> QED BY <1>8, Align4Rounds
<1>10. Align4(need) <= allocated
  <2>1. /\ allocated \in Nat
        /\ TrampolineSize + moved <= allocated
        /\ margin + moved <= allocated
        /\ ResidentTailSize(image) <= allocated
    BY AllocatedSizeCovers
  <2>2. ResidentTailSize(image) \in Nat
    BY ResidentTailFacts
  <2>3. allocated % 4 = 0
    <3> DEFINE onDisk == TrampolineSize + moved
               least  == Larger(Hunk0Size(image), margin + moved)
    <3>1. Hunk0Size(image) \in Nat
      BY <1>1, <2>2, Align4Rounds, LargerIsUpperBound DEF Hunk0Size
    <3>2. least \in Nat /\ onDisk \in Nat
      <4> HIDE DEF moved
      <4> QED BY <1>1, <1>5, <3>1 DEF Larger
    <3>3. Larger(onDisk, least) \in Nat
      <4> HIDE DEF onDisk, least
      <4> QED BY <3>2, LargerIsUpperBound
    <3>4. Align4(Larger(onDisk, least)) % 4 = 0
      <4> HIDE DEF onDisk, least
      <4> QED BY <3>3, Align4Rounds
    <3> QED BY <3>4 DEF OverlapAllocatedSize
  <2> HIDE DEF allocated, resident, moved
  <2>4. resident <= allocated
    BY <1>6, <2>1, <2>2
  <2>5. inner <= allocated
    <3>1. \A k \in Nat : resident <= k /\ TrampolineSize + moved <= k => inner <= k
      BY <1>1, <1>5, <1>6, LargerIsUpperBound
    <3> QED BY <2>1, <2>4, <3>1
  <2>6. need <= allocated
    <3> HIDE DEF inner
    <3>1. \A k \in Nat : inner <= k /\ margin + moved <= k => need <= k
      BY <1>5, <1>7 DEF Larger
    <3> QED BY <2>1, <2>5, <3>1
  <2> HIDE DEF need
  <2>7. Align4(need) <= Align4(allocated)
    BY <1>8, <2>1, <2>6, Align4Monotonic
  <2> QED BY <2>1, <2>3, <2>7, Align4Fixed
<1> HIDE DEF need, inner, resident, moved, allocated
<1>11. /\ Align4(need) - moved \in Nat
       /\ (Align4(need) - moved) % 4 = 0
  <2>1. moved <= Align4(need)
    BY <1>5, <1>7, <1>8, <1>9, <1>1
  <2> QED BY <1>5, <1>9, <2>1, MultiplesOfFour
<1>12. OverlapPayloadOffset(h) = Align4(need) - moved
  BY <1>3, <1>4 DEF OverlapPayloadOffset, moved
<1>13. allocated \in Nat
  BY AllocatedSizeCovers DEF allocated
<1>14. /\ TrampolineSize <= Align4(need) - moved
       /\ margin <= Align4(need) - moved
       /\ (Align4(need) - moved) + moved <= allocated
  BY <1>1, <1>5, <1>6, <1>7, <1>8, <1>9, <1>10, <1>13
<1> HIDE DEF h
<1> QED
  BY <1>11, <1>12, <1>14 DEF moved, allocated, h

-----------------------------------------------------------------------------
(* Induction.                                                              *)

Less == {p \in Nat \X Nat : p[1] < p[2]}

LEMMA LessIsWellFounded == IsWellFoundedOn(Less, Nat)
BY NatLessThanWellFounded DEF OpToRel, Less

LEMMA LeastElement ==
  ASSUME NEW S, S \subseteq Nat, S # {}
  PROVE  \E n \in S : \A m \in S : n <= m
<1>1. PICK n \in S : \A m \in S : <<m, n>> \notin Less
  BY LessIsWellFounded, WFMin
<1>2. \A m \in S : ~(m < n)
  BY <1>1 DEF Less
<1>3. QED
  BY <1>2

\* What holds of 0 and, with a number, of the next, holds of every number.
LEMMA SetInduction ==
  ASSUME NEW S, 0 \in S, \A n \in Nat : n \in S => n + 1 \in S
  PROVE  \A n \in Nat : n \in S
<1> SUFFICES ASSUME Nat \ S # {}
             PROVE  FALSE
  OBVIOUS
<1>1. PICK n \in Nat \ S : \A m \in Nat \ S : n <= m
  BY LeastElement
<1>2. n - 1 \in Nat /\ n - 1 \in S
  BY <1>1
<1>3. QED
  BY <1>1, <1>2

LEMMA OneLess ==
  ASSUME NEW S, IsFiniteSet(S), NEW n \in Nat, Cardinality(S) = n + 1, NEW x \in S
  PROVE  IsFiniteSet(S \ {x}) /\ Cardinality(S \ {x}) = n
<1>1. Cardinality(S \ {x}) = Cardinality(S) - 1
  BY FS_RemoveElement
<1>2. QED
  BY <1>1, FS_RemoveElement

\* What holds of no elements and, with some of them, of one more, holds of all.
LEMMA SubsetInduction ==
  ASSUME NEW S, IsFiniteSet(S), NEW Good, {} \in Good,
         \A T \in SUBSET S : \A x \in S \ T : T \in Good => T \cup {x} \in Good
  PROVE  S \in Good
<1> DEFINE Sizes == {n \in Nat : \A T \in SUBSET S : Cardinality(T) = n => T \in Good}
<1>a. \A T \in SUBSET S : IsFiniteSet(T) /\ Cardinality(T) \in Nat
  BY FS_Subset, FS_CardinalityType
<1>1. 0 \in Sizes
  BY <1>a, FS_EmptySet
<1>2. ASSUME NEW n \in Nat, n \in Sizes
      PROVE  n + 1 \in Sizes
  <2> SUFFICES ASSUME NEW T \in SUBSET S, Cardinality(T) = n + 1
               PROVE  T \in Good
    OBVIOUS
  <2>1. PICK x \in T : TRUE
    BY <1>a, FS_EmptySet
  <2>2. Cardinality(T \ {x}) = n
    BY <1>a, <2>1, OneLess
  <2>3. T \ {x} \in Good
    BY <1>2, <2>2
  <2>4. x \in S \ (T \ {x}) /\ T = (T \ {x}) \cup {x}
    BY <2>1
  <2>5. QED
    BY <2>3, <2>4
<1>3. \A n \in Nat : n \in Sizes
  <2> HIDE DEF Sizes
  <2> QED
    BY <1>1, <1>2, SetInduction
<1>4. QED
  BY <1>3, FS_CardinalityType

-----------------------------------------------------------------------------
(* The function by which a sum is defined.                                 *)

Picked(s) == CHOOSE x \in s : TRUE

IsIter(it, f, D) == it = [s \in D |-> IF s = {} THEN 0 ELSE f[Picked(s)] + it[s \ {Picked(s)}]]

UpTo(S, n) == {s \in SUBSET S : Cardinality(s) <= n}

LEMMA IterExists ==
  ASSUME NEW f, NEW S, IsFiniteSet(S)
  PROVE  \E it : IsIter(it, f, SUBSET S)
<1> DEFINE Good == {n \in Nat : \E it : IsIter(it, f, UpTo(S, n))}
<1>a. \A s \in SUBSET S : IsFiniteSet(s) /\ Cardinality(s) \in Nat
  BY FS_Subset, FS_CardinalityType
<1>1. 0 \in Good
  <2> DEFINE it == [s \in UpTo(S, 0) |-> 0]
  <2>1. \A s \in UpTo(S, 0) : s = {}
    BY <1>a, FS_EmptySet DEF UpTo
  <2>2. IsIter(it, f, UpTo(S, 0))
    BY <2>1 DEF IsIter
  <2>3. QED
    BY <2>2
<1>2. ASSUME NEW n \in Nat, n \in Good
      PROVE  n + 1 \in Good
  <2>1. PICK g : IsIter(g, f, UpTo(S, n))
    BY <1>2
  <2> DEFINE next == [s \in UpTo(S, n + 1) |-> IF s = {} THEN 0 ELSE f[Picked(s)] + g[s \ {Picked(s)}]]
  <2>2. \A s \in UpTo(S, n) : s \in UpTo(S, n + 1) /\ next[s] = g[s]
    <3>1. \A s \in UpTo(S, n) : s \in UpTo(S, n + 1)
      BY <1>a DEF UpTo
    <3>2. \A s \in UpTo(S, n) : g[s] = IF s = {} THEN 0 ELSE f[Picked(s)] + g[s \ {Picked(s)}]
      BY <2>1 DEF IsIter
    <3> QED
      BY <3>1, <3>2
  <2>3. \A s \in UpTo(S, n + 1) : s # {} => s \ {Picked(s)} \in UpTo(S, n)
    <3> SUFFICES ASSUME NEW s \in UpTo(S, n + 1), s # {}
                 PROVE  s \ {Picked(s)} \in UpTo(S, n)
      OBVIOUS
    <3>1. Picked(s) \in s
      BY DEF Picked
    <3>2. Cardinality(s \ {Picked(s)}) = Cardinality(s) - 1
      BY <1>a, <3>1, FS_RemoveElement DEF UpTo
    <3>3. QED
      BY <1>a, <3>2 DEF UpTo
  <2>4. IsIter(next, f, UpTo(S, n + 1))
    <3>1. \A s \in UpTo(S, n + 1) : s # {} => next[s \ {Picked(s)}] = g[s \ {Picked(s)}]
      BY <2>2, <2>3
    <3> QED
      BY <3>1 DEF IsIter
  <2>5. QED
    BY <2>4
<1>3. \A n \in Nat : n \in Good
  <2> HIDE DEF Good
  <2> QED
    BY <1>1, <1>2, SetInduction
<1>4. UpTo(S, Cardinality(S)) = SUBSET S
  BY FS_Subset, FS_CardinalityType DEF UpTo
<1>5. Cardinality(S) \in Good
  BY <1>3, FS_CardinalityType
<1>6. QED
  BY <1>4, <1>5

Iter(f, S) == CHOOSE it : IsIter(it, f, SUBSET S)

LEMMA IterIs ==
  ASSUME NEW f, NEW S, IsFiniteSet(S)
  PROVE  IsIter(Iter(f, S), f, SUBSET S)
BY IterExists DEF Iter

LEMMA SumIsIter ==
  ASSUME NEW f, NEW S
  PROVE  SumFunctionOnSet(f, S) = Iter(f, S)[S]
BY DEF SumFunctionOnSet, FoldFunctionOnSet, MapThenFoldSet, Iter, IsIter, Picked

LEMMA IterUnique ==
  ASSUME NEW f, NEW S, IsFiniteSet(S), NEW T \in SUBSET S
  PROVE  \A s \in SUBSET T : Iter(f, S)[s] = Iter(f, T)[s]
<1> DEFINE Good == {n \in Nat : \A s \in SUBSET T : Cardinality(s) = n => Iter(f, S)[s] = Iter(f, T)[s]}
<1>a. \A s \in SUBSET S : IsFiniteSet(s) /\ Cardinality(s) \in Nat
  BY FS_Subset, FS_CardinalityType
<1>b. \A s \in SUBSET T :
        /\ Iter(f, S)[s] = IF s = {} THEN 0 ELSE f[Picked(s)] + Iter(f, S)[s \ {Picked(s)}]
        /\ Iter(f, T)[s] = IF s = {} THEN 0 ELSE f[Picked(s)] + Iter(f, T)[s \ {Picked(s)}]
  <2>1. IsIter(Iter(f, S), f, SUBSET S) /\ IsIter(Iter(f, T), f, SUBSET T)
    BY <1>a, IterIs
  <2>2. QED
    BY <2>1 DEF IsIter
<1>1. 0 \in Good
  BY <1>a, <1>b, FS_EmptySet
<1>2. ASSUME NEW n \in Nat, n \in Good
      PROVE  n + 1 \in Good
  <2> SUFFICES ASSUME NEW s \in SUBSET T, Cardinality(s) = n + 1
               PROVE  Iter(f, S)[s] = Iter(f, T)[s]
    OBVIOUS
  <2>1. s # {} /\ Picked(s) \in s
    BY FS_EmptySet DEF Picked
  <2>2. Cardinality(s \ {Picked(s)}) = n
    BY <1>a, <2>1, OneLess
  <2>3. Iter(f, S)[s \ {Picked(s)}] = Iter(f, T)[s \ {Picked(s)}]
    BY <1>2, <2>2
  <2>4. QED
    BY <1>b, <2>1, <2>3
<1>3. \A n \in Nat : n \in Good
  <2> HIDE DEF Good
  <2> QED
    BY <1>1, <1>2, SetInduction
<1>4. QED
  BY <1>a, <1>3

LEMMA SumUnfolds ==
  ASSUME NEW f, NEW S, IsFiniteSet(S), S # {}
  PROVE  SumFunctionOnSet(f, S) = f[Picked(S)] + SumFunctionOnSet(f, S \ {Picked(S)})
<1> DEFINE rest == S \ {Picked(S)}
<1>1. Iter(f, S)[S] = f[Picked(S)] + Iter(f, S)[rest]
  <2>1. IsIter(Iter(f, S), f, SUBSET S)
    BY IterIs
  <2>2. QED
    BY <2>1 DEF IsIter
<1>2. Iter(f, S)[rest] = Iter(f, rest)[rest]
  BY IterUnique
<1>3. QED
  BY <1>1, <1>2, SumIsIter

-----------------------------------------------------------------------------
(* Sums of integers.                                                       *)

IsNumeric(f, S) == \A x \in S : f[x] \in Int

LEMMA SumEmpty == ASSUME NEW f PROVE SumFunctionOnSet(f, {}) = 0
<1>1. IsIter(Iter(f, {}), f, SUBSET {})
  BY IterIs, FS_EmptySet
<1>2. QED
  BY <1>1, SumIsIter DEF IsIter

LEMMA SumIsInt ==
  ASSUME NEW f, NEW S, IsFiniteSet(S), IsNumeric(f, S)
  PROVE  \A s \in SUBSET S : SumFunctionOnSet(f, s) \in Int
<1> DEFINE Good == {n \in Nat : \A s \in SUBSET S : Cardinality(s) = n => SumFunctionOnSet(f, s) \in Int}
<1>a. \A s \in SUBSET S : IsFiniteSet(s) /\ Cardinality(s) \in Nat
  BY FS_Subset, FS_CardinalityType
<1>1. 0 \in Good
  BY <1>a, SumEmpty, FS_EmptySet
<1>2. ASSUME NEW n \in Nat, n \in Good
      PROVE  n + 1 \in Good
  <2> SUFFICES ASSUME NEW s \in SUBSET S, Cardinality(s) = n + 1
               PROVE  SumFunctionOnSet(f, s) \in Int
    OBVIOUS
  <2>1. s # {} /\ Picked(s) \in s
    BY FS_EmptySet DEF Picked
  <2>2. Cardinality(s \ {Picked(s)}) = n
    BY <1>a, <2>1, OneLess
  <2>3. SumFunctionOnSet(f, s \ {Picked(s)}) \in Int
    BY <1>2, <2>2
  <2>4. SumFunctionOnSet(f, s) = f[Picked(s)] + SumFunctionOnSet(f, s \ {Picked(s)})
    BY <1>a, <2>1, SumUnfolds
  <2>5. QED
    BY <2>1, <2>3, <2>4 DEF IsNumeric
<1>3. \A n \in Nat : n \in Good
  <2> HIDE DEF Good
  <2> QED
    BY <1>1, <1>2, SetInduction
<1>4. QED
  BY <1>a, <1>3

LEMMA SumOfPicked ==
  ASSUME NEW f, NEW S, IsFiniteSet(S), IsNumeric(f, S)
  PROVE  /\ SumFunctionOnSet(f, S) \in Int
         /\ \A x \in S : SumFunctionOnSet(f, S) = f[x] + SumFunctionOnSet(f, S \ {x})
<1> DEFINE Sum(s) == SumFunctionOnSet(f, s)
           Right(s) == Sum(s) \in Int /\ \A x \in s : Sum(s) = f[x] + Sum(s \ {x})
           Good == {n \in Nat : \A s \in SUBSET S : Cardinality(s) = n => Right(s)}
<1>a. \A s \in SUBSET S : IsFiniteSet(s) /\ Cardinality(s) \in Nat
  BY FS_Subset, FS_CardinalityType
<1>1. 0 \in Good
  BY <1>a, SumEmpty, FS_EmptySet
<1>2. ASSUME NEW n \in Nat, n \in Good
      PROVE  n + 1 \in Good
  <2> SUFFICES ASSUME NEW s \in SUBSET S, Cardinality(s) = n + 1
               PROVE  Right(s)
    OBVIOUS
  <2> DEFINE p == Picked(s)
  <2>1. p \in s
    BY FS_EmptySet DEF Picked
  <2>2. \A x \in s : s \ {x} \in SUBSET S /\ Cardinality(s \ {x}) = n
    BY <1>a, OneLess
  <2>3. \A x \in s : Right(s \ {x})
    BY <1>2, <2>2
  <2>4. Sum(s) = f[p] + Sum(s \ {p})
    BY <1>a, <2>1, SumUnfolds
  <2>5. Sum(s) \in Int
    BY <2>1, <2>3, <2>4 DEF IsNumeric
  <2>6. ASSUME NEW x \in s, x # p
        PROVE  Sum(s) = f[x] + Sum(s \ {x})
    <3> DEFINE both == s \ {x, p}
    <3>1. (s \ {p}) \ {x} = both /\ (s \ {x}) \ {p} = both
      OBVIOUS
    <3>2. Sum(s \ {p}) = f[x] + Sum(both)
      BY <2>1, <2>3, <2>6, <3>1
    <3>3. Sum(s \ {x}) = f[p] + Sum(both)
      BY <2>1, <2>3, <2>6, <3>1
    <3>4. Sum(s \ {p}) \in Int /\ Sum(s \ {x}) \in Int /\ f[x] \in Int /\ f[p] \in Int
      BY <2>1, <2>3 DEF IsNumeric
    <3>5. Sum(both) \in Int
      BY SumIsInt
    <3>6. QED
      BY <2>4, <3>2, <3>3, <3>4, <3>5
  <2>7. QED
    BY <2>4, <2>5, <2>6
<1>3. \A n \in Nat : n \in Good
  <2> HIDE DEF Good
  <2> QED
    BY <1>1, <1>2, SetInduction
<1>4. Right(S)
  BY <1>3, FS_CardinalityType
<1>5. QED
  BY <1>4

LEMMA SumOfOneMore ==
  ASSUME NEW f, NEW S, IsFiniteSet(S), NEW x, x \notin S, IsNumeric(f, S \cup {x})
  PROVE  SumFunctionOnSet(f, S \cup {x}) = SumFunctionOnSet(f, S) + f[x]
<1>1. IsFiniteSet(S \cup {x}) /\ (S \cup {x}) \ {x} = S
  BY FS_AddElement
<1>2. SumFunctionOnSet(f, S \cup {x}) = f[x] + SumFunctionOnSet(f, S)
  BY <1>1, SumOfPicked
<1>3. SumFunctionOnSet(f, S) \in Int /\ f[x] \in Int
  BY <1>1, SumIsInt DEF IsNumeric
<1>4. QED
  BY <1>2, <1>3

\* A sum says nothing of its function but what it sums.
LEMMA SumsAgree ==
  ASSUME NEW f, NEW g, NEW S, IsFiniteSet(S), IsNumeric(f, S), \A x \in S : f[x] = g[x]
  PROVE  SumFunctionOnSet(f, S) = SumFunctionOnSet(g, S)
<1> DEFINE Good == {T \in SUBSET S : SumFunctionOnSet(f, T) = SumFunctionOnSet(g, T)}
<1>1. {} \in Good
  BY SumEmpty
<1>2. ASSUME NEW T \in SUBSET S, NEW x \in S \ T, T \in Good
      PROVE  T \cup {x} \in Good
  <2>1. IsFiniteSet(T) /\ IsNumeric(f, T \cup {x}) /\ IsNumeric(g, T \cup {x})
    BY FS_Subset DEF IsNumeric
  <2>2. /\ SumFunctionOnSet(f, T \cup {x}) = SumFunctionOnSet(f, T) + f[x]
        /\ SumFunctionOnSet(g, T \cup {x}) = SumFunctionOnSet(g, T) + g[x]
    BY <2>1, SumOfOneMore
  <2>3. QED
    BY <1>2, <2>2
<1>3. S \in Good
  <2> HIDE DEF Good
  <2> QED
    BY <1>1, <1>2, SubsetInduction
<1>4. QED
  BY <1>3

LEMMA SumIsMonotonic ==
  ASSUME NEW f, NEW g, NEW S, IsFiniteSet(S), IsNumeric(f, S), IsNumeric(g, S),
         \A x \in S : f[x] <= g[x]
  PROVE  SumFunctionOnSet(f, S) <= SumFunctionOnSet(g, S)
<1> DEFINE Good == {T \in SUBSET S : SumFunctionOnSet(f, T) <= SumFunctionOnSet(g, T)}
<1>1. {} \in Good
  BY SumEmpty
<1>2. ASSUME NEW T \in SUBSET S, NEW x \in S \ T, T \in Good
      PROVE  T \cup {x} \in Good
  <2>1. IsFiniteSet(T) /\ IsNumeric(f, T \cup {x}) /\ IsNumeric(g, T \cup {x})
    BY FS_Subset DEF IsNumeric
  <2>2. /\ SumFunctionOnSet(f, T \cup {x}) = SumFunctionOnSet(f, T) + f[x]
        /\ SumFunctionOnSet(g, T \cup {x}) = SumFunctionOnSet(g, T) + g[x]
    BY <2>1, SumOfOneMore
  <2>3. /\ SumFunctionOnSet(f, T) \in Int /\ SumFunctionOnSet(g, T) \in Int
        /\ SumFunctionOnSet(f, T) <= SumFunctionOnSet(g, T)
    BY <1>2, SumIsInt
  <2>4. f[x] \in Int /\ g[x] \in Int /\ f[x] <= g[x]
    BY DEF IsNumeric
  <2>5. SumFunctionOnSet(f, T \cup {x}) <= SumFunctionOnSet(g, T \cup {x})
    BY <2>2, <2>3, <2>4
  <2>6. QED
    BY <2>5
<1>3. S \in Good
  <2> HIDE DEF Good
  <2> QED
    BY <1>1, <1>2, SubsetInduction
<1>4. QED
  BY <1>3

LEMMA SumIsNat ==
  ASSUME NEW f, NEW S, IsFiniteSet(S), \A x \in S : f[x] \in Nat
  PROVE  SumFunctionOnSet(f, S) \in Nat
<1> DEFINE Good == {T \in SUBSET S : SumFunctionOnSet(f, T) \in Nat}
<1>1. {} \in Good
  BY SumEmpty
<1>2. ASSUME NEW T \in SUBSET S, NEW x \in S \ T, T \in Good
      PROVE  T \cup {x} \in Good
  <2>1. IsFiniteSet(T) /\ IsNumeric(f, T \cup {x})
    BY FS_Subset DEF IsNumeric
  <2>2. SumFunctionOnSet(f, T \cup {x}) = SumFunctionOnSet(f, T) + f[x]
    BY <2>1, SumOfOneMore
  <2>3. QED
    BY <1>2, <2>2
<1>3. S \in Good
  <2> HIDE DEF Good
  <2> QED
    BY <1>1, <1>2, SubsetInduction
<1>4. QED
  BY <1>3

LEMMA SumOfDisjoint ==
  ASSUME NEW f, NEW S, NEW T, IsFiniteSet(S), IsFiniteSet(T), S \cap T = {}, IsNumeric(f, S \cup T)
  PROVE  SumFunctionOnSet(f, S \cup T) = SumFunctionOnSet(f, S) + SumFunctionOnSet(f, T)
<1> DEFINE Sum(U) == SumFunctionOnSet(f, U)
           Good == {U \in SUBSET T : Sum(S \cup U) = Sum(S) + Sum(U)}
<1>a. Sum(S) \in Int
  BY SumIsInt DEF IsNumeric
<1>1. {} \in Good
  <2>1. S \cup {} = S
    OBVIOUS
  <2>2. QED
    BY <1>a, <2>1, SumEmpty
<1>2. ASSUME NEW U \in SUBSET T, NEW x \in T \ U, U \in Good
      PROVE  U \cup {x} \in Good
  <2>1. /\ IsFiniteSet(U) /\ IsFiniteSet(S \cup U)
        /\ x \notin S \cup U /\ S \cup (U \cup {x}) = (S \cup U) \cup {x}
    BY FS_Subset, FS_Union
  <2>2. IsNumeric(f, U) /\ IsNumeric(f, U \cup {x}) /\ IsNumeric(f, (S \cup U) \cup {x}) /\ f[x] \in Int
    BY DEF IsNumeric
  <2>3. Sum(U \cup {x}) = Sum(U) + f[x]
    BY <2>1, <2>2, SumOfOneMore
  <2>4. Sum((S \cup U) \cup {x}) = Sum(S \cup U) + f[x]
    BY <2>1, <2>2, SumOfOneMore
  <2>5. Sum(S \cup U) = Sum(S) + Sum(U) /\ Sum(U) \in Int
    BY <1>2, <2>1, <2>2, SumIsInt
  <2>6. Sum(S \cup (U \cup {x})) = Sum(S) + Sum(U \cup {x})
    <3>1. Sum(S \cup (U \cup {x})) = Sum(S \cup U) + f[x]
      BY <2>1, <2>4
    <3>2. QED
      BY <1>a, <2>2, <2>3, <2>5, <3>1
  <2>7. QED
    BY <2>6
<1>3. T \in Good
  <2> HIDE DEF Good
  <2> QED
    BY <1>1, <1>2, SubsetInduction
<1>4. QED
  BY <1>3

\* Numbers of a part are no more than those of the whole.
LEMMA SumOfPart ==
  ASSUME NEW f, NEW S, IsFiniteSet(S), \A x \in S : f[x] \in Nat, NEW T \in SUBSET S
  PROVE  /\ SumFunctionOnSet(f, S) = SumFunctionOnSet(f, T) + SumFunctionOnSet(f, S \ T)
         /\ SumFunctionOnSet(f, T) \in Nat /\ SumFunctionOnSet(f, S \ T) \in Nat
<1>1. IsFiniteSet(T) /\ IsFiniteSet(S \ T) /\ T \cup (S \ T) = S
  BY FS_Subset
<1>2. IsNumeric(f, T \cup (S \ T)) /\ T \cap (S \ T) = {}
  BY DEF IsNumeric
<1>3. SumFunctionOnSet(f, T \cup (S \ T)) = SumFunctionOnSet(f, T) + SumFunctionOnSet(f, S \ T)
  BY <1>1, <1>2, SumOfDisjoint
<1>4. QED
  BY <1>1, <1>3, SumIsNat

\* The sum of two functions' sums.
LEMMA SumOfSums ==
  ASSUME NEW f, NEW g, NEW h, NEW S, IsFiniteSet(S), IsNumeric(f, S), IsNumeric(g, S),
         \A x \in S : h[x] = f[x] + g[x]
  PROVE  SumFunctionOnSet(h, S) = SumFunctionOnSet(f, S) + SumFunctionOnSet(g, S)
<1> DEFINE Good == {T \in SUBSET S : SumFunctionOnSet(h, T) = SumFunctionOnSet(f, T) + SumFunctionOnSet(g, T)}
<1>1. {} \in Good
  BY SumEmpty
<1>2. ASSUME NEW T \in SUBSET S, NEW x \in S \ T, T \in Good
      PROVE  T \cup {x} \in Good
  <2>1. IsFiniteSet(T) /\ IsNumeric(f, T \cup {x}) /\ IsNumeric(g, T \cup {x}) /\ IsNumeric(h, T \cup {x})
    BY FS_Subset DEF IsNumeric
  <2>2. /\ SumFunctionOnSet(f, T \cup {x}) = SumFunctionOnSet(f, T) + f[x]
        /\ SumFunctionOnSet(g, T \cup {x}) = SumFunctionOnSet(g, T) + g[x]
        /\ SumFunctionOnSet(h, T \cup {x}) = SumFunctionOnSet(h, T) + h[x]
    BY <2>1, SumOfOneMore
  <2>3. /\ SumFunctionOnSet(f, T) \in Int /\ SumFunctionOnSet(g, T) \in Int
        /\ SumFunctionOnSet(h, T) = SumFunctionOnSet(f, T) + SumFunctionOnSet(g, T)
    BY <1>2, SumIsInt
  <2>4. f[x] \in Int /\ g[x] \in Int /\ h[x] = f[x] + g[x]
    BY DEF IsNumeric
  <2>5. SumFunctionOnSet(h, T \cup {x}) = SumFunctionOnSet(f, T \cup {x}) + SumFunctionOnSet(g, T \cup {x})
    BY <2>2, <2>3, <2>4
  <2>6. QED
    BY <2>5
<1>3. S \in Good
  <2> HIDE DEF Good
  <2> QED
    BY <1>1, <1>2, SubsetInduction
<1>4. QED
  BY <1>3

LEMMA SumOfZeros ==
  ASSUME NEW f, NEW S, IsFiniteSet(S), \A x \in S : f[x] = 0
  PROVE  SumFunctionOnSet(f, S) = 0
<1>1. IsNumeric(f, S)
  BY DEF IsNumeric
<1>2. SumFunctionOnSet(f, S) = SumFunctionOnSet(f, S) + SumFunctionOnSet(f, S)
  <2>1. \A x \in S : f[x] = f[x] + f[x]
    OBVIOUS
  <2>2. QED
    BY <1>1, <2>1, SumOfSums
<1>3. SumFunctionOnSet(f, S) \in Int
  BY <1>1, SumIsInt
<1>4. \A z \in Int : z = z + z => z = 0
  OBVIOUS
<1>5. QED
  BY <1>2, <1>3, <1>4

\* A sequence's elements add up to those of the sequence with its second removed.
LEMMA SumWithoutSecond ==
  ASSUME NEW f, NEW g, NEW k \in Nat \ {0},
         IsNumeric(f, 1 .. k), g[2] \in Int,
         g[1] = f[1], \A x \in 2 .. k : g[x + 1] = f[x]
  PROVE  SumFunctionOnSet(g, 1 .. k + 1) = g[2] + SumFunctionOnSet(f, 1 .. k)
<1> DEFINE First(m) == 1 .. m
           Sum(h, m) == SumFunctionOnSet(h, First(m))
           Good == {m \in Nat : m + 1 <= k => Sum(g, m + 2) = g[2] + Sum(f, m + 1)}
<1>a. \A x \in 1 .. k + 1 : g[x] \in Int
  <2>1. \A x \in 3 .. k + 1 : x - 1 \in 2 .. k /\ (x - 1) + 1 = x
    OBVIOUS
  <2>2. \A x \in 3 .. k + 1 : g[x] = f[x - 1]
    BY <2>1
  <2>3. QED
    BY <2>1, <2>2 DEF IsNumeric
<1>b. \A m \in Nat : First(m + 1) = First(m) \cup {m + 1} /\ m + 1 \notin First(m) /\ IsFiniteSet(First(m))
  <2>1. \A m \in Nat : IsFiniteSet(First(m))
    BY FS_Interval
  <2>2. \A m \in Nat : First(m + 1) = First(m) \cup {m + 1}
    OBVIOUS
  <2>3. QED
    BY <2>1, <2>2
<1>e. IsNumeric(f, First(k)) /\ First(0) = {} /\ \A m \in Nat : \A x \in First(m) : x \in Nat /\ 1 <= x /\ x <= m
  OBVIOUS
<1>f. \A m \in Nat : m <= k => IsNumeric(f, First(m)) /\ IsNumeric(g, First(m + 1))
  BY <1>a DEF IsNumeric
<1>g. \A m \in Nat : m + 1 <= k => IsNumeric(f, First(m + 1))
  BY DEF IsNumeric
<1> HIDE DEF First
<1>c. \A m \in Nat : m + 1 <= k => Sum(f, m + 1) = Sum(f, m) + f[m + 1] /\ Sum(f, m + 1) \in Int /\ Sum(f, m) \in Int
  <2> SUFFICES ASSUME NEW m \in Nat, m + 1 <= k
               PROVE  Sum(f, m + 1) = Sum(f, m) + f[m + 1] /\ Sum(f, m + 1) \in Int /\ Sum(f, m) \in Int
    OBVIOUS
  <2>1. First(m + 1) = First(m) \cup {m + 1} /\ m + 1 \notin First(m) /\ IsFiniteSet(First(m))
    BY <1>b
  <2>a. IsNumeric(f, First(m) \cup {m + 1})
    <3>1. IsNumeric(f, First(m + 1))
      BY <1>g
    <3>2. QED
      BY <2>1, <3>1
  <2>2. Sum(f, m + 1) = Sum(f, m) + f[m + 1]
    <3>1. SumFunctionOnSet(f, First(m) \cup {m + 1}) = SumFunctionOnSet(f, First(m)) + f[m + 1]
      BY <2>1, <2>a, SumOfOneMore
    <3>2. QED
      BY <2>1, <3>1
  <2>3. Sum(f, m) \in Int
    BY <2>1, <2>a, SumIsInt DEF IsNumeric
  <2>4. QED
    BY <2>a, <2>2, <2>3 DEF IsNumeric
<1>d. \A m \in Nat : m <= k => Sum(g, m + 1) = Sum(g, m) + g[m + 1] /\ Sum(g, m) \in Int
  <2> SUFFICES ASSUME NEW m \in Nat, m <= k
               PROVE  Sum(g, m + 1) = Sum(g, m) + g[m + 1] /\ Sum(g, m) \in Int
    OBVIOUS
  <2>1. First(m + 1) = First(m) \cup {m + 1} /\ m + 1 \notin First(m) /\ IsFiniteSet(First(m))
    BY <1>b
  <2>a. IsNumeric(g, First(m) \cup {m + 1})
    <3>1. IsNumeric(g, First(m + 1))
      BY <1>f
    <3>2. QED
      BY <2>1, <3>1
  <2>2. Sum(g, m + 1) = Sum(g, m) + g[m + 1]
    <3>1. SumFunctionOnSet(g, First(m) \cup {m + 1}) = SumFunctionOnSet(g, First(m)) + g[m + 1]
      BY <2>1, <2>a, SumOfOneMore
    <3>2. QED
      BY <2>1, <3>1
  <2>3. Sum(g, m) \in Int
    BY <2>1, <2>a, SumIsInt DEF IsNumeric
  <2>4. QED
    BY <2>2, <2>3
<1>1. 0 \in Good
  <2>1. Sum(g, 0) = 0 /\ Sum(f, 0) = 0
    BY <1>e, SumEmpty
  <2>2. Sum(f, 1) = f[1] /\ f[1] \in Int
    BY <1>c, <2>1 DEF IsNumeric
  <2>3. Sum(g, 1) = g[1] /\ Sum(g, 2) = Sum(g, 1) + g[2]
    BY <1>a, <1>d, <2>1
  <2>4. Sum(g, 2) = g[2] + Sum(f, 1)
    BY <2>2, <2>3
  <2>5. QED
    BY <2>4
<1>2. ASSUME NEW m \in Nat, m \in Good
      PROVE  m + 1 \in Good
  <2> SUFFICES ASSUME m + 2 <= k
               PROVE  Sum(g, m + 3) = g[2] + Sum(f, m + 2)
    OBVIOUS
  <2>1. Sum(g, m + 2) = g[2] + Sum(f, m + 1)
    BY <1>2
  <2>2. Sum(g, m + 3) = Sum(g, m + 2) + g[m + 3]
    BY <1>d
  <2>3. Sum(f, m + 2) = Sum(f, m + 1) + f[m + 2] /\ Sum(f, m + 1) \in Int
    BY <1>c
  <2>4. g[m + 3] = f[m + 2] /\ f[m + 2] \in Int
    BY DEF IsNumeric
  <2>5. QED
    BY <2>1, <2>2, <2>3, <2>4
<1>3. \A m \in Nat : m \in Good
  <2> HIDE DEF Good
  <2> QED
    BY <1>1, <1>2, SetInduction
<1>4. k - 1 \in Good
  <2>1. k - 1 \in Nat
    OBVIOUS
  <2> HIDE DEF Good
  <2>2. QED
    BY <1>3, <2>1
<1>5. Sum(g, k + 1) = g[2] + Sum(f, k)
  BY <1>4
<1>6. QED
  BY <1>5 DEF First

\* What f has on R, g has on S, where e names for each of S one of R.
Renames(g, S, e, f, R) ==
  /\ IsFiniteSet(S)
  /\ \A x \in S : g[x] = f[e[x]] /\ g[x] \in Int
  /\ \A x, y \in S : x # y => e[x] # e[y]
  /\ \A x \in S : e[x] \in R
  /\ \A y \in R : \E x \in S : e[x] = y

\* The terms of a sum may have other names.
LEMMA SumRenamed ==
  ASSUME NEW f, NEW g, NEW e, NEW S, NEW R, Renames(g, S, e, f, R)
  PROVE  SumFunctionOnSet(g, S) = SumFunctionOnSet(f, R)
<1> USE DEF Renames
<1> DEFINE Image(T) == {e[x] : x \in T}
           Good == {T \in SUBSET S : IsFiniteSet(Image(T)) /\ SumFunctionOnSet(g, T) = SumFunctionOnSet(f, Image(T))}
<1>1. {} \in Good
  <2>1. Image({}) = {}
    OBVIOUS
  <2>2. QED
    BY <2>1, SumEmpty, FS_EmptySet
<1>2. ASSUME NEW T \in SUBSET S, NEW x \in S \ T, T \in Good
      PROVE  T \cup {x} \in Good
  <2>1. IsFiniteSet(T) /\ IsNumeric(g, T \cup {x})
    BY FS_Subset DEF IsNumeric
  <2>2. Image(T \cup {x}) = Image(T) \cup {e[x]} /\ e[x] \notin Image(T)
    OBVIOUS
  <2>3. IsNumeric(f, Image(T) \cup {e[x]})
    BY DEF IsNumeric
  <2>4. IsFiniteSet(Image(T)) /\ SumFunctionOnSet(g, T) = SumFunctionOnSet(f, Image(T))
    BY <1>2
  <2> HIDE DEF Image
  <2>5. SumFunctionOnSet(g, T \cup {x}) = SumFunctionOnSet(g, T) + g[x]
    BY <2>1, SumOfOneMore
  <2>6. SumFunctionOnSet(f, Image(T) \cup {e[x]}) = SumFunctionOnSet(f, Image(T)) + f[e[x]]
    BY <2>2, <2>3, <2>4, SumOfOneMore
  <2>7. IsFiniteSet(Image(T) \cup {e[x]})
    BY <2>4, FS_AddElement
  <2>8. T \cup {x} \in SUBSET S
    OBVIOUS
  <2>9. QED
    BY <2>2, <2>4, <2>5, <2>6, <2>7, <2>8
<1>3. S \in Good
  <2> HIDE DEF Good
  <2>1. QED
    BY <1>1, <1>2, SubsetInduction
<1>4. Image(S) = R
  OBVIOUS
<1>5. QED
  BY <1>3, <1>4

LEMMA SumOfSingleton ==
  ASSUME NEW f, NEW x, f[x] \in Int
  PROVE  SumFunctionOnSet(f, {x}) = f[x]
<1>1. {x} = {} \cup {x} /\ IsNumeric(f, {} \cup {x}) /\ IsFiniteSet({})
  BY FS_EmptySet DEF IsNumeric
<1>2. SumFunctionOnSet(f, {} \cup {x}) = SumFunctionOnSet(f, {}) + f[x]
  BY <1>1, SumOfOneMore
<1>3. QED
  BY <1>1, <1>2, SumEmpty

LEMMA SumOfMultiples ==
  ASSUME NEW f, NEW S, IsFiniteSet(S), \A x \in S : f[x] \in Nat /\ f[x] % 4 = 0
  PROVE  SumFunctionOnSet(f, S) \in Nat /\ SumFunctionOnSet(f, S) % 4 = 0
<1> DEFINE Good == {T \in SUBSET S : SumFunctionOnSet(f, T) \in Nat /\ SumFunctionOnSet(f, T) % 4 = 0}
<1>1. {} \in Good
  BY SumEmpty
<1>2. ASSUME NEW T \in SUBSET S, NEW x \in S \ T, T \in Good
      PROVE  T \cup {x} \in Good
  <2>1. IsFiniteSet(T) /\ IsNumeric(f, T \cup {x})
    BY FS_Subset DEF IsNumeric
  <2>2. SumFunctionOnSet(f, T \cup {x}) = SumFunctionOnSet(f, T) + f[x]
    BY <2>1, SumOfOneMore
  <2>3. \A m, n \in Nat : m % 4 = 0 /\ n % 4 = 0 => (m + n) % 4 = 0 /\ m + n \in Nat
    OBVIOUS
  <2>4. SumFunctionOnSet(f, T \cup {x}) \in Nat /\ SumFunctionOnSet(f, T \cup {x}) % 4 = 0
    BY <1>2, <2>2, <2>3
  <2>5. QED
    BY <2>4
<1>3. S \in Good
  <2> HIDE DEF Good
  <2> QED
    BY <1>1, <1>2, SubsetInduction
<1>4. QED
  BY <1>3

-----------------------------------------------------------------------------
(* Sizes.                                                                  *)

IsExecutable(h) == h \in Seq(Range(h)) /\ \A n \in DOMAIN h : IsHunk(h[n])

LEMMA FileFacts ==
  ASSUME NEW h, IsExecutable(h)
  PROVE  /\ Len(h) \in Nat /\ DOMAIN h = 1 .. Len(h)
         /\ IsFiniteSet(DOMAIN h)
         /\ \A n \in DOMAIN h : h[n].size \in Nat /\ h[n].len \in 0 .. h[n].size
<1>1. Len(h) \in Nat /\ DOMAIN h = 1 .. Len(h)
  BY DEF IsExecutable
<1>2. IsFiniteSet(DOMAIN h)
  BY <1>1, FS_Interval
<1>3. \A n \in DOMAIN h : h[n].size \in Nat /\ h[n].len \in 0 .. h[n].size
  BY WordAssumption DEF IsExecutable, IsHunk
<1>4. QED
  BY <1>1, <1>2, <1>3

\* SizeOf adds up sizes.
LEMMA SizeFacts ==
  ASSUME NEW h, IsExecutable(h)
  PROVE  /\ SizeOf(h, {}) = 0
         /\ \A S \in SUBSET DOMAIN h : IsFiniteSet(S) /\ SizeOf(h, S) \in Nat
         /\ \A S \in SUBSET DOMAIN h : \A x \in DOMAIN h \ S : SizeOf(h, S \cup {x}) = SizeOf(h, S) + h[x].size
         /\ \A S \in SUBSET DOMAIN h : \A T \in SUBSET S : SizeOf(h, S) = SizeOf(h, T) + SizeOf(h, S \ T)
<1> DEFINE f == [n \in DOMAIN h |-> h[n].size]
<1>1. \A S : SizeOf(h, S) = SumFunctionOnSet(f, S)
  BY DEF SizeOf
<1>2. \A n \in DOMAIN h : f[n] = h[n].size /\ f[n] \in Nat
  BY FileFacts
<1>3. IsFiniteSet(DOMAIN h)
  BY FileFacts
<1> HIDE DEF f
<1>4. SizeOf(h, {}) = 0
  BY <1>1, SumEmpty
<1>5. ASSUME NEW S \in SUBSET DOMAIN h
      PROVE  IsFiniteSet(S) /\ SizeOf(h, S) \in Nat
  <2>1. IsFiniteSet(S)
    BY <1>3, FS_Subset
  <2>2. \A x \in S : f[x] \in Nat
    BY <1>2
  <2>3. SumFunctionOnSet(f, S) \in Nat
    BY <2>1, <2>2, SumIsNat
  <2>4. QED
    BY <1>1, <2>1, <2>3
<1>6. ASSUME NEW S \in SUBSET DOMAIN h, NEW x \in DOMAIN h \ S
      PROVE  SizeOf(h, S \cup {x}) = SizeOf(h, S) + h[x].size
  <2>1. IsFiniteSet(S)
    BY <1>5
  <2>2. IsNumeric(f, S \cup {x})
    BY <1>2 DEF IsNumeric
  <2>3. SumFunctionOnSet(f, S \cup {x}) = SumFunctionOnSet(f, S) + f[x]
    BY <2>1, <2>2, SumOfOneMore
  <2>4. QED
    BY <1>1, <1>2, <2>3
<1>7. ASSUME NEW S \in SUBSET DOMAIN h, NEW T \in SUBSET S
      PROVE  SizeOf(h, S) = SizeOf(h, T) + SizeOf(h, S \ T)
  <2>1. IsFiniteSet(S) /\ \A x \in S : f[x] \in Nat
    BY <1>2, <1>5
  <2>2. SumFunctionOnSet(f, S) = SumFunctionOnSet(f, T) + SumFunctionOnSet(f, S \ T)
    BY <2>1, SumOfPart
  <2>3. QED
    BY <1>1, <2>2
<1>8. QED
  BY <1>4, <1>5, <1>6, <1>7

\* Those of S that a loop has reached before n.
Preceding(S, n) == {j \in S : j < n}

LEMMA BeforeFacts ==
  ASSUME NEW h, IsExecutable(h), NEW S \in SUBSET DOMAIN h
  PROVE  /\ Preceding(S, 1) = {} /\ Preceding(S, Len(h) + 1) = S
         /\ \A n : Preceding(S, n) \in SUBSET DOMAIN h /\ SizeOf(h, Preceding(S, n)) \in Nat
<1>1. Len(h) \in Nat /\ DOMAIN h = 1 .. Len(h)
  BY FileFacts
<1>2. /\ Preceding(S, 1) = {} /\ Preceding(S, Len(h) + 1) = S
      /\ \A n : Preceding(S, n) \in SUBSET DOMAIN h
  BY <1>1 DEF Preceding
<1>3. \A n : SizeOf(h, Preceding(S, n)) \in Nat
  BY <1>2, SizeFacts
<1>4. QED
  BY <1>2, <1>3

LEMMA BeforeNext ==
  ASSUME NEW h, IsExecutable(h), NEW S \in SUBSET DOMAIN h, NEW n \in 1 .. Len(h)
  PROVE  /\ n \in S => /\ Preceding(S, n + 1) = Preceding(S, n) \cup {n}
                        /\ SizeOf(h, Preceding(S, n + 1)) = SizeOf(h, Preceding(S, n)) + h[n].size
         /\ n \notin S => Preceding(S, n + 1) = Preceding(S, n)
<1>1. Len(h) \in Nat /\ DOMAIN h = 1 .. Len(h)
  BY FileFacts
<1>2. n \notin S => Preceding(S, n + 1) = Preceding(S, n)
  BY <1>1 DEF Preceding
<1>3. ASSUME n \in S
      PROVE  /\ Preceding(S, n + 1) = Preceding(S, n) \cup {n}
             /\ SizeOf(h, Preceding(S, n + 1)) = SizeOf(h, Preceding(S, n)) + h[n].size
  <2>1. Preceding(S, n + 1) = Preceding(S, n) \cup {n}
    BY <1>1, <1>3 DEF Preceding
  <2>2. n \in DOMAIN h \ Preceding(S, n) /\ Preceding(S, n) \in SUBSET DOMAIN h
    BY <1>1 DEF Preceding
  <2>3. SizeOf(h, Preceding(S, n) \cup {n}) = SizeOf(h, Preceding(S, n)) + h[n].size
    BY <2>2, SizeFacts
  <2>4. QED
    BY <2>1, <2>3
<1>4. QED
  BY <1>2, <1>3

LEMMA BeforeSkips ==
  ASSUME NEW h, IsExecutable(h), NEW S \in SUBSET DOMAIN h, NEW n \in 1 .. Len(h), n \notin S
  PROVE  Preceding(S, n + 1) = Preceding(S, n)
BY FileFacts DEF Preceding

\* Hunks placed one after the other lie side by side.
LEMMA PlacedHunksTile ==
  ASSUME NEW h, IsExecutable(h), NEW S \in SUBSET DOMAIN h, NEW base, NEW from \in Nat,
         \A n \in S : base[n] = from + SizeOf(h, Preceding(S, n))
  PROVE  Tile(h, base, S, from, from + SizeOf(h, S))
<1> DEFINE Stop(n) == from + SizeOf(h, Preceding(S, n))
           Areas(n) == UNION {Area(h, base, j) : j \in Preceding(S, n)}
           Good == {n \in Nat : n <= Len(h) => Areas(n + 1) = from .. Stop(n + 1) - 1}
<1>1. Len(h) \in Nat /\ DOMAIN h = 1 .. Len(h) /\ \A n \in DOMAIN h : h[n].size \in Nat
  BY FileFacts
<1>2. ASSUME NEW n
      PROVE  Stop(n) \in Nat /\ Stop(n) >= from
  <2>1. SizeOf(h, Preceding(S, n)) \in Nat
    BY BeforeFacts
  <2>2. QED
    BY <2>1
<1>3. ASSUME NEW n \in 1 .. Len(h)
      PROVE  /\ n \in S => Preceding(S, n + 1) = Preceding(S, n) \cup {n} /\ Stop(n + 1) = Stop(n) + h[n].size
             /\ n \notin S => Preceding(S, n + 1) = Preceding(S, n) /\ Stop(n + 1) = Stop(n)
  <2>1. SizeOf(h, Preceding(S, n)) \in Nat /\ h[n].size \in Nat
    BY <1>1, BeforeFacts
  <2>2. n \in S => Preceding(S, n + 1) = Preceding(S, n) \cup {n} /\ SizeOf(h, Preceding(S, n + 1)) = SizeOf(h, Preceding(S, n)) + h[n].size
    BY BeforeNext
  <2>3. ASSUME n \notin S PROVE Preceding(S, n + 1) = Preceding(S, n)
    <3>1. DOMAIN h = 1 .. Len(h) /\ Len(h) \in Nat
      BY <1>1
    <3>2. QED
      BY <2>3, <3>1 DEF Preceding
  <2>4. QED
    BY <2>1, <2>2, <2>3
<1>4. \A n \in S : base[n] = Stop(n)
  OBVIOUS
<1>5. Preceding(S, 1) = {} /\ Preceding(S, Len(h) + 1) = S /\ Stop(1) = from /\ Stop(Len(h) + 1) = from + SizeOf(h, S)
  <2>1. Preceding(S, 1) = {} /\ Preceding(S, Len(h) + 1) = S
    BY BeforeFacts
  <2>2. SizeOf(h, {}) = 0
    BY SizeFacts
  <2>3. SizeOf(h, Preceding(S, 1)) = 0 /\ SizeOf(h, Preceding(S, Len(h) + 1)) = SizeOf(h, S)
    BY <2>1, <2>2
  <2>4. Stop(1) = from /\ Stop(Len(h) + 1) = from + SizeOf(h, S)
    BY <2>3
  <2>5. QED
    BY <2>1, <2>4
<1> HIDE DEF Stop
<1>6. 0 \in Good
  <2>1. Areas(1) = {} /\ from .. Stop(1) - 1 = {}
    BY <1>5
  <2>2. QED
    BY <2>1
<1>7. ASSUME NEW n \in Nat, n \in Good
      PROVE  n + 1 \in Good
  <2> SUFFICES ASSUME n + 1 <= Len(h)
               PROVE  Areas(n + 2) = from .. Stop(n + 2) - 1
    OBVIOUS
  <2> DEFINE m == n + 1
  <2>1. m \in 1 .. Len(h) /\ n <= Len(h) /\ m + 1 = n + 2
    BY <1>1
  <2>2. Areas(m) = from .. Stop(m) - 1
    BY <1>7, <2>1
  <2> HIDE DEF m
  <2>3. Areas(m + 1) = from .. Stop(m + 1) - 1
    <3>1. CASE m \in S
      <4>1. Preceding(S, m + 1) = Preceding(S, m) \cup {m} /\ Stop(m + 1) = Stop(m) + h[m].size
        BY <1>3, <2>1, <3>1
      <4>2. base[m] = Stop(m) /\ h[m].size \in Nat
        BY <1>1, <1>4, <2>1, <3>1
      <4>3. Areas(m + 1) = Areas(m) \cup Area(h, base, m)
        BY <4>1
      <4>4. Area(h, base, m) = Stop(m) .. Stop(m) + h[m].size - 1
        BY <4>2 DEF Area
      <4>5. Stop(m) \in Nat /\ Stop(m) >= from
        BY <1>2
      <4>6. (from .. Stop(m) - 1) \cup (Stop(m) .. Stop(m) + h[m].size - 1) = from .. Stop(m) + h[m].size - 1
        BY <4>2, <4>5, SMTT(30)
      <4>7. Stop(m + 1) - 1 = Stop(m) + h[m].size - 1
        BY <4>1, <4>2, <4>5
      <4> HIDE DEF Areas
      <4>8. QED
        BY <2>2, <4>3, <4>4, <4>6, <4>7
    <3>2. CASE m \notin S
      <4>1. Preceding(S, m + 1) = Preceding(S, m) /\ Stop(m + 1) = Stop(m)
        BY <1>3, <2>1, <3>2
      <4>2. QED
        BY <2>2, <4>1
    <3>3. QED
      BY <3>1, <3>2
  <2>4. QED
    BY <2>1, <2>3
<1>8. UNION {Area(h, base, j) : j \in S} = from .. Stop(Len(h) + 1) - 1
  <2>1. Areas(Len(h) + 1) = UNION {Area(h, base, j) : j \in S}
    BY <1>5
  <2> HIDE DEF Areas
  <2>2. \A n \in Nat : n <= Len(h) => Areas(n + 1) = from .. Stop(n + 1) - 1
    <3> HIDE DEF Good
    <3>1. \A n \in Nat : n \in Good
      BY <1>6, <1>7, SetInduction
    <3>2. QED
      BY <3>1 DEF Good
  <2>3. Areas(Len(h) + 1) = from .. Stop(Len(h) + 1) - 1
    <3>1. \A n \in Nat : n <= n
      OBVIOUS
    <3>2. QED
      BY <1>1, <2>2, <3>1
  <2>4. QED
    BY <2>1, <2>3
<1>9. ASSUME NEW m \in S, NEW n \in S, m < n
      PROVE  Area(h, base, m) \cap Area(h, base, n) = {}
  <2>1. m \in 1 .. Len(h) /\ n \in 1 .. Len(h) /\ h[m].size \in Nat /\ h[n].size \in Nat
    BY <1>1
  <2> DEFINE A == Preceding(S, m + 1)
             B == Preceding(S, n)
  <2>2. A \in SUBSET B
    BY <1>9, <2>1 DEF Preceding
  <2>3. B \in SUBSET DOMAIN h
    BY BeforeFacts
  <2>4. Stop(m + 1) = from + SizeOf(h, A) /\ Stop(n) = from + SizeOf(h, B)
    BY DEF Stop
  <2> HIDE DEF A, B
  <2>5. SizeOf(h, B) = SizeOf(h, A) + SizeOf(h, B \ A)
    BY <2>2, <2>3, SizeFacts
  <2>6. SizeOf(h, B \ A) \in Nat /\ SizeOf(h, A) \in Nat
    BY <2>2, <2>3, SizeFacts
  <2>7. Stop(m + 1) = Stop(m) + h[m].size /\ Stop(m) \in Nat
    BY <1>2, <1>3, <2>1
  <2>a. base[m] = Stop(m) /\ base[n] = Stop(n) /\ Stop(n) \in Nat
    BY <1>2, <1>4
  <2>b. Stop(m + 1) <= Stop(n)
    BY <2>4, <2>5, <2>6
  <2>8. base[m] + h[m].size <= base[n] /\ base[m] \in Nat /\ base[n] \in Nat
    BY <2>7, <2>a, <2>b
  <2>9. QED
    BY <2>1, <2>8 DEF Area
<1>10. ASSUME NEW m \in S, NEW n \in S, m # n
      PROVE  Area(h, base, m) \cap Area(h, base, n) = {}
  <2>1. m < n \/ n < m
    BY <1>1, <1>10
  <2>2. QED
    BY <1>9, <2>1
<1>11. UNION {Area(h, base, j) : j \in S} = from .. (from + SizeOf(h, S)) - 1
  BY <1>5, <1>8
<1>12. QED
  BY <1>10, <1>11 DEF Tile

\* What MergeBase amounts to, hunk by hunk.
LEMMA BaseIs ==
  ASSUME NEW h, IsExecutable(h)
  PROVE  /\ LoadedHunks(h) \in SUBSET DOMAIN h /\ BssHunks(h) \in SUBSET DOMAIN h
         /\ LoadedHunks(h) \cap BssHunks(h) = {} /\ LoadedHunks(h) \cup BssHunks(h) = DOMAIN h
         /\ \A n \in LoadedHunks(h) : MergeBase(h)[n] = 0 + SizeOf(h, Preceding(LoadedHunks(h), n))
         /\ \A n \in BssHunks(h) :
              MergeBase(h)[n] = SizeOf(h, LoadedHunks(h)) + SizeOf(h, Preceding(BssHunks(h), n))
<1>1. /\ LoadedHunks(h) \in SUBSET DOMAIN h /\ BssHunks(h) \in SUBSET DOMAIN h
      /\ LoadedHunks(h) \cap BssHunks(h) = {} /\ LoadedHunks(h) \cup BssHunks(h) = DOMAIN h
  BY DEF LoadedHunks, BssHunks
<1>2. \A S, n : Preceding(S, n) = {j \in S : j < n}
  BY DEF Preceding
<1>3. ASSUME NEW n \in LoadedHunks(h)
      PROVE  MergeBase(h)[n] = 0 + SizeOf(h, Preceding(LoadedHunks(h), n))
  <2>1. n \in DOMAIN h /\ n \notin BssHunks(h)
    BY <1>1
  <2>2. MergeBase(h)[n] = SizeOf(h, Preceding(LoadedHunks(h), n))
    BY <2>1 DEF MergeBase, Preceding
  <2>3. SizeOf(h, Preceding(LoadedHunks(h), n)) \in Nat
    BY <1>1, BeforeFacts
  <2>4. QED
    BY <2>2, <2>3
<1>4. ASSUME NEW n \in BssHunks(h)
      PROVE  MergeBase(h)[n] = SizeOf(h, LoadedHunks(h)) + SizeOf(h, Preceding(BssHunks(h), n))
  <2>1. n \in DOMAIN h
    BY <1>1
  <2>2. QED
    BY <2>1 DEF MergeBase, Preceding
<1>5. QED
  BY <1>1, <1>3, <1>4

LEMMA MergeTiles ==
  ASSUME NEW h, IsExecutable(h)
  PROVE  /\ Tile(h, MergeBase(h), LoadedHunks(h), 0, SizeOf(h, LoadedHunks(h)))
         /\ Tile(h, MergeBase(h), BssHunks(h), SizeOf(h, LoadedHunks(h)),
                 SizeOf(h, LoadedHunks(h)) + SizeOf(h, BssHunks(h)))
         /\ SizeOf(h, LoadedHunks(h)) \in Nat /\ SizeOf(h, BssHunks(h)) \in Nat
         /\ SizeOf(h, DOMAIN h) = SizeOf(h, LoadedHunks(h)) + SizeOf(h, BssHunks(h))
         /\ \A n \in DOMAIN h : MergeBase(h)[n] \in Nat
<1> DEFINE loaded == LoadedHunks(h)
           bss == BssHunks(h)
           base == MergeBase(h)
<1>1. /\ loaded \in SUBSET DOMAIN h /\ bss \in SUBSET DOMAIN h
      /\ loaded \cap bss = {} /\ loaded \cup bss = DOMAIN h
  BY BaseIs
<1>2. \A n \in loaded : base[n] = 0 + SizeOf(h, Preceding(loaded, n))
  BY BaseIs
<1>3. \A n \in bss : base[n] = SizeOf(h, loaded) + SizeOf(h, Preceding(bss, n))
  BY BaseIs
<1>4. SizeOf(h, loaded) \in Nat /\ SizeOf(h, bss) \in Nat
  BY <1>1, SizeFacts
<1> HIDE DEF loaded, bss, base
<1>5. Tile(h, base, loaded, 0, SizeOf(h, loaded))
  <2>1. Tile(h, base, loaded, 0, 0 + SizeOf(h, loaded))
    BY <1>1, <1>2, PlacedHunksTile
  <2>2. 0 + SizeOf(h, loaded) = SizeOf(h, loaded)
    BY <1>4
  <2>3. QED
    BY <2>1, <2>2
<1>6. Tile(h, base, bss, SizeOf(h, loaded), SizeOf(h, loaded) + SizeOf(h, bss))
  BY <1>1, <1>3, <1>4, PlacedHunksTile
<1>7. SizeOf(h, DOMAIN h) = SizeOf(h, loaded) + SizeOf(h, bss)
  <2>1. loaded \in SUBSET DOMAIN h /\ DOMAIN h \ loaded = bss
    BY <1>1
  <2>2. DOMAIN h \in SUBSET DOMAIN h
    OBVIOUS
  <2>3. SizeOf(h, DOMAIN h) = SizeOf(h, loaded) + SizeOf(h, DOMAIN h \ loaded)
    BY <2>1, <2>2, SizeFacts
  <2>4. QED
    BY <2>1, <2>3
<1>8. ASSUME NEW n \in DOMAIN h
      PROVE  base[n] \in Nat
  <2>1. SizeOf(h, Preceding(loaded, n)) \in Nat /\ SizeOf(h, Preceding(bss, n)) \in Nat
    BY <1>1, BeforeFacts
  <2>2. n \in loaded \/ n \in bss
    BY <1>1
  <2>3. CASE n \in loaded
    BY <1>2, <2>1, <2>3
  <2>4. CASE n \in bss
    BY <1>3, <1>4, <2>1, <2>4
  <2>5. QED
    BY <2>2, <2>3, <2>4
<1>9. QED
  BY <1>4, <1>5, <1>6, <1>7, <1>8 DEF loaded, bss, base

-----------------------------------------------------------------------------
(* Sums modulo a word.                                                     *)

LEMMA NoMultipleBetween ==
  ASSUME NEW w \in Nat \ {0}, NEW q \in Int, -w < w * q, w * q < w
  PROVE  q = 0
<1>1. CASE q >= 1
  <2>1. w * q = w + w * (q - 1) /\ w * (q - 1) >= 0
    BY <1>1
  <2>2. w * q \in Int /\ w * (q - 1) \in Int
    OBVIOUS
  <2>3. QED
    BY <2>1, <2>2
<1>2. CASE q <= -1
  <2>1. w * q = w * (q + 1) - w /\ w * (q + 1) <= 0
    BY <1>2
  <2>2. w * q \in Int /\ w * (q + 1) \in Int
    OBVIOUS
  <2>3. QED
    BY <2>1, <2>2
<1>3. QED
  BY <1>1, <1>2

LEMMA Remainder ==
  ASSUME NEW w \in Nat \ {0}, NEW x \in Int
  PROVE  x \div w \in Int /\ x % w \in 0 .. w - 1 /\ x = w * (x \div w) + (x % w)
OBVIOUS

\* A sum wraps as if only the result did.
LEMMA WrapsOnce ==
  ASSUME NEW w \in Nat \ {0}, NEW x \in Int, NEW y \in Int
  PROVE  ((x % w) + y) % w = (x + y) % w
<1> DEFINE r == x % w
           q == x \div w
           a == (r + y) % w
           qa == (r + y) \div w
           b == (x + y) % w
           qb == (x + y) \div w
<1>1. q \in Int /\ r \in 0 .. w - 1 /\ x = w * q + r
  BY Remainder
<1>2. r + y \in Int /\ x + y \in Int
  BY <1>1
<1> HIDE DEF r, q
<1>3. qa \in Int /\ a \in 0 .. w - 1 /\ r + y = w * qa + a
  BY <1>2, Remainder
<1>4. qb \in Int /\ b \in 0 .. w - 1 /\ x + y = w * qb + b
  BY <1>2, Remainder
<1> HIDE DEF a, qa, b, qb
<1> DEFINE d == q + qa - qb
<1>5. d \in Int /\ w * d = b - a
  <2>1. w * q \in Int /\ w * qa \in Int /\ w * qb \in Int
    BY <1>1, <1>3, <1>4
  <2>2. w * d = w * q + (w * qa - w * qb)
    BY <1>1, <1>3, <1>4
  <2>3. w * q + (w * qa - w * qb) = b - a
    BY <1>1, <1>3, <1>4, <2>1
  <2>4. QED
    BY <1>1, <1>3, <1>4, <2>2, <2>3
<1>6. -w < w * d /\ w * d < w
  BY <1>3, <1>4, <1>5
<1> HIDE DEF d
<1>7. d = 0
  BY <1>5, <1>6, NoMultipleBetween
<1>8. b - a = 0
  BY <1>5, <1>7
<1>9. a = b
  BY <1>3, <1>4, <1>8
<1>10. QED
  BY <1>9 DEF a, b, r

\* Moving every hunk by the same distance adds it once for each relocation.
LEMMA SumOfShifted ==
  ASSUME NEW f, NEW g, NEW S, IsFiniteSet(S), NEW base \in Nat,
         \A x \in S : g[x] \in Nat /\ f[x] = base + g[x]
  PROVE  SumFunctionOnSet(f, S) = SumFunctionOnSet(g, S) + base * Cardinality(S)
<1> DEFINE Good == {T \in SUBSET S : SumFunctionOnSet(f, T) = SumFunctionOnSet(g, T) + base * Cardinality(T)}
<1>1. {} \in Good
  <2>1. Cardinality({}) = 0
    BY FS_EmptySet
  <2>2. SumFunctionOnSet(f, {}) = 0 /\ SumFunctionOnSet(g, {}) = 0
    BY SumEmpty
  <2>3. 0 = 0 + base * 0
    OBVIOUS
  <2>4. QED
    BY <2>1, <2>2, <2>3
<1>2. ASSUME NEW T \in SUBSET S, NEW x \in S \ T, T \in Good
      PROVE  T \cup {x} \in Good
  <2>1. IsFiniteSet(T) /\ Cardinality(T) \in Nat
    BY FS_Subset, FS_CardinalityType
  <2>2. Cardinality(T \cup {x}) = Cardinality(T) + 1
    BY <2>1, FS_AddElement
  <2>3. IsNumeric(f, T \cup {x}) /\ IsNumeric(g, T \cup {x})
    BY DEF IsNumeric
  <2>4. /\ SumFunctionOnSet(f, T \cup {x}) = SumFunctionOnSet(f, T) + f[x]
        /\ SumFunctionOnSet(g, T \cup {x}) = SumFunctionOnSet(g, T) + g[x]
    BY <2>1, <2>3, SumOfOneMore
  <2>5. SumFunctionOnSet(g, T) \in Nat
    BY <2>1, SumIsNat
  <2>6. SumFunctionOnSet(f, T) = SumFunctionOnSet(g, T) + base * Cardinality(T)
    BY <1>2
  <2>7. f[x] = base + g[x] /\ g[x] \in Nat
    OBVIOUS
  <2>8. \A b, c, s, y \in Nat : s + b * c + (b + y) = (s + y) + b * (c + 1)
    OBVIOUS
  <2>9. (SumFunctionOnSet(g, T) + base * Cardinality(T)) + (base + g[x])
          = (SumFunctionOnSet(g, T) + g[x]) + base * (Cardinality(T) + 1)
    BY <2>1, <2>5, <2>7, <2>8
  <2>10. SumFunctionOnSet(f, T \cup {x}) = SumFunctionOnSet(g, T \cup {x}) + base * Cardinality(T \cup {x})
    BY <2>2, <2>4, <2>6, <2>7, <2>9
  <2>11. T \cup {x} \in SUBSET S
    OBVIOUS
  <2>12. QED
    BY <2>10, <2>11
<1>3. S \in Good
  <2> HIDE DEF Good
  <2>1. QED
    BY <1>1, <1>2, SubsetInduction
<1>4. QED
  BY <1>3

-----------------------------------------------------------------------------
(* Sorting.                                                                *)

LEMMA IntervalCount ==
  ASSUME NEW a \in Nat, NEW b \in Nat, a <= b
  PROVE  IsFiniteSet(a + 1 .. b) /\ Cardinality(a + 1 .. b) = b - a
<1>1. a + 1 \in Int /\ b \in Int
  OBVIOUS
<1>2. IsFiniteSet(a + 1 .. b) /\ Cardinality(a + 1 .. b) = IF a + 1 > b THEN 0 ELSE b - (a + 1) + 1
  BY <1>1, FS_Interval
<1>3. (IF a + 1 > b THEN 0 ELSE b - (a + 1) + 1) = b - a
  OBVIOUS
<1>4. QED
  BY <1>2, <1>3

LEMMA FirstCount == ASSUME NEW n \in Nat PROVE IsFiniteSet(1 .. n) /\ Cardinality(1 .. n) = n
<1>1. 1 \in Int /\ n \in Int
  OBVIOUS
<1>2. IsFiniteSet(1 .. n) /\ Cardinality(1 .. n) = IF 1 > n THEN 0 ELSE n - 1 + 1
  BY <1>1, FS_Interval
<1>3. QED
  BY <1>1, <1>2

Under(s, v)  == {m \in DOMAIN s : s[m] < v}
AtMost(s, v)   == {m \in DOMAIN s : s[m] <= v}
Places(s, v) == {m \in DOMAIN s : s[m] = v}

LEMMA RankFacts ==
  ASSUME NEW s \in Seq(Nat), NEW v \in Nat
  PROVE  /\ IsFiniteSet(Under(s, v)) /\ IsFiniteSet(AtMost(s, v)) /\ IsFiniteSet(Places(s, v))
         /\ Cardinality(Under(s, v)) \in Nat /\ Cardinality(Places(s, v)) \in Nat
         /\ Cardinality(AtMost(s, v)) = Cardinality(Under(s, v)) + Cardinality(Places(s, v))
         /\ Cardinality(AtMost(s, v)) <= Len(s)
         /\ \A w \in Nat : v < w => Cardinality(AtMost(s, v)) <= Cardinality(Under(s, w))
         /\ v # 0 => Under(s, v) = AtMost(s, v - 1)
         /\ v = 0 => Under(s, v) = {}
<1>1. DOMAIN s = 1 .. Len(s) /\ Len(s) \in Nat /\ \A m \in DOMAIN s : s[m] \in Nat
  OBVIOUS
<1>2. IsFiniteSet(DOMAIN s) /\ Cardinality(DOMAIN s) = Len(s)
  BY <1>1, FirstCount
<1>a. \A S \in SUBSET DOMAIN s : IsFiniteSet(S) /\ Cardinality(S) \in Nat /\ Cardinality(S) <= Len(s)
  BY <1>2, FS_Subset, FS_CardinalityType
<1>3. \A w \in Nat : /\ Under(s, w) \in SUBSET DOMAIN s /\ AtMost(s, w) \in SUBSET DOMAIN s
                     /\ Places(s, w) \in SUBSET DOMAIN s
  BY DEF Under, AtMost, Places
<1>4. AtMost(s, v) = Under(s, v) \cup Places(s, v) /\ Under(s, v) \cap Places(s, v) = {}
  BY <1>1 DEF Under, AtMost, Places
<1>5. Cardinality(AtMost(s, v)) = Cardinality(Under(s, v)) + Cardinality(Places(s, v))
  <2>1. Cardinality(Under(s, v) \cap Places(s, v)) = 0
    BY <1>4, FS_EmptySet
  <2>2. Cardinality(Under(s, v) \cup Places(s, v)) =
          Cardinality(Under(s, v)) + Cardinality(Places(s, v)) - Cardinality(Under(s, v) \cap Places(s, v))
    BY <1>a, <1>3, FS_Union
  <2>3. Cardinality(Under(s, v)) \in Nat /\ Cardinality(Places(s, v)) \in Nat
    BY <1>a, <1>3
  <2>4. QED
    BY <1>4, <2>1, <2>2, <2>3
<1>6. ASSUME NEW w \in Nat, v < w
      PROVE  Cardinality(AtMost(s, v)) <= Cardinality(Under(s, w))
  <2>1. AtMost(s, v) \subseteq Under(s, w)
    BY <1>1, <1>6 DEF AtMost, Under
  <2>2. QED
    BY <1>a, <1>3, <2>1, FS_Subset
<1>7. v # 0 => Under(s, v) = AtMost(s, v - 1)
  BY <1>1 DEF AtMost, Under
<1>8. v = 0 => Under(s, v) = {}
  BY <1>1 DEF Under
<1>9. QED
  BY <1>a, <1>3, <1>5, <1>6, <1>7, <1>8

HasRank(s, n, v) == Cardinality(Under(s, v)) < n /\ n <= Cardinality(AtMost(s, v))

LEMMA RankIsTaken ==
  ASSUME NEW s \in Seq(Nat), NEW bound \in Nat, \A m \in DOMAIN s : s[m] < bound, NEW n \in DOMAIN s
  PROVE  \E v \in Range(s) : HasRank(s, n, v)
<1> DEFINE V == {v \in Nat : n <= Cardinality(AtMost(s, v))}
<1>1. DOMAIN s = 1 .. Len(s) /\ Len(s) \in Nat /\ \A m \in DOMAIN s : s[m] \in Nat
  OBVIOUS
<1>2. AtMost(s, bound) = DOMAIN s
  BY <1>1 DEF AtMost
<1>3. bound \in V
  BY <1>1, <1>2, FirstCount
<1>4. PICK v \in V : \A w \in V : v <= w
  BY <1>3, LeastElement
<1>5. Cardinality(Under(s, v)) < n
  <2>1. CASE v = 0
    <3>1. Cardinality(Under(s, v)) = 0
      BY <2>1, RankFacts, FS_EmptySet
    <3>2. QED
      BY <1>1, <3>1
  <2>2. CASE v # 0
    <3>1. v - 1 \in Nat /\ v - 1 < v
      BY <2>2
    <3>2. v - 1 \notin V
      BY <1>4, <3>1
    <3>3. ~(n <= Cardinality(AtMost(s, v - 1)))
      BY <3>1, <3>2
    <3>4. Cardinality(AtMost(s, v - 1)) = Cardinality(Under(s, v)) /\ Cardinality(Under(s, v)) \in Nat
      BY <2>2, RankFacts
    <3>5. QED
      BY <1>1, <3>3, <3>4
  <2>3. QED
    BY <2>1, <2>2
<1>6. Places(s, v) # {}
  <2> SUFFICES ASSUME Places(s, v) = {}
               PROVE  FALSE
    OBVIOUS
  <2>1. Cardinality(Places(s, v)) = 0
    BY FS_EmptySet
  <2>2. Cardinality(AtMost(s, v)) = Cardinality(Under(s, v)) + Cardinality(Places(s, v)) /\ Cardinality(Under(s, v)) \in Nat
    BY RankFacts
  <2>3. QED
    BY <1>1, <1>4, <1>5, <2>1, <2>2
<1>7. v \in Range(s)
  BY <1>6 DEF Places, Range
<1>8. QED
  BY <1>4, <1>5, <1>7 DEF HasRank

LEMMA RankIsUnique ==
  ASSUME NEW s \in Seq(Nat), NEW v \in Nat, NEW w \in Nat, NEW n \in Nat, NEW l \in Nat,
         HasRank(s, n, v), HasRank(s, l, w), n <= l
  PROVE  v <= w
<1> SUFFICES ASSUME w < v
             PROVE  FALSE
  OBVIOUS
<1>1. Cardinality(AtMost(s, w)) <= Cardinality(Under(s, v))
  BY RankFacts
<1>2. Cardinality(Under(s, v)) < n /\ l <= Cardinality(AtMost(s, w))
  BY DEF HasRank
<1>3. Cardinality(AtMost(s, w)) \in Nat /\ Cardinality(Under(s, v)) \in Nat
  <2>1. \A u \in Nat : Cardinality(Under(s, u)) \in Nat /\ Cardinality(Places(s, u)) \in Nat
          /\ Cardinality(AtMost(s, u)) = Cardinality(Under(s, u)) + Cardinality(Places(s, u))
    BY RankFacts
  <2>2. Cardinality(AtMost(s, w)) \in Nat
    <3>1. Cardinality(Under(s, w)) \in Nat /\ Cardinality(Places(s, w)) \in Nat
      BY <2>1
    <3>2. Cardinality(Under(s, w)) + Cardinality(Places(s, w)) \in Nat
      BY <3>1
    <3>3. Cardinality(AtMost(s, w)) = Cardinality(Under(s, w)) + Cardinality(Places(s, w))
      BY <2>1
    <3>4. QED
      BY <3>2, <3>3
  <2>3. QED
    BY <2>1, <2>2
<1>4. QED
  BY <1>1, <1>2, <1>3

\* Elements whose sets of lesser ones form a chain are numbered by their sizes.
LEMMA RanksAreTaken ==
  ASSUME NEW S, IsFiniteSet(S), NEW upTo,
         \A x \in S : upTo[x] \in SUBSET S /\ x \in upTo[x],
         \A x, y \in S : x # y => upTo[x] \subseteq upTo[y] \ {y} \/ upTo[y] \subseteq upTo[x] \ {x}
  PROVE  /\ \A x \in S : Cardinality(upTo[x]) \in 1 .. Cardinality(S)
         /\ \A x, y \in S : Cardinality(upTo[x]) = Cardinality(upTo[y]) => x = y
         /\ \A n \in 1 .. Cardinality(S) : \E x \in S : Cardinality(upTo[x]) = n
<1> DEFINE rank == [x \in S |-> Cardinality(upTo[x])]
           N == Cardinality(S)
<1>1. N \in Nat /\ \A x \in S : IsFiniteSet(upTo[x]) /\ Cardinality(upTo[x]) \in Nat /\ Cardinality(upTo[x]) <= N
  BY FS_Subset, FS_CardinalityType
<1>2. \A x \in S : Cardinality(upTo[x]) \in 1 .. N
  <2> SUFFICES ASSUME NEW x \in S
               PROVE  Cardinality(upTo[x]) \in 1 .. N
    OBVIOUS
  <2>1. Cardinality(upTo[x]) # 0
    BY <1>1, FS_EmptySet
  <2>2. QED
    BY <1>1, <2>1
<1>3. ASSUME NEW x \in S, NEW y \in S, upTo[x] \subseteq upTo[y] \ {y}
      PROVE  Cardinality(upTo[x]) < Cardinality(upTo[y])
  <2>1. IsFiniteSet(upTo[y] \ {y}) /\ Cardinality(upTo[y] \ {y}) = Cardinality(upTo[y]) - 1
    BY <1>1, FS_RemoveElement
  <2>2. Cardinality(upTo[x]) <= Cardinality(upTo[y] \ {y})
    BY <1>3, <2>1, FS_Subset
  <2>3. QED
    BY <1>1, <2>1, <2>2
<1>4. \A x, y \in S : Cardinality(upTo[x]) = Cardinality(upTo[y]) => x = y
  <2> SUFFICES ASSUME NEW x \in S, NEW y \in S, Cardinality(upTo[x]) = Cardinality(upTo[y]), x # y
               PROVE  FALSE
    OBVIOUS
  <2>1. Cardinality(upTo[x]) < Cardinality(upTo[y]) \/ Cardinality(upTo[y]) < Cardinality(upTo[x])
    BY <1>3
  <2>2. QED
    BY <1>1, <2>1
<1>5. rank \in Injection(S, 1 .. N)
  BY <1>2, <1>4 DEF Injection, IsInjective
<1>6. IsFiniteSet(1 .. N) /\ Cardinality(1 .. N) = N
  BY <1>1, FirstCount
<1> HIDE DEF rank
<1>7. rank \in Surjection(S, 1 .. N)
  BY <1>5, <1>6, FS_Injection
<1>8. \A n \in 1 .. N : \E x \in S : Cardinality(upTo[x]) = n
  BY <1>7 DEF Surjection, rank
<1>9. QED
  BY <1>2, <1>4, <1>8

Through(S, j) == {m \in S : m <= j}

\* A finite set of numbers has a first element, a second, and so on.
LEMMA NumbersAreRanked ==
  ASSUME NEW S \in SUBSET Nat, IsFiniteSet(S)
  PROVE  /\ \A j \in S : Cardinality(Through(S, j)) \in 1 .. Cardinality(S)
         /\ \A j, l \in S : Cardinality(Through(S, j)) = Cardinality(Through(S, l)) => j = l
         /\ \A n \in 1 .. Cardinality(S) : \E j \in S : Cardinality(Through(S, j)) = n
<1> DEFINE upTo == [j \in S |-> Through(S, j)]
<1>1. \A j \in S : upTo[j] \in SUBSET S /\ j \in upTo[j]
  BY DEF Through
<1>2. \A j, l \in S : j # l => upTo[j] \subseteq upTo[l] \ {l} \/ upTo[l] \subseteq upTo[j] \ {j}
  <2>1. ASSUME NEW j \in S, NEW l \in S, j < l
        PROVE  upTo[j] \subseteq upTo[l] \ {l}
    <3>1. j \in Nat /\ l \in Nat
      OBVIOUS
    <3>2. \A m \in S : m \in Nat /\ (m <= j => m <= l /\ m # l)
      BY <2>1, <3>1
    <3>3. QED
      BY <3>2 DEF Through
  <2>2. \A j, l \in S : j # l => j < l \/ l < j
    OBVIOUS
  <2> HIDE DEF upTo
  <2>3. QED
    BY <2>1, <2>2
<1>3. \A j \in S : upTo[j] = Through(S, j)
  OBVIOUS
<1> HIDE DEF upTo
<1>4. /\ \A j \in S : Cardinality(upTo[j]) \in 1 .. Cardinality(S)
      /\ \A j, l \in S : Cardinality(upTo[j]) = Cardinality(upTo[l]) => j = l
      /\ \A n \in 1 .. Cardinality(S) : \E j \in S : Cardinality(upTo[j]) = n
  BY <1>1, <1>2, RanksAreTaken
<1>5. QED
  BY <1>3, <1>4

\* A sequence of each at its rank has them all, in order.
LEMMA Enumerated ==
  ASSUME NEW S \in SUBSET Nat, IsFiniteSet(S), NEW e \in [1 .. Cardinality(S) -> S],
         \A n \in 1 .. Cardinality(S) : Cardinality(Through(S, e[n])) = n
  PROVE  /\ Cardinality(S) \in Nat
         /\ \A j \in S : \E n \in 1 .. Cardinality(S) : e[n] = j
         /\ \A n, m \in 1 .. Cardinality(S) : n < m <=> e[n] < e[m]
<1> DEFINE N == Cardinality(S)
<1>1. N \in Nat
  BY FS_CardinalityType
<1>2. ASSUME NEW j \in S
      PROVE  \E n \in 1 .. N : e[n] = j
  <2> DEFINE n == Cardinality(Through(S, j))
  <2>1. n \in 1 .. N
    BY NumbersAreRanked
  <2>2. Cardinality(Through(S, e[n])) = n /\ e[n] \in S
    BY <2>1
  <2>3. e[n] = j
    BY <2>2, NumbersAreRanked
  <2>4. QED
    BY <2>1, <2>3
<1>3. ASSUME NEW n \in 1 .. N, NEW m \in 1 .. N, e[n] <= e[m]
      PROVE  n <= m
  <2>1. e[n] \in Nat /\ e[m] \in Nat
    OBVIOUS
  <2>2. Through(S, e[n]) \subseteq Through(S, e[m])
    <3>1. \A x, y, z \in Nat : x <= y /\ y <= z => x <= z
      OBVIOUS
    <3>2. \A l \in S : l \in Nat /\ (l <= e[n] => l <= e[m])
      BY <1>3, <2>1, <3>1
    <3>3. QED
      BY <3>2 DEF Through
  <2>3. Through(S, e[m]) \in SUBSET S
    BY DEF Through
  <2>4. IsFiniteSet(Through(S, e[m]))
    BY <2>3, FS_Subset
  <2>5. Cardinality(Through(S, e[n])) <= Cardinality(Through(S, e[m]))
    BY <2>2, <2>4, FS_Subset
  <2>6. QED
    BY <2>5
<1>4. ASSUME NEW n \in 1 .. N, NEW m \in 1 .. N
      PROVE  n < m <=> e[n] < e[m]
  <2>1. e[n] \in Nat /\ e[m] \in Nat /\ (e[n] <= e[m] => n <= m) /\ (e[m] <= e[n] => m <= n)
    BY <1>3
  <2>2. n = m => e[n] = e[m]
    OBVIOUS
  <2>3. \A a, b, x, y \in Nat : (x <= y => a <= b) /\ (y <= x => b <= a) /\ (a = b => x = y) => (a < b <=> x < y)
    OBVIOUS
  <2>4. n \in Nat /\ m \in Nat
    BY <1>1
  <2> HIDE DEF N
  <2>5. QED
    BY <2>1, <2>2, <2>3, <2>4
<1>5. QED
  BY <1>1, <1>2, <1>4

-----------------------------------------------------------------------------
(* Escapes.                                                                *)

Bytes == 0 .. Radix - 1

LEMMA Concatenated ==
  ASSUME NEW B, NEW s \in Seq(B), NEW t \in Seq(B)
  PROVE  /\ s \o t \in Seq(B)
         /\ Len(s \o t) = Len(s) + Len(t)
         /\ \A k \in 1 .. Len(s) : (s \o t)[k] = s[k]
         /\ \A k \in 1 .. Len(t) : (s \o t)[Len(s) + k] = t[k]
OBVIOUS

LEMMA Digit ==
  ASSUME NEW n \in Nat
  PROVE  n = (n \div Radix) * Radix + (n % Radix) /\ n \div Radix \in Nat /\ n % Radix \in 0 .. Radix - 1
BY RadixAssumption

LEMMA Quotient == ASSUME NEW n \in Nat, NEW m \in Nat, n < Radix * m PROVE n \div Radix < m
BY RadixAssumption

\* The four bytes of an escape are the digits of the number.
LEMMA BigEndianIs ==
  ASSUME NEW n \in Nat, n < Longwords
  PROVE  LET d == BigEndian(n)
         IN  /\ Len(d) = 4 /\ d \in Seq(Bytes)
             /\ ((d[1] * Radix + d[2]) * Radix + d[3]) * Radix + d[4] = n
<1> DEFINE high == n \div Radix
           higher == high \div Radix
           highest == higher \div Radix
           d == BigEndian(n)
<1>1. high \in Nat /\ n = high * Radix + (n % Radix) /\ n % Radix \in 0 .. Radix - 1
  BY Digit
<1>2. high < Radix * (Radix * Radix)
  BY <1>1, Quotient, RadixAssumption DEF Longwords
<1> HIDE DEF high
<1>3. higher \in Nat /\ high = higher * Radix + (high % Radix) /\ high % Radix \in 0 .. Radix - 1
  BY <1>1, Digit
<1>4. higher < Radix * Radix
  BY <1>1, <1>2, Quotient, RadixAssumption
<1> HIDE DEF higher
<1>5. highest \in Nat /\ higher = highest * Radix + (higher % Radix) /\ higher % Radix \in 0 .. Radix - 1
  BY <1>3, Digit
<1>6. highest < Radix
  BY <1>3, <1>4, Quotient, RadixAssumption
<1> HIDE DEF highest
<1>7. highest % Radix = highest
  BY <1>5, <1>6, RadixAssumption
<1>8. d = <<highest % Radix, higher % Radix, high % Radix, n % Radix>>
  BY DEF BigEndian, highest, higher, high
<1>9. /\ DOMAIN d = 1 .. 4 /\ Len(d) = 4
      /\ d[1] = highest /\ d[2] = higher % Radix /\ d[3] = high % Radix /\ d[4] = n % Radix
  BY <1>7, <1>8
<1>10. ((d[1] * Radix + d[2]) * Radix + d[3]) * Radix + d[4] = n
  <2> HIDE DEF d
  <2>1. QED
    BY <1>1, <1>3, <1>5, <1>9
<1>11. d \in Seq(Bytes)
  <2>1. highest \in Bytes /\ higher % Radix \in Bytes /\ high % Radix \in Bytes /\ n % Radix \in Bytes
    BY <1>1, <1>3, <1>5, <1>6, RadixAssumption DEF Bytes
  <2>2. QED
    BY <1>7, <1>8, <2>1
<1>12. QED
  BY <1>9, <1>10, <1>11

\* A distance takes one byte or five.
LEMMA CodeIs ==
  ASSUME NEW half \in Nat, half < Longwords
  PROVE  LET code == EncodeHalfDelta(half)
         IN  /\ code \in Seq(Bytes)
             /\ code[1] # End
             /\ IF code[1] = Escape
                THEN /\ Len(code) = 5
                     /\ ((code[2] * Radix + code[3]) * Radix + code[4]) * Radix + code[5] = half
                ELSE Len(code) = 1 /\ code[1] = half
<1>1. CASE half < End
  <2>1. EncodeHalfDelta(half) = <<half>>
    BY <1>1 DEF EncodeHalfDelta
  <2>2. half \in Bytes /\ half # End /\ half # Escape
    BY <1>1, RadixAssumption DEF End, Escape, Bytes
  <2>3. QED
    BY <2>1, <2>2
<1>2. CASE ~(half < End)
  <2> DEFINE d == BigEndian(half)
             code == EncodeHalfDelta(half)
  <2>1. code = <<Escape>> \o d
    BY <1>2 DEF EncodeHalfDelta
  <2>2. /\ Len(d) = 4 /\ d \in Seq(Bytes)
        /\ ((d[1] * Radix + d[2]) * Radix + d[3]) * Radix + d[4] = half
    BY BigEndianIs
  <2>a. d \in Seq(Bytes) /\ Len(d) = 4
    BY <2>2
  <2>3. Escape \in Bytes /\ Escape # End
    BY RadixAssumption DEF End, Escape, Bytes
  <2> HIDE DEF d, code
  <2>4. /\ code \in Seq(Bytes) /\ Len(code) = 5 /\ code[1] = Escape
        /\ code[2] = d[1] /\ code[3] = d[2] /\ code[4] = d[3] /\ code[5] = d[4]
    <3> DEFINE head == <<Escape>>
    <3>1. head \in Seq(Bytes) /\ Len(head) = 1 /\ head[1] = Escape /\ code = head \o d
      BY <2>1, <2>3
    <3> HIDE DEF head
    <3>2. /\ code \in Seq(Bytes) /\ Len(code) = 1 + 4
          /\ \A k \in 1 .. 1 : code[k] = head[k]
          /\ \A k \in 1 .. 4 : code[1 + k] = d[k]
      <4>a. head \in Seq(Bytes) /\ d \in Seq(Bytes)
        BY <2>a, <3>1
      <4>1. head \o d \in Seq(Bytes) /\ Len(head \o d) = Len(head) + Len(d)
        BY <4>a, Concatenated
      <4>2. \A k \in 1 .. Len(head) : (head \o d)[k] = head[k]
        BY <4>a, Concatenated
      <4>3. \A k \in 1 .. Len(d) : (head \o d)[Len(head) + k] = d[k]
        BY <4>a, Concatenated
      <4>4. QED
        BY <2>a, <3>1, <4>1, <4>2, <4>3
    <3>3. code[1] = Escape
      BY <3>1, <3>2
    <3>4. code[1 + 1] = d[1] /\ code[1 + 2] = d[2] /\ code[1 + 3] = d[3] /\ code[1 + 4] = d[4]
      BY <3>2
    <3>5. QED
      BY <3>2, <3>3, <3>4
  <2>5. QED
    BY <2>2, <2>3, <2>4 DEF code
<1>3. QED
  BY <1>1, <1>2

\* RelocFixup reads a distance's bytes back, wherever they lie.
LEMMA RecordIs ==
  ASSUME NEW half \in Nat, half < Longwords, NEW bytes, NEW at \in Int,
         \A k \in 1 .. Len(EncodeHalfDelta(half)) : bytes[at + k - 1] = EncodeHalfDelta(half)[k]
  PROVE  /\ bytes[at] # End
         /\ RecordLength(bytes, at) = Len(EncodeHalfDelta(half))
         /\ HalfDelta(bytes, at) = half
<1> DEFINE code == EncodeHalfDelta(half)
<1>1. /\ code \in Seq(Bytes)
      /\ code[1] # End
      /\ IF code[1] = Escape
         THEN /\ Len(code) = 5
              /\ ((code[2] * Radix + code[3]) * Radix + code[4]) * Radix + code[5] = half
         ELSE Len(code) = 1 /\ code[1] = half
  BY CodeIs
<1>2. \A k \in 1 .. Len(code) : bytes[at + k - 1] = code[k]
  OBVIOUS
<1> HIDE DEF code
<1>3. at + 1 - 1 = at /\ at + 2 - 1 = at + 1 /\ at + 3 - 1 = at + 2 /\ at + 4 - 1 = at + 3 /\ at + 5 - 1 = at + 4
  OBVIOUS
<1>4. bytes[at] = code[1]
  BY <1>1, <1>2, <1>3
<1>5. CASE code[1] = Escape
  <2>a. Len(code) = 5
    BY <1>1, <1>5
  <2>b. bytes[at + 2 - 1] = code[2] /\ bytes[at + 3 - 1] = code[3] /\ bytes[at + 4 - 1] = code[4] /\ bytes[at + 5 - 1] = code[5]
    BY <1>2, <2>a
  <2>1. bytes[at + 1] = code[2] /\ bytes[at + 2] = code[3] /\ bytes[at + 3] = code[4] /\ bytes[at + 4] = code[5]
    BY <1>3, <2>b
  <2>2. HalfDelta(bytes, at) = half
    BY <1>1, <1>4, <1>5, <2>1 DEF HalfDelta
  <2>3. QED
    BY <1>1, <1>4, <1>5, <2>2 DEF RecordLength, code
<1>6. CASE code[1] # Escape
  BY <1>1, <1>4, <1>6 DEF RecordLength, HalfDelta, code
<1>7. QED
  BY <1>5, <1>6

-----------------------------------------------------------------------------
(* Codes one after the other.                                              *)

IsJoined(joined, codes, k) ==
  joined = [n \in 0 .. k |-> IF n = 0 THEN <<>> ELSE joined[n - 1] \o codes[n]]

LEMMA JoinedExists ==
  ASSUME NEW codes
  PROVE  \A k \in Nat : \E joined : IsJoined(joined, codes, k)
<1> DEFINE Good == {k \in Nat : \E joined : IsJoined(joined, codes, k)}
<1>1. 0 \in Good
  <2> DEFINE joined == [n \in 0 .. 0 |-> <<>>]
  <2>1. \A n \in 0 .. 0 : n = 0
    OBVIOUS
  <2>2. IsJoined(joined, codes, 0)
    BY <2>1 DEF IsJoined
  <2>3. QED
    BY <2>2
<1>2. ASSUME NEW k \in Nat, k \in Good
      PROVE  k + 1 \in Good
  <2>1. PICK g : IsJoined(g, codes, k)
    BY <1>2
  <2> DEFINE next == [n \in 0 .. k + 1 |-> IF n = 0 THEN <<>> ELSE g[n - 1] \o codes[n]]
  <2>2. \A n \in 0 .. k : next[n] = g[n]
    <3>1. \A n \in 0 .. k : g[n] = IF n = 0 THEN <<>> ELSE g[n - 1] \o codes[n]
      BY <2>1 DEF IsJoined
    <3>2. QED
      BY <3>1
  <2>3. \A n \in 0 .. k + 1 : n # 0 => next[n - 1] = g[n - 1]
    <3>1. \A n \in 0 .. k + 1 : n # 0 => n - 1 \in 0 .. k
      OBVIOUS
    <3> HIDE DEF next
    <3>2. QED
      BY <2>2, <3>1
  <2>4. IsJoined(next, codes, k + 1)
    BY <2>3 DEF IsJoined
  <2>5. QED
    BY <2>4
<1>3. \A k \in Nat : k \in Good
  <2> HIDE DEF Good
  <2>1. QED
    BY <1>1, <1>2, SetInduction
<1>4. QED
  BY <1>3

Joined(codes) ==
  LET joined[n \in 0 .. Len(codes)] == IF n = 0 THEN <<>> ELSE joined[n - 1] \o codes[n]
  IN  joined

\* Where the code after the first n starts.
Start(codes, n) == Len(Joined(codes)[n])

LEMMA TerminatedUnfolds ==
  ASSUME NEW codes
  PROVE  Terminated(codes) = Append(Joined(codes)[Len(codes)], End)
BY DEF Terminated, Joined

AreCodes(codes) ==
  /\ Len(codes) \in Nat /\ DOMAIN codes = 1 .. Len(codes)
  /\ \A n \in DOMAIN codes : codes[n] \in Seq(Bytes) /\ Len(codes[n]) \in Nat \ {0}

LEMMA JoinedIs ==
  ASSUME NEW codes, AreCodes(codes)
  PROVE  /\ Joined(codes)[0] = <<>>
         /\ \A n \in 1 .. Len(codes) : Joined(codes)[n] = Joined(codes)[n - 1] \o codes[n]
         /\ \A n \in 0 .. Len(codes) : Joined(codes)[n] \in Seq(Bytes)
<1> DEFINE r == Joined(codes)
           N == Len(codes)
           Good == {n \in Nat : n <= N => r[n] \in Seq(Bytes)}
<1>0. N \in Nat
  BY DEF AreCodes
<1>1. IsJoined(r, codes, N)
  <2>1. Joined(codes) = CHOOSE joined : IsJoined(joined, codes, Len(codes))
    BY DEF Joined, IsJoined
  <2>2. QED
    BY <1>0, <2>1, JoinedExists
<1>2. r[0] = <<>> /\ \A n \in 1 .. N : r[n] = r[n - 1] \o codes[n]
  <2> HIDE DEF r, N
  <2>1. \A n \in 0 .. N : r[n] = IF n = 0 THEN <<>> ELSE r[n - 1] \o codes[n]
    BY <1>1 DEF IsJoined
  <2>2. r[0] = <<>>
    <3>1. 0 \in 0 .. N
      BY <1>0
    <3>2. QED
      BY <2>1, <3>1
  <2>3. ASSUME NEW n \in 1 .. N
        PROVE  r[n] = r[n - 1] \o codes[n]
    <3>1. n \in 0 .. N /\ n # 0
      OBVIOUS
    <3>2. QED
      BY <2>1, <3>1
  <2>4. QED
    BY <2>2, <2>3
<1>3. \A n \in 1 .. N : codes[n] \in Seq(Bytes)
  BY DEF AreCodes
<1> HIDE DEF r, N
<1>4. 0 \in Good
  <2>1. r[0] = <<>> /\ <<>> \in Seq(Bytes)
    BY <1>2
  <2>2. r[0] \in Seq(Bytes)
    BY <2>1
  <2>3. QED
    BY <2>2
<1>5. ASSUME NEW n \in Nat, n \in Good
      PROVE  n + 1 \in Good
  <2> SUFFICES ASSUME n + 1 <= N
               PROVE  r[n + 1] \in Seq(Bytes)
    OBVIOUS
  <2>1. n + 1 \in 1 .. N /\ (n + 1) - 1 = n
    BY <1>0
  <2>2. r[n] \in Seq(Bytes)
    BY <1>0, <1>5
  <2>3. codes[n + 1] \in Seq(Bytes)
    BY <1>3, <2>1
  <2>4. r[n + 1] = r[n] \o codes[n + 1]
    BY <1>2, <2>1
  <2>5. QED
    BY <2>2, <2>3, <2>4, Concatenated
<1>6. \A n \in Nat : n \in Good
  <2> HIDE DEF Good
  <2>1. QED
    BY <1>4, <1>5, SetInduction
<1>7. \A n \in 0 .. N : r[n] \in Seq(Bytes)
  <2>1. \A n \in 0 .. N : n \in Nat /\ n <= N
    BY <1>0
  <2>2. QED
    BY <1>6, <2>1
<1>8. QED
  BY <1>2, <1>7 DEF r, N

\* What has been appended stays where it is.
LEMMA JoinedStays ==
  ASSUME NEW codes, AreCodes(codes), NEW m \in 0 .. Len(codes)
  PROVE  \A n \in m .. Len(codes) :
           /\ Start(codes, m) <= Start(codes, n)
           /\ \A k \in 1 .. Start(codes, m) : Joined(codes)[n][k] = Joined(codes)[m][k]
<1> DEFINE r == Joined(codes)
           N == Len(codes)
           Kept(n) == Len(r[m]) <= Len(r[n]) /\ \A k \in 1 .. Len(r[m]) : r[n][k] = r[m][k]
           Good == {d \in Nat : m + d <= N => Kept(m + d)}
<1>0. N \in Nat /\ m \in Nat
  BY DEF AreCodes
<1>1. \A n \in 1 .. N : r[n] = r[n - 1] \o codes[n] /\ codes[n] \in Seq(Bytes)
  BY JoinedIs DEF AreCodes
<1>2. \A n \in 0 .. N : r[n] \in Seq(Bytes)
  BY JoinedIs
<1>a. Len(r[m]) \in Nat
  BY <1>0, <1>2
<1> HIDE DEF r, N
<1>3. 0 \in Good
  <2>1. m + 0 = m
    BY <1>0
  <2>2. QED
    BY <1>a, <2>1
<1>4. ASSUME NEW d \in Nat, d \in Good
      PROVE  d + 1 \in Good
  <2> SUFFICES ASSUME m + (d + 1) <= N
               PROVE  Kept(m + (d + 1))
    OBVIOUS
  <2> DEFINE n == m + d
  <2>1. n \in 0 .. N /\ n + 1 \in 1 .. N /\ (n + 1) - 1 = n /\ m + (d + 1) = n + 1
    BY <1>0
  <2>2. Kept(n)
    BY <1>0, <1>4
  <2> HIDE DEF n
  <2>3. r[n + 1] = r[n] \o codes[n + 1] /\ codes[n + 1] \in Seq(Bytes) /\ r[n] \in Seq(Bytes)
    BY <1>1, <1>2, <2>1
  <2>4. Len(r[n + 1]) = Len(r[n]) + Len(codes[n + 1]) /\ Len(r[n]) \in Nat /\ Len(codes[n + 1]) \in Nat
    BY <2>3, Concatenated
  <2>5. \A k \in 1 .. Len(r[n]) : r[n + 1][k] = r[n][k]
    <3>1. \A k \in 1 .. Len(r[n]) : (r[n] \o codes[n + 1])[k] = r[n][k]
      BY <2>3, Concatenated, ZenonT(40)
    <3>2. QED
      BY <2>3, <3>1
  <2>6. Len(r[m]) <= Len(r[n + 1])
    <3>1. Len(r[m]) <= Len(r[n])
      BY <2>2
    <3>2. \A a, b, c \in Nat : a <= b => a <= b + c
      OBVIOUS
    <3> HIDE DEF Kept
    <3>3. Len(r[m]) <= Len(r[n]) + Len(codes[n + 1])
      BY <1>a, <2>4, <3>1, <3>2
    <3>4. QED
      BY <2>4, <3>3
  <2>8. ASSUME NEW k \in 1 .. Len(r[m])
        PROVE  r[n + 1][k] = r[m][k]
    <3>1. k \in 1 .. Len(r[n])
      BY <1>a, <2>2, <2>4
    <3>2. QED
      BY <2>2, <2>5, <3>1
  <2>7. QED
    BY <2>1, <2>6, <2>8
<1>5. \A d \in Nat : d \in Good
  <2> HIDE DEF Good
  <2>1. QED
    BY <1>3, <1>4, SetInduction
<1>6. ASSUME NEW n \in m .. N
      PROVE  Kept(n)
  <2>1. n - m \in Nat /\ m + (n - m) = n
    BY <1>0
  <2>2. m + (n - m) <= N
    BY <1>0
  <2>3. Kept(m + (n - m))
    BY <1>5, <2>1, <2>2
  <2>4. QED
    BY <2>1, <2>3
<1>7. QED
  BY <1>6 DEF r, N, Start

\* The codes lie in the stream one after the other, and the terminator ends it.
LEMMA CodesLie ==
  ASSUME NEW codes, AreCodes(codes)
  PROVE  LET s == Terminated(codes)
         IN  /\ s \in Seq(Bytes) /\ Len(s) = Start(codes, Len(codes)) + 1
             /\ Start(codes, 0) = 0 /\ s[Len(s)] = End
             /\ \A m \in 0 .. Len(codes) : Start(codes, m) \in Nat /\ Start(codes, m) < Len(s)
             /\ \A m \in 0 .. Len(codes) - 1 :
                  /\ Start(codes, m + 1) = Start(codes, m) + Len(codes[m + 1])
                  /\ \A k \in 1 .. Len(codes[m + 1]) : s[Start(codes, m) + k] = codes[m + 1][k]
<1> DEFINE r == Joined(codes)
           N == Len(codes)
           s == Terminated(codes)
<1>0. N \in Nat
  BY DEF AreCodes
<1>1. s = Append(r[N], End)
  BY TerminatedUnfolds
<1>2. r[0] = <<>> /\ \A n \in 0 .. N : r[n] \in Seq(Bytes)
  BY JoinedIs
<1>3. End \in Bytes
  BY RadixAssumption DEF End, Bytes
<1>4. \A m \in 0 .. N : Start(codes, m) = Len(r[m]) /\ Len(r[m]) \in Nat
  BY <1>2 DEF Start
<1>5. \A m \in 0 .. N, n \in 0 .. N :
        m <= n => /\ Start(codes, m) <= Start(codes, n)
                  /\ \A k \in 1 .. Start(codes, m) : r[n][k] = r[m][k]
  <2> SUFFICES ASSUME NEW m \in 0 .. N, NEW n \in 0 .. N, m <= n
               PROVE  /\ Start(codes, m) <= Start(codes, n)
                      /\ \A k \in 1 .. Start(codes, m) : r[n][k] = r[m][k]
    OBVIOUS
  <2>1. n \in m .. N
    BY <1>0
  <2>2. QED
    BY <2>1, JoinedStays
<1>a. \A n \in 1 .. N : r[n] = r[n - 1] \o codes[n] /\ codes[n] \in Seq(Bytes)
  BY JoinedIs DEF AreCodes
<1> HIDE DEF r, N, s
<1>6. N \in 0 .. N /\ 0 \in 0 .. N
  BY <1>0
<1>7. /\ s \in Seq(Bytes) /\ Len(s) = Len(r[N]) + 1 /\ s[Len(s)] = End
      /\ \A k \in 1 .. Len(r[N]) : s[k] = r[N][k]
  BY <1>1, <1>2, <1>3, <1>6
<1>8. Start(codes, 0) = 0
  BY <1>2, <1>4, <1>6
<1>9. \A m \in 0 .. N : Start(codes, m) \in Nat /\ Start(codes, m) < Len(s)
  <2> SUFFICES ASSUME NEW m \in 0 .. N
               PROVE  Start(codes, m) \in Nat /\ Start(codes, m) < Len(s)
    OBVIOUS
  <2>1. m <= N
    BY <1>0
  <2>2. Start(codes, m) <= Start(codes, N)
    BY <1>5, <1>6, <2>1
  <2>3. QED
    BY <1>4, <1>6, <1>7, <2>2
<1>10. ASSUME NEW m \in 0 .. N - 1
       PROVE  /\ Start(codes, m + 1) = Start(codes, m) + Len(codes[m + 1])
              /\ \A k \in 1 .. Len(codes[m + 1]) : s[Start(codes, m) + k] = codes[m + 1][k]
  <2> DEFINE code == codes[m + 1]
  <2>1. m \in 0 .. N /\ m + 1 \in 1 .. N /\ m + 1 \in 0 .. N /\ (m + 1) - 1 = m /\ m + 1 <= N
    BY <1>0
  <2>2. r[m + 1] = r[m] \o code /\ code \in Seq(Bytes) /\ r[m] \in Seq(Bytes)
    BY <1>2, <1>a, <2>1
  <2>3. Start(codes, m) = Len(r[m]) /\ Start(codes, m + 1) = Len(r[m + 1])
    BY <1>4, <2>1
  <2> HIDE DEF code
  <2>5. /\ Len(r[m + 1]) = Len(r[m]) + Len(code) /\ Len(r[m]) \in Nat /\ Len(code) \in Nat
        /\ \A k \in 1 .. Len(code) : r[m + 1][Len(r[m]) + k] = code[k]
    BY <2>2, Concatenated
  <2>6. Start(codes, m + 1) <= Start(codes, N) /\ \A k \in 1 .. Start(codes, m + 1) : r[N][k] = r[m + 1][k]
    BY <1>5, <1>6, <2>1
  <2>7. ASSUME NEW k \in 1 .. Len(code)
        PROVE  s[Start(codes, m) + k] = code[k]
    <3> DEFINE p == Len(r[m]) + k
    <3>1. p \in 1 .. Len(r[m + 1])
      BY <2>5
    <3>2. p \in 1 .. Start(codes, m + 1) /\ p \in 1 .. Len(r[N])
      BY <1>4, <1>6, <2>3, <2>6, <3>1, SMTT(30)
    <3>3. s[p] = r[N][p] /\ r[N][p] = r[m + 1][p] /\ r[m + 1][p] = code[k]
      BY <1>7, <2>5, <2>6, <3>2
    <3>4. QED
      BY <2>3, <3>3
  <2>8. QED
    BY <2>3, <2>5, <2>7 DEF code
<1>11. QED
  BY <1>4, <1>6, <1>7, <1>8, <1>9, <1>10 DEF s, N

-----------------------------------------------------------------------------
(* The stream of a single region.                                          *)

Delta(sites, n) == (sites[n] - IF n = 1 THEN 0 ELSE sites[n - 1]) \div 2

Codes(sites) == [n \in 1 .. Len(sites) |-> EncodeHalfDelta(Delta(sites, n))]

\* What comes before the record of site n + 1.
Offset(sites, n) == Start(Codes(sites), n)

\* flatten.zig sorts the sites, and all are even and in the image.
AreSites(sites) ==
  /\ sites \in Seq(Nat)
  /\ \A n \in DOMAIN sites :
       /\ sites[n] % 2 = 0
       /\ n > 1 => sites[n - 1] <= sites[n]
       /\ sites[n] < 2 * Longwords

LEMMA DeltaIs ==
  ASSUME NEW sites, AreSites(sites), NEW n \in 1 .. Len(sites)
  PROVE  /\ Delta(sites, n) \in Nat /\ Delta(sites, n) < Longwords
         /\ sites[n] = (IF n = 1 THEN 0 ELSE sites[n - 1]) + 2 * Delta(sites, n)
<1>1. Longwords \in Nat
  BY RadixAssumption DEF Longwords
<1>2. sites[n] \in Nat /\ sites[n] % 2 = 0 /\ sites[n] < 2 * Longwords
  BY DEF AreSites
<1>3. CASE n = 1
  BY <1>1, <1>2, <1>3 DEF Delta
<1>4. CASE n # 1
  <2>1. sites[n - 1] \in Nat /\ sites[n - 1] % 2 = 0 /\ sites[n - 1] <= sites[n]
    BY <1>4, SMTT(30) DEF AreSites
  <2>2. \A a, b \in Nat : a % 2 = 0 /\ b % 2 = 0 /\ a <= b =>
          /\ (b - a) \div 2 \in Nat /\ b = a + 2 * ((b - a) \div 2)
    OBVIOUS
  <2>3. /\ Delta(sites, n) = (sites[n] - sites[n - 1]) \div 2
        /\ Delta(sites, n) \in Nat /\ sites[n] = sites[n - 1] + 2 * Delta(sites, n)
    BY <1>2, <1>4, <2>1, <2>2 DEF Delta
  <2>4. QED
    BY <1>1, <1>2, <1>4, <2>1, <2>3
<1>5. QED
  BY <1>3, <1>4

LEMMA CodesAre ==
  ASSUME NEW sites, AreSites(sites)
  PROVE  /\ EncodeRelocStream(sites) = Terminated(Codes(sites))
         /\ AreCodes(Codes(sites)) /\ Len(Codes(sites)) = Len(sites)
<1>1. Len(sites) \in Nat
  BY DEF AreSites
<1>2. EncodeRelocStream(sites) = Terminated(Codes(sites))
  BY DEF EncodeRelocStream, Codes, Delta
<1>3. DOMAIN Codes(sites) = 1 .. Len(sites) /\ Len(Codes(sites)) = Len(sites)
  BY <1>1 DEF Codes
<1>4. ASSUME NEW n \in 1 .. Len(sites)
      PROVE  Codes(sites)[n] \in Seq(Bytes) /\ Len(Codes(sites)[n]) \in Nat \ {0}
  <2>1. Delta(sites, n) \in Nat /\ Delta(sites, n) < Longwords
    BY DeltaIs
  <2>2. EncodeHalfDelta(Delta(sites, n)) \in Seq(Bytes) /\ Len(EncodeHalfDelta(Delta(sites, n))) \in Nat \ {0}
    BY <2>1, CodeIs
  <2>3. QED
    BY <2>2 DEF Codes
<1>5. QED
  BY <1>1, <1>2, <1>3, <1>4 DEF AreCodes

\* Record by record, the stream holds the distances between the sites, and the
\* terminator: what flatten.zig's encodeRelocStream writes, RelocFixup reads.
THEOREM StreamTellsSites ==
  ASSUME NEW sites, AreSites(sites)
  PROVE  LET s == EncodeRelocStream(sites)
         IN  /\ s \in Seq(Bytes) /\ Len(s) = Offset(sites, Len(sites)) + 1
             /\ Offset(sites, 0) = 0 /\ s[Len(s)] = End
             /\ \A m \in 0 .. Len(sites) : Offset(sites, m) \in Nat /\ Offset(sites, m) < Len(s)
             /\ \A m \in 0 .. Len(sites) - 1 :
                  LET at == Offset(sites, m) + 1
                  IN  /\ s[at] # End
                      /\ HalfDelta(s, at) = Delta(sites, m + 1)
                      /\ Offset(sites, m + 1) = Offset(sites, m) + RecordLength(s, at)
<1> DEFINE codes == Codes(sites)
           s == EncodeRelocStream(sites)
<1>1. s = Terminated(codes) /\ AreCodes(codes) /\ Len(codes) = Len(sites)
  BY CodesAre
<1>2. /\ s \in Seq(Bytes) /\ Len(s) = Start(codes, Len(codes)) + 1
      /\ Start(codes, 0) = 0 /\ s[Len(s)] = End
      /\ \A m \in 0 .. Len(codes) : Start(codes, m) \in Nat /\ Start(codes, m) < Len(s)
      /\ \A m \in 0 .. Len(codes) - 1 :
           /\ Start(codes, m + 1) = Start(codes, m) + Len(codes[m + 1])
           /\ \A k \in 1 .. Len(codes[m + 1]) : s[Start(codes, m) + k] = codes[m + 1][k]
  BY <1>1, CodesLie
<1>3. \A m : Offset(sites, m) = Start(codes, m)
  BY DEF Offset
<1>4. ASSUME NEW m \in 0 .. Len(sites) - 1
      PROVE  LET at == Offset(sites, m) + 1
             IN  /\ s[at] # End
                 /\ HalfDelta(s, at) = Delta(sites, m + 1)
                 /\ Offset(sites, m + 1) = Offset(sites, m) + RecordLength(s, at)
  <2> DEFINE at == Start(codes, m) + 1
             half == Delta(sites, m + 1)
  <2>1. Len(sites) \in Nat
    BY DEF AreSites
  <2>2. m + 1 \in 1 .. Len(sites) /\ m \in 0 .. Len(codes) /\ m \in 0 .. Len(codes) - 1
    BY <1>1, <2>1
  <2>3. half \in Nat /\ half < Longwords
    BY <2>2, DeltaIs
  <2>4. codes[m + 1] = EncodeHalfDelta(half)
    BY <2>2 DEF Codes
  <2>5. Start(codes, m) \in Nat
    BY <1>2, <2>2
  <2> HIDE DEF codes, s, half
  <2>6. \A k \in 1 .. Len(EncodeHalfDelta(half)) : s[Start(codes, m) + k] = EncodeHalfDelta(half)[k]
    BY <1>2, <2>2, <2>4
  <2>7. \A k \in 1 .. Len(EncodeHalfDelta(half)) : s[at + k - 1] = EncodeHalfDelta(half)[k]
    <3>1. \A k \in Int : at + k - 1 = Start(codes, m) + k
      BY <2>5
    <3> HIDE DEF at
    <3>2. ASSUME NEW n \in 1 .. Len(EncodeHalfDelta(half))
          PROVE  s[at + n - 1] = EncodeHalfDelta(half)[n]
      <4>1. at + n - 1 = Start(codes, m) + n
        BY <3>1
      <4>2. QED
        BY <2>6, <4>1
    <3>3. QED
      BY <3>2
  <2>8. at \in Int
    BY <2>5
  <2>9. s[at] # End /\ RecordLength(s, at) = Len(EncodeHalfDelta(half)) /\ HalfDelta(s, at) = half
    BY <2>3, <2>7, <2>8, RecordIs
  <2>10. Start(codes, m + 1) = Start(codes, m) + RecordLength(s, at)
    BY <1>2, <2>2, <2>4, <2>9
  <2>11. QED
    BY <1>3, <2>9, <2>10 DEF half
<1>5. QED
  BY <1>1, <1>2, <1>3, <1>4 DEF s

\* A record read elsewhere, from the same bytes.
LEMMA RecordElsewhere ==
  ASSUME NEW s, NEW at \in Int, NEW bytes, NEW base \in Int,
         \A k \in 0 .. RecordLength(s, at) - 1 : bytes[base + k] = s[at + k]
  PROVE  /\ bytes[base] = s[at]
         /\ RecordLength(bytes, base) = RecordLength(s, at)
         /\ HalfDelta(bytes, base) = HalfDelta(s, at)
<1>1. RecordLength(s, at) = IF s[at] = Escape THEN 5 ELSE 1
  BY DEF RecordLength
<1>2. bytes[base] = s[at]
  <2>1. 0 \in 0 .. RecordLength(s, at) - 1 /\ base + 0 = base /\ at + 0 = at
    BY <1>1
  <2>2. QED
    BY <2>1
<1>3. CASE s[at] = Escape
  <2>1. \A k \in 0 .. 4 : bytes[base + k] = s[at + k]
    BY <1>1, <1>3
  <2>2. QED
    BY <1>2, <1>3, <2>1 DEF RecordLength, HalfDelta
<1>4. CASE s[at] # Escape
  BY <1>2, <1>4 DEF RecordLength, HalfDelta
<1>5. QED
  BY <1>2, <1>3, <1>4

-----------------------------------------------------------------------------
(* The stream of one region among several.                                 *)

Offsets(sites) == [n \in 1 .. Len(sites) |-> sites[n].offset]

\* memory_groups.zig sorts the sites; a target is a resident's number.
AreGroupSites(sites) ==
  /\ sites \in Seq([offset : Nat, target : 0 .. End - 1])
  /\ AreSites(Offsets(sites))

GroupCodes(sites) ==
  [n \in 1 .. Len(sites) |-> <<sites[n].target>> \o EncodeHalfDelta(Delta(Offsets(sites), n))]

GroupOffset(sites, n) == Start(GroupCodes(sites), n)

LEMMA GroupCodesAre ==
  ASSUME NEW sites, AreGroupSites(sites)
  PROVE  /\ EncodeGroupStream(sites) = Terminated(GroupCodes(sites))
         /\ AreCodes(GroupCodes(sites)) /\ Len(GroupCodes(sites)) = Len(sites)
         /\ \A n \in 1 .. Len(sites) :
              LET code == EncodeHalfDelta(Delta(Offsets(sites), n))
              IN  /\ Delta(Offsets(sites), n) \in Nat /\ Delta(Offsets(sites), n) < Longwords
                  /\ Len(code) \in Nat \ {0} /\ Len(GroupCodes(sites)[n]) = 1 + Len(code)
                  /\ GroupCodes(sites)[n][1] = sites[n].target
                  /\ \A k \in 1 .. Len(code) : GroupCodes(sites)[n][1 + k] = code[k]
<1> DEFINE offsets == Offsets(sites)
<1>1. Len(sites) \in Nat /\ DOMAIN sites = 1 .. Len(sites)
  BY DEF AreGroupSites
<1>2. /\ AreSites(offsets) /\ Len(offsets) = Len(sites)
      /\ \A n \in 1 .. Len(sites) : offsets[n] = sites[n].offset
  BY <1>1 DEF AreGroupSites, Offsets
<1>3. \A n \in 1 .. Len(sites) :
        Delta(offsets, n) = (sites[n].offset - IF n = 1 THEN 0 ELSE sites[n - 1].offset) \div 2
  <2> SUFFICES ASSUME NEW n \in 1 .. Len(sites)
               PROVE  Delta(offsets, n) = (sites[n].offset - IF n = 1 THEN 0 ELSE sites[n - 1].offset) \div 2
    OBVIOUS
  <2>1. n = 1 \/ n - 1 \in 1 .. Len(sites)
    BY <1>1
  <2> HIDE DEF offsets
  <2>2. QED
    BY <1>2, <2>1 DEF Delta
<1> HIDE DEF offsets
<1>4. EncodeGroupStream(sites) = Terminated(GroupCodes(sites))
  <2>1. GroupCodes(sites) =
          [n \in 1 .. Len(sites) |->
             <<sites[n].target>> \o EncodeHalfDelta((sites[n].offset - IF n = 1 THEN 0 ELSE sites[n - 1].offset) \div 2)]
    BY <1>3 DEF GroupCodes, offsets
  <2>2. QED
    BY <2>1 DEF EncodeGroupStream
<1>5. DOMAIN GroupCodes(sites) = 1 .. Len(sites) /\ Len(GroupCodes(sites)) = Len(sites)
  BY <1>1 DEF GroupCodes
<1>6. ASSUME NEW n \in 1 .. Len(sites)
      PROVE  LET code == EncodeHalfDelta(Delta(offsets, n))
             IN  /\ GroupCodes(sites)[n] \in Seq(Bytes)
                 /\ Delta(offsets, n) \in Nat /\ Delta(offsets, n) < Longwords
                 /\ Len(code) \in Nat \ {0} /\ Len(GroupCodes(sites)[n]) = 1 + Len(code)
                 /\ GroupCodes(sites)[n][1] = sites[n].target
                 /\ \A k \in 1 .. Len(code) : GroupCodes(sites)[n][1 + k] = code[k]
  <2> DEFINE code == EncodeHalfDelta(Delta(offsets, n))
             head == <<sites[n].target>>
  <2>1. Delta(offsets, n) \in Nat /\ Delta(offsets, n) < Longwords
    BY <1>2, DeltaIs
  <2>2. code \in Seq(Bytes) /\ Len(code) \in Nat \ {0}
    BY <2>1, CodeIs
  <2>3. sites[n].target \in Bytes
    <3> DEFINE Site == [offset : Nat, target : 0 .. End - 1]
    <3>a. sites \in Seq(Site)
      BY DEF AreGroupSites
    <3> HIDE DEF Site
    <3>b. sites[n] \in Site
      BY <3>a
    <3>1. sites[n].target \in 0 .. End - 1
      BY <3>b DEF Site
    <3>2. QED
      BY <3>1, RadixAssumption DEF Bytes, End
  <2>4. head \in Seq(Bytes) /\ Len(head) = 1 /\ head[1] = sites[n].target
    BY <2>3
  <2>5. GroupCodes(sites)[n] = head \o code
    BY DEF GroupCodes, offsets
  <2> HIDE DEF code, head
  <2>6. /\ head \o code \in Seq(Bytes) /\ Len(head \o code) = 1 + Len(code)
        /\ \A k \in 1 .. 1 : (head \o code)[k] = head[k]
        /\ \A k \in 1 .. Len(code) : (head \o code)[1 + k] = code[k]
    <3> DEFINE both == head \o code
    <3>1. /\ both \in Seq(Bytes) /\ Len(both) = Len(head) + Len(code)
          /\ \A k \in 1 .. Len(head) : both[k] = head[k]
          /\ \A k \in 1 .. Len(code) : both[Len(head) + k] = code[k]
      <4>1. head \in Seq(Bytes) /\ code \in Seq(Bytes)
        BY <2>2, <2>4
      <4>2. both \in Seq(Bytes) /\ Len(both) = Len(head) + Len(code)
        BY <4>1, Concatenated
      <4>3. \A k \in 1 .. Len(head) : both[k] = head[k]
        BY <4>1, Concatenated
      <4>4. \A k \in 1 .. Len(code) : both[Len(head) + k] = code[k]
        BY <4>1, Concatenated
      <4>5. QED
        BY <4>2, <4>3, <4>4
    <3> HIDE DEF both
    <3>2. /\ both \in Seq(Bytes) /\ Len(both) = 1 + Len(code)
          /\ \A k \in 1 .. 1 : both[k] = head[k]
          /\ \A k \in 1 .. Len(code) : both[1 + k] = code[k]
      BY <2>4, <3>1
    <3>3. QED
      BY <3>2 DEF both
  <2>7. QED
    BY <2>1, <2>2, <2>4, <2>5, <2>6 DEF code
<1>7. AreCodes(GroupCodes(sites))
  BY <1>1, <1>5, <1>6 DEF AreCodes
<1>8. QED
  BY <1>4, <1>5, <1>6, <1>7 DEF offsets

\* Record by record, the stream holds each site's target and its distance from
\* the site before: what memory_groups.zig writes, mixed.s reads.
THEOREM GroupStreamTellsSites ==
  ASSUME NEW sites, AreGroupSites(sites)
  PROVE  LET s == EncodeGroupStream(sites)
         IN  /\ s \in Seq(Bytes) /\ Len(s) = GroupOffset(sites, Len(sites)) + 1
             /\ GroupOffset(sites, 0) = 0 /\ s[Len(s)] = End
             /\ \A m \in 0 .. Len(sites) : GroupOffset(sites, m) \in Nat /\ GroupOffset(sites, m) < Len(s)
             /\ \A m \in 0 .. Len(sites) - 1 :
                  LET at == GroupOffset(sites, m) + 1
                  IN  /\ s[at] = sites[m + 1].target
                      /\ HalfDelta(s, at + 1) = Delta(Offsets(sites), m + 1)
                      /\ GroupOffset(sites, m + 1) = GroupOffset(sites, m) + GroupRecordLength(s, at)
<1> DEFINE codes == GroupCodes(sites)
           s == EncodeGroupStream(sites)
<1>1. s = Terminated(codes) /\ AreCodes(codes) /\ Len(codes) = Len(sites)
  BY GroupCodesAre
<1>2. /\ s \in Seq(Bytes) /\ Len(s) = Start(codes, Len(codes)) + 1
      /\ Start(codes, 0) = 0 /\ s[Len(s)] = End
      /\ \A m \in 0 .. Len(codes) : Start(codes, m) \in Nat /\ Start(codes, m) < Len(s)
      /\ \A m \in 0 .. Len(codes) - 1 :
           /\ Start(codes, m + 1) = Start(codes, m) + Len(codes[m + 1])
           /\ \A k \in 1 .. Len(codes[m + 1]) : s[Start(codes, m) + k] = codes[m + 1][k]
  BY <1>1, CodesLie
<1>3. \A m : GroupOffset(sites, m) = Start(codes, m)
  BY DEF GroupOffset
<1>4. ASSUME NEW m \in 0 .. Len(sites) - 1
      PROVE  LET at == GroupOffset(sites, m) + 1
             IN  /\ s[at] = sites[m + 1].target
                 /\ HalfDelta(s, at + 1) = Delta(Offsets(sites), m + 1)
                 /\ GroupOffset(sites, m + 1) = GroupOffset(sites, m) + GroupRecordLength(s, at)
  <2> DEFINE o == Start(codes, m)
             half == Delta(Offsets(sites), m + 1)
             code == EncodeHalfDelta(half)
  <2>1. Len(sites) \in Nat
    BY DEF AreGroupSites
  <2>2. m + 1 \in 1 .. Len(sites) /\ m \in 0 .. Len(codes) /\ m \in 0 .. Len(codes) - 1
    BY <1>1, <2>1
  <2>3. /\ half \in Nat /\ half < Longwords /\ Len(code) \in Nat \ {0}
        /\ Len(codes[m + 1]) = 1 + Len(code) /\ codes[m + 1][1] = sites[m + 1].target
        /\ \A k \in 1 .. Len(code) : codes[m + 1][1 + k] = code[k]
    BY <2>2, GroupCodesAre
  <2>4. /\ o \in Nat /\ Start(codes, m + 1) = o + Len(codes[m + 1])
        /\ \A k \in 1 .. Len(codes[m + 1]) : s[o + k] = codes[m + 1][k]
    BY <1>2, <2>2
  <2> HIDE DEF codes, s, half, code, o
  <2>5. s[o + 1] = sites[m + 1].target
    BY <2>3, <2>4
  <2>6. \A k \in 1 .. Len(code) : s[o + 1 + 1 + k - 1] = code[k]
    <3> SUFFICES ASSUME NEW k \in 1 .. Len(code)
                 PROVE  s[o + 1 + 1 + k - 1] = code[k]
      OBVIOUS
    <3>1. 1 + k \in 1 .. Len(codes[m + 1]) /\ o + 1 + 1 + k - 1 = o + (1 + k)
      BY <2>3, <2>4
    <3>2. QED
      BY <2>3, <2>4, <3>1
  <2>7. RecordLength(s, o + 1 + 1) = Len(code) /\ HalfDelta(s, o + 1 + 1) = half
    <3> DEFINE at == o + 1 + 1
    <3>1. at \in Int
      BY <2>4
    <3> HIDE DEF at
    <3>2. \A k \in 1 .. Len(EncodeHalfDelta(half)) : s[at + k - 1] = EncodeHalfDelta(half)[k]
      BY <2>6 DEF code, at
    <3>3. RecordLength(s, at) = Len(EncodeHalfDelta(half)) /\ HalfDelta(s, at) = half
      BY <2>3, <3>1, <3>2, RecordIs
    <3>4. QED
      BY <3>3 DEF at, code
  <2>8. Start(codes, m + 1) = o + GroupRecordLength(s, o + 1)
    BY <2>3, <2>4, <2>7 DEF GroupRecordLength
  <2>9. QED
    BY <1>3, <2>5, <2>7, <2>8 DEF half, o
<1>5. QED
  BY <1>1, <1>2, <1>3, <1>4 DEF s

\* A record read elsewhere, from the same bytes.
LEMMA GroupRecordElsewhere ==
  ASSUME NEW s, NEW at \in Int, NEW bytes, NEW base \in Int,
         \A k \in 0 .. GroupRecordLength(s, at) - 1 : bytes[base + k] = s[at + k]
  PROVE  /\ bytes[base] = s[at]
         /\ GroupRecordLength(bytes, base) = GroupRecordLength(s, at)
         /\ HalfDelta(bytes, base + 1) = HalfDelta(s, at + 1)
<1>1. GroupRecordLength(s, at) = 1 + RecordLength(s, at + 1) /\ RecordLength(s, at + 1) \in {1, 5}
  BY DEF GroupRecordLength, RecordLength
<1>2. bytes[base] = s[at]
  <2>1. 0 \in 0 .. GroupRecordLength(s, at) - 1 /\ base + 0 = base /\ at + 0 = at
    BY <1>1
  <2>2. QED
    BY <2>1
<1>3. \A k \in 0 .. RecordLength(s, at + 1) - 1 : bytes[base + 1 + k] = s[at + 1 + k]
  <2> SUFFICES ASSUME NEW k \in 0 .. RecordLength(s, at + 1) - 1
               PROVE  bytes[base + 1 + k] = s[at + 1 + k]
    OBVIOUS
  <2>1. 1 + k \in 0 .. GroupRecordLength(s, at) - 1 /\ base + 1 + k = base + (1 + k) /\ at + 1 + k = at + (1 + k)
    BY <1>1
  <2>2. QED
    BY <2>1
<1> DEFINE from == at + 1
           to == base + 1
<1>4. from \in Int /\ to \in Int
  OBVIOUS
<1>b. \A k \in 0 .. RecordLength(s, from) - 1 : bytes[to + k] = s[from + k]
  BY <1>3
<1> HIDE DEF from, to
<1>a. /\ bytes[to] = s[from]
      /\ RecordLength(bytes, to) = RecordLength(s, from)
      /\ HalfDelta(bytes, to) = HalfDelta(s, from)
  BY <1>4, <1>b, RecordElsewhere, Z3
<1>5. RecordLength(bytes, base + 1) = RecordLength(s, at + 1) /\ HalfDelta(bytes, base + 1) = HalfDelta(s, at + 1)
  BY <1>a DEF from, to
<1>6. QED
  BY <1>1, <1>2, <1>5 DEF GroupRecordLength

-----------------------------------------------------------------------------
(* The stream read back from its own bytes.                                *)

Turn(bytes, r) == [a5 |-> r.a5 + RecordLength(bytes, r.a5), d6 |-> r.d6 + 2 * HalfDelta(bytes, r.a5)]

IsRegisters(registers, bytes, k) ==
  registers = [n \in 0 .. k |-> IF n = 0 THEN [a5 |-> 1, d6 |-> 0] ELSE Turn(bytes, registers[n - 1])]

LEMMA RegistersExist ==
  ASSUME NEW bytes
  PROVE  \A k \in Nat : \E registers : IsRegisters(registers, bytes, k)
<1> DEFINE Good == {k \in Nat : \E registers : IsRegisters(registers, bytes, k)}
           first == [a5 |-> 1, d6 |-> 0]
<1>1. 0 \in Good
  <2> DEFINE registers == [n \in 0 .. 0 |-> first]
  <2>1. \A n \in 0 .. 0 : n = 0
    OBVIOUS
  <2>2. IsRegisters(registers, bytes, 0)
    BY <2>1 DEF IsRegisters
  <2>3. QED
    BY <2>2
<1>2. ASSUME NEW k \in Nat, k \in Good
      PROVE  k + 1 \in Good
  <2>1. PICK g : IsRegisters(g, bytes, k)
    BY <1>2
  <2> DEFINE next == [n \in 0 .. k + 1 |-> IF n = 0 THEN first ELSE Turn(bytes, g[n - 1])]
  <2>2. \A n \in 0 .. k : next[n] = g[n]
    <3>1. \A n \in 0 .. k : g[n] = IF n = 0 THEN first ELSE Turn(bytes, g[n - 1])
      BY <2>1 DEF IsRegisters
    <3>2. QED
      BY <3>1
  <2>3. \A n \in 0 .. k + 1 : n # 0 => next[n - 1] = g[n - 1]
    <3>1. \A n \in 0 .. k + 1 : n # 0 => n - 1 \in 0 .. k
      OBVIOUS
    <3> HIDE DEF next
    <3>2. QED
      BY <2>2, <3>1
  <2>4. IsRegisters(next, bytes, k + 1)
    BY <2>3 DEF IsRegisters
  <2>5. QED
    BY <2>4
<1>3. \A k \in Nat : k \in Good
  <2> HIDE DEF Good
  <2>1. QED
    BY <1>1, <1>2, SetInduction
<1>4. QED
  BY <1>3

Registers(bytes) ==
  LET registers[n \in 0 .. Len(bytes)] ==
        IF n = 0 THEN [a5 |-> 1, d6 |-> 0] ELSE Turn(bytes, registers[n - 1])
  IN  registers

LEMMA RegistersAre ==
  ASSUME NEW bytes, Len(bytes) \in Nat
  PROVE  IsRegisters(Registers(bytes), bytes, Len(bytes))
<1>1. Registers(bytes) = CHOOSE registers : IsRegisters(registers, bytes, Len(bytes))
  BY DEF Registers, IsRegisters
<1>2. QED
  BY <1>1, RegistersExist

IsEnd(bytes, n) == bytes[Registers(bytes)[n].a5] = End

FirstEnd(bytes) ==
  CHOOSE n \in 0 .. Len(bytes) : IsEnd(bytes, n) /\ \A m \in 0 .. n - 1 : ~IsEnd(bytes, m)

LEMMA DecodingUnfolds ==
  ASSUME NEW bytes
  PROVE  DecodeRelocStream(bytes) = [n \in 1 .. FirstEnd(bytes) |-> Registers(bytes)[n].d6]
BY DEF DecodeRelocStream, Registers, Turn, IsEnd, FirstEnd

\* The site before the record of site n + 1.
SiteBefore(sites, n) == IF n = 0 THEN 0 ELSE sites[n]

\* The registers after n records of a stream.
LEMMA RegistersFollow ==
  ASSUME NEW sites, AreSites(sites)
  PROVE  \A n \in 0 .. Len(sites) :
           LET r == Registers(EncodeRelocStream(sites))[n]
           IN  /\ r.a5 = Offset(sites, n) + 1
               /\ r.d6 = SiteBefore(sites, n)
               /\ n <= Offset(sites, n)
<1> DEFINE s == EncodeRelocStream(sites)
           N == Len(sites)
           R == Registers(s)
           Right(n) == /\ R[n].a5 = Offset(sites, n) + 1
                       /\ R[n].d6 = SiteBefore(sites, n)
                       /\ n <= Offset(sites, n)
           Good == {n \in Nat : n <= N => Right(n)}
<1>0. N \in Nat /\ Len(s) \in Nat /\ Len(s) = Offset(sites, N) + 1
  BY StreamTellsSites DEF AreSites
<1>1. IsRegisters(R, s, Len(s))
  BY <1>0, RegistersAre
<1>2. \A n \in 0 .. Len(s) : R[n] = IF n = 0 THEN [a5 |-> 1, d6 |-> 0] ELSE Turn(s, R[n - 1])
  <2> HIDE DEF R, s
  <2>1. QED
    BY <1>1 DEF IsRegisters
<1>3. Offset(sites, 0) = 0 /\ \A n \in 0 .. N : Offset(sites, n) \in Nat /\ Offset(sites, n) < Len(s)
  BY StreamTellsSites
<1>4. \A n \in 0 .. N - 1 :
        LET at == Offset(sites, n) + 1
        IN  /\ HalfDelta(s, at) = Delta(sites, n + 1)
            /\ Offset(sites, n + 1) = Offset(sites, n) + RecordLength(s, at)
  BY StreamTellsSites
<1>5. \A n \in 1 .. N : sites[n] = SiteBefore(sites, n - 1) + 2 * Delta(sites, n)
  BY DeltaIs DEF SiteBefore
<1>a. \A n \in 0 .. N : SiteBefore(sites, n) \in Nat
  BY DEF SiteBefore, AreSites
<1> HIDE DEF s, N, R
<1>6. 0 \in Good
  <2>1. R[0] = [a5 |-> 1, d6 |-> 0]
    BY <1>0, <1>2
  <2>2. QED
    BY <1>3, <2>1 DEF SiteBefore
<1>7. ASSUME NEW n \in Nat, n \in Good
      PROVE  n + 1 \in Good
  <2> SUFFICES ASSUME n + 1 <= N
               PROVE  Right(n + 1)
    OBVIOUS
  <2> DEFINE at == Offset(sites, n) + 1
  <2>1. n \in 0 .. N /\ n \in 0 .. N - 1 /\ n + 1 \in 1 .. N /\ (n + 1) - 1 = n /\ n + 1 # 0 /\ n + 1 \in 0 .. N
    BY <1>0
  <2>2. R[n].a5 = at /\ R[n].d6 = SiteBefore(sites, n) /\ n <= Offset(sites, n)
    BY <1>0, <1>7
  <2>3. Offset(sites, n) \in Nat /\ Offset(sites, n) < Len(s)
    BY <1>3, <2>1
  <2>4. n + 1 \in 0 .. Len(s)
    BY <1>0, <2>2, <2>3
  <2>5. R[n + 1] = Turn(s, R[n])
    BY <1>2, <2>1, <2>4
  <2>6. R[n + 1].a5 = at + RecordLength(s, at) /\ R[n + 1].d6 = SiteBefore(sites, n) + 2 * HalfDelta(s, at)
    BY <2>2, <2>5 DEF Turn
  <2>7. HalfDelta(s, at) = Delta(sites, n + 1) /\ Offset(sites, n + 1) = Offset(sites, n) + RecordLength(s, at)
    BY <1>4, <2>1
  <2>8. RecordLength(s, at) \in {1, 5}
    BY DEF RecordLength
  <2>9. R[n + 1].a5 = Offset(sites, n + 1) + 1 /\ n + 1 <= Offset(sites, n + 1)
    BY <2>2, <2>3, <2>6, <2>7, <2>8
  <2>10. sites[n + 1] = SiteBefore(sites, n) + 2 * Delta(sites, n + 1) /\ SiteBefore(sites, n + 1) = sites[n + 1]
    BY <1>5, <2>1 DEF SiteBefore
  <2>11. QED
    BY <2>6, <2>7, <2>9, <2>10
<1>8. \A n \in Nat : n \in Good
  <2> HIDE DEF Good
  <2>1. QED
    BY <1>6, <1>7, SetInduction
<1>9. \A n \in 0 .. N : Right(n)
  BY <1>0, <1>8
<1>10. QED
  BY <1>9 DEF N, R, s

\* The sites RelocFixup visits are those encodeRelocStream was given: one turn
\* of its loop per site, and none of them runs past the terminator.
THEOREM StreamReadsBack ==
  ASSUME NEW sites, AreSites(sites)
  PROVE  DecodeRelocStream(EncodeRelocStream(sites)) = sites
<1> DEFINE s == EncodeRelocStream(sites)
           N == Len(sites)
           First(n) == IsEnd(s, n) /\ \A m \in 0 .. n - 1 : ~IsEnd(s, m)
<1>0. /\ N \in Nat /\ sites \in Seq(Nat)
      /\ Len(s) \in Nat /\ Len(s) = Offset(sites, N) + 1 /\ s[Len(s)] = End
  BY StreamTellsSites DEF AreSites
<1>1. \A n \in 0 .. N - 1 : s[Offset(sites, n) + 1] # End
  BY StreamTellsSites
<1>2. \A n \in 0 .. N : /\ Registers(s)[n].a5 = Offset(sites, n) + 1
                        /\ Registers(s)[n].d6 = SiteBefore(sites, n)
                        /\ n <= Offset(sites, n)
  BY RegistersFollow
<1> HIDE DEF s, N
<1>a. N \in 0 .. N /\ \A n \in 0 .. N - 1 : n \in 0 .. N
  BY <1>0
<1>b. Registers(s)[N].a5 = Offset(sites, N) + 1 /\ N <= Offset(sites, N)
  BY <1>2, <1>a
<1>c. Offset(sites, N) \in Nat
  BY StreamTellsSites, <1>a DEF N
<1>3. N \in 0 .. Len(s) /\ IsEnd(s, N)
  BY <1>0, <1>b, <1>c DEF IsEnd
<1>4. \A n \in 0 .. N - 1 : ~IsEnd(s, n)
  BY <1>1, <1>2, <1>a DEF IsEnd
<1>5. FirstEnd(s) = CHOOSE n \in 0 .. Len(s) : First(n)
  BY DEF FirstEnd
<1>6. First(N)
  BY <1>3, <1>4
<1>7. ASSUME NEW n \in 0 .. Len(s), First(n)
      PROVE  n = N
  <2>1. CASE n < N
    <3>1. n \in 0 .. N - 1
      BY <1>0, <2>1
    <3>2. QED
      BY <1>4, <1>7, <3>1
  <2>2. CASE N < n
    <3>1. N \in 0 .. n - 1
      BY <1>0, <2>2
    <3>2. QED
      BY <1>3, <1>7, <3>1
  <2>3. QED
    BY <1>0, <2>1, <2>2
<1> HIDE DEF First
<1>8. FirstEnd(s) = N
  BY <1>3, <1>5, <1>6, <1>7
<1>9. DecodeRelocStream(s) = [n \in 1 .. N |-> Registers(s)[n].d6]
  BY <1>8, DecodingUnfolds
<1>10. \A n \in 1 .. N : Registers(s)[n].d6 = sites[n]
  BY <1>0, <1>2 DEF SiteBefore
<1>11. sites = [n \in 1 .. N |-> sites[n]]
  BY <1>0 DEF N
<1>12. DecodeRelocStream(s) = sites
  BY <1>9, <1>10, <1>11
<1>13. QED
  BY <1>12 DEF s

-----------------------------------------------------------------------------
(* The same of a stream with targets.                                      *)

GroupTurn(bytes, r) ==
  [a0     |-> r.a0 + GroupRecordLength(bytes, r.a0),
   d6     |-> r.d6 + 2 * HalfDelta(bytes, r.a0 + 1),
   target |-> bytes[r.a0]]

GroupStart == [a0 |-> 1, d6 |-> 0, target |-> 0]

IsGroupRegisters(registers, bytes, k) ==
  registers = [n \in 0 .. k |-> IF n = 0 THEN GroupStart ELSE GroupTurn(bytes, registers[n - 1])]

LEMMA GroupRegistersExist ==
  ASSUME NEW bytes
  PROVE  \A k \in Nat : \E registers : IsGroupRegisters(registers, bytes, k)
<1> DEFINE Good == {k \in Nat : \E registers : IsGroupRegisters(registers, bytes, k)}
<1>1. 0 \in Good
  <2> DEFINE registers == [n \in 0 .. 0 |-> GroupStart]
  <2>1. \A n \in 0 .. 0 : n = 0
    OBVIOUS
  <2>2. IsGroupRegisters(registers, bytes, 0)
    BY <2>1 DEF IsGroupRegisters
  <2>3. QED
    BY <2>2
<1>2. ASSUME NEW k \in Nat, k \in Good
      PROVE  k + 1 \in Good
  <2>1. PICK g : IsGroupRegisters(g, bytes, k)
    BY <1>2
  <2> DEFINE next == [n \in 0 .. k + 1 |-> IF n = 0 THEN GroupStart ELSE GroupTurn(bytes, g[n - 1])]
  <2>2. \A n \in 0 .. k : next[n] = g[n]
    <3>1. \A n \in 0 .. k : g[n] = IF n = 0 THEN GroupStart ELSE GroupTurn(bytes, g[n - 1])
      BY <2>1 DEF IsGroupRegisters
    <3>2. QED
      BY <3>1
  <2>3. \A n \in 0 .. k + 1 : n # 0 => next[n - 1] = g[n - 1]
    <3>1. \A n \in 0 .. k + 1 : n # 0 => n - 1 \in 0 .. k
      OBVIOUS
    <3> HIDE DEF next
    <3>2. QED
      BY <2>2, <3>1
  <2>4. IsGroupRegisters(next, bytes, k + 1)
    BY <2>3 DEF IsGroupRegisters
  <2>5. QED
    BY <2>4
<1>3. \A k \in Nat : k \in Good
  <2> HIDE DEF Good
  <2>1. QED
    BY <1>1, <1>2, SetInduction
<1>4. QED
  BY <1>3

GroupRegisters(bytes) ==
  LET registers[n \in 0 .. Len(bytes)] ==
        IF n = 0 THEN GroupStart ELSE GroupTurn(bytes, registers[n - 1])
  IN  registers

LEMMA GroupRegistersAre ==
  ASSUME NEW bytes, Len(bytes) \in Nat
  PROVE  IsGroupRegisters(GroupRegisters(bytes), bytes, Len(bytes))
<1>1. GroupRegisters(bytes) = CHOOSE registers : IsGroupRegisters(registers, bytes, Len(bytes))
  BY DEF GroupRegisters, IsGroupRegisters
<1>2. QED
  BY <1>1, GroupRegistersExist

IsGroupEnd(bytes, n) == bytes[GroupRegisters(bytes)[n].a0] = End

FirstGroupEnd(bytes) ==
  CHOOSE n \in 0 .. Len(bytes) : IsGroupEnd(bytes, n) /\ \A m \in 0 .. n - 1 : ~IsGroupEnd(bytes, m)

LEMMA GroupDecodingUnfolds ==
  ASSUME NEW bytes
  PROVE  DecodeGroupStream(bytes) =
           [n \in 1 .. FirstGroupEnd(bytes) |->
              [offset |-> GroupRegisters(bytes)[n].d6, target |-> GroupRegisters(bytes)[n].target]]
BY DEF DecodeGroupStream, GroupRegisters, GroupStart, GroupTurn, IsGroupEnd, FirstGroupEnd

\* The registers after n records of a stream.
LEMMA GroupRegistersFollow ==
  ASSUME NEW sites, AreGroupSites(sites)
  PROVE  \A n \in 0 .. Len(sites) :
           LET r == GroupRegisters(EncodeGroupStream(sites))[n]
           IN  /\ r.a0 = GroupOffset(sites, n) + 1
               /\ r.d6 = SiteBefore(Offsets(sites), n)
               /\ n # 0 => r.target = sites[n].target
               /\ n <= GroupOffset(sites, n)
<1> DEFINE s == EncodeGroupStream(sites)
           N == Len(sites)
           O == Offsets(sites)
           R == GroupRegisters(s)
           Right(n) == /\ R[n].a0 = GroupOffset(sites, n) + 1
                       /\ R[n].d6 = SiteBefore(O, n)
                       /\ n # 0 => R[n].target = sites[n].target
                       /\ n <= GroupOffset(sites, n)
           Good == {n \in Nat : n <= N => Right(n)}
<1>b. s \in Seq(Bytes) /\ Len(s) = GroupOffset(sites, N) + 1
  BY GroupStreamTellsSites
<1>c. AreSites(O) /\ N \in Nat
  BY DEF AreGroupSites
<1>d. Len(O) = N
  BY <1>c DEF Offsets
<1>0. N \in Nat /\ Len(s) \in Nat /\ Len(s) = GroupOffset(sites, N) + 1 /\ AreSites(O) /\ Len(O) = N
  <2> HIDE DEF s, N, O
  <2>1. Len(s) \in Nat
    BY <1>b
  <2>2. QED
    BY <1>b, <1>c, <1>d, <2>1
<1>1. IsGroupRegisters(R, s, Len(s))
  BY <1>0, GroupRegistersAre
<1>2. \A n \in 0 .. Len(s) : R[n] = IF n = 0 THEN GroupStart ELSE GroupTurn(s, R[n - 1])
  <2> HIDE DEF R, s
  <2>1. QED
    BY <1>1 DEF IsGroupRegisters
<1>3. GroupOffset(sites, 0) = 0 /\ \A n \in 0 .. N : GroupOffset(sites, n) \in Nat /\ GroupOffset(sites, n) < Len(s)
  BY GroupStreamTellsSites
<1>4. \A n \in 0 .. N - 1 :
        LET at == GroupOffset(sites, n) + 1
        IN  /\ s[at] = sites[n + 1].target
            /\ HalfDelta(s, at + 1) = Delta(O, n + 1)
            /\ GroupOffset(sites, n + 1) = GroupOffset(sites, n) + GroupRecordLength(s, at)
  BY GroupStreamTellsSites
<1>5. \A n \in 1 .. N : O[n] = SiteBefore(O, n - 1) + 2 * Delta(O, n)
  BY <1>0, DeltaIs DEF SiteBefore
<1>a. \A n \in 0 .. N : SiteBefore(O, n) \in Nat
  BY <1>0 DEF SiteBefore, AreSites
<1> HIDE DEF s, N, R, O
<1>6. 0 \in Good
  <2>1. R[0] = GroupStart
    BY <1>0, <1>2
  <2>2. R[0].a0 = 1 /\ R[0].d6 = 0
    BY <2>1 DEF GroupStart
  <2>3. QED
    BY <1>3, <2>2 DEF SiteBefore
<1>7. ASSUME NEW n \in Nat, n \in Good
      PROVE  n + 1 \in Good
  <2> SUFFICES ASSUME n + 1 <= N
               PROVE  Right(n + 1)
    OBVIOUS
  <2> DEFINE at == GroupOffset(sites, n) + 1
  <2>1. n \in 0 .. N /\ n \in 0 .. N - 1 /\ n + 1 \in 1 .. N /\ (n + 1) - 1 = n /\ n + 1 # 0 /\ n + 1 \in 0 .. N
    BY <1>0
  <2>2. R[n].a0 = at /\ R[n].d6 = SiteBefore(O, n) /\ n <= GroupOffset(sites, n)
    BY <1>0, <1>7
  <2>3. GroupOffset(sites, n) \in Nat /\ GroupOffset(sites, n) < Len(s)
    BY <1>3, <2>1
  <2>4. n + 1 \in 0 .. Len(s)
    BY <1>0, <2>2, <2>3
  <2>5. R[n + 1] = GroupTurn(s, R[n])
    BY <1>2, <2>1, <2>4
  <2>6. /\ R[n + 1].a0 = at + GroupRecordLength(s, at)
        /\ R[n + 1].d6 = SiteBefore(O, n) + 2 * HalfDelta(s, at + 1)
        /\ R[n + 1].target = s[at]
    BY <2>2, <2>5 DEF GroupTurn
  <2>7. /\ s[at] = sites[n + 1].target /\ HalfDelta(s, at + 1) = Delta(O, n + 1)
        /\ GroupOffset(sites, n + 1) = GroupOffset(sites, n) + GroupRecordLength(s, at)
    BY <1>4, <2>1
  <2>8. GroupRecordLength(s, at) \in {2, 6}
    BY DEF GroupRecordLength, RecordLength
  <2>9. R[n + 1].a0 = GroupOffset(sites, n + 1) + 1 /\ n + 1 <= GroupOffset(sites, n + 1)
    BY <2>2, <2>3, <2>6, <2>7, <2>8
  <2>10. O[n + 1] = SiteBefore(O, n) + 2 * Delta(O, n + 1) /\ SiteBefore(O, n + 1) = O[n + 1]
    BY <1>5, <2>1 DEF SiteBefore
  <2>11. QED
    BY <2>6, <2>7, <2>9, <2>10
<1>8. \A n \in Nat : n \in Good
  <2> HIDE DEF Good
  <2>1. QED
    BY <1>6, <1>7, SetInduction
<1>9. \A n \in 0 .. N : Right(n)
  BY <1>0, <1>8
<1>10. QED
  BY <1>9 DEF N, R, s, O

\* The sites and targets the dispatcher finds in a region's stream are those
\* memory_groups.zig wrote, in their order.
THEOREM GroupStreamReadsBack ==
  ASSUME NEW sites, AreGroupSites(sites)
  PROVE  DecodeGroupStream(EncodeGroupStream(sites)) = sites
<1> DEFINE s == EncodeGroupStream(sites)
           N == Len(sites)
           R == GroupRegisters(s)
           First(n) == IsGroupEnd(s, n) /\ \A m \in 0 .. n - 1 : ~IsGroupEnd(s, m)
<1> DEFINE Site == [offset : Nat, target : 0 .. End - 1]
<1>g. sites \in Seq(Site)
  BY DEF AreGroupSites
<1>h. /\ s \in Seq(Bytes) /\ Len(s) = GroupOffset(sites, N) + 1
      /\ s[Len(s)] = End
  BY GroupStreamTellsSites
<1>0. N \in Nat /\ Len(s) \in Nat /\ Len(s) = GroupOffset(sites, N) + 1 /\ s[Len(s)] = End
  <2> HIDE DEF s, Site
  <2>1. Len(s) \in Nat
    BY <1>h
  <2>2. QED
    BY <1>g, <1>h, <2>1
<1>i. \A n \in 1 .. N : sites[n] \in Site
  <2> HIDE DEF Site
  <2>1. QED
    BY <1>g
<1>d. \A n \in 1 .. N : /\ sites[n] = [offset |-> sites[n].offset, target |-> sites[n].target]
                        /\ sites[n].target \in 0 .. End - 1 /\ Offsets(sites)[n] = sites[n].offset
  BY <1>i DEF Offsets
<1>1. \A n \in 0 .. N - 1 : s[GroupOffset(sites, n) + 1] # End
  <2> SUFFICES ASSUME NEW n \in 0 .. N - 1
               PROVE  s[GroupOffset(sites, n) + 1] # End
    OBVIOUS
  <2>1. s[GroupOffset(sites, n) + 1] = sites[n + 1].target
    BY GroupStreamTellsSites, Z3
  <2>2. n + 1 \in 1 .. N
    BY <1>0
  <2>3. sites[n + 1].target \in 0 .. End - 1
    BY <1>d, <2>2
  <2>4. End \in Int
    BY RadixAssumption DEF End
  <2>5. \A x : x \in 0 .. End - 1 => x # End
    BY <2>4
  <2>6. QED
    BY <2>1, <2>3, <2>5
<1>2. \A n \in 0 .. N : /\ R[n].a0 = GroupOffset(sites, n) + 1
                        /\ R[n].d6 = SiteBefore(Offsets(sites), n)
                        /\ n # 0 => R[n].target = sites[n].target
                        /\ n <= GroupOffset(sites, n)
  BY GroupRegistersFollow
<1>a. N \in 0 .. N /\ \A n \in 0 .. N - 1 : n \in 0 .. N
  BY <1>0
<1>c. GroupOffset(sites, N) \in Nat
  BY GroupStreamTellsSites, <1>a
<1>e. IsGroupEnd(s, N) <=> s[R[N].a0] = End
  BY DEF IsGroupEnd
<1>f. \A n : IsGroupEnd(s, n) <=> s[R[n].a0] = End
  BY DEF IsGroupEnd
<1> HIDE DEF s, N, R
<1>b. R[N].a0 = GroupOffset(sites, N) + 1 /\ N <= GroupOffset(sites, N)
  BY <1>2, <1>a
<1>3. N \in 0 .. Len(s) /\ IsGroupEnd(s, N)
  BY <1>0, <1>b, <1>c, <1>e
<1>4. \A n \in 0 .. N - 1 : ~IsGroupEnd(s, n)
  BY <1>1, <1>2, <1>a, <1>f
<1>5. FirstGroupEnd(s) = CHOOSE n \in 0 .. Len(s) : First(n)
  BY DEF FirstGroupEnd
<1>6. First(N)
  BY <1>3, <1>4
<1>7. ASSUME NEW n \in 0 .. Len(s), First(n)
      PROVE  n = N
  <2>1. CASE n < N
    <3>1. n \in 0 .. N - 1
      BY <1>0, <2>1
    <3>2. QED
      BY <1>4, <1>7, <3>1
  <2>2. CASE N < n
    <3>1. N \in 0 .. n - 1
      BY <1>0, <2>2
    <3>2. QED
      BY <1>3, <1>7, <3>1
  <2>3. QED
    BY <1>0, <2>1, <2>2
<1> HIDE DEF First
<1>8. FirstGroupEnd(s) = N
  BY <1>3, <1>5, <1>6, <1>7
<1>9. DecodeGroupStream(s) = [n \in 1 .. N |-> [offset |-> R[n].d6, target |-> R[n].target]]
  BY <1>8, GroupDecodingUnfolds DEF R
<1>10. \A n \in 1 .. N : [offset |-> R[n].d6, target |-> R[n].target] = sites[n]
  <2> SUFFICES ASSUME NEW n \in 1 .. N
               PROVE  [offset |-> R[n].d6, target |-> R[n].target] = sites[n]
    OBVIOUS
  <2>1. n \in 0 .. N /\ n # 0
    BY <1>0
  <2>2. R[n].d6 = sites[n].offset /\ R[n].target = sites[n].target
    BY <1>2, <1>d, <2>1 DEF SiteBefore
  <2>3. QED
    BY <1>d, <2>2
<1>11. sites = [n \in 1 .. N |-> sites[n]]
  <2> HIDE DEF Site
  <2>1. QED
    BY <1>g DEF N
<1>12. DecodeGroupStream(s) = sites
  BY <1>9, <1>10, <1>11
<1>13. QED
  BY <1>12 DEF s
=============================================================================
