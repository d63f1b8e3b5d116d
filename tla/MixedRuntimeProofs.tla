------------------------- MODULE MixedRuntimeProofs -------------------------
(***************************************************************************)
(* Proofs about MixedRuntime, for every set of files, every number of      *)
(* residents and every Exec version: how the chain of hunks, the scratch   *)
(* hunk and the instruction cache are handed over; then what each region   *)
(* holds, from loading to the program's first instruction.                 *)
(***************************************************************************)
EXTENDS MixedRuntime, LayoutTheorems

-----------------------------------------------------------------------------
(* The handover.                                                           *)

HandedOver == {"program", "exited"}

\* The scratch hunk is held until FreeMem, and then someone else's for good.
HeldUntilFreed ==
  /\ pc \notin HandedOver => scratch = "held"
  /\ pc \in HandedOver => scratch \in {"free", "reused"}

LoadedLink(h) ==
  IF h = 0 THEN Scratch
  ELSE LET next == IF h = Scratch THEN 1 ELSE h + 1
       IN  IF next \in Residents THEN next ELSE None

\* The chain is AmigaDOS's until the dispatcher takes the scratch hunk out of it.
Linked ==
  /\ DOMAIN link = Residents \cup {Scratch}
  /\ \A h \in Residents \cup {Scratch} :
       link[h] = IF h = 0 /\ pc \in {"free"} \cup HandedOver THEN LoadedLink(Scratch) ELSE LoadedLink(h)

\* What AmigaDOS has loaded it has freed when the program has ended.
Unloaded == loaded = IF pc = "exited" THEN {} ELSE Residents

\* Nothing is written between clearing the cache and the program.
NothingStale == pc \in {"detach", "free", "program"} /\ exec >= 37 => stale = {}

Handover == parts \in Files /\ HeldUntilFreed /\ Linked /\ Unloaded /\ NothingStale

-----------------------------------------------------------------------------

\* Residents are counted from zero, and there is a first one.
LEMMA ResidentsAre ==
  ASSUME parts \in Files
  PROVE  /\ Len(parts) \in Nat \ {0} /\ Len(parts) <= End /\ DOMAIN parts = 1 .. Len(parts)
         /\ 0 \in Residents /\ Residents \subseteq Nat
         /\ Scratch \notin Residents /\ None \notin Residents /\ Scratch # None
<1>1. parts # <<>> /\ parts \in Seq(Range(parts)) /\ Len(parts) <= End
  BY FilesAssumption
<1>2. Len(parts) \in Nat \ {0} /\ DOMAIN parts = 1 .. Len(parts)
  BY <1>1
<1>3. QED
  BY <1>1, <1>2 DEF Residents, Scratch, None

LEMMA InitHandover == Init => Handover
<1> SUFFICES ASSUME Init
             PROVE  Handover
  OBVIOUS
<1>1. Linked
  BY DEF Init, Linked, LoadedLink, HandedOver
<1>2. QED
  BY <1>1 DEF Init, Handover, HeldUntilFreed, Unloaded, NothingStale, HandedOver

\* What the dispatcher does before it hands over, it does with all hunks held,
\* and it leaves the chain alone.
LEMMA UnpackingHandover ==
  ASSUME Handover,
         UNCHANGED <<parts, exec, link, scratch, loaded>>,
         pc \notin {"detach", "free"} \cup HandedOver, pc' \notin {"detach", "free"} \cup HandedOver
  PROVE  Handover'
<1>1. Linked'
  BY DEF Handover, Linked, LoadedLink, Residents, HandedOver
<1>2. QED
  BY <1>1 DEF Handover, HeldUntilFreed, Unloaded, NothingStale, HandedOver, Residents

\* The hunks the first n links lead to.
Further(hunks) == hunks \cup {link[h] : h \in hunks \ {None}}

IsReached(reached, k) == reached = [n \in 0 .. k |-> IF n = 0 THEN {0} ELSE Further(reached[n - 1])]

LEMMA ReachedExists == \A k \in Nat : \E reached : IsReached(reached, k)
<1> DEFINE Good == {k \in Nat : \E reached : IsReached(reached, k)}
<1>1. 0 \in Good
  <2> DEFINE reached == [n \in 0 .. 0 |-> {0}]
  <2>1. \A n \in 0 .. 0 : n = 0
    OBVIOUS
  <2>2. IsReached(reached, 0)
    BY <2>1 DEF IsReached
  <2>3. QED
    BY <2>2
<1>2. ASSUME NEW k \in Nat, k \in Good
      PROVE  k + 1 \in Good
  <2>1. PICK f : IsReached(f, k)
    BY <1>2
  <2> DEFINE next == [n \in 0 .. k + 1 |-> IF n = 0 THEN {0} ELSE Further(f[n - 1])]
  <2>2. \A n \in 0 .. k : next[n] = f[n]
    <3>1. \A n \in 0 .. k : f[n] = IF n = 0 THEN {0} ELSE Further(f[n - 1])
      BY <2>1 DEF IsReached
    <3>2. QED
      BY <3>1
  <2>3. \A n \in 0 .. k + 1 : n # 0 => next[n - 1] = f[n - 1]
    <3>1. \A n \in 0 .. k + 1 : n # 0 => n - 1 \in 0 .. k
      OBVIOUS
    <3> HIDE DEF next
    <3>2. QED
      BY <2>2, <3>1
  <2>4. IsReached(next, k + 1)
    BY <2>3 DEF IsReached
  <2>5. QED
    BY <2>4
<1>3. \A k \in Nat : k \in Good
  <2> HIDE DEF Good
  <2>1. QED
    BY <1>1, <1>2, SetInduction
<1>4. QED
  BY <1>3

\* UnLoadSeg finds the residents, and nothing else.
LEMMA ChainIsResidents ==
  ASSUME Handover, pc = "program"
  PROVE  Chain = Residents
<1> DEFINE last == Len(parts) + 1
           reached == CHOOSE f : IsReached(f, last)
<1>1. /\ Len(parts) \in Nat \ {0} /\ 0 \in Residents /\ Residents \subseteq Nat
      /\ Scratch \notin Residents /\ None \notin Residents /\ Residents = 0 .. Len(parts) - 1
  BY ResidentsAre DEF Handover, Residents
<1>2. /\ last \in Nat /\ reached[0] = {0}
      /\ \A n \in 1 .. last : reached[n] = Further(reached[n - 1])
  <2>1. last \in Nat
    BY <1>1
  <2>2. \E f : IsReached(f, last)
    BY <2>1, ReachedExists
  <2>3. IsReached(reached, last)
    <3> HIDE DEF last
    <3>1. IsReached(CHOOSE f : IsReached(f, last), last)
      BY <2>2
    <3>2. QED
      BY <3>1
  <2> HIDE DEF last
  <2> HIDE DEF reached
  <2>4. \A n \in 0 .. last : reached[n] = IF n = 0 THEN {0} ELSE Further(reached[n - 1])
    BY <2>3 DEF IsReached
  <2>5. QED
    BY <2>1, <2>4
<1>3. Chain = reached[last] \ {None}
  BY DEF Chain, IsReached, Further
<1>4. \A h \in Residents : link[h] = IF h + 1 \in Residents THEN h + 1 ELSE None
  <2>1. \A h \in Residents : link[h] = IF h = 0 THEN LoadedLink(Scratch) ELSE LoadedLink(h)
    BY DEF Handover, Linked, HandedOver
  <2>2. QED
    BY <1>1, <2>1 DEF LoadedLink, Scratch
<1> HIDE DEF reached, last
<1>5. \A n \in Nat : n <= last => reached[n] \subseteq Residents \cup {None} /\ \A h \in Residents : h <= n => h \in reached[n]
  <2> DEFINE Good == {n \in Nat : n <= last =>
                        reached[n] \subseteq Residents \cup {None} /\ \A h \in Residents : h <= n => h \in reached[n]}
  <2>1. 0 \in Good
    BY <1>1, <1>2
  <2>2. ASSUME NEW n \in Nat, n \in Good
        PROVE  n + 1 \in Good
    <3> SUFFICES ASSUME n + 1 <= last
                 PROVE  /\ reached[n + 1] \subseteq Residents \cup {None}
                        /\ \A h \in Residents : h <= n + 1 => h \in reached[n + 1]
      OBVIOUS
    <3>1. reached[n] \subseteq Residents \cup {None} /\ \A h \in Residents : h <= n => h \in reached[n]
      BY <1>2, <2>2
    <3>2. reached[n + 1] = Further(reached[n])
      <4>1. n + 1 \in 1 .. last /\ (n + 1) - 1 = n
        BY <1>2
      <4>2. QED
        BY <1>2, <4>1
    <3>3. reached[n + 1] \subseteq Residents \cup {None}
      BY <1>4, <3>1, <3>2 DEF Further
    <3>4. ASSUME NEW h \in Residents, h <= n + 1
          PROVE  h \in reached[n + 1]
      <4>1. CASE h <= n
        BY <3>1, <3>2, <4>1 DEF Further
      <4>2. CASE ~(h <= n)
        <5>1. h = n + 1 /\ n \in Residents
          BY <1>1, <3>4, <4>2
        <5>2. n \in reached[n] /\ link[n] = n + 1 /\ n # None
          BY <1>1, <1>4, <3>1, <5>1
        <5>3. QED
          BY <3>2, <5>1, <5>2 DEF Further
      <4>3. QED
        BY <4>1, <4>2
    <3>5. QED
      BY <3>3, <3>4
  <2>3. \A n \in Nat : n \in Good
    <3> HIDE DEF Good
    <3>1. QED
      BY <2>1, <2>2, SetInduction
  <2>4. QED
    BY <2>3
<1>6. reached[last] \subseteq Residents \cup {None} /\ \A h \in Residents : h \in reached[last]
  <2>1. \A h \in Residents : h <= last
    BY <1>1 DEF last
  <2>2. QED
    BY <1>2, <1>5, <2>1
<1>7. QED
  BY <1>1, <1>3, <1>6

LEMMA NextHandover == Handover /\ [Next]_vars => Handover'
<1> SUFFICES ASSUME Handover, [Next]_vars
             PROVE  Handover'
  OBVIOUS
<1>1. CASE Trampoline \/ FindFirst \/ FindNext \/ FoundAll
  BY <1>1, UnpackingHandover DEF Trampoline, FindFirst, FindNext, FoundAll, Goto, exits, HandedOver
<1>2. CASE DisjointPayload \/ OverlapPayload \/ Depack \/ DepackFails
  BY <1>2, UnpackingHandover DEF DisjointPayload, OverlapPayload, Depack, DepackFails, Goto, exits, HandedOver
<1>3. CASE Fixup \/ FixupDone \/ ClearBss
  BY <1>3, UnpackingHandover DEF Fixup, FixupDone, ClearBss, Goto, exits, HandedOver
<1>4. CASE NextGroup
  BY <1>4, UnpackingHandover DEF NextGroup, Goto, exits, HandedOver
<1>5. CASE PublishCode
  <2>1. UNCHANGED <<parts, exec, link, scratch, loaded>> /\ pc = "publish" /\ pc' = "detach"
    BY <1>5 DEF PublishCode, Goto, exits
  <2>2. Linked'
    BY <2>1 DEF Handover, Linked, LoadedLink, Residents, HandedOver
  <2>3. NothingStale'
    BY <1>5 DEF PublishCode, NothingStale, Goto
  <2>4. QED
    BY <2>1, <2>2, <2>3 DEF Handover, HeldUntilFreed, Unloaded, HandedOver, Residents
<1>6. CASE DetachScratch
  <2>1. /\ UNCHANGED <<parts, exec, scratch, loaded, stale>> /\ pc = "detach" /\ pc' = "free"
        /\ link' = [link EXCEPT ![0] = link[Scratch]]
    BY <1>6 DEF DetachScratch, Goto
  <2>2. 0 \in Residents /\ Scratch # 0
    BY ResidentsAre DEF Handover, Scratch
  <2>3. DOMAIN link = Residents \cup {Scratch} /\ \A h \in Residents \cup {Scratch} : link[h] = LoadedLink(h)
    BY <2>1 DEF Handover, Linked, HandedOver
  <2>4. \A h \in Residents \cup {Scratch} : link'[h] = IF h = 0 THEN LoadedLink(Scratch) ELSE LoadedLink(h)
    BY <2>1, <2>2, <2>3
  <2>5. DOMAIN link' = Residents \cup {Scratch}
    BY <2>1, <2>3
  <2>6. Linked'
    BY <2>1, <2>4, <2>5 DEF Linked, LoadedLink, Residents
  <2>7. QED
    BY <2>1, <2>6 DEF Handover, HeldUntilFreed, Unloaded, NothingStale, HandedOver, Residents
<1>7. CASE FreeScratch
  <2>1. /\ UNCHANGED <<parts, exec, link, loaded, stale>> /\ pc = "free" /\ pc' = "program" /\ scratch' = "free"
    BY <1>7 DEF FreeScratch, Goto, Handover, HeldUntilFreed, HandedOver
  <2>2. Linked'
    BY <2>1 DEF Handover, Linked, LoadedLink, Residents, HandedOver
  <2>3. QED
    BY <2>1, <2>2 DEF Handover, HeldUntilFreed, Unloaded, NothingStale, HandedOver, Residents
<1>8. CASE UnLoadSeg
  <2>1. Chain = Residents /\ Scratch \notin Residents
    BY <1>8, ChainIsResidents, ResidentsAre DEF UnLoadSeg, Handover
  <2>2. /\ UNCHANGED <<parts, exec, link, stale, scratch>> /\ pc = "program" /\ pc' = "exited"
        /\ loaded' = loaded \ Residents
    BY <1>8, <2>1 DEF UnLoadSeg, Goto
  <2>3. Linked'
    BY <2>2 DEF Handover, Linked, LoadedLink, Residents, HandedOver
  <2>4. QED
    BY <2>2, <2>3 DEF Handover, HeldUntilFreed, Unloaded, NothingStale, HandedOver
<1>9. CASE OtherTaskAllocates \/ OtherTaskFrees \/ Hang \/ UNCHANGED vars
  <2>1. UNCHANGED <<parts, exec, pc, link, loaded, stale>>
    BY <1>9 DEF OtherTaskAllocates, OtherTaskFrees, Hang, vars
  <2>2. HeldUntilFreed'
    BY <1>9 DEF OtherTaskAllocates, OtherTaskFrees, Hang, vars, Handover, HeldUntilFreed
  <2>3. Linked'
    BY <2>1 DEF Handover, Linked, LoadedLink, Residents, HandedOver
  <2>4. QED
    BY <2>1, <2>2, <2>3 DEF Handover, Unloaded, NothingStale, Residents
<1>10. QED
  BY <1>1, <1>2, <1>3, <1>4, <1>5, <1>6, <1>7, <1>8, <1>9 DEF Next, Run

LEMMA HandoverInvariant == Spec => []Handover
BY InitHandover, NextHandover, PTL DEF Spec

\* Every hunk is freed exactly once: the scratch hunk by the dispatcher after
\* its last use (mixed.s:117-131), every resident by UnLoadSeg, however
\* many there are and whatever other tasks do with freed memory in between.
THEOREM HunksFreedOnce == Spec => []FreedOnce
<1>1. Handover => FreedOnce
  BY DEF Handover, HeldUntilFreed, Unloaded, FreedOnce, InScratch, HandedOver
<1>2. QED
  BY <1>1, HandoverInvariant, PTL

-----------------------------------------------------------------------------
(* The inductive invariant: what each region holds.                        *)

Before == {"trampoline", "find", "map"}
After  == {"publish", "detach", "free"} \cup HandedOver

Sites(r) == Len(PartOf(r).sites)

\* How often the first m sites of r lead to t with the byte at a.
Hits(r, m, t, a) ==
  {n \in 1 .. m : PartOf(r).sites[n].target = t /\ a - PartOf(r).sites[n].offset \in 0 .. 3}
Covered(r, m, t, a) == Cardinality(Hits(r, m, t, a))

AsLoaded(r) == \A a \in DOMAIN memory[r] : memory[r][a] = LoadedCell(r, a)

PatchedUpTo(r, m) ==
  \A a \in 0 .. PartOf(r).code - 1 :
    memory[r][a] = [kind |-> "code", at |-> a, adds |-> [t \in Residents |-> Covered(r, m, t, a)]]

StreamIntact(r) ==
  \A k \in 1 .. Len(PartOf(r).stream) :
    memory[r][PartOf(r).code + k - 1] = Cell("stream", PartOf(r).stream[k])

\* All but the last longwords of the BSS.
ClearBut(r, longwords) ==
  \A a \in PartOf(r).code .. PartOf(r).code + PartOf(r).bss - 4 * longwords - 1 : memory[r][a] = Cell("zero", 0)

\* The relocation loop has patched m sites, is at the last of them, and has
\* the rest of the stream before it.
Fixing(r) ==
  /\ todo = PartOf(r).bss \div 4
  /\ StreamIntact(r)
  /\ \E m \in 0 .. Sites(r) :
       /\ cursor = PartOf(r).code + GroupOffset(PartOf(r).sites, m)
       /\ site = IF m = 0 THEN 0 ELSE PartOf(r).sites[m].offset
       /\ PatchedUpTo(r, m)

Clearing(r) == PatchedUpTo(r, Sites(r)) /\ todo \in 0 .. PartOf(r).bss \div 4 /\ ClearBut(r, todo)

Finished(r) == PatchedUpTo(r, Sites(r)) /\ ClearBut(r, 0)

\* The dispatcher takes one region after another from loaded to finished.
Stage(r) ==
  IF pc \in After THEN "finished"
  ELSE IF pc \in Before \/ r > g THEN "loaded"
  ELSE IF r < g THEN "finished"
  ELSE pc

Region(r) ==
  /\ Stage(r) \in {"loaded", "payload"} => AsLoaded(r)
  /\ Stage(r) = "fixup" => Fixing(r)
  /\ Stage(r) = "clear" => Clearing(r)
  /\ Stage(r) = "finished" => Finished(r)

Shape ==
  /\ parts \in Files
  /\ g \in Residents /\ (pc \in Before => g = 0)
  /\ DOMAIN memory = Residents
  /\ \A r \in Residents : DOMAIN memory[r] = 0 .. AllocatedSize(r) - 1
  /\ \A w \in stale : w[1] \in Residents /\ w[2] \in DOMAIN memory[w[1]]

\* The descriptors' addresses, in the order of the residents.
Found ==
  /\ pc = "map" =>
       /\ bases \in Seq(Residents) /\ Len(bases) \in 1 .. Len(parts)
       /\ \A n \in 1 .. Len(bases) : bases[n] = n - 1
       /\ walk = IF Len(bases) = 1 THEN Scratch ELSE Len(bases) - 1
  /\ pc \notin Before => \A r \in Residents : bases[r + 1] = r

Fed == pc = "depack" => PayloadAt(input)

Contents == Shape /\ Found /\ Fed /\ \A r \in Residents : Region(r)

-----------------------------------------------------------------------------
(* What a file says of its parts.                                          *)

LEMMA PartIs ==
  ASSUME parts \in Files, NEW r \in Residents
  PROVE  /\ PartOf(r).code \in Nat /\ PartOf(r).bss \in Nat /\ PartOf(r).code % 4 = 0 /\ PartOf(r).bss % 4 = 0
         /\ PartOf(r).payload \in Nat \ {0} /\ PartOf(r).margin \in Nat /\ PartOf(r).overlap \in BOOLEAN
         /\ AreGroupSites(PartOf(r).sites) /\ Sites(r) \in Nat
         /\ \A n \in 1 .. Sites(r) :
              /\ PartOf(r).sites[n].offset \in Nat /\ PartOf(r).sites[n].offset + 4 <= PartOf(r).code
              /\ PartOf(r).sites[n].target \in Residents /\ PartOf(r).sites[n].target # End
         /\ PartOf(r).stream = EncodeGroupStream(PartOf(r).sites)
         /\ Len(PartOf(r).stream) \in Nat \ {0}
         /\ Image(r) \in Images
<1> DEFINE p == PartOf(r)
           Site == [offset : Nat, target : 0 .. Len(parts) - 1]
           Sited == [offset : Nat, target : 0 .. End - 1]
<1>1. /\ Len(parts) \in Nat \ {0} /\ Len(parts) <= End /\ DOMAIN parts = 1 .. Len(parts)
      /\ Residents = 0 .. Len(parts) - 1 /\ End \in Int
  BY ResidentsAre, RadixAssumption DEF Residents, End
<1>2. IsPart(p, parts)
  <2>1. r + 1 \in DOMAIN parts
    BY <1>1
  <2>2. QED
    BY <2>1, FilesAssumption DEF PartOf
<1> HIDE DEF p
<1>3. p.sites \in Seq(Site)
  BY <1>2 DEF IsPart
<1>4. /\ p.code \in Nat /\ p.bss \in Nat /\ p.code % 4 = 0 /\ p.bss % 4 = 0
      /\ p.payload \in Nat \ {0} /\ p.margin \in Nat /\ p.overlap \in BOOLEAN
      /\ p.stream = EncodeGroupStream(p.sites)
  BY <1>2 DEF IsPart
<1>5. \A n \in DOMAIN p.sites :
        /\ p.sites[n].offset % 2 = 0 /\ p.sites[n].offset + 4 <= p.code
        /\ p.sites[n].offset < 2 * Longwords
        /\ n > 1 => p.sites[n - 1].offset <= p.sites[n].offset
  BY <1>2 DEF IsPart
<1>6. Len(p.sites) \in Nat /\ DOMAIN p.sites = 1 .. Len(p.sites)
  <2> HIDE DEF Site
  <2>1. QED
    BY <1>3
<1>7. \A n \in 1 .. Len(p.sites) : p.sites[n] \in Site
  <2> HIDE DEF Site
  <2>1. QED
    BY <1>3, <1>6
<1>8. \A n \in 1 .. Len(p.sites) :
        /\ p.sites[n].offset \in Nat /\ p.sites[n].target \in Residents /\ p.sites[n].target # End
        /\ p.sites[n] \in Sited
  <2> SUFFICES ASSUME NEW n \in 1 .. Len(p.sites)
               PROVE  /\ p.sites[n].offset \in Nat /\ p.sites[n].target \in Residents
                      /\ p.sites[n].target # End /\ p.sites[n] \in Sited
    OBVIOUS
  <2>1. p.sites[n] \in Site
    BY <1>7
  <2>2. \A t \in 0 .. Len(parts) - 1 : t \in 0 .. End - 1 /\ t # End
    BY <1>1
  <2>3. QED
    BY <1>1, <2>1, <2>2
<1>9. AreGroupSites(p.sites)
  <2>1. p.sites \in Seq(Sited)
    <3> HIDE DEF Site, Sited
    <3>1. QED
      BY <1>3, <1>6, <1>8
  <2>2. AreSites(Offsets(p.sites))
    <3>1. /\ DOMAIN Offsets(p.sites) = 1 .. Len(p.sites)
          /\ \A n \in 1 .. Len(p.sites) : Offsets(p.sites)[n] = p.sites[n].offset
      BY DEF Offsets
    <3>2. Offsets(p.sites) \in Seq(Nat)
      BY <1>6, <1>8 DEF Offsets
    <3>3. ASSUME NEW n \in 1 .. Len(p.sites)
          PROVE  /\ Offsets(p.sites)[n] % 2 = 0
                 /\ n > 1 => Offsets(p.sites)[n - 1] <= Offsets(p.sites)[n]
                 /\ Offsets(p.sites)[n] < 2 * Longwords
      <4>1. n > 1 => n - 1 \in 1 .. Len(p.sites)
        BY <1>6
      <4>2. QED
        BY <1>5, <1>6, <3>1, <4>1
    <3>4. QED
      BY <3>1, <3>2, <3>3 DEF AreSites
  <2>3. QED
    BY <2>1, <2>2 DEF AreGroupSites
<1>10. Len(p.stream) \in Nat \ {0}
  <2>1. Len(p.sites) \in 0 .. Len(p.sites)
    BY <1>6
  <2>2. GroupOffset(p.sites, Len(p.sites)) \in Nat /\ Len(p.stream) = GroupOffset(p.sites, Len(p.sites)) + 1
    BY <1>4, <1>9, <2>1, GroupStreamTellsSites
  <2>3. QED
    BY <2>2
<1>11. Image(r) \in Images
  BY <1>4, <1>10 DEF Image, Images, p
<1>12. QED
  BY <1>4, <1>5, <1>6, <1>8, <1>9, <1>10, <1>11 DEF p, Sites

\* Each region's allocation has room for the output of Depack, for the BSS
\* and, where it holds the payload, for the payload as loaded and as moved.
LEMMA GroupIs ==
  ASSUME parts \in Files, NEW r \in Residents
  PROVE  /\ AllocatedSize(r) \in Nat
         /\ PartOf(r).code + Len(PartOf(r).stream) <= AllocatedSize(r)
         /\ PartOf(r).code + PartOf(r).bss <= AllocatedSize(r)
         /\ DepackedSize(Image(r)) = PartOf(r).code + Len(PartOf(r).stream)
         /\ PartOf(r).overlap =>
              /\ Prefix(r) \in Nat /\ Align4(PartOf(r).payload) \in Nat
              /\ PartOf(r).payload <= Align4(PartOf(r).payload)
              /\ Prefix(r) + Align4(PartOf(r).payload) <= AllocatedSize(r)
<1> DEFINE p == PartOf(r)
           resident == Larger(ResidentTailSize(Image(r)), Align4(Prefix(r)))
<1>1. /\ Image(r) \in Images /\ p.payload \in Nat /\ p.margin \in Nat /\ p.overlap \in BOOLEAN
      /\ p.code \in Nat /\ p.bss \in Nat /\ Len(p.stream) \in Nat
  BY PartIs
<1>2. Image(r).code = p.code /\ Image(r).bss = p.bss /\ Image(r).stream = Len(p.stream)
  BY DEF Image
<1>3. DepackedSize(Image(r)) = p.code + Len(p.stream)
  BY <1>2 DEF DepackedSize
<1>4. /\ ResidentTailSize(Image(r)) \in Nat
      /\ p.code + Len(p.stream) <= ResidentTailSize(Image(r))
      /\ p.code + p.bss <= ResidentTailSize(Image(r))
  BY <1>1, <1>2, <1>3, ResidentTailFacts
<1>5. Prefix(r) \in Nat
  BY LayoutAssumption DEF Prefix
<1>6. Align4(Prefix(r)) \in Nat /\ Align4(p.payload) \in Nat /\ p.payload <= Align4(p.payload)
  BY <1>1, <1>5, Align4Rounds
<1>7. resident \in Nat /\ ResidentTailSize(Image(r)) <= resident
  BY <1>4, <1>6, LargerIsUpperBound
<1>8. /\ AllocatedSize(r) \in Nat /\ resident <= AllocatedSize(r)
      /\ p.overlap => Prefix(r) + Align4(p.payload) <= AllocatedSize(r)
  <2>1. AllocatedSize(r) = IF p.overlap THEN OverlapAllocatedSize(Prefix(r), p.payload, p.margin, resident) ELSE resident
    BY DEF AllocatedSize
  <2> HIDE DEF resident, p
  <2>2. CASE p.overlap
    <3> DEFINE allocated == OverlapAllocatedSize(Prefix(r), p.payload, p.margin, resident)
    <3>1. allocated \in Nat /\ Prefix(r) + Align4(p.payload) <= allocated /\ resident <= allocated
      BY <1>1, <1>5, <1>7, OverlapSizeCovers
    <3> HIDE DEF allocated
    <3>2. QED
      BY <2>1, <2>2, <3>1 DEF allocated
  <2>3. CASE ~p.overlap
    BY <1>7, <2>1, <2>3
  <2>4. QED
    BY <2>2, <2>3
<1> HIDE DEF resident, p
<1>9. p.code + Len(p.stream) <= AllocatedSize(r) /\ p.code + p.bss <= AllocatedSize(r)
  BY <1>1, <1>4, <1>7, <1>8
<1>10. QED
  BY <1>3, <1>5, <1>6, <1>8, <1>9 DEF p

-----------------------------------------------------------------------------
(* One region at a time.                                                   *)

LEMMA InitContents == Init => Contents
<1> SUFFICES ASSUME Init
             PROVE  Contents
  OBVIOUS
<1>1. parts \in Files /\ g = 0 /\ pc = "trampoline" /\ stale = {}
      /\ memory = [r \in Residents |-> [a \in 0 .. AllocatedSize(r) - 1 |-> LoadedCell(r, a)]]
  BY DEF Init
<1>2. Shape
  BY <1>1, ResidentsAre DEF Shape
<1>3. \A r \in Residents : Region(r)
  BY <1>1 DEF Region, Stage, Before, After, HandedOver, AsLoaded
<1>4. QED
  BY <1>1, <1>2, <1>3 DEF Contents, Found, Fed, Before

\* Writes change no more than the cells written.
LEMMA WriteIs ==
  ASSUME Shape, Here = g, NEW cells, Write(cells)
  PROVE  /\ DOMAIN memory' = Residents
         /\ \A r \in Residents :
              /\ r # g => memory'[r] = memory[r]
              /\ DOMAIN memory'[r] = DOMAIN memory[r]
              /\ r = g => \A a \in DOMAIN memory[r] :
                   memory'[r][a] = IF a \in DOMAIN cells THEN cells[a] ELSE memory[r][a]
         /\ stale' = stale \cup {<<g, a>> : a \in DOMAIN cells}
<1>1. memory' = [memory EXCEPT ![g] = [a \in DOMAIN memory[g] |-> IF a \in DOMAIN cells THEN cells[a] ELSE memory[g][a]]]
  BY DEF Write
<1>2. stale' = stale \cup {<<g, a>> : a \in DOMAIN cells}
  BY DEF Write
<1>3. DOMAIN memory = Residents /\ g \in Residents
  BY DEF Shape
<1>4. QED
  BY <1>1, <1>2, <1>3

LEMMA ShapeKept ==
  ASSUME Shape, Here = g, UNCHANGED <<parts, g>>, pc' \notin Before,
         NEW cells, Write(cells), DOMAIN cells \subseteq 0 .. AllocatedSize(g) - 1
  PROVE  Shape'
<1>1. Residents' = Residents /\ \A r : AllocatedSize(r)' = AllocatedSize(r)
  BY DEF Residents, AllocatedSize, PartOf, Image, Prefix
<1>2. /\ DOMAIN memory' = Residents /\ stale' = stale \cup {<<g, a>> : a \in DOMAIN cells}
      /\ \A r \in Residents : DOMAIN memory'[r] = DOMAIN memory[r]
  BY WriteIs
<1>3. /\ parts \in Files /\ g \in Residents
      /\ \A r \in Residents : DOMAIN memory[r] = 0 .. AllocatedSize(r) - 1
      /\ \A w \in stale : w[1] \in Residents /\ w[2] \in DOMAIN memory[w[1]]
  BY DEF Shape
<1>4. \A w \in stale' : w[1] \in Residents /\ w[2] \in DOMAIN memory'[w[1]]
  <2> SUFFICES ASSUME NEW w \in stale'
               PROVE  w[1] \in Residents /\ w[2] \in DOMAIN memory'[w[1]]
    OBVIOUS
  <2>1. CASE w \in stale
    BY <1>2, <1>3, <2>1
  <2>2. CASE w \notin stale
    <3>1. PICK a \in DOMAIN cells : w = <<g, a>>
      BY <1>2, <2>2
    <3>2. a \in DOMAIN memory[g]
      BY <1>3
    <3>3. QED
      BY <1>2, <1>3, <3>1, <3>2
  <2>3. QED
    BY <2>1, <2>2
<1>5. \A r \in Residents : DOMAIN memory'[r] = 0 .. AllocatedSize(r) - 1
  BY <1>2, <1>3
<1>6. QED
  BY <1>1, <1>2, <1>3, <1>4, <1>5 DEF Shape

\* A region that is not written keeps what it holds.
LEMMA RegionStays ==
  ASSUME NEW r, UNCHANGED parts, memory'[r] = memory[r]
  PROVE  /\ AsLoaded(r) => AsLoaded(r)'
         /\ \A m : PatchedUpTo(r, m) => PatchedUpTo(r, m)'
         /\ \A n : ClearBut(r, n) => ClearBut(r, n)'
         /\ StreamIntact(r) => StreamIntact(r)'
         /\ Finished(r) => Finished(r)'
<1>1. AsLoaded(r) => AsLoaded(r)'
  BY DEF AsLoaded, LoadedCell, Cell, PartOf, Prefix, Residents
<1>2. \A m : PatchedUpTo(r, m) => PatchedUpTo(r, m)'
  BY SMTT(30) DEF PatchedUpTo, Covered, Hits, PartOf, Residents
<1>3. \A n : ClearBut(r, n) => ClearBut(r, n)'
  BY DEF ClearBut, Cell, PartOf, Residents
<1>4. StreamIntact(r) => StreamIntact(r)'
  BY DEF StreamIntact, Cell, PartOf, Residents
<1>5. Sites(r)' = Sites(r)
  BY DEF Sites, PartOf
<1>6. Finished(r) => Finished(r)'
  <2>1. PatchedUpTo(r, Sites(r)) => PatchedUpTo(r, Sites(r))'
    BY SMTT(30) DEF PatchedUpTo, Covered, Hits, PartOf, Residents, Sites
  <2>2. QED
    BY <1>3, <2>1 DEF Finished
<1>7. QED
  BY <1>1, <1>2, <1>3, <1>4, <1>6

Unpacking == {"payload", "depack", "fixup", "clear", "fail"}

\* While a region is at work, the others wait as they were loaded, or are done.
LEMMA OthersStay ==
  ASSUME Contents, UNCHANGED <<parts, g, bases>>, pc \in Unpacking, pc' \in Unpacking,
         Shape', Fed',
         \A r \in Residents : r # g => memory'[r] = memory[r],
         \A r \in Residents : r = g => Region(r)'
  PROVE  Contents'
<1>1. Residents' = Residents
  BY DEF Residents
<1>2. Found'
  BY <1>1 DEF Contents, Found, Before, Unpacking
<1>3. ASSUME NEW r \in Residents, r # g
      PROVE  Region(r)'
  <2>1. Stage(r) \in {"loaded", "finished"} /\ Stage(r)' = Stage(r)
    <3>1. pc \notin After /\ pc \notin Before /\ pc' \notin After /\ pc' \notin Before
      BY DEF Unpacking, After, Before, HandedOver
    <3>2. r \in Int /\ g \in Int
      BY <1>3, ResidentsAre DEF Contents, Shape
    <3>3. QED
      BY <1>3, <3>1, <3>2 DEF Stage
  <2>2. Region(r)
    BY DEF Contents
  <2>3. QED
    BY <1>3, <2>1, <2>2, RegionStays DEF Region
<1>4. \A r \in Residents' : Region(r)'
  BY <1>1, <1>3
<1>5. QED
  BY <1>2, <1>4 DEF Contents

\* The descriptor of the group at work holds its address.
LEMMA HereIs ==
  ASSUME Contents, pc \notin Before
  PROVE  Here = g /\ parts \in Files /\ g \in Residents
BY DEF Contents, Found, Shape, Here

-----------------------------------------------------------------------------
(* Payloads.                                                               *)

LEMMA DisjointPayloadContents == Contents /\ DisjointPayload => Contents'
<1> SUFFICES ASSUME Contents, DisjointPayload
             PROVE  Contents'
  OBVIOUS
<1>1. /\ UNCHANGED <<parts, memory, g, bases, stale>> /\ pc = "payload" /\ pc' = "depack"
      /\ ~Part.overlap /\ input' = [hunk |-> Scratch, at |-> g]
  BY DEF DisjointPayload, Goto, finding
<1>2. Shape'
  BY <1>1 DEF Contents, Shape, Residents, AllocatedSize, PartOf, Image, Prefix, Before
<1>3. Fed'
  BY <1>1 DEF Fed, PayloadAt, Part, PartOf
<1>4. \A r \in Residents : r = g => Region(r)'
  BY <1>1, ResidentsAre DEF Contents, Shape, Region, Stage, Before, After, HandedOver
<1>5. QED
  BY <1>1, <1>2, <1>3, <1>4, OthersStay DEF Unpacking

LEMMA DepackFailsContents == Contents /\ DepackFails => Contents'
<1> SUFFICES ASSUME Contents, DepackFails
             PROVE  Contents'
  OBVIOUS
<1>1. UNCHANGED <<parts, memory, g, bases, stale>> /\ pc = "depack" /\ pc' = "fail"
  BY DEF DepackFails, Goto, finding, unpacking
<1>2. Shape'
  BY <1>1 DEF Contents, Shape, Residents, AllocatedSize, PartOf, Image, Prefix, Before
<1>3. Fed'
  BY <1>1 DEF Fed
<1>4. \A r \in Residents : r = g => Region(r)'
  BY <1>1, ResidentsAre DEF Contents, Shape, Region, Stage, Before, After, HandedOver
<1>5. QED
  BY <1>1, <1>2, <1>3, <1>4, OthersStay DEF Unpacking

LEMMA OverlapPayloadContents == Contents /\ OverlapPayload => Contents'
<1> SUFFICES ASSUME Contents, OverlapPayload
             PROVE  Contents'
  OBVIOUS
<1>0. Here = g /\ parts \in Files /\ g \in Residents /\ pc = "payload" /\ Shape
  BY HereIs DEF OverlapPayload, Before, Contents
<1>a. PICK r \in Residents : r = g
  BY <1>0
<1> DEFINE p == PartOf(r)
           moved == Align4(p.payload)
           dest == AllocatedSize(r) - moved
           cells == [a \in dest .. dest + moved - 1 |-> memory[r][a - dest + Prefix(r)]]
<1>1. /\ UNCHANGED <<parts, g, bases>> /\ p.overlap /\ pc' = "depack"
      /\ Write(cells) /\ input' = [hunk |-> r, at |-> dest]
  BY <1>0, <1>a DEF OverlapPayload, Goto, finding, Part
<1>2. \A a \in DOMAIN memory[r] : memory[r][a] = LoadedCell(r, a)
  <2>1. Stage(r) = "payload"
    BY <1>0, <1>a, ResidentsAre DEF Stage, Before, After, HandedOver
  <2>2. QED
    BY <2>1 DEF Contents, Region, AsLoaded
<1>3. /\ Prefix(r) \in Nat /\ moved \in Nat /\ AllocatedSize(r) \in Nat
      /\ p.payload <= moved /\ p.payload \in Nat
      /\ Prefix(r) + moved <= AllocatedSize(r)
  BY <1>0, <1>1, GroupIs, PartIs
<1>4. DOMAIN cells = dest .. dest + moved - 1 /\ \A a \in DOMAIN cells : cells[a] = memory[r][a - dest + Prefix(r)]
  OBVIOUS
<1>5. DOMAIN memory[r] = 0 .. AllocatedSize(r) - 1
  BY <1>0 DEF Shape
<1>b. dest \in Nat /\ dest + moved = AllocatedSize(r)
  <2> HIDE DEF moved
  <2>1. QED
    BY <1>3
<1> HIDE DEF moved, dest, cells, p
<1>6. Shape'
  <2>1. DOMAIN cells \subseteq 0 .. AllocatedSize(g) - 1
    BY <1>3, <1>4, <1>a, <1>b
  <2>2. pc' \notin Before
    BY <1>1 DEF Before
  <2>3. QED
    BY <1>0, <1>1, <2>1, <2>2, ShapeKept
<1>c. /\ DOMAIN memory'[r] = DOMAIN memory[r]
      /\ \A a \in DOMAIN memory[r] : memory'[r][a] = IF a \in DOMAIN cells THEN cells[a] ELSE memory[r][a]
  BY <1>0, <1>1, <1>a, WriteIs
<1>7. ASSUME NEW k \in 0 .. p.payload - 1
      PROVE  dest + k \in DOMAIN memory'[r] /\ memory'[r][dest + k] = Cell("payload", k)
  <2> DEFINE a == dest + k
             from == k + Prefix(r)
  <2>1. a \in DOMAIN memory[r] /\ a \in DOMAIN cells /\ a - dest + Prefix(r) = from
    BY <1>3, <1>4, <1>5, <1>b, SMTT(30)
  <2>2. from \in DOMAIN memory[r] /\ from \in Prefix(r) .. Prefix(r) + p.payload - 1 /\ from - Prefix(r) = k
    BY <1>3, <1>5
  <2> HIDE DEF a, from
  <2>3. memory'[r][a] = memory[r][from]
    BY <1>4, <1>c, <2>1
  <2>4. LoadedCell(r, from) = Cell("payload", k)
    BY <1>1, <2>2 DEF LoadedCell, p
  <2>5. QED
    BY <1>2, <1>c, <2>1, <2>2, <2>3, <2>4 DEF a
<1>8. Fed'
  <2>1. r # Scratch
    BY <1>0, ResidentsAre
  <2>2. input'.hunk = r /\ input'.at = dest /\ parts' = parts /\ g' = r
    BY <1>1, <1>a
  <2>3. \A k \in 0 .. Part'.payload - 1 :
          /\ input'.at + k \in DOMAIN memory'[input'.hunk]
          /\ memory'[input'.hunk][input'.at + k] = Cell("payload", k)'
    BY <1>7, <2>2 DEF Part, PartOf, p, Cell, Residents
  <2>4. QED
    BY <2>1, <2>2, <2>3 DEF Fed, PayloadAt, Scratch
<1>9. \A q \in Residents : q = g => Region(q)'
  BY <1>1, <1>0, ResidentsAre DEF Region, Stage, Before, After, HandedOver
<1>10. \A q \in Residents : q # g => memory'[q] = memory[q]
  BY <1>0, <1>1, WriteIs
<1>11. QED
  BY <1>0, <1>1, <1>6, <1>8, <1>9, <1>10, OthersStay DEF Unpacking

-----------------------------------------------------------------------------
(* Unpacking.                                                              *)

LEMMA HitsAreFinite ==
  ASSUME NEW r, NEW m \in Int, NEW t, NEW a
  PROVE  IsFiniteSet(Hits(r, m, t, a)) /\ Covered(r, m, t, a) \in Nat
<1>1. IsFiniteSet(1 .. m)
  BY 0 \in Int, 1 \in Int, FS_Interval
<1>2. Hits(r, m, t, a) \in SUBSET (1 .. m)
  BY DEF Hits
<1>3. IsFiniteSet(Hits(r, m, t, a))
  BY <1>1, <1>2, FS_Subset
<1>4. QED
  BY <1>3, FS_CardinalityType DEF Covered

LEMMA CoveredNone == \A r, t, a : Covered(r, 0, t, a) = 0
<1>1. \A r, t, a : Hits(r, 0, t, a) = {}
  <2> SUFFICES ASSUME NEW r, NEW t, NEW a
               PROVE  Hits(r, 0, t, a) = {}
    OBVIOUS
  <2>1. 1 .. 0 = {}
    OBVIOUS
  <2>2. QED
    BY <2>1 DEF Hits
<1>2. QED
  BY <1>1, FS_EmptySet DEF Covered

\* One more site counts once, for its own target and its own longword.
LEMMA CoveredNext ==
  ASSUME parts \in Files, NEW r \in Residents, NEW m \in 0 .. Sites(r) - 1, NEW t, NEW a
  PROVE  LET site1 == PartOf(r).sites[m + 1]
         IN  Covered(r, m + 1, t, a) =
               Covered(r, m, t, a) + IF site1.target = t /\ a - site1.offset \in 0 .. 3 THEN 1 ELSE 0
<1> DEFINE Hit(n) == PartOf(r).sites[n].target = t /\ a - PartOf(r).sites[n].offset \in 0 .. 3
           hits == Hits(r, m, t, a)
<1>1. Sites(r) \in Nat /\ m \in Nat
  BY PartIs
<1>2. hits \subseteq 1 .. m
  BY DEF Hits
<1>3. IsFiniteSet(hits) /\ Cardinality(hits) \in Nat
  BY <1>1, HitsAreFinite DEF Covered
<1>4. Covered(r, m, t, a) = Cardinality(hits) /\ Covered(r, m + 1, t, a) = Cardinality(Hits(r, m + 1, t, a))
  BY DEF Covered
<1>a. hits = {n \in 1 .. m : Hit(n)} /\ Hits(r, m + 1, t, a) = {n \in 1 .. m + 1 : Hit(n)}
  BY DEF Hits
<1> HIDE DEF Hit, hits
<1>5. Hits(r, m + 1, t, a) = IF Hit(m + 1) THEN hits \cup {m + 1} ELSE hits
  <2>1. 1 .. m + 1 = (1 .. m) \cup {m + 1}
    BY <1>1
  <2>2. QED
    BY <1>a, <2>1
<1>6. m + 1 \notin hits
  BY <1>1, <1>2
<1>7. Cardinality(hits \cup {m + 1}) = Cardinality(hits) + 1
  BY <1>3, <1>6, FS_AddElement
<1>8. Covered(r, m + 1, t, a) = Covered(r, m, t, a) + IF Hit(m + 1) THEN 1 ELSE 0
  <2>1. CASE Hit(m + 1)
    <3>1. Covered(r, m + 1, t, a) = Cardinality(hits \cup {m + 1})
      BY <1>4, <1>5, <2>1
    <3>2. QED
      BY <1>4, <1>7, <2>1, <3>1
  <2>2. CASE ~Hit(m + 1)
    <3>1. Covered(r, m + 1, t, a) = Cardinality(hits)
      BY <1>4, <1>5, <2>2
    <3>2. QED
      BY <1>3, <1>4, <2>2, <3>1
  <2>3. QED
    BY <2>1, <2>2
<1>9. QED
  BY <1>8 DEF Hit

LEMMA DepackContents == Contents /\ Depack => Contents'
<1> SUFFICES ASSUME Contents, Depack
             PROVE  Contents'
  OBVIOUS
<1>0. Here = g /\ parts \in Files /\ g \in Residents /\ pc = "depack" /\ Shape /\ PayloadAt(input)
  BY HereIs DEF Depack, Before, Contents, Fed
<1>a. PICK r \in Residents : r = g
  BY <1>0
<1> DEFINE p == PartOf(r)
           cells == [a \in 0 .. DepackedSize(Image(r)) - 1 |-> Output(a)]
<1>1. /\ UNCHANGED <<parts, g, bases>> /\ pc' = "fixup" /\ Part = p
      /\ Write(cells) /\ cursor' = p.code /\ site' = 0 /\ todo' = p.bss \div 4
  BY <1>0, <1>a DEF Depack, Goto, finding, Part
<1>2. /\ p.code \in Nat /\ p.bss \in Nat /\ Len(p.stream) \in Nat /\ AllocatedSize(r) \in Nat /\ Sites(r) \in Nat
      /\ p.code + Len(p.stream) <= AllocatedSize(r) /\ DepackedSize(Image(r)) = p.code + Len(p.stream)
  BY <1>0, GroupIs, PartIs
<1>3. DOMAIN cells = 0 .. p.code + Len(p.stream) - 1 /\ \A a \in DOMAIN cells : cells[a] = Output(a)
  BY <1>2
<1> HIDE DEF cells, p
<1>4. Shape'
  <2>1. DOMAIN cells \subseteq 0 .. AllocatedSize(g) - 1
    BY <1>2, <1>3, <1>a
  <2>2. pc' \notin Before
    BY <1>1 DEF Before
  <2>3. QED
    BY <1>0, <1>1, <2>1, <2>2, ShapeKept
<1>5. \A a \in 0 .. p.code + Len(p.stream) - 1 : memory'[r][a] = Output(a)
  <2>1. DOMAIN memory[r] = 0 .. AllocatedSize(r) - 1
    BY <1>0 DEF Shape
  <2>2. \A a \in DOMAIN memory[r] : memory'[r][a] = IF a \in DOMAIN cells THEN cells[a] ELSE memory[r][a]
    BY <1>0, <1>1, <1>a, WriteIs
  <2>3. \A a \in DOMAIN cells : a \in DOMAIN memory[r]
    BY <1>2, <1>3, <2>1
  <2>4. QED
    BY <1>3, <2>2, <2>3
<1>6. PatchedUpTo(r, 0)'
  <2> SUFFICES ASSUME NEW a \in 0 .. p.code - 1
               PROVE  memory'[r][a] = [kind |-> "code", at |-> a, adds |-> [t \in Residents |-> Covered(r, 0, t, a)']]
    BY <1>1 DEF PatchedUpTo, PartOf, Residents, p
  <2>1. memory'[r][a] = Output(a)
    BY <1>2, <1>5
  <2>2. Output(a) = [kind |-> "code", at |-> a, adds |-> [t \in Residents |-> 0]]
    BY <1>1, <1>2 DEF Output, Cell
  <2>3. \A t : Covered(r, 0, t, a)' = 0
    <3>1. \A t : Covered(r, 0, t, a)' = Covered(r, 0, t, a)
      BY <1>1 DEF Covered, Hits, PartOf
    <3>2. QED
      BY <3>1, CoveredNone
  <2>4. QED
    BY <2>1, <2>2, <2>3
<1>7. StreamIntact(r)'
  <2> SUFFICES ASSUME NEW k \in 1 .. Len(p.stream)
               PROVE  memory'[r][p.code + k - 1] = Cell("stream", p.stream[k])
    BY <1>1 DEF StreamIntact, Cell, PartOf, Residents, p
  <2> DEFINE a == p.code + k - 1
  <2>1. a \in 0 .. p.code + Len(p.stream) - 1 /\ ~(a < p.code) /\ a - p.code + 1 = k
    BY <1>2, SMTT(30)
  <2> HIDE DEF a
  <2>2. Output(a) = Cell("stream", p.stream[k])
    BY <1>1, <2>1 DEF Output
  <2>3. memory'[r][a] = Cell("stream", p.stream[k])
    BY <1>5, <2>1, <2>2
  <2>4. QED
    BY <2>3 DEF a
<1>8. Fixing(r)'
  <2>1. PartOf(r)' = PartOf(r) /\ Sites(r)' = Sites(r)
    BY <1>1 DEF PartOf, Sites
  <2>2. GroupOffset(p.sites, 0) = 0
    BY <1>0, PartIs, GroupStreamTellsSites DEF p
  <2>3. 0 \in 0 .. Sites(r)' /\ cursor' = PartOf(r)'.code + GroupOffset(PartOf(r)'.sites, 0) /\ site' = 0
    BY <1>1, <1>2, <2>1, <2>2 DEF p
  <2>4. \E m \in 0 .. Sites(r)' :
          /\ cursor' = PartOf(r)'.code + GroupOffset(PartOf(r)'.sites, m)
          /\ site' = IF m = 0 THEN 0 ELSE PartOf(r)'.sites[m].offset
          /\ PatchedUpTo(r, m)'
    BY <1>6, <2>3
  <2>5. todo' = PartOf(r)'.bss \div 4
    BY <1>1, <2>1 DEF p
  <2>6. QED
    BY <1>7, <2>4, <2>5 DEF Fixing
<1>9. \A q \in Residents : q = g => Region(q)'
  <2>1. Stage(r)' = "fixup"
    BY <1>0, <1>1, <1>a, ResidentsAre DEF Stage, Before, After, HandedOver
  <2>2. Region(r)'
    BY <1>8, <2>1 DEF Region
  <2>3. QED
    BY <1>a, <2>2
<1>10. \A q \in Residents : q # g => memory'[q] = memory[q]
  BY <1>0, <1>1, WriteIs
<1>11. Fed'
  BY <1>1 DEF Fed
<1>12. QED
  BY <1>0, <1>1, <1>4, <1>9, <1>10, <1>11, OthersStay DEF Unpacking

-----------------------------------------------------------------------------
(* The relocation loop.                                                    *)

BytesOf(r) == [a \in DOMAIN memory[r] |-> IF memory[r][a].kind = "stream" THEN memory[r][a].at ELSE 0]

\* What the loop finds at its cursor after m records.
LEMMA RecordAtCursor ==
  ASSUME Shape, NEW r \in Residents, StreamIntact(r), NEW m \in 0 .. Sites(r),
         cursor = PartOf(r).code + GroupOffset(PartOf(r).sites, m)
  PROVE  /\ cursor \in DOMAIN memory[r] /\ memory[r][cursor].kind = "stream"
         /\ m = Sites(r) => BytesOf(r)[cursor] = End
         /\ m < Sites(r) =>
              /\ BytesOf(r)[cursor] = PartOf(r).sites[m + 1].target
              /\ BytesOf(r)[cursor] \in Residents /\ BytesOf(r)[cursor] # End
              /\ HalfDelta(BytesOf(r), cursor + 1) = Delta(Offsets(PartOf(r).sites), m + 1)
              /\ cursor + GroupRecordLength(BytesOf(r), cursor) = PartOf(r).code + GroupOffset(PartOf(r).sites, m + 1)
              /\ \A a \in cursor .. cursor + GroupRecordLength(BytesOf(r), cursor) - 1 :
                   a \in DOMAIN memory[r] /\ memory[r][a].kind = "stream"
<1> DEFINE p == PartOf(r)
           s == p.stream
           o == GroupOffset(p.sites, m)
           bytes == BytesOf(r)
<1>1. /\ AreGroupSites(p.sites) /\ s = EncodeGroupStream(p.sites) /\ Sites(r) = Len(p.sites) /\ Sites(r) \in Nat
      /\ Len(s) \in Nat /\ p.code \in Nat /\ AllocatedSize(r) \in Nat
      /\ p.code + Len(s) <= AllocatedSize(r) /\ DOMAIN memory[r] = 0 .. AllocatedSize(r) - 1
  BY PartIs, GroupIs DEF Shape, Sites
<1>2. o \in Nat /\ o < Len(s) /\ Len(s) = GroupOffset(p.sites, Sites(r)) + 1 /\ s[Len(s)] = End
  BY <1>1, GroupStreamTellsSites
<1>3. m < Sites(r) =>
        /\ s[o + 1] = p.sites[m + 1].target
        /\ HalfDelta(s, o + 1 + 1) = Delta(Offsets(p.sites), m + 1)
        /\ GroupOffset(p.sites, m + 1) = o + GroupRecordLength(s, o + 1)
        /\ GroupOffset(p.sites, m + 1) < Len(s)
        /\ p.sites[m + 1].target \in Residents /\ p.sites[m + 1].target # End
  <2> SUFFICES ASSUME m < Sites(r)
               PROVE  /\ s[o + 1] = p.sites[m + 1].target
                      /\ HalfDelta(s, o + 1 + 1) = Delta(Offsets(p.sites), m + 1)
                      /\ GroupOffset(p.sites, m + 1) = o + GroupRecordLength(s, o + 1)
                      /\ GroupOffset(p.sites, m + 1) < Len(s)
                      /\ p.sites[m + 1].target \in Residents /\ p.sites[m + 1].target # End
    OBVIOUS
  <2>1. m \in 0 .. Sites(r) - 1 /\ m + 1 \in 0 .. Sites(r) /\ m + 1 \in 1 .. Sites(r)
    BY <1>1
  <2>2. /\ s[o + 1] = p.sites[m + 1].target
        /\ HalfDelta(s, o + 1 + 1) = Delta(Offsets(p.sites), m + 1)
        /\ GroupOffset(p.sites, m + 1) = o + GroupRecordLength(s, o + 1)
    BY <1>1, <2>1, GroupStreamTellsSites, SMTT(30)
  <2>3. GroupOffset(p.sites, m + 1) < Len(s)
    BY <1>1, <2>1, GroupStreamTellsSites
  <2>4. p.sites[m + 1].target \in Residents /\ p.sites[m + 1].target # End
    BY <2>1, PartIs DEF Shape
  <2>5. QED
    BY <2>2, <2>3, <2>4
<1> HIDE DEF s, o, p, bytes
<1>4. ASSUME NEW k \in 1 .. Len(s)
      PROVE  LET a == p.code + k - 1
             IN  a \in DOMAIN memory[r] /\ memory[r][a].kind = "stream" /\ bytes[a] = s[k]
  <2> DEFINE a == p.code + k - 1
  <2>1. a \in DOMAIN memory[r]
    BY <1>1
  <2>2. memory[r][a] = Cell("stream", s[k])
    BY DEF StreamIntact, s, p
  <2> HIDE DEF a
  <2>3. memory[r][a].kind = "stream" /\ memory[r][a].at = s[k]
    BY <2>2 DEF Cell
  <2>4. bytes[a] = s[k]
    BY <2>1, <2>3 DEF BytesOf, bytes
  <2>5. QED
    BY <2>1, <2>3, <2>4 DEF a
<1>5. cursor = p.code + o
  BY DEF p, o
<1>6. /\ cursor \in DOMAIN memory[r] /\ memory[r][cursor].kind = "stream" /\ bytes[cursor] = s[o + 1]
  <2> DEFINE k == o + 1
  <2>1. k \in 1 .. Len(s) /\ p.code + k - 1 = cursor
    <3>1. \A c, x, l \in Nat : x < l => x + 1 \in 1 .. l /\ c + (x + 1) - 1 = c + x
      OBVIOUS
    <3>2. QED
      BY <1>1, <1>2, <1>5, <3>1
  <2> HIDE DEF k
  <2>2. QED
    BY <1>4, <2>1 DEF k
<1>7. m = Sites(r) => bytes[cursor] = End
  <2>1. m = Sites(r) => o + 1 = Len(s)
    BY <1>2 DEF o
  <2>2. QED
    BY <1>2, <1>6, <2>1
<1>8. ASSUME m < Sites(r)
      PROVE  /\ HalfDelta(bytes, cursor + 1) = HalfDelta(s, o + 1 + 1)
             /\ GroupRecordLength(bytes, cursor) = GroupRecordLength(s, o + 1)
             /\ GroupRecordLength(s, o + 1) \in {2, 6}
             /\ \A a \in cursor .. cursor + GroupRecordLength(s, o + 1) - 1 :
                  a \in DOMAIN memory[r] /\ memory[r][a].kind = "stream"
  <2> DEFINE length == GroupRecordLength(s, o + 1)
             at == o + 1
  <2>1. length \in {2, 6}
    BY DEF GroupRecordLength, RecordLength
  <2>2. o + length < Len(s)
    BY <1>3, <1>8
  <2> HIDE DEF length
  <2>3. ASSUME NEW k \in 0 .. length - 1
        PROVE  /\ cursor + k \in DOMAIN memory[r] /\ memory[r][cursor + k].kind = "stream"
               /\ bytes[cursor + k] = s[at + k]
    <3> DEFINE j == at + k
    <3>1. j \in 1 .. Len(s) /\ p.code + j - 1 = cursor + k
      <4>1. \A c, x, l \in Nat, n \in {2, 6} : \A i \in 0 .. n - 1 :
              x + n < l => (x + 1) + i \in 1 .. l /\ c + ((x + 1) + i) - 1 = (c + x) + i
        OBVIOUS
      <4>2. p.code \in Nat /\ o \in Nat /\ Len(s) \in Nat
        BY <1>1, <1>2
      <4>3. (o + 1) + k \in 1 .. Len(s) /\ p.code + ((o + 1) + k) - 1 = (p.code + o) + k
        BY <2>1, <2>2, <4>1, <4>2
      <4>4. QED
        BY <1>5, <4>3
    <3> HIDE DEF j
    <3>2. LET a == p.code + j - 1
          IN  a \in DOMAIN memory[r] /\ memory[r][a].kind = "stream" /\ bytes[a] = s[j]
      BY <1>4, <3>1
    <3>3. cursor + k \in DOMAIN memory[r] /\ memory[r][cursor + k].kind = "stream" /\ bytes[cursor + k] = s[j]
      BY <3>1, <3>2
    <3>4. QED
      BY <3>3 DEF j
  <2>4. at \in Int /\ cursor \in Int
    BY <1>1, <1>2, <1>5
  <2> HIDE DEF at
  <2>5. \A k \in 0 .. GroupRecordLength(s, at) - 1 : bytes[cursor + k] = s[at + k]
    BY <2>3 DEF length, at
  <2>6. /\ bytes[cursor] = s[at]
        /\ GroupRecordLength(bytes, cursor) = GroupRecordLength(s, at)
        /\ HalfDelta(bytes, cursor + 1) = HalfDelta(s, at + 1)
    BY <2>4, <2>5, GroupRecordElsewhere, Z3
  <2>7. \A a \in cursor .. cursor + length - 1 : a \in DOMAIN memory[r] /\ memory[r][a].kind = "stream"
    <3> SUFFICES ASSUME NEW a \in cursor .. cursor + length - 1
                 PROVE  a \in DOMAIN memory[r] /\ memory[r][a].kind = "stream"
      OBVIOUS
    <3> DEFINE k == a - cursor
    <3>1. k \in 0 .. length - 1 /\ cursor + k = a
      <4>1. \A b \in Int, n \in {2, 6} : \A j \in b .. b + n - 1 : j - b \in 0 .. n - 1 /\ b + (j - b) = j
        OBVIOUS
      <4>2. QED
        BY <2>1, <2>4, <4>1
    <3> HIDE DEF k
    <3>2. QED
      BY <2>3, <3>1
  <2>8. QED
    BY <2>1, <2>6, <2>7 DEF length, at
<1>9. ASSUME m < Sites(r)
      PROVE  /\ bytes[cursor] = p.sites[m + 1].target
             /\ bytes[cursor] \in Residents /\ bytes[cursor] # End
             /\ HalfDelta(bytes, cursor + 1) = Delta(Offsets(p.sites), m + 1)
             /\ cursor + GroupRecordLength(bytes, cursor) = p.code + GroupOffset(p.sites, m + 1)
             /\ \A a \in cursor .. cursor + GroupRecordLength(bytes, cursor) - 1 :
                  a \in DOMAIN memory[r] /\ memory[r][a].kind = "stream"
  <2>1. cursor + GroupRecordLength(bytes, cursor) = p.code + GroupOffset(p.sites, m + 1)
    <3> DEFINE length == GroupRecordLength(s, o + 1)
    <3>1. \A c, x \in Nat, l \in {2, 6} : (c + x) + l = c + (x + l)
      OBVIOUS
    <3>2. GroupRecordLength(bytes, cursor) = length /\ length \in {2, 6} /\ GroupOffset(p.sites, m + 1) = o + length
      BY <1>3, <1>8, <1>9
    <3> HIDE DEF length
    <3>3. (p.code + o) + length = p.code + (o + length)
      BY <1>1, <1>2, <3>1, <3>2
    <3>4. QED
      BY <1>5, <3>2, <3>3
  <2>2. QED
    BY <1>3, <1>6, <1>8, <1>9, <2>1
<1>10. QED
  BY <1>6, <1>7, <1>9 DEF p, bytes

LEMMA FixupContents == Contents /\ Fixup => Contents'
<1> SUFFICES ASSUME Contents, Fixup
             PROVE  Contents'
  OBVIOUS
<1>0. Here = g /\ parts \in Files /\ g \in Residents /\ pc = "fixup" /\ Shape
      /\ \A q \in Residents : bases[q + 1] = q
  BY HereIs DEF Fixup, Before, Contents, Found
<1>a. PICK r \in Residents : r = g
  BY <1>0
<1> DEFINE p == PartOf(r)
           bytes == BytesOf(r)
           patched == site + 2 * HalfDelta(bytes, cursor + 1)
           target == bytes[cursor]
           cells == [b \in patched .. patched + 3 |->
                       IF b \in DOMAIN memory[r] THEN [memory[r][b] EXCEPT !.adds[target] = @ + 1] ELSE Cell("junk", 0)]
<1>1. StreamBytes = bytes
  BY <1>0, <1>a DEF StreamBytes, BytesOf
<1>2. Fixing(r)
  <2>1. Stage(r) = "fixup"
    BY <1>0, <1>a, ResidentsAre DEF Stage, Before, After, HandedOver
  <2>2. QED
    BY <2>1 DEF Contents, Region
<1>3. PICK m \in 0 .. Sites(r) :
        /\ cursor = p.code + GroupOffset(p.sites, m)
        /\ site = IF m = 0 THEN 0 ELSE p.sites[m].offset
        /\ PatchedUpTo(r, m)
  BY <1>2 DEF Fixing
<1>4. todo = p.bss \div 4 /\ StreamIntact(r)
  BY <1>2 DEF Fixing
<1>5. /\ AreSites(Offsets(p.sites)) /\ Sites(r) = Len(p.sites) /\ Sites(r) \in Nat
      /\ p.code \in Nat /\ AllocatedSize(r) \in Nat /\ Len(p.stream) \in Nat
      /\ p.code + Len(p.stream) <= AllocatedSize(r)
      /\ DOMAIN memory[r] = 0 .. AllocatedSize(r) - 1
  BY <1>0, PartIs, GroupIs DEF Sites, Shape, AreGroupSites
<1>6. m \in 0 .. Sites(r) - 1 /\ m < Sites(r)
  <2>1. m # Sites(r)
    BY <1>0, <1>1, <1>3, <1>4, RecordAtCursor DEF Fixup
  <2>2. QED
    BY <1>5, <2>1
<1>7. /\ target = p.sites[m + 1].target /\ target \in Residents
      /\ HalfDelta(bytes, cursor + 1) = Delta(Offsets(p.sites), m + 1)
      /\ cursor + GroupRecordLength(bytes, cursor) = p.code + GroupOffset(p.sites, m + 1)
  BY <1>0, <1>3, <1>4, <1>6, RecordAtCursor
<1>8. /\ UNCHANGED <<parts, g, bases, todo>> /\ pc' = "fixup"
      /\ Write(cells) /\ site' = patched /\ cursor' = cursor + GroupRecordLength(bytes, cursor)
  <2>1. /\ UNCHANGED <<parts, g, bases, todo>> /\ pc' = "fixup" /\ site' = patched
        /\ cursor' = cursor + GroupRecordLength(bytes, cursor)
    BY <1>0, <1>1 DEF Fixup, finding
  <2>2. bases[target + 1] = target
    BY <1>0, <1>7
  <2>3. Patch(site', bases[StreamBytes[cursor] + 1])
    BY DEF Fixup
  <2>4. Patch(patched, target)
    BY <1>1, <2>1, <2>2, <2>3
  <2>5. Write(cells)
    BY <1>0, <1>a, <2>4 DEF Patch
  <2>6. QED
    BY <2>1, <2>5
<1>9. patched = p.sites[m + 1].offset
  <2> DEFINE n == m + 1
             offsets == Offsets(p.sites)
  <2>1. n \in 1 .. Len(p.sites) /\ n - 1 = m /\ (n = 1 <=> m = 0)
    BY <1>5, <1>6, SMTT(30)
  <2>2. Len(offsets) = Len(p.sites) /\ \A i \in 1 .. Len(p.sites) : offsets[i] = p.sites[i].offset
    BY <1>5 DEF Offsets
  <2> HIDE DEF n, offsets
  <2>3. offsets[n] = (IF n = 1 THEN 0 ELSE offsets[n - 1]) + 2 * Delta(offsets, n)
    BY <1>5, <2>1, <2>2, DeltaIs DEF offsets
  <2>4. m # 0 => offsets[m] = p.sites[m].offset
    BY <1>5, <2>2
  <2>5. offsets[n] = site + 2 * Delta(offsets, n)
    BY <1>3, <2>1, <2>3, <2>4
  <2>6. QED
    BY <1>7, <2>1, <2>2, <2>5 DEF n, offsets
<1>10. patched \in Nat /\ patched + 4 <= p.code
  <2>1. m + 1 \in 1 .. Sites(r)
    BY <1>5, <1>6
  <2>2. QED
    BY <1>0, <1>9, <2>1, PartIs
<1> HIDE DEF patched, target
<1>11. DOMAIN cells = patched .. patched + 3
       /\ \A a \in DOMAIN cells : a \in DOMAIN memory[r] => cells[a] = [memory[r][a] EXCEPT !.adds[target] = @ + 1]
  OBVIOUS
<1> HIDE DEF cells, p, bytes
<1>b. \A a \in DOMAIN cells : a \in 0 .. AllocatedSize(r) - 1 /\ a < p.code
  <2>1. \A x, c, l, s \in Nat : x + 4 <= c /\ c + l <= s =>
          \A a \in x .. x + 3 : a \in 0 .. s - 1 /\ a < c
    OBVIOUS
  <2>2. QED
    BY <1>5, <1>10, <1>11, <2>1
<1>12. Shape'
  <2>1. DOMAIN cells \subseteq 0 .. AllocatedSize(g) - 1
    BY <1>a, <1>b
  <2>2. pc' \notin Before
    BY <1>8 DEF Before
  <2>3. QED
    BY <1>0, <1>8, <2>1, <2>2, ShapeKept
<1>13. \A a \in 0 .. AllocatedSize(r) - 1 : memory'[r][a] = IF a \in DOMAIN cells THEN cells[a] ELSE memory[r][a]
  BY <1>0, <1>5, <1>8, <1>a, WriteIs
<1>14. StreamIntact(r)'
  <2> SUFFICES ASSUME NEW k \in 1 .. Len(p.stream)
               PROVE  memory'[r][p.code + k - 1] = Cell("stream", p.stream[k])
    BY <1>8 DEF StreamIntact, Cell, PartOf, Residents, p
  <2> DEFINE a == p.code + k - 1
  <2>1. a \in 0 .. AllocatedSize(r) - 1 /\ ~(a < p.code)
    BY <1>5
  <2>2. memory[r][a] = Cell("stream", p.stream[k])
    BY <1>4 DEF StreamIntact, p
  <2> HIDE DEF a
  <2>3. a \notin DOMAIN cells
    BY <1>b, <2>1
  <2>4. memory'[r][a] = Cell("stream", p.stream[k])
    BY <1>13, <2>1, <2>2, <2>3
  <2>5. QED
    BY <2>4 DEF a
<1>15. PatchedUpTo(r, m + 1)'
  <2> SUFFICES ASSUME NEW a \in 0 .. p.code - 1
               PROVE  memory'[r][a] =
                        [kind |-> "code", at |-> a, adds |-> [t \in Residents |-> Covered(r, m + 1, t, a)']]
    BY <1>8 DEF PatchedUpTo, PartOf, Residents, p
  <2>1. \A t : Covered(r, m + 1, t, a)' = Covered(r, m + 1, t, a)
    BY <1>8 DEF Covered, Hits, PartOf
  <2>2. a \in 0 .. AllocatedSize(r) - 1
    BY <1>5
  <2>3. memory[r][a] = [kind |-> "code", at |-> a, adds |-> [t \in Residents |-> Covered(r, m, t, a)]]
    BY <1>3 DEF PatchedUpTo, p
  <2>4. a \in DOMAIN cells <=> a - p.sites[m + 1].offset \in 0 .. 3
    <3>1. \A x, i \in Int : i \in x .. x + 3 <=> i - x \in 0 .. 3
      OBVIOUS
    <3>2. a \in patched .. patched + 3 <=> a - patched \in 0 .. 3
      BY <1>5, <1>10, <3>1
    <3>3. QED
      BY <1>9, <1>11, <3>2
  <2>5. \A t \in Residents :
          Covered(r, m + 1, t, a) = IF target = t /\ a \in DOMAIN cells THEN Covered(r, m, t, a) + 1 ELSE Covered(r, m, t, a)
    <3> SUFFICES ASSUME NEW t \in Residents
                 PROVE  Covered(r, m + 1, t, a) =
                          IF target = t /\ a \in DOMAIN cells THEN Covered(r, m, t, a) + 1 ELSE Covered(r, m, t, a)
      OBVIOUS
    <3>1. Covered(r, m + 1, t, a) = Covered(r, m, t, a) + IF target = t /\ a \in DOMAIN cells THEN 1 ELSE 0
      BY <1>0, <1>6, <1>7, <2>4, CoveredNext DEF p
    <3>2. m \in Int
      BY <1>5, <1>6
    <3>3. Covered(r, m, t, a) \in Nat
      BY <3>2, HitsAreFinite
    <3>4. QED
      BY <3>1, <3>3
  <2>6. CASE a \in DOMAIN cells
    <3>1. cells[a] = [memory[r][a] EXCEPT !.adds[target] = @ + 1]
      BY <1>5, <1>11, <2>2, <2>6
    <3>2. cells[a] = [kind |-> "code", at |-> a,
                      adds |-> [[t \in Residents |-> Covered(r, m, t, a)] EXCEPT ![target] = @ + 1]]
      BY <2>3, <3>1
    <3>3. [[t \in Residents |-> Covered(r, m, t, a)] EXCEPT ![target] = @ + 1] = [t \in Residents |-> Covered(r, m + 1, t, a)]
      BY <1>7, <2>5, <2>6
    <3>4. QED
      BY <1>13, <2>1, <2>2, <2>6, <3>2, <3>3
  <2>7. CASE a \notin DOMAIN cells
    <3>1. [t \in Residents |-> Covered(r, m, t, a)] = [t \in Residents |-> Covered(r, m + 1, t, a)]
      BY <2>5, <2>7
    <3>2. QED
      BY <1>13, <2>1, <2>2, <2>3, <2>7, <3>1
  <2>8. QED
    BY <2>6, <2>7
<1>16. Fixing(r)'
  <2>1. PartOf(r)' = PartOf(r) /\ Sites(r)' = Sites(r)
    BY <1>8 DEF PartOf, Sites
  <2>2. /\ m + 1 \in 0 .. Sites(r)' /\ cursor' = PartOf(r)'.code + GroupOffset(PartOf(r)'.sites, m + 1)
        /\ site' = IF m + 1 = 0 THEN 0 ELSE PartOf(r)'.sites[m + 1].offset
    <3>1. m + 1 # 0 /\ m + 1 \in 0 .. Sites(r)
      BY <1>5, <1>6
    <3>2. QED
      BY <1>7, <1>8, <1>9, <2>1, <3>1 DEF p
  <2>3. \E k \in 0 .. Sites(r)' :
          /\ cursor' = PartOf(r)'.code + GroupOffset(PartOf(r)'.sites, k)
          /\ site' = IF k = 0 THEN 0 ELSE PartOf(r)'.sites[k].offset
          /\ PatchedUpTo(r, k)'
    BY <1>15, <2>2
  <2>4. todo' = PartOf(r)'.bss \div 4
    BY <1>4, <1>8, <2>1 DEF p
  <2>5. QED
    BY <1>14, <2>3, <2>4 DEF Fixing
<1>17. \A q \in Residents : q = g => Region(q)'
  <2>1. Stage(r)' = "fixup"
    BY <1>0, <1>8, <1>a, ResidentsAre DEF Stage, Before, After, HandedOver
  <2>2. Region(r)'
    BY <1>16, <2>1 DEF Region
  <2>3. QED
    BY <1>a, <2>2
<1>18. \A q \in Residents : q # g => memory'[q] = memory[q]
  BY <1>0, <1>8, WriteIs
<1>19. Fed'
  BY <1>8 DEF Fed
<1>20. QED
  BY <1>0, <1>8, <1>12, <1>17, <1>18, <1>19, OthersStay DEF Unpacking

LEMMA FixupDoneContents == Contents /\ FixupDone => Contents'
<1> SUFFICES ASSUME Contents, FixupDone
             PROVE  Contents'
  OBVIOUS
<1>0. Here = g /\ parts \in Files /\ g \in Residents /\ pc = "fixup" /\ Shape
  BY HereIs DEF FixupDone, Before, Contents
<1>a. PICK r \in Residents : r = g
  BY <1>0
<1>1. /\ UNCHANGED <<parts, memory, g, bases, todo, stale>> /\ pc' = "clear" /\ BytesOf(r)[cursor] = End
  BY <1>0, <1>a DEF FixupDone, Goto, finding, unpacking, StreamBytes, BytesOf
<1>2. Fixing(r)
  <2>1. Stage(r) = "fixup"
    BY <1>0, <1>a, ResidentsAre DEF Stage, Before, After, HandedOver
  <2>2. QED
    BY <2>1 DEF Contents, Region
<1>3. PICK m \in 0 .. Sites(r) :
        /\ cursor = PartOf(r).code + GroupOffset(PartOf(r).sites, m)
        /\ PatchedUpTo(r, m)
  BY <1>2 DEF Fixing
<1>4. /\ Sites(r) \in Nat /\ PartOf(r).code \in Nat /\ PartOf(r).bss \in Nat /\ PartOf(r).bss % 4 = 0
      /\ todo = PartOf(r).bss \div 4 /\ StreamIntact(r)
  BY <1>0, <1>2, PartIs DEF Fixing
<1>5. m = Sites(r)
  <2>1. ~(m < Sites(r))
    BY <1>0, <1>1, <1>3, <1>4, RecordAtCursor
  <2>2. QED
    BY <1>4, <2>1
<1>6. ClearBut(r, todo)
  <2>1. \A c, b \in Nat : b % 4 = 0 => c .. c + b - 4 * (b \div 4) - 1 = {}
    OBVIOUS
  <2>2. PartOf(r).code .. PartOf(r).code + PartOf(r).bss - 4 * todo - 1 = {}
    BY <1>4, <2>1
  <2>3. QED
    BY <2>2 DEF ClearBut
<1>7. todo \in 0 .. PartOf(r).bss \div 4
  BY <1>4
<1>8. Shape'
  BY <1>0, <1>1 DEF Shape, Residents, AllocatedSize, PartOf, Image, Prefix, Before
<1>9. Clearing(r)'
  <2>1. PatchedUpTo(r, Sites(r))'
    <3>1. PatchedUpTo(r, Sites(r))
      BY <1>3, <1>5
    <3>2. QED
      BY <1>1, <3>1, SMTT(30) DEF PatchedUpTo, Covered, Hits, PartOf, Residents, Sites
  <2>2. ClearBut(r, todo)'
    BY <1>1, <1>6 DEF ClearBut, Cell, PartOf, Residents
  <2>3. todo' \in 0 .. PartOf(r)'.bss \div 4
    BY <1>1, <1>7 DEF PartOf
  <2>4. QED
    BY <2>1, <2>2, <2>3 DEF Clearing
<1>10. \A q \in Residents : q = g => Region(q)'
  <2>1. Stage(r)' = "clear"
    BY <1>0, <1>1, <1>a, ResidentsAre DEF Stage, Before, After, HandedOver
  <2>2. Region(r)'
    BY <1>9, <2>1 DEF Region
  <2>3. QED
    BY <1>a, <2>2
<1>11. Fed'
  BY <1>1 DEF Fed
<1>12. QED
  BY <1>0, <1>1, <1>8, <1>10, <1>11, OthersStay DEF Unpacking

-----------------------------------------------------------------------------
(* The BSS, and the next region.                                           *)

LEMMA ClearBssContents == Contents /\ ClearBss => Contents'
<1> SUFFICES ASSUME Contents, ClearBss
             PROVE  Contents'
  OBVIOUS
<1>0. Here = g /\ parts \in Files /\ g \in Residents /\ pc = "clear" /\ Shape
  BY HereIs DEF ClearBss, Before, Contents
<1>a. PICK r \in Residents : r = g
  BY <1>0
<1> DEFINE p == PartOf(r)
           start == p.code + p.bss - 4 * todo
           cells == [a \in start .. start + 3 |-> Cell("zero", 0)]
<1>1. /\ UNCHANGED <<parts, g, bases>> /\ pc' = "clear" /\ todo' = todo - 1 /\ todo > 0
      /\ Write(cells)
  BY <1>0, <1>a DEF ClearBss, Part, finding
<1>2. Clearing(r)
  <2>1. Stage(r) = "clear"
    BY <1>0, <1>a, ResidentsAre DEF Stage, Before, After, HandedOver
  <2>2. QED
    BY <2>1 DEF Contents, Region
<1>3. /\ p.code \in Nat /\ p.bss \in Nat /\ p.bss % 4 = 0 /\ AllocatedSize(r) \in Nat
      /\ p.code + p.bss <= AllocatedSize(r) /\ DOMAIN memory[r] = 0 .. AllocatedSize(r) - 1
      /\ Sites(r) \in Nat /\ PatchedUpTo(r, Sites(r)) /\ todo \in 0 .. p.bss \div 4
  BY <1>0, <1>2, PartIs, GroupIs DEF Shape, Clearing
<1>4. DOMAIN cells = start .. start + 3 /\ \A a \in DOMAIN cells : cells[a] = Cell("zero", 0)
  OBVIOUS
<1>b. todo \in Nat /\ todo > 0 /\ todo <= p.bss \div 4
  BY <1>1, <1>3
<1>5. /\ start \in Nat /\ p.code <= start /\ start + 4 <= p.code + p.bss
      /\ p.code + p.bss - 4 * (todo - 1) - 1 = start + 3 /\ p.code + p.bss - 4 * todo - 1 = start - 1
  <2>1. \A c, b, t \in Nat : b % 4 = 0 /\ t > 0 /\ t <= b \div 4 =>
          /\ c + b - 4 * t \in Nat /\ c <= c + b - 4 * t /\ c + b - 4 * t + 4 <= c + b
          /\ c + b - 4 * (t - 1) - 1 = (c + b - 4 * t) + 3 /\ c + b - 4 * t - 1 = (c + b - 4 * t) - 1
    OBVIOUS
  <2>2. p.code \in Nat /\ p.bss \in Nat /\ todo \in Nat /\ p.bss % 4 = 0 /\ todo > 0 /\ todo <= p.bss \div 4
    BY <1>3, <1>b
  <2> HIDE DEF p, start
  <2>3. /\ p.code + p.bss - 4 * todo \in Nat /\ p.code <= p.code + p.bss - 4 * todo
        /\ p.code + p.bss - 4 * todo + 4 <= p.code + p.bss
        /\ p.code + p.bss - 4 * (todo - 1) - 1 = (p.code + p.bss - 4 * todo) + 3
        /\ p.code + p.bss - 4 * todo - 1 = (p.code + p.bss - 4 * todo) - 1
    BY <2>1, <2>2
  <2>4. QED
    BY <2>3 DEF start
<1>6. \A a \in p.code .. start - 1 : memory[r][a] = Cell("zero", 0)
  <2>1. ClearBut(r, todo)
    BY <1>2 DEF Clearing
  <2>2. \A a \in p.code .. p.code + p.bss - 4 * todo - 1 : memory[r][a] = Cell("zero", 0)
    BY <2>1 DEF ClearBut
  <2>3. QED
    BY <1>5, <2>2
<1> HIDE DEF start, cells, p
<1>c. /\ \A a \in start .. start + 3 : a \in 0 .. AllocatedSize(r) - 1
      /\ \A a \in 0 .. p.code - 1 : a \in 0 .. AllocatedSize(r) - 1 /\ a \notin start .. start + 3
      /\ \A a \in p.code .. start + 3 :
           a \in 0 .. AllocatedSize(r) - 1 /\ (a \in start .. start + 3 \/ a \in p.code .. start - 1)
  <2>1. \A c, b, s, n \in Nat : c <= s /\ s + 4 <= c + b /\ c + b <= n =>
          /\ \A a \in s .. s + 3 : a \in 0 .. n - 1
          /\ \A a \in 0 .. c - 1 : a \in 0 .. n - 1 /\ a \notin s .. s + 3
          /\ \A a \in c .. s + 3 : a \in 0 .. n - 1 /\ (a \in s .. s + 3 \/ a \in c .. s - 1)
    OBVIOUS
  <2>2. /\ p.code \in Nat /\ p.bss \in Nat /\ start \in Nat /\ AllocatedSize(r) \in Nat
        /\ p.code <= start /\ start + 4 <= p.code + p.bss /\ p.code + p.bss <= AllocatedSize(r)
    BY <1>3, <1>5
  <2>3. QED
    BY <2>1, <2>2
<1>7. Shape'
  <2>1. DOMAIN cells \subseteq 0 .. AllocatedSize(g) - 1
    BY <1>4, <1>a, <1>c
  <2>2. pc' \notin Before
    BY <1>1 DEF Before
  <2>3. QED
    BY <1>0, <1>1, <2>1, <2>2, ShapeKept
<1>8. \A a \in 0 .. AllocatedSize(r) - 1 : memory'[r][a] = IF a \in DOMAIN cells THEN cells[a] ELSE memory[r][a]
  BY <1>0, <1>1, <1>3, <1>a, WriteIs
<1>9. PatchedUpTo(r, Sites(r))'
  <2> SUFFICES ASSUME NEW a \in 0 .. p.code - 1
               PROVE  memory'[r][a] = memory[r][a]
    <3>1. \A a \in 0 .. p.code - 1 : memory'[r][a] = memory[r][a]
      OBVIOUS
    <3>2. PatchedUpTo(r, Sites(r)) /\ parts' = parts
      BY <1>1, <1>3
    <3>3. \A a \in 0 .. p.code - 1 :
            memory[r][a] = [kind |-> "code", at |-> a, adds |-> [t \in Residents |-> Covered(r, Sites(r), t, a)]]
      BY <3>2 DEF PatchedUpTo, p
    <3>4. \A a \in 0 .. p.code - 1 :
            memory'[r][a] = [kind |-> "code", at |-> a, adds |-> [t \in Residents |-> Covered(r, Sites(r), t, a)]]
      BY <3>1, <3>3
    <3>5. QED
      BY <3>2, <3>4, SMTT(30) DEF PatchedUpTo, Covered, Hits, Sites, PartOf, Residents, p
  <2>1. a \in 0 .. AllocatedSize(r) - 1 /\ a \notin DOMAIN cells
    BY <1>4, <1>c
  <2>2. QED
    BY <1>8, <2>1
<1>10. ClearBut(r, todo)'
  <2>1. \A a \in p.code .. start + 3 : memory'[r][a] = Cell("zero", 0)
    <3> SUFFICES ASSUME NEW a \in p.code .. start + 3
                 PROVE  memory'[r][a] = Cell("zero", 0)
      OBVIOUS
    <3>1. a \in 0 .. AllocatedSize(r) - 1 /\ (a \in DOMAIN cells \/ a \in p.code .. start - 1)
      BY <1>4, <1>c
    <3>2. CASE a \in DOMAIN cells
      BY <1>4, <1>8, <3>1, <3>2
    <3>3. CASE a \notin DOMAIN cells
      BY <1>6, <1>8, <3>1, <3>3
    <3>4. QED
      BY <3>2, <3>3
  <2>2. p.code + p.bss - 4 * todo' - 1 = start + 3
    BY <1>1, <1>5
  <2>3. \A a \in p.code .. p.code + p.bss - 4 * todo' - 1 : memory'[r][a] = Cell("zero", 0)
    BY <2>1, <2>2
  <2>4. QED
    BY <1>1, <2>3 DEF ClearBut, Cell, PartOf, Residents, p
<1>11. Clearing(r)'
  <2>1. todo' \in 0 .. p.bss \div 4
    BY <1>1, <1>3
  <2>2. PartOf(r)' = p
    BY <1>1 DEF PartOf, p
  <2>3. QED
    BY <1>9, <1>10, <2>1, <2>2 DEF Clearing
<1>12. \A q \in Residents : q = g => Region(q)'
  <2>1. Stage(r)' = "clear"
    BY <1>0, <1>1, <1>a, ResidentsAre DEF Stage, Before, After, HandedOver
  <2>2. Region(r)'
    BY <1>11, <2>1 DEF Region
  <2>3. QED
    BY <1>a, <2>2
<1>13. \A q \in Residents : q # g => memory'[q] = memory[q]
  BY <1>0, <1>1, WriteIs
<1>14. Fed'
  BY <1>1 DEF Fed
<1>15. QED
  BY <1>0, <1>1, <1>7, <1>12, <1>13, <1>14, OthersStay DEF Unpacking

LEMMA NextGroupContents == Contents /\ NextGroup => Contents'
<1> SUFFICES ASSUME Contents, NextGroup
             PROVE  Contents'
  OBVIOUS
<1>0. Here = g /\ parts \in Files /\ g \in Residents /\ pc = "clear" /\ todo = 0 /\ Shape /\ Residents \subseteq Int
  BY HereIs, ResidentsAre DEF NextGroup, Before, Contents
<1>1. /\ UNCHANGED <<parts, memory, bases, stale>>
      /\ \/ g + 1 \in Residents /\ g' = g + 1 /\ pc' = "payload"
         \/ g + 1 \notin Residents /\ g' = g /\ pc' = "publish"
  BY DEF NextGroup, Goto, finding
<1>2. Shape'
  BY <1>0, <1>1 DEF Shape, Residents, AllocatedSize, PartOf, Image, Prefix, Before
<1>3. Fed' /\ Found'
  BY <1>0, <1>1 DEF Contents, Fed, Found, Before, Residents
<1>4. ASSUME NEW r \in Residents
      PROVE  Region(r)'
  <2>1. r \in Int /\ g \in Int /\ Region(r)
    BY <1>0 DEF Contents
  <2>2. CASE r > g
    <3>1. Stage(r) = "loaded"
      BY <1>0, <2>2 DEF Stage, After, HandedOver
    <3>2. AsLoaded(r)'
      BY <1>1, <2>1, <3>1, RegionStays DEF Region
    <3>3. g + 1 \in Residents
      BY <1>0, <2>1, <2>2, ResidentsAre DEF Residents
    <3>4. Stage(r)' \in {"loaded", "payload"}
      BY <1>1, <2>1, <2>2, <3>3 DEF Stage, Before, After, HandedOver
    <3>5. QED
      BY <3>2, <3>4 DEF Region
  <2>3. CASE ~(r > g)
    <3>1. Finished(r)
      <4>1. CASE r = g
        <5>1. Stage(r) = "clear"
          BY <1>0, <2>1, <4>1 DEF Stage, Before, After, HandedOver
        <5>2. QED
          BY <1>0, <2>1, <5>1 DEF Region, Clearing, Finished
      <4>2. CASE r # g
        <5>1. Stage(r) = "finished"
          BY <1>0, <2>1, <2>3, <4>2 DEF Stage, Before, After, HandedOver
        <5>2. QED
          BY <2>1, <5>1 DEF Region
      <4>3. QED
        BY <4>1, <4>2
    <3>2. Finished(r)'
      BY <1>1, <3>1, RegionStays
    <3>3. Stage(r)' = "finished"
      BY <1>1, <2>1, <2>3 DEF Stage, Before, After, HandedOver
    <3>4. QED
      BY <3>2, <3>3 DEF Region
  <2>4. QED
    BY <2>2, <2>3
<1>5. \A r \in Residents' : Region(r)'
  BY <1>1, <1>4 DEF Residents
<1>6. QED
  BY <1>2, <1>3, <1>5 DEF Contents

-----------------------------------------------------------------------------
(* Before the first region and after the last.                             *)

\* Steps that touch no region.
LEMMA StagesStay ==
  ASSUME Contents, UNCHANGED <<parts, memory, g, stale>>,
         \/ pc \in Before /\ pc' \in Before
         \/ pc \in After /\ pc' \in After
  PROVE  Shape' /\ Fed' /\ Residents' = Residents /\ \A r \in Residents' : Region(r)'
<1>1. Residents' = Residents
  BY DEF Residents
<1>2. Shape'
  BY DEF Contents, Shape, Residents, AllocatedSize, PartOf, Image, Prefix, Before, After, HandedOver
<1>3. Fed'
  BY DEF Fed, Before, After, HandedOver
<1>4. ASSUME NEW r \in Residents
      PROVE  Region(r)'
  <2>1. Region(r) /\ Stage(r)' = Stage(r) /\ Stage(r) \in {"loaded", "finished"}
    BY DEF Contents, Stage, Before, After, HandedOver
  <2>2. QED
    BY <2>1, RegionStays DEF Region
<1>5. QED
  BY <1>1, <1>2, <1>3, <1>4

LEMMA FindingContents == Handover /\ Contents /\ (Trampoline \/ FindFirst \/ FindNext) => Contents'
<1> SUFFICES ASSUME Handover, Contents, Trampoline \/ FindFirst \/ FindNext
             PROVE  Contents'
  OBVIOUS
<1>1. UNCHANGED <<parts, memory, g, stale>> /\ pc \in Before /\ pc' \in Before
  BY DEF Trampoline, FindFirst, FindNext, Goto, unpacking, Before
<1>2. Shape' /\ Fed' /\ Residents' = Residents /\ \A r \in Residents' : Region(r)'
  BY <1>1, StagesStay
<1>3. /\ Len(parts) \in Nat \ {0} /\ 0 \in Residents /\ Residents = 0 .. Len(parts) - 1
      /\ link[0] = Scratch
      /\ \A h \in Residents \cup {Scratch} : link[h] = LoadedLink(h)
  <2>1. parts \in Files
    BY DEF Handover
  <2>2. \A h \in Residents \cup {Scratch} : link[h] = LoadedLink(h)
    BY <1>1 DEF Handover, Linked, Before, HandedOver
  <2>3. Len(parts) \in Nat \ {0} /\ 0 \in Residents
    BY <2>1, ResidentsAre
  <2>4. QED
    BY <2>2, <2>3 DEF LoadedLink, Residents
<1>4. CASE Trampoline
  BY <1>2, <1>4 DEF Trampoline, Goto, Contents, Found, Before
<1>5. CASE FindFirst
  <2>1. pc' = "map" /\ bases' = <<0>> /\ walk' = Scratch /\ parts' = parts
    BY <1>3, <1>5 DEF FindFirst, Goto
  <2>2. Found'
    BY <1>2, <1>3, <2>1 DEF Found, Before
  <2>3. QED
    BY <1>2, <2>2 DEF Contents
<1>6. CASE FindNext
  <2>1. /\ pc = "map" /\ pc' = "map" /\ Len(bases) < Len(parts) /\ parts' = parts
        /\ walk' = link[walk] /\ bases' = Append(bases, link[walk])
    BY <1>6 DEF FindNext
  <2>2. /\ bases \in Seq(Residents) /\ Len(bases) \in 1 .. Len(parts)
        /\ \A n \in 1 .. Len(bases) : bases[n] = n - 1
        /\ walk = IF Len(bases) = 1 THEN Scratch ELSE Len(bases) - 1
    BY <2>1 DEF Contents, Found
  <2>3. Len(bases) \in Residents
    BY <1>3, <2>1, <2>2
  <2>4. link[walk] = Len(bases)
    <3>1. CASE Len(bases) = 1
      BY <1>3, <2>2, <2>3, <3>1 DEF LoadedLink, Scratch
    <3>2. CASE Len(bases) # 1
      <4>1. Len(bases) - 1 \in Residents /\ Len(bases) - 1 # 0 /\ Len(bases) - 1 # Scratch
        BY <1>3, <2>1, <2>2, <3>2 DEF Scratch
      <4>2. LoadedLink(Len(bases) - 1) = Len(bases)
        <5> DEFINE h == Len(bases) - 1
        <5>1. h # 0 /\ h # Scratch /\ h + 1 = Len(bases)
          BY <2>2, <4>1
        <5> HIDE DEF h
        <5>2. LoadedLink(h) = Len(bases)
          BY <2>3, <5>1 DEF LoadedLink
        <5>3. QED
          BY <5>2 DEF h
      <4>3. QED
        BY <1>3, <2>2, <3>2, <4>1, <4>2
    <3>3. QED
      BY <3>1, <3>2
  <2>5. /\ bases' \in Seq(Residents) /\ Len(bases') = Len(bases) + 1
        /\ \A n \in 1 .. Len(bases') : bases'[n] = n - 1
    BY <2>1, <2>2, <2>3, <2>4
  <2>6. Found'
    <3>1. Len(bases') \in 1 .. Len(parts')
      BY <1>3, <2>1, <2>2, <2>5
    <3>2. walk' = IF Len(bases') = 1 THEN Scratch ELSE Len(bases') - 1
      BY <2>1, <2>2, <2>4, <2>5
    <3>3. QED
      BY <1>2, <2>1, <2>5, <3>1, <3>2 DEF Found, Before
  <2>7. QED
    BY <1>2, <2>6 DEF Contents
<1>7. QED
  BY <1>4, <1>5, <1>6

LEMMA FoundAllContents == Contents /\ FoundAll => Contents'
<1> SUFFICES ASSUME Contents, FoundAll
             PROVE  Contents'
  OBVIOUS
<1>1. /\ UNCHANGED <<parts, memory, g, bases, stale>> /\ pc = "map" /\ pc' = "payload" /\ Len(bases) = Len(parts)
  BY DEF FoundAll, Goto, finding, unpacking
<1>2. Residents' = Residents /\ g = 0 /\ parts \in Files
  BY <1>1 DEF Contents, Shape, Residents, Before
<1>3. Shape'
  BY <1>1 DEF Contents, Shape, Residents, AllocatedSize, PartOf, Image, Prefix, Before
<1>4. \A r \in Residents : bases[r + 1] = r
  <2>1. \A n \in 1 .. Len(parts) : bases[n] = n - 1
    BY <1>1 DEF Contents, Found
  <2>2. QED
    BY <1>2, <2>1, ResidentsAre DEF Residents
<1>5. Found'
  BY <1>1, <1>2, <1>4 DEF Found, Before
<1>6. ASSUME NEW r \in Residents
      PROVE  Region(r)'
  <2>1. Stage(r) = "loaded"
    BY <1>1 DEF Stage, Before, After, HandedOver
  <2>2. AsLoaded(r)'
    BY <1>1, <2>1, RegionStays DEF Contents, Region
  <2>3. Stage(r)' \in {"loaded", "payload"}
    BY <1>1, <1>2, ResidentsAre DEF Stage, Before, After, HandedOver
  <2>4. QED
    BY <2>2, <2>3 DEF Region
<1>7. QED
  BY <1>1, <1>2, <1>3, <1>5, <1>6 DEF Contents, Fed

LEMMA AfterContents ==
  Contents /\ (PublishCode \/ DetachScratch \/ FreeScratch \/ UnLoadSeg) => Contents'
<1> SUFFICES ASSUME Contents, PublishCode \/ DetachScratch \/ FreeScratch \/ UnLoadSeg
             PROVE  Contents'
  OBVIOUS
<1>1. /\ UNCHANGED <<parts, memory, g, bases>> /\ pc \in After /\ pc' \in After /\ stale' \subseteq stale
  BY DEF PublishCode, DetachScratch, FreeScratch, UnLoadSeg, Goto, finding, unpacking, After, HandedOver
<1>2. Residents' = Residents
  BY <1>1 DEF Residents
<1>3. Shape'
  BY <1>1 DEF Contents, Shape, Residents, AllocatedSize, PartOf, Image, Prefix, Before, After, HandedOver
<1>4. Fed' /\ Found'
  BY <1>1, <1>2 DEF Contents, Fed, Found, Before, After, HandedOver
<1>5. ASSUME NEW r \in Residents
      PROVE  Region(r)'
  <2>1. Stage(r) = "finished" /\ Stage(r)' = "finished"
    BY <1>1 DEF Stage
  <2>2. QED
    BY <1>1, <2>1, RegionStays DEF Contents, Region
<1>6. QED
  BY <1>2, <1>3, <1>4, <1>5 DEF Contents

LEMMA NextContents == Handover /\ Contents /\ [Next]_vars => Contents'
<1> SUFFICES ASSUME Handover, Contents, [Next]_vars
             PROVE  Contents'
  OBVIOUS
<1>1. CASE Trampoline \/ FindFirst \/ FindNext \/ FoundAll
  BY <1>1, FindingContents, FoundAllContents
<1>2. CASE DisjointPayload \/ OverlapPayload \/ Depack \/ DepackFails
  BY <1>2, DisjointPayloadContents, OverlapPayloadContents, DepackContents, DepackFailsContents
<1>3. CASE Fixup \/ FixupDone \/ ClearBss \/ NextGroup
  BY <1>3, FixupContents, FixupDoneContents, ClearBssContents, NextGroupContents
<1>4. CASE PublishCode \/ DetachScratch \/ FreeScratch \/ UnLoadSeg
  BY <1>4, AfterContents
<1>5. CASE OtherTaskAllocates \/ OtherTaskFrees \/ Hang \/ UNCHANGED vars
  <2>1. UNCHANGED <<parts, pc, memory, bases, walk, g, input, cursor, site, todo, stale>>
    BY <1>5 DEF OtherTaskAllocates, OtherTaskFrees, Hang, vars, finding, unpacking
  <2>2. Residents' = Residents
    BY <2>1 DEF Residents
  <2>3. Shape'
    BY <2>1 DEF Contents, Shape, Residents, AllocatedSize, PartOf, Image, Prefix, Before
  <2>4. Found'
    BY <2>1, <2>2 DEF Contents, Found, Before
  <2>5. Fed'
    BY <2>1 DEF Contents, Fed, PayloadAt, Part, PartOf, Cell, Residents
  <2>6. ASSUME NEW r \in Residents
        PROVE  Region(r)'
    <3>1. Stage(r)' = Stage(r) /\ Region(r)
      BY <2>1 DEF Stage, Contents
    <3>2. Fixing(r) => Fixing(r)'
      <4>1. \A m : PatchedUpTo(r, m) => PatchedUpTo(r, m)'
        BY <2>1 DEF PatchedUpTo, Covered, Hits, PartOf, Residents
      <4>2. StreamIntact(r) => StreamIntact(r)'
        BY <2>1 DEF StreamIntact, Cell, PartOf, Residents
      <4>3. QED
        BY <2>1, <4>1, <4>2 DEF Fixing, Sites, PartOf
    <3>3. Clearing(r) => Clearing(r)'
      <4>1. \A m : PatchedUpTo(r, m) => PatchedUpTo(r, m)'
        BY <2>1 DEF PatchedUpTo, Covered, Hits, PartOf, Residents
      <4>2. \A n : ClearBut(r, n) => ClearBut(r, n)'
        BY <2>1 DEF ClearBut, Cell, PartOf, Residents
      <4>3. QED
        BY <2>1, <4>1, <4>2 DEF Clearing, Sites, PartOf
    <3>4. QED
      BY <2>1, <3>1, <3>2, <3>3, RegionStays DEF Region
  <2>7. QED
    BY <2>2, <2>3, <2>4, <2>5, <2>6 DEF Contents
<1>6. QED
  BY <1>1, <1>2, <1>3, <1>4, <1>5 DEF Next, Run

LEMMA ContentsInvariant == Spec => []Contents
BY InitContents, NextContents, HandoverInvariant, PTL DEF Spec

-----------------------------------------------------------------------------
(* What follows.                                                           *)

LEMMA ContentsStay == Contents => WritesStayInGroups
<1> SUFFICES ASSUME Contents
             PROVE  WritesStayInGroups
  OBVIOUS
<1>1. \A w \in stale : w[1] \in Residents /\ w[2] \in DOMAIN memory[w[1]]
  BY DEF Contents, Shape
<1> DEFINE length == IF StreamBytes[cursor] = End THEN 1 ELSE GroupRecordLength(StreamBytes, cursor)
<1>2. ASSUME pc = "fixup"
      PROVE  /\ site = 0 \/ site + 4 <= Part.code
             /\ StreamBytes[cursor] \in Residents \cup {End}
             /\ \A a \in cursor .. cursor + length - 1 : a \in DOMAIN memory[Here] /\ memory[Here][a].kind = "stream"
  <2>1. Here = g /\ parts \in Files /\ g \in Residents /\ Shape
    BY <1>2, HereIs DEF Before, Contents
  <2>2. PICK r \in Residents : r = g
    BY <2>1
  <2>3. StreamBytes = BytesOf(r) /\ Here = r /\ Part = PartOf(r)
    BY <2>1, <2>2 DEF StreamBytes, BytesOf, Part
  <2>4. Fixing(r)
    <3>1. Stage(r) = "fixup"
      BY <1>2, <2>1, <2>2, ResidentsAre DEF Stage, Before, After, HandedOver
    <3>2. QED
      BY <3>1 DEF Contents, Region
  <2>5. PICK m \in 0 .. Sites(r) :
          /\ cursor = PartOf(r).code + GroupOffset(PartOf(r).sites, m)
          /\ site = IF m = 0 THEN 0 ELSE PartOf(r).sites[m].offset
    BY <2>4 DEF Fixing
  <2>6. StreamIntact(r) /\ Sites(r) \in Nat /\ DOMAIN memory[r] = 0 .. AllocatedSize(r) - 1
    BY <2>1, <2>4, PartIs DEF Fixing, Shape
  <2>7. site = 0 \/ site + 4 <= PartOf(r).code
    <3>1. m = 0 \/ m \in 1 .. Sites(r)
      BY <2>6
    <3>2. QED
      BY <2>1, <2>5, <3>1, PartIs
  <2>8. cursor \in DOMAIN memory[r] /\ memory[r][cursor].kind = "stream"
    BY <2>1, <2>5, <2>6, RecordAtCursor
  <2>9. CASE m = Sites(r)
    <3>1. BytesOf(r)[cursor] = End
      BY <2>1, <2>5, <2>6, <2>9, RecordAtCursor
    <3>2. length = 1
      BY <2>3, <3>1
    <3>3. \A a \in cursor .. cursor + 1 - 1 : a = cursor
      BY <2>6, <2>8
    <3> HIDE DEF length
    <3>4. QED
      BY <2>3, <2>7, <2>8, <3>1, <3>2, <3>3
  <2>10. CASE m # Sites(r)
    <3>1. m < Sites(r)
      BY <2>6, <2>10
    <3>2. /\ BytesOf(r)[cursor] \in Residents /\ BytesOf(r)[cursor] # End
          /\ \A a \in cursor .. cursor + GroupRecordLength(BytesOf(r), cursor) - 1 :
               a \in DOMAIN memory[r] /\ memory[r][a].kind = "stream"
      BY <2>1, <2>5, <2>6, <3>1, RecordAtCursor
    <3>3. length = GroupRecordLength(BytesOf(r), cursor)
      BY <2>3, <3>2
    <3> HIDE DEF length
    <3>4. QED
      BY <2>3, <2>7, <3>2, <3>3
  <2>11. QED
    BY <2>9, <2>10
<1>3. QED
  BY <1>1, <1>2 DEF WritesStayInGroups

\* No copy, output byte, patch or clear leaves its region's allocation,
\* whatever payloads, margins and relocations the regions have (mixed.s:44-112).
THEOREM RegionWritesStay == Spec => []WritesStayInGroups
BY ContentsStay, ContentsInvariant, PTL

\* When the dispatcher is through, each region is what the program expects.
LEMMA MemoryIsProgram ==
  ASSUME Contents, pc \in {"free", "program"}
  PROVE  [r \in Residents |-> [a \in Extent(r) |-> memory[r][a]]] = ProgramImage
<1>1. ASSUME NEW r \in Residents, NEW a \in Extent(r)
      PROVE  memory[r][a] =
               IF a < PartOf(r).code THEN [kind |-> "code", at |-> a, adds |-> AddsAt(r, a)] ELSE Cell("zero", 0)
  <2> DEFINE p == PartOf(r)
  <2>1. Finished(r)
    BY DEF Contents, Region, Stage, After, HandedOver
  <2>2. p.code \in Nat /\ p.bss \in Nat /\ Sites(r) \in Nat /\ DOMAIN p.sites = 1 .. Sites(r)
    BY PartIs DEF Contents, Shape, Sites, AreGroupSites
  <2>3. a \in 0 .. p.code + p.bss - 1
    BY DEF Extent
  <2>4. [t \in Residents |-> Covered(r, Sites(r), t, a)] = AddsAt(r, a)
    BY <2>2 DEF AddsAt, Covered, Hits
  <2>5. CASE a < p.code
    <3>1. a \in 0 .. p.code - 1
      BY <2>2, <2>3, <2>5
    <3>2. QED
      BY <2>1, <2>4, <2>5, <3>1 DEF Finished, PatchedUpTo
  <2>6. CASE ~(a < p.code)
    <3>1. a \in p.code .. p.code + p.bss - 4 * 0 - 1
      BY <2>2, <2>3, <2>6
    <3>2. QED
      BY <2>1, <2>6, <3>1 DEF Finished, ClearBut
  <2>7. QED
    BY <2>5, <2>6
<1>2. QED
  BY <1>1 DEF ProgramImage

LEMMA StartsInit == Init => Abstract!Init
BY DEF Init, Abstract!Init

LEMMA ImageKept ==
  ASSUME UNCHANGED parts
  PROVE  ProgramImage' = ProgramImage /\ Residents' = Residents /\ \A r : Extent(r)' = Extent(r)
BY DEF ProgramImage, AddsAt, Extent, Cell, PartOf, Residents

\* The program begins with FreeMem's rts, and exits with UnLoadSeg; all other
\* steps are steps of getting there.
LEMMA StartsNext == Contents /\ Handover /\ [Next]_vars => [Abstract!Next]_Abstract!startVars
<1> SUFFICES ASSUME Contents, Handover, [Next]_vars
             PROVE  [Abstract!Next]_Abstract!startVars
  OBVIOUS
<1>1. CASE FreeScratch
  <2>1. /\ UNCHANGED <<parts, exec, memory, loaded, stale>> /\ pc = "free" /\ pc' = "program"
        /\ scratch = "held" /\ scratch' = "free"
    BY <1>1 DEF FreeScratch, Goto, Handover, HeldUntilFreed, HandedOver
  <2>2. loaded = Residents /\ loaded' = Residents
    BY <2>1 DEF Handover, Unloaded
  <2>3. \A r, a : Fetched(r, a)' = memory[r][a]
    BY <2>1 DEF Handover, NothingStale, Fetched
  <2>4. [r \in Residents' |-> [a \in Extent(r)' |-> Fetched(r, a)']] = ProgramImage
    BY <2>1, <2>3, ImageKept, MemoryIsProgram
  <2>5. Abstract!Begin
    BY <2>1, <2>2, <2>4, ImageKept DEF Abstract!Begin
  <2>6. QED
    BY <2>5 DEF Abstract!Next
<1>2. CASE UnLoadSeg
  <2>1. UNCHANGED parts /\ pc = "program" /\ pc' = "exited" /\ loaded' = loaded \ Chain /\ scratch' # "held"
    BY <1>2 DEF UnLoadSeg, Goto, Handover, HeldUntilFreed, HandedOver
  <2>2. loaded' = {}
    BY <2>1, ChainIsResidents DEF Handover, Unloaded
  <2>3. Abstract!Exit
    BY <2>1, <2>2, ImageKept DEF Abstract!Exit
  <2>4. QED
    BY <2>3 DEF Abstract!Next
<1>3. ASSUME UNCHANGED <<parts, loaded>>, scratch' = "held" <=> scratch = "held",
             \/ pc' \notin HandedOver /\ pc \notin HandedOver
             \/ UNCHANGED <<pc, exec, memory, stale>>
      PROVE  [Abstract!Next]_Abstract!startVars
  <2>1. ProgramImage' = ProgramImage /\ Residents' = Residents /\ \A r : Extent(r)' = Extent(r)
    BY <1>3, ImageKept
  <2>2. UNCHANGED <<pc, exec, memory, stale>> => \A r, a : Fetched(r, a)' = Fetched(r, a)
    BY <1>3 DEF Fetched, Cell, Residents
  <2>3. UNCHANGED Abstract!startVars
    BY <1>3, <2>1, <2>2 DEF Abstract!startVars, HandedOver
  <2>4. QED
    BY <2>3
<1>4. CASE Trampoline \/ FindFirst \/ FindNext \/ FoundAll
  BY <1>3, <1>4 DEF Trampoline, FindFirst, FindNext, FoundAll, Goto, exits, HandedOver
<1>5. CASE DisjointPayload \/ OverlapPayload \/ Depack \/ DepackFails
  BY <1>3, <1>5 DEF DisjointPayload, OverlapPayload, Depack, DepackFails, Goto, exits, HandedOver
<1>6. CASE Fixup \/ FixupDone \/ ClearBss \/ NextGroup
  BY <1>3, <1>6 DEF Fixup, FixupDone, ClearBss, NextGroup, Goto, exits, HandedOver
<1>7. CASE PublishCode \/ DetachScratch
  BY <1>3, <1>7 DEF PublishCode, DetachScratch, Goto, exits, HandedOver
<1>8. CASE OtherTaskAllocates \/ OtherTaskFrees \/ Hang \/ UNCHANGED vars
  BY <1>3, <1>8 DEF OtherTaskAllocates, OtherTaskFrees, Hang, vars
<1>9. QED
  BY <1>1, <1>2, <1>4, <1>5, <1>6, <1>7, <1>8 DEF Next, Run

\* A packed file of several memory classes does what the original one did: if
\* its program starts, it starts on every region relocated and cleared, owning
\* nothing else, and what it owns is freed when it exits (stubs/common/mixed.s).
THEOREM RegionsStartRight == Spec => StartsProgram
BY StartsInit, StartsNext, ContentsInvariant, HandoverInvariant, PTL DEF Spec, StartsProgram, Abstract!Spec
=============================================================================
