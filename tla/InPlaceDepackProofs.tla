------------------------ MODULE InPlaceDepackProofs ------------------------
(***************************************************************************)
(* Proofs about InPlaceDepack, for every layout constant and every set of  *)
(* jobs: type correctness, and, when the decoders walk their input forward *)
(* (ForwardJobs), that the margin the packer measured is enough.           *)
(***************************************************************************)
EXTENDS InPlaceDepack, LayoutTheorems

-----------------------------------------------------------------------------
(* The inductive invariant.                                                *)

\* maxConsumed is the highest payload offset read so far, -1 before any.
MeasuredSoFar ==
  phase = "measure" =>
    /\ \A m \in 1 .. pc - 1 : IsGet(Ops[m]) => Ops[m].at <= maxConsumed
    /\ maxConsumed # -1 =>
         \E m \in 1 .. pc - 1 : IsGet(Ops[m]) /\ Ops[m].at = maxConsumed

\* Shifted up by the margin, the payload leads every write measured so far:
\* what is read later lies strictly above what is written now.
MarginLeads ==
  \A n, m \in DOMAIN Ops :
    /\ n < m
    /\ phase = "measure" => n < pc
    /\ IsPut(Ops[n])
    /\ IsGet(Ops[m])
    => Ops[n].at < margin + Ops[m].at

\* Before the run in place starts, none of its steps is done.
NotYetRunning ==
  /\ phase \in {"file", "move"} => pc = 1
  /\ phase = "move" => \A a \in DOMAIN mem : mem[a].kind # "output"

\* What is still to be read has not been overwritten.
UnreadPayloadIntact ==
  phase = "depack" =>
    \A m \in pc .. Len(Ops) :
      IsGet(Ops[m]) => mem[PayloadOffset + Ops[m].at] = Payload(Ops[m].at)

\* What has been written is the output, and stays.
WrittenOutputIntact ==
  phase = "depack" =>
    \A n \in 1 .. pc - 1 : IsPut(Ops[n]) => mem[Ops[n].at] = Output(Ops[n].at)

IInv ==
  /\ TypeOK
  /\ Forward(Ops)
  /\ MeasuredSoFar
  /\ MarginLeads
  /\ NotYetRunning
  /\ MoveKeepsPayload
  /\ UnreadPayloadIntact
  /\ WrittenOutputIntact
  /\ ReadsOriginalPayload

-----------------------------------------------------------------------------
(* Facts every step uses.                                                  *)

\* A step of a well-formed run is a read inside the payload or a write
\* inside the output.
LEMMA JobSteps ==
  ASSUME IsJob(job)
  PROVE  /\ job.image \in Images
         /\ job.payload \in Nat
         /\ DepackedSize(job.image) \in Nat
         /\ Len(Ops) \in Nat
         /\ DOMAIN Ops = 1 .. Len(Ops)
         /\ \A n \in DOMAIN Ops :
              /\ Ops[n].at \in Nat
              /\ IsGet(Ops[n]) => Ops[n].at < job.payload
              /\ IsPut(Ops[n]) => ~IsGet(Ops[n]) /\ Ops[n].at < DepackedSize(job.image)
              /\ IsGet(Ops[n]) \/ IsPut(Ops[n])
<1>1. job.image \in Images /\ job.payload \in Nat
  BY DEF IsJob
<1>2. DepackedSize(job.image) \in Nat
  BY <1>1 DEF Images, DepackedSize
<1>3. Ops \in Seq([op : {"get", "put"}, at : Nat])
  BY DEF IsJob, Ops
<1>4. Len(Ops) \in Nat /\ DOMAIN Ops = 1 .. Len(Ops)
  BY <1>3
<1>5. \A n \in DOMAIN Ops : Ops[n] \in [op : {"get", "put"}, at : Nat]
  <2> DEFINE Steps == [op : {"get", "put"}, at : Nat]
  <2>1. Ops \in Seq(Steps)
    BY <1>3
  <2> HIDE DEF Steps
  <2>2. \A n \in 1 .. Len(Ops) : Ops[n] \in Steps
    BY <2>1
  <2> QED
    BY <1>4, <2>2 DEF Steps
<1>6. \A n \in DOMAIN Ops :
        Ops[n].at < IF IsGet(Ops[n]) THEN job.payload ELSE DepackedSize(job.image)
  BY DEF IsJob, Ops
<1> QED
  BY <1>1, <1>2, <1>4, <1>5, <1>6 DEF IsGet, IsPut

\* The layout of hunk 0 once the file is built: both regions fit, the payload
\* is moved up and not down, and by at least the margin.
LEMMA LoadedLayout ==
  ASSUME TypeOK, phase # "measure"
  PROVE  /\ AllocatedSize \in Nat
         /\ DepackedSize(job.image) <= AllocatedSize
         /\ TrampolineSize + Align4(job.payload) <= AllocatedSize
         /\ PayloadOffset \in Nat
         /\ PayloadOffset % 4 = 0
         /\ TrampolineSize <= PayloadOffset
         /\ margin <= PayloadOffset
         /\ PayloadOffset + Align4(job.payload) <= AllocatedSize
         /\ Align4(job.payload) \in Nat
         /\ job.payload <= Align4(job.payload)
         /\ Align4(job.payload) % 4 = 0
         /\ TrampolineSize \in Nat
         /\ header.trampoline_size = TrampolineSize
         /\ header.compressed_size = job.payload
<1>1. /\ IsJob(job) /\ margin \in Nat
      /\ header = Header(job.image, job.payload, margin)
  BY DEF TypeOK
<1>2. /\ job.image \in Images /\ job.payload \in Nat
      /\ DepackedSize(job.image) \in Nat
  BY <1>1, JobSteps
<1>3. /\ AllocatedSize \in Nat
      /\ TrampolineSize + Align4(job.payload) <= AllocatedSize
      /\ ResidentTailSize(job.image) <= AllocatedSize
  BY <1>1, <1>2, LayoutAssumption, AllocatedSizeCovers DEF AllocatedSize
<1>4. DepackedSize(job.image) <= AllocatedSize
  BY <1>2, <1>3, ResidentTailFacts
<1>5. /\ PayloadOffset \in Nat
      /\ PayloadOffset % 4 = 0
      /\ TrampolineSize <= PayloadOffset
      /\ margin <= PayloadOffset
      /\ PayloadOffset + Align4(job.payload) <= AllocatedSize
  BY <1>1, <1>2, LayoutAssumption, PayloadOffsetIsSafe DEF AllocatedSize, PayloadOffset
<1>6. /\ header.trampoline_size = TrampolineSize
      /\ header.compressed_size = job.payload
  BY <1>1 DEF Header
<1>7. /\ Align4(job.payload) \in Nat
      /\ job.payload <= Align4(job.payload)
      /\ Align4(job.payload) % 4 = 0
  BY <1>2, Align4Rounds
<1> QED
  BY <1>3, <1>4, <1>5, <1>6, <1>7, LayoutAssumption DEF LayoutAssumption

\* Loading and moving keep the run's ends and the memory's shape.
LEMMA CellTypes ==
  ASSUME NEW at \in Nat
  PROVE  /\ Payload(at) \in Cells /\ Output(at) \in Cells /\ Junk \in Cells
         /\ Payload(at).kind # "output" /\ Junk.kind # "output"
BY DEF Payload, Output, Junk, Cell, Cells

-----------------------------------------------------------------------------
(* Type correctness.  It needs nothing of the decoders but that they are   *)
(* well-formed runs.                                                       *)

\* What the packer starts from is well typed.
LEMMA InitType == Init => TypeOK
<1> SUFFICES ASSUME Init PROVE TypeOK
  OBVIOUS
<1>1. IsJob(job)
  BY JobsAssumption DEF Init
<1>2. 0 <= Align4(job.payload)
  <2>1. job.payload \in Nat
    BY <1>1 DEF IsJob
  <2>2. Align4(job.payload) \in Nat
    BY <2>1, Align4Rounds
  <2> QED
    BY <2>2
<1> QED
  BY <1>1, <1>2, JobSteps DEF Init, TypeOK

\* Every step keeps the types: in particular no copy or write leaves hunk 0.
LEMMA NextType == TypeOK /\ [Next]_vars => TypeOK'
<1> SUFFICES ASSUME TypeOK, [Next]_vars PROVE TypeOK'
  OBVIOUS
<1>0. IsJob(job)
  BY DEF TypeOK
<1> USE <1>0
<1>1. CASE MeasureRead
  <2>1. Ops[pc].at \in Nat /\ Ops[pc].at < job.payload /\ job.payload \in Nat
    BY <1>1, JobSteps DEF MeasureRead
  <2>2. maxConsumed' \in -1 .. job.payload - 1
    BY <1>1, <2>1 DEF MeasureRead, TypeOK
  <2>3. pc' \in 1 .. Len(Ops) + 1
    BY <1>1, JobSteps DEF MeasureRead, TypeOK
  <2> QED
    BY <1>1, <2>2, <2>3 DEF MeasureRead, TypeOK, Ops
<1>2. CASE MeasureWrite
  <2>1. margin' \in Nat
    <3>1. Ops[pc].at \in Nat /\ maxConsumed \in Int /\ margin \in Nat
      BY <1>0, <1>2, JobSteps DEF MeasureWrite, TypeOK
    <3> QED
      BY <1>2, <3>1 DEF MeasureWrite
  <2> QED
    BY <1>2, <2>1, JobSteps, SMTT(30) DEF MeasureWrite, TypeOK, Ops
<1>3. CASE BuildFile
  BY <1>3, JobSteps DEF BuildFile, TypeOK, Ops
<1>4. CASE LoadSeg
  <2>1. mem' \in [0 .. AllocatedSize - 1 -> Cells]
    <3>1. \A a \in 0 .. AllocatedSize - 1 :
            a \in TrampolineSize .. TrampolineSize + job.payload - 1
              => a - TrampolineSize \in Nat
      BY LoadedLayout, JobSteps, <1>4, SMTT(30) DEF LoadSeg
    <3>2. Junk \in Cells /\ \A at \in Nat : Payload(at) \in Cells
      BY CellTypes
    <3> QED
      BY <1>4, <3>1, <3>2 DEF LoadSeg
  <2>2. left' \in Nat /\ 4 * left' <= Align4(job.payload)
    <3>1. left' = Align4(job.payload) \div 4
      BY <1>4, LoadedLayout DEF LoadSeg
    <3>2. Align4(job.payload) \in Nat
      BY <1>4, LoadedLayout DEF LoadSeg
    <3> QED
      BY <3>1, <3>2
  <2>3. phase' \in {"move", "depack"} /\ (phase' = "move" => left' # 0)
    BY <1>4 DEF LoadSeg
  <2> QED
    BY <1>4, <2>1, <2>2, <2>3 DEF LoadSeg, TypeOK, packVars, Ops, AllocatedSize
<1>5. CASE OverlapMovePayload
  <2>1. /\ left \in Nat /\ 4 * left <= Align4(job.payload) /\ left # 0
        /\ mem \in [0 .. AllocatedSize - 1 -> Cells]
    BY <1>5 DEF OverlapMovePayload, TypeOK
  <2> DEFINE source == TrampolineSize + 4 * (left - 1)
             dest   == PayloadOffset + 4 * (left - 1)
  <2>2. mem' = [a \in 0 .. AllocatedSize - 1 |->
                  IF a \in dest .. dest + 3 THEN mem[a - dest + source] ELSE mem[a]]
    BY <1>5, <2>1, LoadedLayout DEF OverlapMovePayload
  <2>3. \A a \in 0 .. AllocatedSize - 1 :
          a \in dest .. dest + 3 => a - dest + source \in 0 .. AllocatedSize - 1
    <3>1. /\ TrampolineSize \in Nat /\ AllocatedSize \in Nat /\ PayloadOffset \in Nat
          /\ TrampolineSize + Align4(job.payload) <= AllocatedSize
          /\ Align4(job.payload) \in Nat
      BY <1>5, LoadedLayout DEF OverlapMovePayload
    <3> QED
      BY <2>1, <3>1
  <2>4. mem' \in [0 .. AllocatedSize - 1 -> Cells]
    <3> HIDE DEF source, dest
    <3> QED BY <2>1, <2>2, <2>3
  <2>5. /\ left' \in Nat /\ 4 * left' <= Align4(job.payload)
        /\ phase' \in {"move", "depack"}
        /\ phase' = "move" => left' # 0
    <3>1. Align4(job.payload) \in Nat /\ left' = left - 1
      BY <1>5, LoadedLayout DEF OverlapMovePayload
    <3> QED
      BY <1>5, <2>1, <3>1 DEF OverlapMovePayload
  <2> QED
    BY <1>5, <2>4, <2>5 DEF OverlapMovePayload, TypeOK, packVars, Ops, AllocatedSize
<1>6. CASE DepackRead
  <2>1. Ops[pc].at \in 0 .. job.payload - 1
    BY <1>6, JobSteps DEF DepackRead
  <2>2. misread' \subseteq 0 .. job.payload - 1
    BY <1>6, <2>1 DEF DepackRead, TypeOK
  <2>3. pc' \in 1 .. Len(Ops) + 1
    BY <1>6, JobSteps DEF DepackRead, TypeOK
  <2> QED
    BY <1>6, <2>2, <2>3 DEF DepackRead, TypeOK, packVars, Ops, AllocatedSize
<1>7. CASE DepackWrite
  <2>1. mem' \in [0 .. AllocatedSize - 1 -> Cells]
    BY <1>7, CellTypes, JobSteps DEF DepackWrite, TypeOK
  <2> QED
    BY <1>7, <2>1, JobSteps, SMTT(30) DEF DepackWrite, TypeOK, packVars, Ops, AllocatedSize
<1>8. CASE DepackReturn
  BY <1>8 DEF DepackReturn, TypeOK, packVars, Ops, AllocatedSize
<1>9. CASE UNCHANGED vars
  BY <1>9 DEF vars, packVars, TypeOK, Ops, AllocatedSize
<1> QED
  BY <1>1, <1>2, <1>3, <1>4, <1>5, <1>6, <1>7, <1>8, <1>9 DEF Next

\* Every variable keeps its type through the packer's run and the Amiga's.
THEOREM TypeCorrect == Spec => []TypeOK
  BY InitType, NextType, PTL DEF Spec

-----------------------------------------------------------------------------
(* The margin.  From here on the decoders walk their input forward.        *)

\* The initial state has measured nothing and written nothing.
LEMMA InitIInv == ForwardJobs /\ Init => IInv
<1> SUFFICES ASSUME ForwardJobs, Init PROVE IInv
  OBVIOUS
<1>1. TypeOK
  BY InitType
<1>2. Forward(Ops)
  BY DEF ForwardJobs, Init, Ops
<1>3. MeasuredSoFar
  BY DEF Init, MeasuredSoFar
<1>4. MarginLeads
  BY <1>1, JobSteps DEF Init, MarginLeads, TypeOK
<1> QED
  BY <1>1, <1>2, <1>3, <1>4 DEF Init, IInv, NotYetRunning, MoveKeepsPayload,
     UnreadPayloadIntact, WrittenOutputIntact, ReadsOriginalPayload

\* A read in the measuring run raises the mark to itself, since it is past
\* all the reads before it.
LEMMA MeasureReadIInv == IInv /\ MeasureRead => IInv'
<1> SUFFICES ASSUME IInv, MeasureRead PROVE IInv'
  OBVIOUS
<1>0. TypeOK' /\ IsJob(job)
  BY NextType DEF Next, IInv, TypeOK
<1>1. Ops' = Ops /\ pc \in DOMAIN Ops /\ pc' = pc + 1 /\ phase = "measure" /\ phase' = phase
  BY DEF MeasureRead, Ops
<1>2. DOMAIN Ops = 1 .. Len(Ops) /\ Len(Ops) \in Nat /\ pc \in Nat
      /\ \A m \in DOMAIN Ops : Ops[m].at \in Nat
      /\ IsGet(Ops[pc]) /\ ~IsPut(Ops[pc])
  BY <1>0, <1>1, JobSteps DEF MeasureRead
<1>3. MeasuredSoFar'
  <2>1. \A m \in 1 .. pc - 1 : IsGet(Ops[m]) => Ops[m].at < Ops[pc].at
    BY <1>1, <1>2 DEF IInv, Forward
  <2>2. maxConsumed = -1 \/ \E m \in 1 .. pc - 1 : IsGet(Ops[m]) /\ Ops[m].at = maxConsumed
    BY <1>1 DEF IInv, MeasuredSoFar
  <2>3. maxConsumed' = Ops[pc].at
    BY <1>1, <1>2, <2>1, <2>2 DEF MeasureRead
  <2>4. \A m \in 1 .. pc : IsGet(Ops[m]) => Ops[m].at <= Ops[pc].at
    <3>1. \A m \in 1 .. pc : m = pc \/ (m \in 1 .. pc - 1 /\ m \in DOMAIN Ops)
      BY <1>1, <1>2
    <3> QED
      BY <1>1, <1>2, <2>1, <3>1
  <2> QED
    BY <1>1, <1>2, <2>3, <2>4 DEF MeasuredSoFar
<1>4. MarginLeads'
  BY <1>1, <1>2 DEF IInv, MarginLeads, MeasureRead
<1> QED
  BY <1>0, <1>1, <1>3, <1>4 DEF IInv, MeasureRead, NotYetRunning, MoveKeepsPayload,
     UnreadPayloadIntact, WrittenOutputIntact, ReadsOriginalPayload

\* A write in the measuring run raises the margin to what this write needs:
\* every later read is past the mark.
LEMMA MeasureWriteIInv == IInv /\ MeasureWrite => IInv'
<1> SUFFICES ASSUME IInv, MeasureWrite PROVE IInv'
  OBVIOUS
<1>0. TypeOK' /\ IsJob(job)
  BY NextType DEF Next, IInv, TypeOK
<1>1. Ops' = Ops /\ pc \in DOMAIN Ops /\ pc' = pc + 1 /\ phase = "measure" /\ phase' = phase
  BY DEF MeasureWrite, Ops
<1>2. /\ DOMAIN Ops = 1 .. Len(Ops) /\ Len(Ops) \in Nat /\ pc \in Nat
      /\ \A m \in DOMAIN Ops : Ops[m].at \in Nat
      /\ ~IsGet(Ops[pc])
  BY <1>0, <1>1, JobSteps DEF MeasureWrite
<1>3. MeasuredSoFar'
  <2>1. \A m \in 1 .. pc : m = pc \/ m \in 1 .. pc - 1
    BY <1>2
  <2> QED
    BY <1>1, <1>2, <2>1 DEF IInv, MeasuredSoFar, MeasureWrite
<1>4. MarginLeads'
  <2> SUFFICES ASSUME NEW n \in DOMAIN Ops, NEW m \in DOMAIN Ops,
                      n < m, n < pc + 1, IsPut(Ops[n]), IsGet(Ops[m])
               PROVE  Ops[n].at < margin' + Ops[m].at
    BY <1>1 DEF MarginLeads
  <2>1. margin \in Nat /\ margin' \in Nat /\ maxConsumed \in Int
    BY <1>0 DEF IInv, TypeOK
  <2>2. margin <= margin' /\ Ops[pc].at - maxConsumed <= margin'
    BY <1>1, <1>2, <2>1, SMTT(30) DEF MeasureWrite
  <2>3. CASE n < pc
    <3>1. Ops[n].at < margin + Ops[m].at
      BY <1>1, <2>3 DEF IInv, MarginLeads
    <3> QED
      BY <1>2, <2>1, <2>2, <3>1
  <2>4. CASE n = pc
    <3>1. maxConsumed < Ops[m].at
      <4>1. CASE maxConsumed = -1
        BY <1>2, <4>1
      <4>2. CASE maxConsumed # -1
        <5>1. PICK k \in 1 .. pc - 1 : IsGet(Ops[k]) /\ Ops[k].at = maxConsumed
          BY <1>1, <4>2 DEF IInv, MeasuredSoFar
        <5>2. k \in DOMAIN Ops /\ k < m
          BY <1>1, <1>2, <2>4
        <5> QED
          BY <5>1, <5>2 DEF IInv, Forward
      <4> QED
        BY <4>1, <4>2
    <3> QED
      BY <1>1, <1>2, <2>1, <2>2, <2>4, <3>1
  <2>5. n < pc \/ n = pc
    BY <1>2
  <2> QED
    BY <2>3, <2>4, <2>5
<1> QED
  BY <1>0, <1>1, <1>3, <1>4 DEF IInv, MeasureWrite, NotYetRunning, MoveKeepsPayload,
     UnreadPayloadIntact, WrittenOutputIntact, ReadsOriginalPayload

\* When the file is built every step of the run has been measured.
LEMMA BuildFileIInv == IInv /\ BuildFile => IInv'
<1> SUFFICES ASSUME IInv, BuildFile PROVE IInv'
  OBVIOUS
<1>0. TypeOK' /\ IsJob(job)
  BY NextType DEF Next, IInv, TypeOK
<1>1. Ops' = Ops /\ phase = "measure" /\ phase' = "file" /\ pc' = 1 /\ margin' = margin
  BY DEF BuildFile, Ops
<1>2. \A n \in DOMAIN Ops : n < pc
  BY <1>0, JobSteps DEF BuildFile, IInv, TypeOK
<1>3. MarginLeads'
  BY <1>1, <1>2 DEF IInv, MarginLeads
<1> QED
  BY <1>0, <1>1, <1>3 DEF IInv, BuildFile, MeasuredSoFar, NotYetRunning, MoveKeepsPayload,
     UnreadPayloadIntact, WrittenOutputIntact, ReadsOriginalPayload

\* LoadSeg leaves the whole payload right after the trampoline.
LEMMA LoadSegIInv == IInv /\ LoadSeg => IInv'
<1> SUFFICES ASSUME IInv, LoadSeg PROVE IInv'
  OBVIOUS
<1>0. TypeOK' /\ IsJob(job)
  BY NextType DEF Next, IInv, TypeOK
<1>1. /\ Ops' = Ops /\ phase = "file" /\ phase' \in {"move", "depack"}
      /\ pc' = 1 /\ margin' = margin /\ job' = job /\ header' = header
      /\ PayloadOffset' = PayloadOffset
  BY DEF LoadSeg, Ops, packVars, IInv, NotYetRunning, PayloadOffset
<1>2. /\ job.payload \in Nat /\ Align4(job.payload) \in Nat
      /\ job.payload <= Align4(job.payload) /\ Align4(job.payload) % 4 = 0
      /\ TrampolineSize \in Nat /\ AllocatedSize \in Nat
      /\ TrampolineSize + Align4(job.payload) <= AllocatedSize
      /\ header.trampoline_size = TrampolineSize
      /\ left' = Align4(job.payload) \div 4
  BY <1>0, <1>1, LoadedLayout, JobSteps DEF LoadSeg, IInv
<1>3. \A at \in 0 .. job.payload - 1 : mem'[at + TrampolineSize] = Payload(at)
  <2> SUFFICES ASSUME NEW at \in 0 .. job.payload - 1
               PROVE  mem'[at + TrampolineSize] = Payload(at)
    OBVIOUS
  <2>1. /\ at + TrampolineSize \in 0 .. AllocatedSize - 1
        /\ at + TrampolineSize \in TrampolineSize .. TrampolineSize + job.payload - 1
        /\ (at + TrampolineSize) - TrampolineSize = at
    BY <1>2
  <2> QED
    BY <2>1 DEF LoadSeg
<1>4. \A at \in 0 .. job.payload - 1 : at < 4 * left'
  BY <1>2
<1>5. MoveKeepsPayload'
  BY <1>1, <1>2, <1>3, <1>4 DEF MoveKeepsPayload
<1>6. NotYetRunning'
  <2>1. \A a \in DOMAIN mem' : mem'[a].kind # "output"
    <3>1. \A a \in 0 .. AllocatedSize - 1 :
            a \in TrampolineSize .. TrampolineSize + job.payload - 1 => a - TrampolineSize \in Nat
      BY <1>2
    <3> QED
      BY <3>1, CellTypes DEF LoadSeg
  <2> QED
    BY <1>1, <2>1 DEF NotYetRunning
<1>7. UnreadPayloadIntact' /\ WrittenOutputIntact'
  <2> SUFFICES ASSUME phase' = "depack"
               PROVE  UnreadPayloadIntact' /\ WrittenOutputIntact'
    BY DEF UnreadPayloadIntact, WrittenOutputIntact
  <2>1. job.payload = 0
    BY <1>2 DEF LoadSeg
  <2>2. \A m \in 1 .. Len(Ops) : ~IsGet(Ops[m])
    BY <1>0, <2>1, JobSteps
  <2> QED
    BY <1>1, <2>2 DEF UnreadPayloadIntact, WrittenOutputIntact
<1> QED
  BY <1>0, <1>1, <1>5, <1>6, <1>7 DEF IInv, LoadSeg, MeasuredSoFar, MarginLeads,
     ReadsOriginalPayload

\* One longword of the move creates no output byte.
LEMMA MovedCells ==
  ASSUME IInv, OverlapMovePayload
  PROVE  \A a \in 0 .. AllocatedSize - 1 : mem'[a].kind # "output"
<1>1. TypeOK /\ phase = "move" /\ IsJob(job)
  BY DEF IInv, TypeOK, OverlapMovePayload
<1>2. /\ Align4(job.payload) \in Nat
      /\ TrampolineSize \in Nat /\ AllocatedSize \in Nat /\ PayloadOffset \in Nat
      /\ TrampolineSize + Align4(job.payload) <= AllocatedSize
      /\ header.trampoline_size = TrampolineSize
      /\ left \in Nat /\ left # 0 /\ 4 * left <= Align4(job.payload)
      /\ DOMAIN mem = 0 .. AllocatedSize - 1
  BY <1>1, LoadedLayout DEF TypeOK
<1> DEFINE source == TrampolineSize + 4 * (left - 1)
           dest   == PayloadOffset + 4 * (left - 1)
<1>3. mem' = [a \in 0 .. AllocatedSize - 1 |->
                IF a \in dest .. dest + 3 THEN mem[a - dest + source] ELSE mem[a]]
  BY <1>2 DEF OverlapMovePayload
<1>4. \A a \in 0 .. AllocatedSize - 1 : mem[a].kind # "output"
  BY <1>1, <1>2 DEF IInv, NotYetRunning
<1>5. \A a \in 0 .. AllocatedSize - 1 :
        a \in dest .. dest + 3 => a - dest + source \in 0 .. AllocatedSize - 1
  BY <1>2
<1> HIDE DEF source, dest
<1> QED
  BY <1>3, <1>4, <1>5

\* One longword of the move: its source has not been overwritten by the
\* longwords moved before it, because the payload only moves up.
LEMMA MoveIInv == IInv /\ OverlapMovePayload => IInv'
<1> SUFFICES ASSUME IInv, OverlapMovePayload PROVE IInv'
  OBVIOUS
<1>0. TypeOK' /\ IsJob(job)
  BY NextType DEF Next, IInv, TypeOK
<1>1. /\ Ops' = Ops /\ phase = "move" /\ phase' \in {"move", "depack"}
      /\ pc = 1 /\ pc' = 1 /\ margin' = margin /\ job' = job /\ header' = header
      /\ PayloadOffset' = PayloadOffset /\ left' = left - 1
      /\ phase' = "depack" => left' = 0
  BY DEF OverlapMovePayload, Ops, packVars, IInv, NotYetRunning, PayloadOffset
<1>2. /\ job.payload \in Nat /\ Align4(job.payload) \in Nat
      /\ job.payload <= Align4(job.payload)
      /\ TrampolineSize \in Nat /\ AllocatedSize \in Nat /\ PayloadOffset \in Nat
      /\ TrampolineSize <= PayloadOffset
      /\ TrampolineSize + Align4(job.payload) <= AllocatedSize
      /\ PayloadOffset + Align4(job.payload) <= AllocatedSize
      /\ header.trampoline_size = TrampolineSize
      /\ left \in Nat /\ left # 0 /\ 4 * left <= Align4(job.payload)
      /\ DOMAIN mem = 0 .. AllocatedSize - 1
  BY <1>0, <1>1, LoadedLayout, JobSteps DEF IInv, TypeOK
<1> DEFINE source == TrampolineSize + 4 * (left - 1)
           dest   == PayloadOffset + 4 * (left - 1)
<1>3. mem' = [a \in 0 .. AllocatedSize - 1 |->
                IF a \in dest .. dest + 3 THEN mem[a - dest + source] ELSE mem[a]]
  BY <1>2 DEF OverlapMovePayload
<1>4. \A at \in 0 .. job.payload - 1 :
        mem'[at + IF at < 4 * (left - 1) THEN TrampolineSize ELSE PayloadOffset] = Payload(at)
  <2> TAKE at \in 0 .. job.payload - 1
  <2>1. mem[at + IF at < 4 * left THEN TrampolineSize ELSE PayloadOffset] = Payload(at)
    BY <1>1, <1>2 DEF IInv, MoveKeepsPayload
  <2>2. CASE at < 4 * (left - 1)
    <3>1. at + TrampolineSize \in 0 .. AllocatedSize - 1 /\ at + TrampolineSize \notin dest .. dest + 3
      BY <1>2, <2>2
    <3>2. mem'[at + TrampolineSize] = mem[at + TrampolineSize]
      <4> HIDE DEF source, dest
      <4> QED BY <1>3, <3>1
    <3>3. at < 4 * left
      BY <1>2, <2>2
    <3> QED
      BY <2>1, <2>2, <3>2, <3>3
  <2>3. CASE ~(at < 4 * (left - 1)) /\ at < 4 * left
    <3>1. /\ at + PayloadOffset \in 0 .. AllocatedSize - 1
          /\ at + PayloadOffset \in dest .. dest + 3
          /\ (at + PayloadOffset) - dest + source = at + TrampolineSize
      BY <1>2, <2>3
    <3>2. mem'[at + PayloadOffset] = mem[at + TrampolineSize]
      <4> HIDE DEF source, dest
      <4> QED BY <1>3, <3>1
    <3> QED
      BY <2>1, <2>3, <3>2
  <2>4. CASE ~(at < 4 * left)
    <3>1. /\ at + PayloadOffset \in 0 .. AllocatedSize - 1
          /\ at + PayloadOffset \notin dest .. dest + 3
          /\ ~(at < 4 * (left - 1))
      BY <1>2, <2>4
    <3>2. mem'[at + PayloadOffset] = mem[at + PayloadOffset]
      <4> HIDE DEF source, dest
      <4> QED BY <1>3, <3>1
    <3> QED
      BY <2>1, <2>4, <3>1, <3>2
  <2> QED
    BY <2>2, <2>3, <2>4
<1>5. MoveKeepsPayload'
  BY <1>1, <1>2, <1>4 DEF MoveKeepsPayload
<1>6. NotYetRunning'
  <2>1. \A a \in DOMAIN mem' : mem'[a].kind # "output"
    BY <1>3, MovedCells
  <2> QED
    BY <1>1, <2>1 DEF NotYetRunning
<1>7. UnreadPayloadIntact'
  <2> SUFFICES ASSUME phase' = "depack", NEW m \in 1 .. Len(Ops), IsGet(Ops[m])
               PROVE  mem'[PayloadOffset + Ops[m].at] = Payload(Ops[m].at)
    BY <1>1 DEF UnreadPayloadIntact
  <2>1. Ops[m].at \in 0 .. job.payload - 1
    BY <1>0, JobSteps
  <2>2. left - 1 = 0
    BY <1>1
  <2>3. ~(Ops[m].at < 4 * (left - 1)) /\ PayloadOffset + Ops[m].at = Ops[m].at + PayloadOffset
    BY <1>2, <2>1, <2>2
  <2> QED
    BY <1>4, <2>1, <2>3
<1>8. WrittenOutputIntact'
  BY <1>1 DEF WrittenOutputIntact
<1> QED
  BY <1>0, <1>1, <1>5, <1>6, <1>7, <1>8 DEF IInv, OverlapMovePayload, packVars,
     MeasuredSoFar, MarginLeads, ReadsOriginalPayload

\* A read in place fetches the byte that was put there.
LEMMA DepackReadIInv == IInv /\ DepackRead => IInv'
<1> SUFFICES ASSUME IInv, DepackRead PROVE IInv'
  OBVIOUS
<1>0. TypeOK' /\ IsJob(job)
  BY NextType DEF Next, IInv, TypeOK
<1>1. /\ Ops' = Ops /\ phase = "depack" /\ phase' = phase /\ pc' = pc + 1
      /\ margin' = margin /\ job' = job /\ mem' = mem
      /\ PayloadOffset' = PayloadOffset
  BY DEF DepackRead, Ops, packVars, PayloadOffset
<1>2. /\ DOMAIN Ops = 1 .. Len(Ops) /\ Len(Ops) \in Nat /\ pc \in 1 .. Len(Ops)
      /\ IsGet(Ops[pc]) /\ ~IsPut(Ops[pc])
  BY <1>0, JobSteps DEF DepackRead
<1>3. ReadsOriginalPayload'
  <2>1. mem[PayloadOffset + Ops[pc].at] = Payload(Ops[pc].at)
    BY <1>1, <1>2 DEF IInv, UnreadPayloadIntact
  <2> QED
    BY <2>1 DEF DepackRead, IInv, ReadsOriginalPayload
<1>4. UnreadPayloadIntact'
  BY <1>1, <1>2 DEF IInv, UnreadPayloadIntact
<1>5. WrittenOutputIntact'
  <2>1. \A n \in 1 .. pc : n = pc \/ n \in 1 .. pc - 1
    BY <1>2
  <2> QED
    BY <1>1, <1>2, <2>1 DEF IInv, WrittenOutputIntact
<1> QED
  BY <1>0, <1>1, <1>3, <1>4, <1>5 DEF IInv, MeasuredSoFar, MarginLeads, NotYetRunning,
     MoveKeepsPayload

\* A write in place hits no payload byte still to be read: the margin leads.
LEMMA DepackWriteIInv == IInv /\ DepackWrite => IInv'
<1> SUFFICES ASSUME IInv, DepackWrite PROVE IInv'
  OBVIOUS
<1>0. TypeOK' /\ IsJob(job)
  BY NextType DEF Next, IInv, TypeOK
<1>1. /\ Ops' = Ops /\ phase = "depack" /\ phase' = phase /\ pc' = pc + 1
      /\ margin' = margin /\ job' = job /\ header' = header
      /\ PayloadOffset' = PayloadOffset /\ misread' = misread
  BY DEF DepackWrite, Ops, packVars, PayloadOffset
<1>2. /\ DOMAIN Ops = 1 .. Len(Ops) /\ Len(Ops) \in Nat /\ pc \in 1 .. Len(Ops)
      /\ \A n \in DOMAIN Ops : Ops[n].at \in Nat
      /\ IsPut(Ops[pc])
  BY <1>0, JobSteps DEF DepackWrite
<1>3. /\ margin \in Nat /\ PayloadOffset \in Nat /\ margin <= PayloadOffset
      /\ AllocatedSize \in Nat /\ DepackedSize(job.image) \in Nat
      /\ DepackedSize(job.image) <= AllocatedSize
      /\ DOMAIN mem = 0 .. AllocatedSize - 1
      /\ Ops[pc].at < DepackedSize(job.image)
  BY <1>0, <1>1, <1>2, LoadedLayout, JobSteps DEF IInv, TypeOK
<1>4. Ops[pc].at \in DOMAIN mem
  BY <1>2, <1>3
<1>5. mem' = [mem EXCEPT ![Ops[pc].at] = Output(Ops[pc].at)]
  BY DEF DepackWrite, IInv, ReadsOriginalPayload
<1>6. UnreadPayloadIntact'
  <2> SUFFICES ASSUME NEW m \in pc + 1 .. Len(Ops), IsGet(Ops[m])
               PROVE  mem'[PayloadOffset + Ops[m].at] = Payload(Ops[m].at)
    BY <1>1 DEF UnreadPayloadIntact
  <2>1. m \in DOMAIN Ops /\ pc < m /\ m \in pc .. Len(Ops)
    BY <1>2
  <2>2. Ops[pc].at < margin + Ops[m].at
    BY <1>1, <1>2, <2>1 DEF IInv, MarginLeads
  <2>3. PayloadOffset + Ops[m].at # Ops[pc].at
    BY <1>2, <1>3, <2>1, <2>2
  <2>4. mem[PayloadOffset + Ops[m].at] = Payload(Ops[m].at)
    BY <1>1, <2>1 DEF IInv, UnreadPayloadIntact
  <2> QED
    BY <1>5, <2>3, <2>4
<1>7. WrittenOutputIntact'
  <2>1. \A n \in 1 .. pc : n = pc \/ n \in 1 .. pc - 1
    BY <1>2
  <2> QED
    BY <1>1, <1>2, <1>4, <1>5, <2>1 DEF IInv, WrittenOutputIntact
<1> QED
  BY <1>0, <1>1, <1>6, <1>7 DEF IInv, MeasuredSoFar, MarginLeads, NotYetRunning,
     MoveKeepsPayload, ReadsOriginalPayload

LEMMA DepackReturnIInv == IInv /\ DepackReturn => IInv'
<1> SUFFICES ASSUME IInv, DepackReturn PROVE IInv'
  OBVIOUS
<1>0. TypeOK'
  BY NextType DEF Next, IInv
<1> QED
  BY <1>0 DEF DepackReturn, packVars, Ops, IInv, MeasuredSoFar, MarginLeads, NotYetRunning,
     MoveKeepsPayload, UnreadPayloadIntact, WrittenOutputIntact, ReadsOriginalPayload

LEMMA StutterIInv == IInv /\ UNCHANGED vars => IInv'
<1> SUFFICES ASSUME IInv, UNCHANGED vars PROVE IInv'
  OBVIOUS
<1>0. TypeOK'
  BY NextType DEF IInv
<1>1. Ops' = Ops /\ PayloadOffset' = PayloadOffset
  BY DEF vars, packVars, Ops, PayloadOffset
<1> QED
  BY <1>0, <1>1 DEF vars, packVars, IInv, MeasuredSoFar, MarginLeads, NotYetRunning,
     MoveKeepsPayload, UnreadPayloadIntact, WrittenOutputIntact, ReadsOriginalPayload

LEMMA NextIInv == IInv /\ [Next]_vars => IInv'
BY MeasureReadIInv, MeasureWriteIInv, BuildFileIInv, LoadSegIInv, MoveIInv,
   DepackReadIInv, DepackWriteIInv, DepackReturnIInv, StutterIInv DEF Next

-----------------------------------------------------------------------------
(* The theorems.                                                           *)

\* Every reachable state satisfies the inductive invariant.
LEMMA Invariance == ForwardJobs /\ Spec => []IInv
BY InitIInv, NextIInv, PTL DEF Spec

\* The measured margin is enough: while the output grows over the payload's
\* memory, Depack never fetches a payload byte that was overwritten.
THEOREM MarginSuffices == ForwardJobs /\ Spec => []ReadsOriginalPayload
<1>1. IInv => ReadsOriginalPayload
  BY DEF IInv
<1> QED
  BY <1>1, Invariance, PTL

\* The backward copy loses no payload byte although its regions overlap.
THEOREM MoveIsLossless == ForwardJobs /\ Spec => []MoveKeepsPayload
<1>1. IInv => MoveKeepsPayload
  BY DEF IInv
<1> QED
  BY <1>1, Invariance, PTL

\* The size the packer declares for hunk 0 covers every access, and the move
\* goes up and long-aligned, for any decoder.
THEOREM LayoutIsSafe == Spec => []AccessesStayInHunk
<1>1. TypeOK => AccessesStayInHunk
  BY LoadedLayout DEF AccessesStayInHunk
<1> QED
  BY <1>1, TypeCorrect, PTL

-----------------------------------------------------------------------------
(* The packer's and the runtime's sizes of hunk 0 agree, for any decoder.  *)

\* Each write measured so far, less the whole payload, is within the margin.
WritesCovered ==
  \A n \in DOMAIN Ops :
    (phase = "measure" => n < pc) /\ IsPut(Ops[n]) => Ops[n].at + 1 <= margin + job.payload

LEMMA WritesCoveredStep == TypeOK /\ WritesCovered /\ [Next]_vars => WritesCovered'
<1> SUFFICES ASSUME TypeOK, WritesCovered, [Next]_vars PROVE WritesCovered'
  OBVIOUS
<1>0. /\ IsJob(job) /\ margin \in Nat /\ maxConsumed \in -1 .. job.payload - 1
      /\ pc \in 1 .. Len(Ops) + 1
  BY DEF TypeOK
<1>1. CASE MeasureRead
  <2>1. \A n \in DOMAIN Ops : n < pc + 1 => n < pc \/ n = pc
    BY <1>0, JobSteps
  <2>2. ~IsPut(Ops[pc])
    BY <1>0, <1>1, JobSteps DEF MeasureRead
  <2> QED
    BY <1>1, <2>1, <2>2 DEF MeasureRead, WritesCovered, Ops
<1>2. CASE MeasureWrite
  <2>1. \A n \in DOMAIN Ops : n < pc + 1 => n < pc \/ n = pc
    BY <1>0, JobSteps
  <2>2. /\ margin' \in Nat /\ margin <= margin'
        /\ Ops[pc].at + 1 <= margin' + job.payload
        /\ job.payload \in Nat
    <3>1. Ops[pc].at \in Nat /\ job.payload \in Nat /\ maxConsumed \in Int
      BY <1>0, <1>2, JobSteps DEF MeasureWrite
    <3>2. /\ margin' \in Nat /\ margin <= margin'
          /\ (Ops[pc].at + 1) - (maxConsumed + 1) <= margin'
      BY <1>0, <1>2, <3>1 DEF MeasureWrite
    <3> QED
      BY <1>0, <3>1, <3>2, SMTT(30)
  <2>3. \A n \in DOMAIN Ops : n < pc + 1 /\ IsPut(Ops[n]) => Ops[n].at + 1 <= margin' + job.payload
    <3> TAKE n \in DOMAIN Ops
    <3> HAVE n < pc + 1 /\ IsPut(Ops[n])
    <3>1. Ops[n].at \in Nat
      BY <1>0, JobSteps
    <3>2. CASE n < pc
      <4>1. Ops[n].at + 1 <= margin + job.payload
        BY <1>2, <3>2 DEF WritesCovered, MeasureWrite
      <4> QED
        BY <1>0, <2>2, <3>1, <4>1, SMTT(30)
    <3> QED
      BY <2>1, <2>2, <3>2
  <2> QED
    BY <1>2, <2>3 DEF MeasureWrite, WritesCovered, Ops
<1>3. CASE BuildFile
  <2>1. \A n \in DOMAIN Ops : n < pc
    BY <1>0, <1>3, JobSteps DEF BuildFile
  <2> QED
    BY <1>3, <2>1 DEF BuildFile, WritesCovered, Ops
<1>4. CASE LoadSeg \/ OverlapMovePayload \/ DepackRead \/ DepackWrite \/ DepackReturn
  BY <1>4 DEF LoadSeg, OverlapMovePayload, DepackRead, DepackWrite, DepackReturn,
     packVars, WritesCovered, Ops
<1>5. CASE UNCHANGED vars
  BY <1>5 DEF vars, packVars, WritesCovered, Ops
<1> QED
  BY <1>1, <1>2, <1>3, <1>4, <1>5 DEF Next

\* A margin that leaves room for the last write makes up for the 0 the header
\* stores when there are no relocation sites.
LEMMA CoveredSizesAgree ==
  ASSUME NEW image \in Images, NEW payload \in Nat, NEW m \in Nat,
         DepackedSize(image) <= m + payload
  PROVE  RuntimeAllocatedSize(Header(image, payload, m))
           = OverlapAllocatedSize(TrampolineSize, payload, m, Hunk0Size(image))
<1>1. /\ image.code \in Nat /\ image.bss \in Nat /\ image.stream \in Nat /\ image.stream # 0
      /\ TrampolineSize \in Nat
  BY LayoutAssumption DEF LayoutAssumption, Images
<1> DEFINE stored == IF image.stream > 1 THEN image.stream ELSE 0
<1>2. RuntimeAllocatedSize(Header(image, payload, m)) =
        Align4(Larger(Larger(Align4(image.code + Larger(image.bss, stored)),
                             TrampolineSize + Align4(payload)),
                      m + Align4(payload)))
  BY DEF RuntimeAllocatedSize, Header, HasRelocs
<1>3. OverlapAllocatedSize(TrampolineSize, payload, m, Hunk0Size(image)) =
        Align4(Larger(TrampolineSize + Align4(payload),
                      Larger(Larger(Align4(image.code + Larger(image.bss, image.stream)),
                                    Align4(TrampolineSize)),
                             m + Align4(payload))))
  BY DEF OverlapAllocatedSize, Hunk0Size, ResidentTailSize
<1>4. CASE stored = image.stream
  BY <1>1, <1>2, <1>3, <1>4 DEF Align4, Larger
<1>5. CASE image.stream = 1 /\ stored = 0 /\ image.bss # 0
  BY <1>1, <1>2, <1>3, <1>5 DEF Align4, Larger
<1>6. CASE image.stream = 1 /\ stored = 0 /\ image.bss = 0
  <2> DEFINE low   == Align4(image.code)
             high  == Align4(image.code + 1)
             front == TrampolineSize + Align4(payload)
             back  == m + Align4(payload)
             entry == Align4(TrampolineSize)
  <2>1. image.code + 1 <= m + payload
    BY <1>6 DEF DepackedSize
  <2>2. /\ front \in Nat /\ back \in Nat /\ image.code + 1 \in Nat
        /\ image.code + 1 <= back /\ TrampolineSize <= front
    <3>1. Align4(payload) \in Nat /\ payload <= Align4(payload)
      BY Align4Rounds
    <3> QED
      BY <1>1, <2>1, <3>1
  <2>3. /\ low \in Nat /\ high \in Nat /\ entry \in Nat
        /\ Align4(low) = low /\ Align4(high) = high /\ Align4(entry) = entry
    BY <1>1, <2>2, Align4Rounds, Align4Fixed
  <2>4. low <= Align4(back) /\ high <= Align4(back) /\ entry <= Align4(front)
        /\ Align4(back) \in Nat /\ Align4(front) \in Nat
    <3>1. image.code \in Nat /\ image.code <= back
      BY <1>1, <2>2
    <3> QED
      BY <1>1, <2>2, <3>1, Align4Monotonic, Align4Rounds
  <2>5. Larger(image.bss, stored) = 0 /\ Larger(image.bss, image.stream) = 1
    BY <1>6 DEF Larger
  <2>6. image.code + Larger(image.bss, stored) = image.code
    BY <1>1, <2>5
  <2> HIDE DEF low, high, front, back, entry, stored
  <2>7. Align4(Larger(Larger(low, front), back)) = Larger(Align4(front), Align4(back))
    <3>1. Align4(Larger(Larger(low, front), back)) = Larger(Align4(Larger(low, front)), Align4(back))
      BY <2>2, <2>3, Align4OfLarger, LargerIsNat
    <3>2. Align4(Larger(low, front)) = Larger(low, Align4(front))
      BY <2>2, <2>3, Align4OfLarger
    <3> QED
      BY <2>3, <2>4, <3>1, <3>2 DEF Larger
  <2>8. Align4(Larger(front, Larger(Larger(high, entry), back))) = Larger(Align4(front), Align4(back))
    <3>1. Larger(high, entry) \in Nat /\ Align4(Larger(high, entry)) = Larger(high, entry)
      BY <2>3, Align4OfLarger, LargerIsNat
    <3>2. Align4(Larger(Larger(high, entry), back)) = Larger(Larger(high, entry), Align4(back))
      BY <2>2, <3>1, Align4OfLarger
    <3>3. Align4(Larger(front, Larger(Larger(high, entry), back))) =
            Larger(Align4(front), Larger(Larger(high, entry), Align4(back)))
      BY <2>2, <3>1, <3>2, Align4OfLarger, LargerIsNat
    <3> QED
      BY <2>3, <2>4, <3>3 DEF Larger
  <2> QED
    BY <1>2, <1>3, <2>5, <2>6, <2>7, <2>8 DEF low, high, front, back, entry
<1> QED
  BY <1>1, <1>4, <1>5, <1>6

\* runtime.i's recomputation of hunk 0's size never drifts from the packer's.
THEOREM SizesNeverDrift == Spec => []SizesAgree
<1>1. Init => WritesCovered
  BY InitType, JobSteps DEF Init, WritesCovered, TypeOK
<1>2. TypeOK /\ WritesCovered => SizesAgree
  <2> SUFFICES ASSUME TypeOK, WritesCovered, phase # "measure"
               PROVE  RuntimeAllocatedSize(header) = AllocatedSize
    BY DEF SizesAgree
  <2>1. /\ IsJob(job) /\ margin \in Nat
        /\ header = Header(job.image, job.payload, margin)
    BY DEF TypeOK
  <2>2. /\ job.image \in Images /\ job.payload \in Nat /\ DepackedSize(job.image) \in Nat
    BY <2>1, JobSteps
  <2>3. DepackedSize(job.image) <= margin + job.payload
    <3>1. CASE DepackedSize(job.image) = 0
      BY <2>1, <2>2, <3>1
    <3>2. CASE DepackedSize(job.image) # 0
      <4>1. DepackedSize(job.image) - 1 \in 0 .. DepackedSize(job.image) - 1
        BY <2>2, <3>2
      <4>2. PICK n \in DOMAIN Ops : Ops[n] = Put(DepackedSize(job.image) - 1)
        BY <2>1, <4>1 DEF IsJob, Ops
      <4>3. IsPut(Ops[n]) /\ Ops[n].at = DepackedSize(job.image) - 1
        BY <4>2 DEF IsPut, Put
      <4>4. Ops[n].at + 1 <= margin + job.payload
        BY <4>3 DEF WritesCovered
      <4> QED
        BY <2>1, <2>2, <4>3, <4>4
    <3> QED
      BY <3>1, <3>2
  <2> QED
    BY <2>1, <2>2, <2>3, CoveredSizesAgree DEF AllocatedSize
<1> QED
  BY <1>1, <1>2, InitType, NextType, WritesCoveredStep, PTL DEF Spec

-----------------------------------------------------------------------------
(* Refinement: running in place, Depack keeps runtime.i's contract.        *)

Produced == {at \in 0 .. DepackedSize(job.image) - 1 :
               phase \in {"depack", "done"} /\ mem[at] = Output(at)}

LEMMA ContractInit == Init => Contract!Init
<1> SUFFICES ASSUME Init PROVE Contract!Init
  OBVIOUS
<1>1. DepackedSize(job.image) \in Nat
  BY InitType, JobSteps DEF TypeOK
<1> QED
  BY <1>1 DEF Init, Contract!Init

\* Once the move is over no output byte exists yet, so the run in place
\* starts from nothing produced.
LEMMA NothingProducedYet ==
  ASSUME IInv, LoadSeg \/ OverlapMovePayload, phase' = "depack"
  PROVE  \A a \in 0 .. DepackedSize(job.image) - 1 : mem'[a] # Output(a)
<1>1. TypeOK /\ TypeOK' /\ phase \in {"file", "move"} /\ IsJob(job)
  BY NextType DEF Next, IInv, TypeOK, LoadSeg, OverlapMovePayload
<1>2. /\ AllocatedSize \in Nat /\ DepackedSize(job.image) <= AllocatedSize
      /\ DepackedSize(job.image) \in Nat /\ job.payload \in Nat
      /\ TrampolineSize \in Nat
  BY <1>1, LoadedLayout, JobSteps
<1>3. \A a \in 0 .. AllocatedSize - 1 : mem'[a].kind # "output"
  <2>1. CASE LoadSeg
    <3>1. \A a \in 0 .. AllocatedSize - 1 :
            a \in TrampolineSize .. TrampolineSize + job.payload - 1 => a - TrampolineSize \in Nat
      BY <1>2
    <3> QED
      BY <2>1, <3>1, CellTypes DEF LoadSeg
  <2>2. CASE OverlapMovePayload
    BY <2>2, MovedCells, <1>1
  <2> QED
    BY <2>1, <2>2
<1> QED
  BY <1>2, <1>3 DEF Output, Cell

\* Every step of the packer and the runtime produces one byte, returns, or
\* changes nothing the contract speaks of.
LEMMA ContractStep == IInv /\ [Next]_vars => [Contract!Next]_(Contract!contractVars)
<1> SUFFICES ASSUME IInv, [Next]_vars PROVE [Contract!Next]_(Contract!contractVars)
  OBVIOUS
<1>0. TypeOK /\ TypeOK' /\ IsJob(job)
  BY NextType DEF IInv, TypeOK
<1>1. CASE MeasureRead \/ MeasureWrite \/ BuildFile
  <2>1. /\ job' = job /\ phase = "measure" /\ phase' \in {"measure", "file"}
    BY <1>1 DEF MeasureRead, MeasureWrite, BuildFile
  <2>2. Produced' = {} /\ Produced = {} /\ (phase' = "done") = (phase = "done")
    BY <2>1 DEF Produced
  <2> QED
    BY <2>1, <2>2 DEF Contract!contractVars, Produced
<1>2. CASE LoadSeg \/ OverlapMovePayload
  <2>1. /\ job' = job /\ phase \in {"file", "move"} /\ phase' \in {"move", "depack"}
    BY <1>2 DEF LoadSeg, OverlapMovePayload
  <2>2. Produced = {} /\ (phase' = "done") = (phase = "done")
    BY <2>1 DEF Produced
  <2>3. Produced' = {}
    BY <1>2, <2>1, NothingProducedYet DEF Produced
  <2> QED
    BY <2>1, <2>2, <2>3 DEF Contract!contractVars, Produced
<1>3. CASE DepackRead
  BY <1>3 DEF DepackRead, Contract!contractVars
<1>4. CASE DepackWrite
  <2> DEFINE at == Ops[pc].at
  <2>1. /\ job' = job /\ phase = "depack" /\ phase' = phase
        /\ at \in 0 .. DepackedSize(job.image) - 1
        /\ mem' = [mem EXCEPT ![at] = Output(at)]
    BY <1>0, <1>4, JobSteps DEF DepackWrite, packVars, IInv, ReadsOriginalPayload
  <2>2. at \in DOMAIN mem
    <3>1. /\ DepackedSize(job.image) \in Nat /\ AllocatedSize \in Nat
          /\ DepackedSize(job.image) <= AllocatedSize
          /\ DOMAIN mem = 0 .. AllocatedSize - 1
      BY <1>0, <2>1, LoadedLayout, JobSteps DEF TypeOK
    <3> QED
      BY <2>1, <3>1
  <2>3. Produced' = Produced \cup {at}
    <3> HIDE DEF at
    <3> QED BY <2>1, <2>2 DEF Produced
  <2>4. Contract!Produce
    <3> HIDE DEF at
    <3> QED BY <2>1, <2>3 DEF Contract!Produce, Produced
  <2> QED
    BY <2>4 DEF Contract!Next
<1>5. CASE DepackReturn
  <2>1. job' = job /\ mem' = mem /\ phase = "depack" /\ phase' = "done"
    BY <1>5 DEF DepackReturn
  <2>2. DOMAIN Ops = 1 .. Len(Ops) /\ pc = Len(Ops) + 1
    BY <1>0, <1>5, JobSteps DEF DepackReturn, TypeOK
  <2>3. \A a \in 0 .. DepackedSize(job.image) - 1 : mem[a] = Output(a)
    <3> TAKE a \in 0 .. DepackedSize(job.image) - 1
    <3>1. PICK n \in DOMAIN Ops : Ops[n] = Put(a)
      BY <1>0 DEF IsJob, Ops
    <3>2. IsPut(Ops[n]) /\ Ops[n].at = a
      BY <3>1 DEF IsPut, Put
    <3> QED
      BY <1>0, <2>1, <2>2, <3>2, JobSteps DEF IInv, WrittenOutputIntact
  <2>4. Produced = 0 .. DepackedSize(job.image) - 1 /\ Produced' = Produced
    BY <2>1, <2>3 DEF Produced
  <2>5. Contract!Return
    BY <2>1, <2>4 DEF Contract!Return, Produced
  <2> QED
    BY <2>5 DEF Contract!Next
<1>6. CASE UNCHANGED vars
  BY <1>6 DEF vars, Contract!contractVars
<1> QED
  BY <1>1, <1>2, <1>3, <1>4, <1>5, <1>6 DEF Next

\* Overlap-in-place decompression implements the backend contract: every
\* output byte appears, none is lost again, Depack returns with all of them.
THEOREM InPlaceKeepsContract == ForwardJobs /\ Spec => KeepsContract
BY ContractInit, ContractStep, Invariance, PTL DEF Spec, KeepsContract, Contract!Spec
=============================================================================
