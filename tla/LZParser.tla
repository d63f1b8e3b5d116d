------------------------------ MODULE LZParser ------------------------------
(***************************************************************************)
(* How Shrinkler chooses what to spell as references                       *)
(* (shrinkler_vendor/LZParser.h, and packData() of Pack.h around it).      *)
(* Every edge is a reference at the end of a chain of references; edges    *)
(* live in cells that are counted, freed and used again, are held by the   *)
(* position they lead to and then by their offset, and when there are too  *)
(* many the worst is given up.  What a symbol costs is read off a table,   *)
(* as the encoder reads it off the counts of the parse before.             *)
(***************************************************************************)
EXTENDS Integers, Sequences, SequencesExt, Matches, TLC

-----------------------------------------------------------------------------
(* Heap.h, the priority queue of edges: an array in which no element is    *)
(* smaller than its two children, and the place of every edge in it, kept  *)
(* in the edge.  A heap is a record of the array and of the places,        *)
(* counted from 1; size maps edges to what they are compared by.           *)

EmptyHeap == [elements |-> <<>>, index |-> <<>>]

\* swap()
Exchanged(h, i, j) ==
  [elements |-> [h.elements EXCEPT ![i] = h.elements[j], ![j] = h.elements[i]],
   index    |-> [h.index EXCEPT ![h.elements[i]] = j, ![h.elements[j]] = i]]

\* Repeats a step until it no longer changes anything; no path in a heap is
\* longer than the heap.
Repeated(Step(_), h, i) ==
  FoldLeft(LAMBDA at, k : Step(at), [heap |-> h, i |-> i], h.elements).heap

Up(h, i, size) ==
  LET Step(at) ==
        LET parent == at.i \div 2
        IN  IF at.i > 1 /\ size[at.heap.elements[parent]] < size[at.heap.elements[at.i]]
            THEN [heap |-> Exchanged(at.heap, at.i, parent), i |-> parent]
            ELSE at
  IN  Repeated(Step, h, i)

\* The larger child of i, the first of two equal ones.
Child(h, i, size) ==
  IF 2 * i + 1 <= Len(h.elements) /\ size[h.elements[2 * i]] < size[h.elements[2 * i + 1]]
  THEN 2 * i + 1 ELSE 2 * i

Down(h, i, size) ==
  LET Step(at) ==
        LET child == Child(at.heap, at.i, size)
        IN  IF /\ 2 * at.i <= Len(at.heap.elements)
               /\ size[at.heap.elements[at.i]] < size[at.heap.elements[child]]
            THEN [heap |-> Exchanged(at.heap, at.i, child), i |-> child]
            ELSE at
  IN  Repeated(Step, h, i)

\* remove_index(): the last element takes the place that became free.
RemoveIndex(h, i, size) ==
  LET last == h.elements[Len(h.elements)]
  IN  Down([elements |-> Front([h.elements EXCEPT ![i] = last]),
            index    |-> [h.index EXCEPT ![last] = i]], i, size)

IsRoot(h, edge) == h.index[edge] <= Len(h.elements) /\ h.elements[h.index[edge]] = edge

InsertRoot(h, edge, size) ==
  LET added == [elements |-> Append(h.elements, edge),
                index    |-> [h.index EXCEPT ![edge] = Len(h.elements) + 1]]
  IN  Up(added, Len(added.elements), size)

RemoveRoot(h, edge, size) ==
  IF IsRoot(h, edge) THEN RemoveIndex(h, h.index[edge], size) ELSE h

Largest(h) == h.elements[1]
RemoveLargest(h, size) == RemoveIndex(h, 1, size)

-----------------------------------------------------------------------------
(* The parser.                                                             *)

CONSTANTS
  DataLength,      \* of the text
  edge_capacity,   \* 100000
  length_margin,   \* 3
  skip_length,     \* 3000
  iterations,      \* 3
  SizeTables,      \* what the parts of a symbol may cost
  RealSizes        \* what a parse may come to when it is really encoded

ParserAssumption ==
  /\ DataLength \in Nat \ {0} /\ edge_capacity \in Nat /\ length_margin \in Nat
  /\ skip_length \in Nat /\ iterations \in Nat \ {0}
  /\ \A t \in SizeTables : t \in [lit : Nat, kind : Nat, rep : Nat, bit : Nat]
  /\ RealSizes \subseteq Nat

VARIABLES
  pc,
  data,
  p,         \* the parser: cells, edge_count, tables, best and its heap
  at,        \* pos, and what is left to do there
  sizes,     \* the table the encoder measures by
  pack       \* packData()'s results

vars == <<pc, data, p, at, sizes, pack>>

NULL == 0
OFFSETS == 0    \* best_for_offset, beside edges_to_pos in p.tables

-----------------------------------------------------------------------------
(* What the encoder measures (LZEncoder.h:120-168, Coder.h:84-112).        *)

DataBits(number) == CHOOSE n \in 1..number : 2^n <= number /\ number < 2^(n + 1)
NumberSize(number) == 2 * DataBits(number) * sizes.bit

\* literal_size[pos]: all literals before it.
LiteralSize(pos) == pos * sizes.lit + (IF pos > 0 THEN (pos - 1) * sizes.kind ELSE 0)

ReferenceSize(prev_was_ref, last_offset, offset, length) ==
  sizes.kind + (IF prev_was_ref THEN 0 ELSE sizes.rep)
  + (IF offset = last_offset THEN 0 ELSE NumberSize(offset + 2)) + NumberSize(length)

-----------------------------------------------------------------------------
(* RefEdge and RefEdgeFactory                                              *)

Target(edge) == p.cells[edge].pos + p.cells[edge].length
TargetIn(q, edge) == q.cells[edge].pos + q.cells[edge].length
TotalSizes(q) == [e \in DOMAIN q.cells |-> q.cells[e].total_size]

EmptyParser == [cells |-> <<>>, buffer |-> <<>>, edge_count |-> 0, heap |-> EmptyHeap,
                tables |-> [pos \in 0..DataLength |-> <<>>], best |-> NULL, initial |-> NULL,
                asserted |-> TRUE]

\* create(): a cell that was destroyed, the last first, or a new one.
Cell(q) == IF q.buffer = <<>> THEN Len(q.cells) + 1 ELSE Head(q.buffer)
Create(q, new) ==
  LET edge  == Cell(q)
      cells == IF q.buffer = <<>> THEN Append(q.cells, new) ELSE [q.cells EXCEPT ![edge] = new]
  IN  [q EXCEPT
        !.cells = IF new.source = NULL THEN cells ELSE [cells EXCEPT ![new.source].refcount = @ + 1],
        !.buffer = IF @ = <<>> THEN @ ELSE Tail(@),
        !.heap.index = IF q.buffer = <<>> THEN Append(@, 1) ELSE [@ EXCEPT ![edge] = 1],
        !.edge_count = @ + 1]

\* What a destroyed edge held is gone.
NoEdge == [pos |-> 0, offset |-> 0, length |-> 0, total_size |-> 0, refcount |-> 0, source |-> NULL]
Destroy(q, edge) ==
  [q EXCEPT !.cells[edge] = NoEdge, !.buffer = <<edge>> \o @, !.edge_count = @ - 1]
Full(q) == q.edge_count >= edge_capacity

\* releaseEdge(): what an edge that is let go of was the last to hold is let
\* go of, too.
Release(q, edge) ==
  LET Step(s) ==
        IF s.edge = NULL THEN s
        ELSE LET left == s.q.cells[s.edge].refcount - 1
                 less == [s.q EXCEPT !.cells[s.edge].refcount = left]
             IN  IF left # 0 THEN [q |-> less, edge |-> NULL]
                 ELSE [q    |-> Destroy([less EXCEPT !.asserted = @ /\ ~IsRoot(less.heap, s.edge)],
                                        s.edge),
                       edge |-> s.q.cells[s.edge].source]
  IN  FoldLeft(LAMBDA s, k : Step(s), [q |-> q, edge |-> edge], q.cells).q

ReleaseAll(q, edges) == FoldLeft(Release, q, SetToSeq(edges))

-----------------------------------------------------------------------------
(* LZParser's tables                                                       *)

Held(q, table) == {q.tables[table][o] : o \in DOMAIN q.tables[table]}
AddRoot(q, edge) == [q EXCEPT !.heap = InsertRoot(@, edge, TotalSizes(q))]
DropRoot(q, edge) == [q EXCEPT !.heap = RemoveRoot(@, edge, TotalSizes(q))]

\* Faulty: an edge that is replaced by a better one is not let go of.
PutByOffsetKeeps(q, table, edge) ==
  LET offset == q.cells[edge].offset
      Put(r) == AddRoot([r EXCEPT !.tables[table] = (offset :> edge) @@ @], edge)
  IN  IF offset \notin DOMAIN q.tables[table] THEN Put(q)
      ELSE LET old == q.tables[table][offset]
           IN  IF q.cells[edge].total_size < q.cells[old].total_size
               THEN Put(DropRoot(q, old)) ELSE Release(q, edge)

\* put_by_offset(): of two edges with one offset the better is kept.
PutByOffset(q, table, edge) ==
  LET offset == q.cells[edge].offset
      sure   == [q EXCEPT !.asserted = @ /\ ~IsRoot(q.heap, edge)]
      Put(r) == AddRoot([r EXCEPT !.tables[table] = (offset :> edge) @@ @], edge)
  IN  IF offset \notin DOMAIN q.tables[table] THEN Put(sure)
      ELSE LET old == q.tables[table][offset]
           IN  IF q.cells[edge].total_size < q.cells[old].total_size
               THEN Put(Release(DropRoot(sure, old), old))
               ELSE Release(sure, edge)

\* Faulty: the best edge, or the one being extended, may be given up.
CleanWorstAny(q, pos, exclude) ==
  LET worst == Largest(q.heap)
      rest  == [q EXCEPT !.heap = RemoveLargest(@, TotalSizes(q))]
      table == IF TargetIn(q, worst) > pos THEN TargetIn(q, worst) ELSE OFFSETS
      held  == q.tables[table]
      gone  == q.cells[worst].offset
  IN  IF Cardinality(DOMAIN held) > 1 /\ gone \in DOMAIN held
      THEN Release([rest EXCEPT !.tables[table] = [o \in DOMAIN held \ {gone} |-> held[o]]], worst)
      ELSE rest

\* clean_worst_edge(): the worst leaves the heap, and its table unless it is
\* needed or the only one there.
CleanWorst(q, pos, exclude) ==
  LET worst == Largest(q.heap)
      rest  == [q EXCEPT !.heap = RemoveLargest(@, TotalSizes(q))]
      table == IF TargetIn(q, worst) > pos THEN TargetIn(q, worst) ELSE OFFSETS
      held  == q.tables[table]
      gone  == q.cells[worst].offset
  IN  IF worst \in {q.best, exclude} THEN rest
      ELSE IF Cardinality(DOMAIN held) > 1 /\ gone \in DOMAIN held
      THEN Release([rest EXCEPT !.tables[table] = [o \in DOMAIN held \ {gone} |-> held[o]]], worst)
      ELSE rest

-----------------------------------------------------------------------------
(* parse()                                                                 *)

NoWork == [pos |-> 0, todo |-> {}, calls |-> <<>>, longest |-> 0, new |-> <<>>,
           parse |-> <<>>]   \* its result

\* Free cells are all alike: they are counted anew.
StartParse ==
  /\ pc = "parse"
  /\ \E table \in SizeTables : sizes' = table
  /\ pc' = "initial"
  /\ p' = [EmptyParser EXCEPT !.asserted = p.asserted /\ p.edge_count = 0,
                              !.tables = [p.tables EXCEPT ![OFFSETS] = <<>>]]
  /\ at' = [NoWork EXCEPT !.pos = 1]
  /\ UNCHANGED <<data, pack>>

\* The edge of no reference: every byte a literal.
InitialBest ==
  /\ pc = "initial"
  /\ LET none == [pos |-> 0, offset |-> 0, length |-> 0, total_size |-> LiteralSize(DataLength),
                  refcount |-> 1, source |-> NULL]
     IN  p' = [Create(p, none) EXCEPT !.best = Cell(p), !.initial = Cell(p)]
  /\ pc' = "assimilate"
  /\ at' = [at EXCEPT !.todo = Held(p, 1)]
  /\ UNCHANGED <<data, sizes, pack>>

\* An edge that ends here, in the order of the hash table.
Assimilate ==
  /\ pc = "assimilate"
  /\ \E edge \in at.todo :
       /\ p' = PutByOffset(
                 DropRoot([p EXCEPT !.best = IF p.cells[edge].total_size < p.cells[@].total_size
                                             THEN edge ELSE @], edge),
                 OFFSETS, edge)
       /\ at' = [at EXCEPT !.todo = @ \ {edge}]
  /\ UNCHANGED <<pc, data, sizes, pack>>

\* The lengths tried of a match.
Lengths(match) ==
  LET length == IF match.length > DataLength - at.pos THEN DataLength - at.pos ELSE match.length
      least  == Max({2, length - length_margin})
  IN  [k \in 1..Max({0, length - least + 1}) |->
        [offset |-> at.pos - match.pos, length |-> least + k - 1]]

\* The finder may miss matches, or report one that is not the closest.
BeginMatching ==
  /\ pc = "assimilate" /\ at.todo = {}
  /\ \E found \in SUBSET MatchesAt(data, DataLength, at.pos, 2) :
       LET matches == [k \in 1..Cardinality(found) |->
                         CHOOSE m \in found : Cardinality({n \in found : InOrder(n, m)}) = k - 1]
       IN  at' = [at EXCEPT !.calls = FlattenSeq([k \in DOMAIN matches |-> Lengths(matches[k])]),
                            !.longest = Max({0} \cup {m.length : m \in found})]
  /\ p' = [p EXCEPT !.tables[at.pos] = <<>>]
  /\ pc' = "match"
  /\ UNCHANGED <<data, sizes, pack>>

\* newEdge(), up to the loop that makes room.
Begin(source, call, next) ==
  IF call.offset = p.cells[source].offset /\ at.pos = Target(source)
  THEN pc' = next /\ UNCHANGED at
  ELSE /\ pc' = "new"
       /\ at' = [at EXCEPT !.new = <<source, call, next>>]

\* From the best parse so far...
FromBest ==
  /\ pc = "match" /\ at.calls # <<>>
  /\ Begin(p.best, Head(at.calls), "offset")
  /\ UNCHANGED <<data, p, sizes, pack>>

\* ...and from the best with this offset, which the reference can repeat.
FromOffset ==
  /\ pc = "offset"
  /\ LET call == Head(at.calls)
     IN  IF p.cells[p.best].offset # call.offset /\ call.offset \in DOMAIN p.tables[OFFSETS]
         THEN LET source == p.tables[OFFSETS][call.offset]
              IN  /\ p' = [p EXCEPT !.asserted = @ /\ Target(source) <= at.pos]
                  /\ Begin(source, call, "next")
         ELSE pc' = "next" /\ UNCHANGED <<p, at>>
  /\ UNCHANGED <<data, sizes, pack>>

NextCall ==
  /\ pc = "next"
  /\ pc' = "match"
  /\ at' = [at EXCEPT !.calls = Tail(@)]
  /\ UNCHANGED <<data, p, sizes, pack>>

MakeRoom ==
  /\ pc = "new" /\ Full(p) /\ p.heap.elements # <<>>
  /\ p' = CleanWorst(p, at.pos, at.new[1])
  /\ UNCHANGED <<pc, data, at, sizes, pack>>

\* Faulty: the literals since the last reference are not counted.
NewEdgeAtTarget ==
  /\ pc = "new" /\ (Full(p) => p.heap.elements = <<>>)
  /\ LET source == at.new[1]
         call   == at.new[2]
         edge   == p.cells[source]
         before == edge.total_size - (LiteralSize(DataLength) - LiteralSize(Target(source)))
         after  == LiteralSize(DataLength) - LiteralSize(at.pos + call.length)
         own    == ReferenceSize(at.pos = Target(source), edge.offset, call.offset, call.length)
         new    == [pos |-> at.pos, offset |-> call.offset, length |-> call.length,
                    total_size |-> before + own + after, refcount |-> 1, source |-> source]
     IN  p' = PutByOffset(Create(p, new), at.pos + call.length, Cell(p))
  /\ pc' = at.new[3]
  /\ at' = [at EXCEPT !.new = <<>>]
  /\ UNCHANGED <<data, sizes, pack>>

NewEdge ==
  /\ pc = "new" /\ (Full(p) => p.heap.elements = <<>>)
  /\ LET source == at.new[1]
         call   == at.new[2]
         edge   == p.cells[source]
         before == edge.total_size - (LiteralSize(DataLength) - LiteralSize(at.pos))
         after  == LiteralSize(DataLength) - LiteralSize(at.pos + call.length)
         own    == ReferenceSize(at.pos = Target(source), edge.offset, call.offset, call.length)
         new    == [pos |-> at.pos, offset |-> call.offset, length |-> call.length,
                    total_size |-> before + own + after, refcount |-> 1, source |-> source]
     IN  p' = PutByOffset(Create(p, new), at.pos + call.length, Cell(p))
  /\ pc' = at.new[3]
  /\ at' = [at EXCEPT !.new = <<>>]
  /\ UNCHANGED <<data, sizes, pack>>

Skips == at.longest >= skip_length /\ p.tables[at.pos + at.longest] # <<>>

Continue(q, pos) ==
  IF pos < DataLength
  THEN /\ pc' = "assimilate"
       /\ at' = [NoWork EXCEPT !.pos = pos + 1, !.todo = Held(q, pos + 1)]
  ELSE pc' = "finish" /\ at' = NoWork

NextPos ==
  /\ pc = "match" /\ at.calls = <<>> /\ ~Skips
  /\ Continue(p, at.pos)
  /\ UNCHANGED <<data, p, sizes, pack>>

\* A very long match is taken: every chain that does not use it is dropped.
SkipAhead ==
  /\ pc = "match" /\ at.calls = <<>> /\ Skips
  /\ LET last    == at.pos + at.longest - 1
         dropped == {OFFSETS} \cup (at.pos + 1)..last
         q       == ReleaseAll([p EXCEPT !.heap.elements = <<>>],
                               UNION {Held(p, table) : table \in dropped})
     IN  /\ p' = [q EXCEPT !.tables = [t \in 0..DataLength |-> IF t \in dropped THEN <<>> ELSE @[t]],
                           !.best = p.initial]
         /\ Continue(p, last)
  /\ UNCHANGED <<data, sizes, pack>>

\* The chain that ends in an edge, its first reference first.
Chain(q, edge) ==
  LET Step(s) == IF q.cells[s.edge].length = 0 THEN s
                 ELSE [edge |-> q.cells[s.edge].source, refs |-> <<s.edge>> \o s.refs]
      refs == FoldLeft(LAMBDA s, k : Step(s), [edge |-> edge, refs |-> <<>>], q.cells).refs
  IN  [k \in DOMAIN refs |-> [pos |-> q.cells[refs[k]].pos, offset |-> q.cells[refs[k]].offset,
                              length |-> q.cells[refs[k]].length]]

\* Faulty: the result of the best iteration is overwritten.
EncodeOverBest(real_size) ==
  LET better == real_size < pack.best_size
  IN  [pack EXCEPT !.results[pack.best_result] = real_size,
                   !.best_size = IF better THEN real_size ELSE @,
                   !.done = Append(@, real_size)]

\* packData(): the result of an iteration, told by its size, and, if it is
\* smaller, the best.
Encode(real_size) ==
  LET place  == 1 - pack.best_result
      better == real_size < pack.best_size
  IN  [pack EXCEPT !.results[place] = real_size,
                   !.best_result = IF better THEN place ELSE @,
                   !.best_size = IF better THEN real_size ELSE @,
                   !.done = Append(@, real_size)]

\* The chains not chosen are released, then the chosen one.
FinishParse ==
  /\ pc = "finish"
  /\ LET unused == Held(p, OFFSETS) \ {p.best}
         q      == ReleaseAll([p EXCEPT !.heap.elements = <<>>], unused)
     IN  /\ p' = Release(Release(q, p.initial), p.best)
         /\ at' = [NoWork EXCEPT !.parse = [refs       |-> Chain(q, p.best),
                                            total_size |-> p.cells[p.best].total_size]]
  /\ \E real_size \in RealSizes : pack' = Encode(real_size)
  /\ pc' = "parsed"
  /\ UNCHANGED <<data, sizes>>

NextIteration ==
  /\ pc = "parsed" /\ Len(pack.done) < iterations
  /\ pc' = "parse"
  /\ at' = NoWork
  /\ UNCHANGED <<data, p, sizes, pack>>

\* What is encoded in the end.
Encoded == pack.results[pack.best_result]

Pack ==
  /\ pc = "parsed" /\ Len(pack.done) = iterations
  /\ pc' = "packed"
  /\ UNCHANGED <<data, p, at, sizes, pack>>

-----------------------------------------------------------------------------

Init ==
  /\ pc = "parse" /\ data \in [0..(DataLength - 1) -> {0, 1}] /\ data[0] = 0
  /\ p = EmptyParser /\ at = NoWork /\ sizes \in SizeTables
  /\ pack = [results |-> [k \in {0, 1} |-> 0], best_result |-> 0,
             best_size |-> 1 + Max(RealSizes), done |-> <<>>]

Next ==
  \/ StartParse \/ InitialBest \/ Assimilate \/ BeginMatching
  \/ FromBest \/ FromOffset \/ NextCall \/ MakeRoom \/ NewEdge
  \/ NextPos \/ SkipAhead \/ FinishParse \/ NextIteration \/ Pack

Spec == Init /\ [][Next]_vars

-----------------------------------------------------------------------------
(* Properties.                                                             *)

Live == DOMAIN p.cells \ Range(p.buffer)

\* Edges of this position that have gone to best_for_offset are not held twice.
Holders(edge) ==
  {<<t, o>> \in (0..DataLength) \X (0..DataLength) :
     /\ o \in DOMAIN p.tables[t] /\ p.tables[t][o] = edge
     /\ (pc = "assimilate" /\ t = at.pos) => edge \in at.todo}

CountIs(edge) ==
  p.cells[edge].refcount = Cardinality(Holders(edge)) + (IF edge = p.initial THEN 1 ELSE 0)
                           + Cardinality({e \in Live : p.cells[e].source = edge})

\* While a parse runs, every cell that anything refers to is in use and its
\* count is the number of what refers to it, no assertion has failed, and
\* the heap knows the place of each of its edges; when it has ended, every
\* cell has been given back, as the next one asserts
\* (LZParser.h:110-113, 222-260).
EdgesAreCounted ==
  /\ p.asserted
  /\ p.edge_count = Cardinality(Live)
  /\ pc \notin {"parse", "initial", "parsed", "packed"} =>
       /\ {p.best, p.initial} \subseteq Live
       /\ \A edge \in Live : CountIs(edge) /\ p.cells[edge].source \in Live \cup {NULL}
       /\ \A table \in 0..DataLength :
            ~(pc = "assimilate" /\ table = at.pos) => Held(p, table) \subseteq Live
       /\ Range(p.heap.elements) \subseteq Live
       /\ \A i \in DOMAIN p.heap.elements : p.heap.index[p.heap.elements[i]] = i
  /\ pc \in {"parsed", "packed"} => p.edge_count = 0

\* What a chain of references and the literals between them measure.
Measured(refs) ==
  LET Step(s, r) ==
        [pos  |-> r.pos + r.length, last |-> r.offset,
         size |-> s.size + LiteralSize(r.pos) - LiteralSize(s.pos)
                  + ReferenceSize(r.pos = s.pos, s.last, r.offset, r.length)]
      all == FoldLeft(Step, [pos |-> 0, last |-> 0, size |-> 0], refs)
  IN  all.size + LiteralSize(DataLength) - LiteralSize(all.pos)

\* The encoder's assertions hold for it and it spells the text.
Spells(refs) ==
  \A k \in DOMAIN refs :
    LET r    == refs[k]
        last == IF k = 1 THEN [pos |-> 0, offset |-> 0, length |-> 0] ELSE refs[k - 1]
    IN  /\ r.length >= 2 /\ r.pos + r.length <= DataLength
        /\ r.offset \in 1..r.pos
        /\ r.pos >= last.pos + last.length
        /\ r.pos = last.pos + last.length => r.offset # last.offset
        /\ \A i \in 0..(r.length - 1) : data[r.pos + i] = data[r.pos + i - r.offset]

\* The parse chosen spells the text in a form the encoder accepts, costs
\* what its edges were compared by, however many chains were given up or
\* skipped on the way, and never more than the text in literals; and what is
\* encoded in the end is the smallest of what the iterations came to, although
\* each overwrites the worse of two (LZParser.h:262-290, 303-405, Pack.h:96-147).
ParseIsWhatItCosts ==
  /\ pc = "parsed" =>
       /\ Spells(at.parse.refs)
       /\ at.parse.total_size = Measured(at.parse.refs)
       /\ at.parse.total_size <= LiteralSize(DataLength)
  /\ pc = "packed" => \A k \in DOMAIN pack.done : Encoded <= pack.done[k]
=============================================================================
