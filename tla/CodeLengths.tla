---------------------------- MODULE CodeLengths ----------------------------
(***************************************************************************)
(* How zopfli chooses the lengths of a block's prefix codes: from the      *)
(* counts of the symbols by the boundary package-merge of katajainen.c,    *)
(* whose chains share nodes of a pool reckoned beforehand, then once more  *)
(* from counts that are smoothed to give longer runs                       *)
(* (OptimizeHuffmanForRle of deflate.c), of which the smaller result is    *)
(* written.  Symbols are 0, 1, 2, ... as in the program, indices of nodes  *)
(* start at 1 and 0 is no node.                                            *)
(***************************************************************************)
EXTENDS Integers, Sequences, SequencesExt, FiniteSetsExt, Functions

CONSTANTS
  Histograms,   \* the counts the symbols may have
  Limits        \* values of maxbits

HistogramsAssumption ==
  /\ Limits \subseteq 1..15
  /\ \A histogram \in Histograms :
       /\ DOMAIN histogram = 0..(Cardinality(DOMAIN histogram) - 1)
       /\ Range(histogram) \subseteq Nat
       /\ \A limit \in Limits : Cardinality({s \in DOMAIN histogram : histogram[s] > 0}) <= 2^limit

VARIABLES
  counts,    \* how often each symbol occurs
  limit,     \* maxbits, as the caller gives it
  lengths,   \* bitlengths of the counts, and of the smoothed ones, once they are there
  pc,
  leaves,    \* weights and symbols, from lightest to heaviest
  nodes,     \* the pool: as many nodes as were taken from it
  lists,     \* the two lookahead chains of every list
  calls,     \* calls of BoundaryPM() to do: the current one and those that wait
  runs       \* calls of BoundaryPM() on the last list still to come

vars == <<counts, limit, lengths, pc, leaves, nodes, lists, calls, runs>>
merge == <<leaves, nodes, lists, calls, runs>>

-----------------------------------------------------------------------------
(* OptimizeHuffmanForRle()                                                 *)

\* The histogram's length without its trailing zeros.
Trimmed(histogram) == Max({0} \cup {s + 1 : s \in {t \in DOMAIN histogram : histogram[t] # 0}})

\* A run of one count that is long enough to be left as it is.
GoodForRle(histogram, i) ==
  \E first, last \in 0..(Trimmed(histogram) - 1) :
    /\ i \in first..last
    /\ \A s \in first..last : histogram[s] = histogram[i]
    /\ last - first + 1 >= IF histogram[i] = 0 THEN 5 ELSE 7

\* What the next counts of a stride have to be near to.
StrideLimit(histogram, i) ==
  LET length == Trimmed(histogram)
  IN  IF i < length - 3
      THEN (histogram[i] + histogram[i + 1] + histogram[i + 2] + histogram[i + 3] + 2) \div 4
      ELSE IF i < length THEN histogram[i] ELSE 0

\* Faulty: a stride may lose its few occurrences.
CollapsedToNothing(stride, sum) == (sum + stride \div 2) \div stride

\* The count all symbols of a stride get.
Collapsed(stride, sum) ==
  IF sum = 0 THEN 0 ELSE Max({1, (sum + stride \div 2) \div stride})

\* The stride ends before i.
EndStride(histogram, s, i) ==
  LET long == s.stride >= 4 \/ (s.stride >= 3 /\ s.sum = 0)
  IN  [stride |-> 0, sum |-> 0, limit |-> StrideLimit(histogram, i),
       out |-> IF long THEN [k \in DOMAIN histogram |->
                               IF k \in (i - s.stride)..(i - 1) THEN Collapsed(s.stride, s.sum)
                                                                ELSE s.out[k]]
                       ELSE s.out]

StrideStep(histogram, s, i) ==
  LET length == Trimmed(histogram)
      ends   == \/ i = length
                \/ GoodForRle(histogram, i)
                \/ histogram[i] - s.limit \notin -3..3
      t      == IF ends THEN EndStride(histogram, s, i) ELSE s
  IN  [t EXCEPT !.stride = @ + 1, !.sum = @ + IF i = length THEN 0 ELSE histogram[i]]

OptimizeHuffmanForRle(histogram) ==
  LET length == Trimmed(histogram)
      start  == [stride |-> 0, sum |-> 0, limit |-> histogram[0], out |-> histogram]
  IN  IF length = 0 THEN histogram
      ELSE FoldLeft(LAMBDA s, i : StrideStep(histogram, s, i),
                    start, [i \in 1..(length + 1) |-> i - 1]).out

-----------------------------------------------------------------------------
(* ZopfliLengthLimitedCodeLengths()                                        *)

\* The counts this round is about.
Histogram == IF lengths = <<>> THEN counts ELSE OptimizeHuffmanForRle(counts)
Used(histogram) == {s \in DOMAIN histogram : histogram[s] > 0}

\* The symbols that occur, with their counts: by symbol where they weigh the same.
Sorted(histogram) ==
  SortSeq(SelectSeq([k \in 1..Cardinality(DOMAIN histogram) |->
                       [weight |-> histogram[k - 1], symbol |-> k - 1]],
                    LAMBDA leaf : leaf.weight > 0),
          LAMBDA a, b : \/ a.weight < b.weight
                        \/ a.weight = b.weight /\ a.symbol < b.symbol)

NewNode(weight, count, tail) == [weight |-> weight, count |-> count, tail |-> tail]

numsymbols == Len(leaves)
maxbits == Min({limit, numsymbols - 1})
PoolSize == maxbits * 2 * numsymbols

Deliver(bitlengths) ==
  /\ lengths' = Append(lengths, bitlengths)
  /\ pc' = IF lengths = <<>> THEN "begin" ELSE "end"

\* One or two symbols, or none: lengths of 1.
FewSymbols ==
  /\ pc = "begin"
  /\ LET used == Used(Histogram)
     IN  /\ Cardinality(used) <= 2
         /\ Deliver([s \in DOMAIN counts |-> IF s \in used THEN 1 ELSE 0])
  /\ UNCHANGED <<counts, limit, merge>>

\* Lists are needed for three leaves or more.
SortLeaves ==
  /\ pc = "begin"
  /\ LET histogram == Histogram
     IN  /\ Cardinality(Used(histogram)) > 2
         /\ leaves' = Sorted(histogram)
  /\ pc' = "init"
  /\ UNCHANGED <<counts, limit, lengths, nodes, lists, calls, runs>>

\* Every list begins with the two lightest leaves.
InitLists ==
  /\ pc = "init"
  /\ nodes' = <<NewNode(leaves[1].weight, 1, 0), NewNode(leaves[2].weight, 2, 0)>>
  /\ lists' = [i \in 0..(maxbits - 1) |-> <<1, 2>>]
  /\ runs' = 2 * numsymbols - 5
  /\ calls' = <<>>
  /\ pc' = "run"
  /\ UNCHANGED <<counts, limit, lengths, leaves>>

\* The loop: one more chain for the last list.
NextRun ==
  /\ pc = "run"
  /\ calls = <<>>
  /\ runs > 0
  /\ runs' = runs - 1
  /\ calls' = <<maxbits - 1>>
  /\ UNCHANGED <<counts, limit, lengths, pc, leaves, nodes, lists>>

Newest(index) == nodes[lists[index][2]]
Sum(index) == nodes[lists[index - 1][1]].weight + nodes[lists[index - 1][2]].weight

\* Faulty: the next leaf is weighed with the older of the two chains only.
LeafIsLighterThanOne(index) ==
  LET lastcount == Newest(index).count
  IN  /\ lastcount < numsymbols
      /\ nodes[lists[index - 1][1]].weight > leaves[lastcount + 1].weight

\* The next leaf is lighter than what the list below offers for merging.
LeafIsLighter(index) ==
  LET lastcount == Newest(index).count
  IN  lastcount < numsymbols /\ Sum(index) > leaves[lastcount + 1].weight

PutChain(index, node) ==
  /\ nodes' = Append(nodes, node)
  /\ lists' = [lists EXCEPT ![index] = <<@[2], Len(nodes) + 1>>]

\* The first list has all leaves: nothing is done.
NoLeafLeft ==
  /\ pc = "run"
  /\ calls # <<>>
  /\ Head(calls) = 0
  /\ Newest(0).count >= numsymbols
  /\ calls' = Tail(calls)
  /\ UNCHANGED <<counts, limit, lengths, pc, leaves, nodes, lists, runs>>

\* A leaf, in front of the chain the list had.
AddLeaf ==
  /\ pc = "run"
  /\ calls # <<>>
  /\ LET index     == Head(calls)
         lastcount == Newest(index).count
     IN  /\ IF index = 0 THEN lastcount < numsymbols ELSE LeafIsLighter(index)
         /\ PutChain(index, NewNode(leaves[lastcount + 1].weight, lastcount + 1,
                                    IF index = 0 THEN 0 ELSE Newest(index).tail))
  /\ calls' = Tail(calls)
  /\ UNCHANGED <<counts, limit, lengths, pc, leaves, runs>>

\* The two chains of the list below are merged, and it needs two new ones.
AddPackage ==
  /\ pc = "run"
  /\ calls # <<>>
  /\ Head(calls) > 0
  /\ ~LeafIsLighter(Head(calls))
  /\ LET index == Head(calls)
     IN  /\ PutChain(index, NewNode(Sum(index), Newest(index).count, lists[index - 1][2]))
         /\ calls' = <<index - 1, index - 1>> \o Tail(calls)
  /\ UNCHANGED <<counts, limit, lengths, pc, leaves, runs>>

\* BoundaryPMFinal().  The node's weight is not set and not read again.
BoundaryPMFinal ==
  /\ pc = "run"
  /\ calls = <<>>
  /\ runs = 0
  /\ LET index == maxbits - 1
     IN  IF LeafIsLighter(index)
         THEN /\ nodes' = Append(nodes, NewNode(0, Newest(index).count + 1, Newest(index).tail))
              /\ lists' = [lists EXCEPT ![index][2] = Len(nodes) + 1]
         ELSE /\ nodes' = [nodes EXCEPT ![lists[index][2]].tail = lists[index - 1][2]]
              /\ lists' = lists
  /\ pc' = "extract"
  /\ UNCHANGED <<counts, limit, lengths, leaves, calls, runs>>

\* The node that many tails from node, and the chain from node on.
After[k \in Nat, node \in Nat] ==
  IF k = 0 \/ node = 0 THEN node ELSE After[k - 1, nodes[node].tail]
Chain(node) == {After[k, node] : k \in 0..(maxbits - 1)} \ {0}

\* Each node of the chain makes the codes of its first count leaves a bit longer.
ExtractBitLengths ==
  /\ pc = "extract"
  /\ LET chain == Chain(lists[maxbits - 1][2])
         Length(v) == Cardinality({node \in chain : nodes[node].count >= v})
         LeafOf(s) == CHOOSE v \in DOMAIN leaves : leaves[v].symbol = s
     IN  Deliver([s \in DOMAIN counts |->
                    IF \E v \in DOMAIN leaves : leaves[v].symbol = s
                    THEN Length(LeafOf(s)) ELSE 0])
  /\ leaves' = <<>> /\ nodes' = <<>> /\ lists' = <<>>
  /\ UNCHANGED <<counts, limit, calls, runs>>

Init ==
  /\ counts \in Histograms
  /\ limit \in Limits
  /\ lengths = <<>>
  /\ pc = "begin"
  /\ leaves = <<>> /\ nodes = <<>> /\ lists = <<>> /\ calls = <<>> /\ runs = 0

Returned == pc = "end" /\ UNCHANGED vars

Next ==
  \/ FewSymbols \/ SortLeaves \/ InitLists
  \/ NextRun \/ NoLeafLeft \/ AddLeaf \/ AddPackage
  \/ BoundaryPMFinal \/ ExtractBitLengths
  \/ Returned

Spec == Init /\ [][Next]_vars

-----------------------------------------------------------------------------
(* Properties                                                              *)

\* The trees with n leaves, each as the number of its leaves at every depth.
CodeTrees[n \in Nat] ==
  IF n = 1 THEN {[d \in 0..15 |-> IF d = 0 THEN 1 ELSE 0]}
  ELSE UNION {{[tree EXCEPT ![d] = @ - 1, ![d + 1] = @ + 2] : d \in {e \in 0..14 : tree[e] > 0}} :
                tree \in CodeTrees[n - 1]}

TreesOf == [n \in 2..Max({Cardinality(DOMAIN h) : h \in Histograms}) |-> CodeTrees[n]]

Leaves(histogram, bitlengths) ==
  [d \in 0..15 |-> Cardinality({s \in Used(histogram) : bitlengths[s] = d})]

\* The least n counts together, for every n.
LeastCounts(histogram) ==
  FoldLeft(LAMBDA sums, leaf : Append(sums, Last(sums) + leaf.weight), <<0>>, Sorted(histogram))

\* The total length if a tree gives the longest codes to the rarest symbols:
\* each depth costs a bit for all leaves that are at least as deep.
TreeCost(tree, least) ==
  MapThenSumSet(LAMBDA d : least[MapThenSumSet(LAMBDA e : tree[e], d..15) + 1], 1..15)

CodeCost(bitlengths, histogram) ==
  MapThenSumSet(LAMBDA s : histogram[s] * bitlengths[s], Used(histogram))

\* bitlengths make a complete code of the histogram's symbols and no others,
\* none longer than the limit, and no such code is shorter in total.
IsBestCode(bitlengths, histogram) ==
  LET n == Cardinality(Used(histogram))
      least == LeastCounts(histogram)
  IN  /\ \A s \in DOMAIN histogram :
           IF s \in Used(histogram) THEN bitlengths[s] \in 1..limit ELSE bitlengths[s] = 0
      /\ n >= 2 =>
           /\ Leaves(histogram, bitlengths) \in TreesOf[n]
           /\ \A tree \in TreesOf[n] :
                \/ \E d \in (limit + 1)..15 : tree[d] > 0
                \/ TreeCost(tree, least) >= CodeCost(bitlengths, histogram)

\* The merge never needs more nodes than the pool was made for, and both
\* rounds end with "minimum-redundancy length-limited code bitlengths"
\* (katajainen.h:25) of their counts; the smoothed counts, with whose code
\* the block may be written, still have every symbol that occurs in it.
LengthsMakeCodes ==
  /\ pc \in {"run", "extract"} => Len(nodes) <= PoolSize
  /\ pc = "end" =>
       /\ IsBestCode(lengths[1], counts)
       /\ IsBestCode(lengths[2], OptimizeHuffmanForRle(counts))
       /\ Used(counts) \subseteq Used(OptimizeHuffmanForRle(counts))
=============================================================================
