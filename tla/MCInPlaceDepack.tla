-------------------------- MODULE MCInPlaceDepack --------------------------
(***************************************************************************)
(* InPlaceDepack for two kinds of decoder runs: every forward decoder over *)
(* small payloads and images (any subset of the payload bytes read in      *)
(* order, interleaved in any way with the writes of the output in order),  *)
(* and the accesses the real depackers make on small streams.              *)
(***************************************************************************)
EXTENDS InPlaceDepack, DepackTraces

-----------------------------------------------------------------------------
(* Any decoder.                                                            *)

MaxPayload == 5

SmallImages ==
  {[code |-> 8, bss |-> 0, stream |-> 1], [code |-> 4, bss |-> 0, stream |-> 3],
   [code |-> 4, bss |-> 8, stream |-> 1]}

\* Reads of the payload bytes in gets, at the steps in slots, among writes.
Run(gets, slots, writes) ==
  LET reads == SetToSortSeq(gets, <)
  IN  [n \in 1 .. Cardinality(slots) + writes |->
         IF n \in slots THEN Get(reads[Cardinality(slots \cap 1 .. n)])
         ELSE Put(Cardinality((1 .. n) \ slots) - 1)]

ForwardRuns(payload, writes) ==
  UNION {{Run(gets, slots, writes) :
            slots \in kSubset(Cardinality(gets), 1 .. Cardinality(gets) + writes)} :
         gets \in SUBSET (0 .. payload - 1)}

AnyForwardDecoder ==
  UNION {UNION {[image : {image}, payload : {payload},
                 ops : ForwardRuns(payload, DepackedSize(image))] :
                payload \in 1 .. MaxPayload} :
         image \in SmallImages}

-----------------------------------------------------------------------------
(* The depackers there are.                                                *)

\* Images a run can belong to: code_data comes in longwords and leaves a relocation
\* stream of one to four bytes; BSS is absent or longer than the stream.
OutputLength(ops) == Cardinality({n \in DOMAIN ops : IsPut(ops[n])})
PayloadLength(ops) == Max({0} \cup {ops[n].at + 1 : n \in {i \in DOMAIN ops : IsGet(ops[i])}})

ImagesFor(ops) ==
  LET size == OutputLength(ops)
      code == ((size - 1) \div 4) * 4
  IN  {[code |-> code, bss |-> bss, stream |-> size - code] : bss \in {0, 12}}

JobsFor(runs) ==
  UNION {[image : ImagesFor(ops), payload : {PayloadLength(ops)}, ops : {ops}] : ops \in runs}

SeqsUpTo(S, n) == UNION {[1 .. k -> S] : k \in 0 .. n}

StoreRuns == {StoreDepack(n) : n \in 1 .. 13}

Lz4Runs ==
  {Lz4Depack(sequences, last) :
     sequences \in SeqsUpTo([literals : {0, 1, 16}, match : {4, 6, 19}], 2), last \in {1, 5}}

Zx0Runs ==
  {Zx0Depack(<<[kind |-> "literals", length |-> first]>> \o blocks) :
     first \in {1, 3},
     blocks \in SeqsUpTo([kind : {"rep"}, length : {1, 4}]
                         \cup [kind : {"match"}, length : {2, 9}, high : {1, 3}], 2)}

\* Code widths a complete Huffman code can have, with one distance code.
Literal == [kind |-> "literal", code |-> 2]
Match(n) == [kind |-> "match", code |-> 1, extra |-> 0,
             distCode |-> 1, distExtra |-> 0, length |-> n]
LongCode == [kind |-> "literal", code |-> 11]

HuffmanBlocks ==
  [kind : {"huffman"}, trees : {<<>>, <<5, 5, 4, 3, 3>>},
   symbols : {<<Literal>> \o s : s \in SeqsUpTo({Literal, Match(3), Match(10), LongCode}, 3)},
   end : {2, 7}]

InflateRuns == {InflateDepack(<<b>>) : b \in HuffmanBlocks}

ForwardStreams == StoreRuns \cup Lz4Runs \cup Zx0Runs \cup InflateRuns

\* A run of one byte value (a literal and a match of 258) in a block of its
\* own, then a stored block: what an encoder makes of zeros followed by noise.
StoredAfterRun ==
  {InflateDepack(<<[kind |-> "huffman", trees |-> <<5, 5, 4, 3 * 18, t>>,
                    symbols |-> lead \o <<Match(258)>>, end |-> 2],
                   [kind |-> "stored", length |-> n]>>) :
     t \in 1 .. 8, lead \in {<<Literal>>, <<Literal, Literal>>}, n \in {3, 4}}

-----------------------------------------------------------------------------
MCJobs == AnyForwardDecoder \cup JobsFor(ForwardStreams)
RewindJobs == JobsFor(StoredAfterRun)
=============================================================================
