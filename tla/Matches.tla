------------------------------ MODULE Matches ------------------------------
(***************************************************************************)
(* What Shrinkler's match finder promises the parser                       *)
(* (shrinkler_vendor/MatchFinder.h:7-17): strings that occurred before the *)
(* current position, from longest to shortest, a shorter one only when it  *)
(* is closer than all longer ones, and of those of one length the closest. *)
(* A text is a function from 0; a match is a record of its position and    *)
(* its length.                                                             *)
(***************************************************************************)
EXTENDS Integers, Sequences, SequencesExt, FiniteSetsExt

\* How far the strings at two positions agree.
CommonPrefix(data, length, i, j) ==
  Max({n \in 0..(length - Max({i, j})) : \A k \in 0..(n - 1) : data[i + k] = data[j + k]})

MatchesAt(data, length, pos, min_length) ==
  {[pos |-> q, length |-> CommonPrefix(data, length, q, pos)] : q \in
     {p \in 0..(pos - 1) : CommonPrefix(data, length, p, pos) >= min_length}}

CloserThanLonger(all) ==
  {m \in all : \A longer \in all : longer.length > m.length => longer.pos < m.pos}

ClosestOfLength(all, max_same_length) ==
  {m \in all : Cardinality({n \in all : n.length = m.length /\ n.pos > m.pos}) < max_same_length}

InOrder(m, n) == m.length > n.length \/ (m.length = n.length /\ m.pos < n.pos)

\* The matches reported at a position, in the order they are reported.
Reported(data, length, pos, min_length, max_same_length) ==
  LET all == ClosestOfLength(CloserThanLonger(MatchesAt(data, length, pos, min_length)),
                             max_same_length)
  IN  [k \in 1..Cardinality(all) |->
        CHOOSE m \in all : Cardinality({n \in all : InOrder(n, m)}) = k - 1]
=============================================================================
