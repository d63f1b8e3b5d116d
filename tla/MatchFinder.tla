---------------------------- MODULE MatchFinder ----------------------------
(***************************************************************************)
(* Shrinkler's match finder (shrinkler_vendor/MatchFinder.h).  The         *)
(* suffixes of the text are sorted once; the strings that agree longest    *)
(* with the one at a position are its neighbours in that order, and the    *)
(* finder walks away from it to both sides, always on the side that still  *)
(* agrees longer.                                                          *)
(*                                                                         *)
(* computeSuffixArray() (SuffixArray.h) is modelled by its result.         *)
(***************************************************************************)
EXTENDS Matches

CONSTANTS
  Alphabet,
  MaxLength,        \* of a text
  min_length,       \* 2
  Patiences,        \* match_patience: 300
  max_same_length   \* 30

FinderAssumption ==
  /\ Alphabet \subseteq Nat /\ MaxLength \in Nat \ {0}
  /\ min_length \in Nat \ {0} /\ max_same_length \in Nat \ {0}
  /\ Patiences \subseteq Nat

VARIABLES
  data, match_patience,            \* what it was constructed with
  suffix_array, rev_suffix_array, longest_common_prefix,
  state,                           \* the matcher's parameters and state
  found                            \* what nextMatch() has returned at this position

constructed == <<data, match_patience, suffix_array, rev_suffix_array, longest_common_prefix>>
vars == <<constructed, state, found>>

Text == UNION {[0..(n - 1) -> Alphabet] : n \in 1..MaxLength}
length == Cardinality(DOMAIN data)

-----------------------------------------------------------------------------
(* make_suffix_array()                                                     *)

\* The suffix at i comes before the one at j; the empty one before all.
SuffixLess(text, n, i, j) ==
  LET h == CommonPrefix(text, n, i, j)
  IN  i # j /\ (i + h = n \/ (j + h < n /\ text[i + h] < text[j + h]))

SuffixArray(text, n) ==
  [r \in 0..n |-> CHOOSE i \in 0..n :
                   Cardinality({j \in 0..n : SuffixLess(text, n, j, i)}) = r]

Reverse_(array, n) == [i \in 0..n |-> CHOOSE r \in 0..n : array[r] = i]

\* The suffix after one in the text agrees with its neighbour at least as
\* long less one: h only ever has to go on from there.
PrefixAfter(text, i, j, h) ==
  LET n == Cardinality(DOMAIN text)
      m == n - Max({i, j})
  IN  Max({k \in h..(IF h > m THEN h ELSE m) : \A x \in h..(k - 1) : text[i + x] = text[j + x]})

LongestCommonPrefixes(text, n, array, reverse) ==
  LET Step(at, i) ==
        LET r == reverse[i]
            h == PrefixAfter(text, i, array[r + 1], at.h)
        IN  IF r < n THEN [lcp |-> [at.lcp EXCEPT ![r] = h], h |-> IF h > 0 THEN h - 1 ELSE 0]
            ELSE at
  IN  FoldLeft(Step, [lcp |-> [r \in 0..n |-> 0], h |-> 0], [i \in 1..n |-> i - 1]).lcp

-----------------------------------------------------------------------------
(* Walking away from the position, to the left and to the right.           *)

InRange(s, pos) == pos < s.current_pos /\ pos >= s.min_pos

\* The least common prefix over the first k steps.
LeftLength(s, k) ==
  Min({s.left_length} \cup {longest_common_prefix[s.left_index - x] : x \in 1..k})
RightLength(s, k) ==
  Min({s.right_length} \cup {longest_common_prefix[s.right_index + x - 1] : x \in 1..k})

extend_left(s) ==
  IF s.left_length < min_length THEN s
  ELSE LET Here(k)  == InRange(s, suffix_array[s.left_index - k])
           k        == Min({n \in 1..s.left_index :
                              Here(n) \/ n > match_patience \/ LeftLength(s, n) < min_length})
           impatient == ~Here(k) /\ k > match_patience
       IN  [s EXCEPT !.left_index = @ - k,
                     !.left_length = IF impatient THEN 0 ELSE LeftLength(s, k)]

\* On this side the index stays when the string there agrees too little.
extend_right(s) ==
  LET Here(k)   == InRange(s, suffix_array[s.right_index + k])
      Short(k)  == RightLength(s, k) < min_length
      k         == Min({n \in 1..(length + 1 - s.right_index) :
                          Short(n) \/ Here(n) \/ n > match_patience})
  IN  IF Short(k) THEN [s EXCEPT !.right_index = @ + k - 1, !.right_length = RightLength(s, k)]
      ELSE [s EXCEPT !.right_index = @ + k,
                     !.right_length = IF Here(k) THEN RightLength(s, k) ELSE 0]

next_length(s) == Max({s.left_length, s.right_length})

\* beginMatching(); the parser has taken every match of the last position.
BeginMatching(pos) ==
  /\ state.match_buffer = {} /\ next_length(state) < min_length
  /\ LET start == [current_pos |-> pos, min_pos |-> 0, new_min_pos |-> 0,
                   left_index |-> rev_suffix_array[pos], left_length |-> length - pos,
                   right_index |-> rev_suffix_array[pos], right_length |-> length - pos,
                   current_length |-> state.current_length, match_buffer |-> {}]
     IN  state' = extend_right(extend_left(start))
  /\ found' = <<>>
  /\ UNCHANGED constructed

-----------------------------------------------------------------------------
(* nextMatch()                                                             *)

\* The buffer keeps the closest matches of one length; with it full, only
\* closer ones are in range.
Keep(s, pos) ==
  LET full == Cardinality(s.match_buffer) >= max_same_length
      top  == Min(s.match_buffer)
      kept == IF ~full THEN s.match_buffer \cup {pos}
              ELSE IF pos > top THEN (s.match_buffer \ {top}) \cup {pos}
              ELSE s.match_buffer
  IN  [s EXCEPT !.match_buffer = kept, !.min_pos = IF full THEN Min(kept) ELSE @,
                !.new_min_pos = Max({@, pos})]

\* Faulty: the finder walks on before it reads which string it found.
CollectLate(s) ==
  LET left     == s.left_length > s.right_length
      extended == IF left THEN extend_left(s) ELSE extend_right(s)
  IN  Keep(extended, suffix_array[IF left THEN extended.left_index ELSE extended.right_index])

\* One turn of the loop that collects the matches of one length.
Collect(s) ==
  LET left == s.left_length > s.right_length
      pos  == suffix_array[IF left THEN s.left_index ELSE s.right_index]
  IN  Keep(IF left THEN extend_left(s) ELSE extend_right(s), pos)

Collected(s) ==
  LET Step(at) == IF at.match_buffer # {} /\ next_length(at) # s.current_length
                  THEN at ELSE Collect(at)
      all      == FoldLeft(LAMBDA at, k : Step(at), s, [k \in 1..length |-> k])
  IN  [all EXCEPT !.min_pos = all.new_min_pos]

Filled(s) ==
  IF s.match_buffer # {} THEN s
  ELSE Collected([s EXCEPT !.current_length = next_length(s), !.new_min_pos = s.min_pos])

NextMatch ==
  /\ state.match_buffer # {} \/ next_length(state) >= min_length
  /\ LET filled == Filled(state)
         pos    == Min(filled.match_buffer)
     IN  /\ state' = [filled EXCEPT !.match_buffer = @ \ {pos}]
         /\ found' = Append(found, [pos |-> pos, length |-> filled.current_length])
  /\ UNCHANGED constructed

-----------------------------------------------------------------------------

Init ==
  /\ data \in Text /\ match_patience \in Patiences
  /\ suffix_array = SuffixArray(data, length)
  /\ rev_suffix_array = Reverse_(suffix_array, length)
  /\ longest_common_prefix = LongestCommonPrefixes(data, length, suffix_array, rev_suffix_array)
  /\ state = [current_pos |-> 0, min_pos |-> 0, new_min_pos |-> 0, left_index |-> 0,
              left_length |-> 0, right_index |-> 0, right_length |-> 0,
              current_length |-> 0, match_buffer |-> {}]
  /\ found = <<>>

Next == \/ \E pos \in (state.current_pos + 1)..length : BeginMatching(pos)
        \/ NextMatch

Spec == Init /\ [][Next]_vars

-----------------------------------------------------------------------------
(* Properties.                                                             *)

AllFound == state.match_buffer = {} /\ next_length(state) < min_length
Promised == Reported(data, length, state.current_pos, min_length, max_same_length)

\* Each match reported is a string that occurred before and agrees exactly
\* as long as reported, and they come from longest to shortest, those of one
\* length from the farthest to the closest (MatchFinder.h:149-185); unless
\* the finder lost its patience, none it promises is left out.
ReportsMatches ==
  /\ \A k \in DOMAIN found :
       /\ found[k] \in MatchesAt(data, length, state.current_pos, min_length)
       /\ k > 1 => InOrder(found[k - 1], found[k])
  /\ match_patience >= length /\ AllFound /\ state.current_pos > 0 =>
       Range(Promised) \subseteq Range(found)
=============================================================================
