----------------------------- MODULE Zx0Optimize -----------------------------
(***************************************************************************)
(* zx0_vendor/optimize.c: the search for the parse of the input with the   *)
(* fewest bits.  For each byte of the input, and each offset a match may   *)
(* have, one turn of the inner loop extends the best parse that ends there *)
(* with a match or with literals after a match at that offset.             *)
(***************************************************************************)
EXTENDS Zx0Format, Integers, Sequences, SequencesExt

-----------------------------------------------------------------------------
(* memory.c: the blocks optimize() chains its parses from.  A block counts *)
(* the array slots and the blocks that point to it; with none left it goes *)
(* to the ghosts, and is given out again from there while it still points  *)
(* to the block it was chained to.  The pool is a global of the program:   *)
(* it goes on from one file's compression to the next.                     *)

NULL == 0

EmptyPool == [blocks |-> <<>>, ghosts |-> <<>>]

Referenced(pool, block) ==
  IF block = NULL THEN pool
  ELSE [pool EXCEPT !.blocks[block].references = @ + 1]

Released(pool, block) ==
  IF block = NULL THEN pool
  ELSE LET less == [pool EXCEPT !.blocks[block].references = @ - 1]
       IN  IF less.blocks[block].references > 0 THEN less
           ELSE [less EXCEPT !.ghosts = <<block>> \o @]

\* The block an allocation gives: the first ghost, or one never used before.
NextBlock(pool) ==
  IF pool.ghosts # <<>> THEN Head(pool.ghosts) ELSE Len(pool.blocks) + 1

\* The pool once the block is out of it: a ghost lets go of its chain.
Taken(pool) ==
  IF pool.ghosts # <<>>
  THEN Released([pool EXCEPT !.ghosts = Tail(@)], pool.blocks[Head(pool.ghosts)].chain)
  ELSE pool

\* Faulty: a block does not count as a reference to its chain.
AllocateUncounted(pool, bits, index, offset, chain) ==
  LET block  == NextBlock(pool)
      fields == [bits |-> bits, index |-> index, offset |-> offset,
                 chain |-> chain, references |-> 0]
      taken  == Taken(pool)
  IN  IF block \in DOMAIN taken.blocks
      THEN [taken EXCEPT !.blocks[block] = fields]
      ELSE [taken EXCEPT !.blocks = Append(@, fields)]

\* allocate(): the pool with the fields of NextBlock(pool) set.
Allocate(pool, bits, index, offset, chain) ==
  LET block  == NextBlock(pool)
      fields == [bits |-> bits, index |-> index, offset |-> offset,
                 chain |-> chain, references |-> 0]
      held   == Referenced(Taken(pool), chain)
  IN  IF block \in DOMAIN held.blocks
      THEN [held EXCEPT !.blocks[block] = fields]
      ELSE [held EXCEPT !.blocks = Append(@, fields)]

\* assign(): a slot that pointed to old points to new.
Assign(pool, old, new) == Released(Referenced(pool, new), old)

-----------------------------------------------------------------------------
(* optimize()                                                              *)

CONSTANT Jobs    \* sequences of inputs, compressed by one process in turn

VARIABLES
  inputs, job,              \* the inputs, and the one being compressed
  pc,
  pool,
  index, offset,            \* the outer and the inner loop
  last_literal, last_match, \* by offset
  optimal, best_length,     \* by index, and by length
  match_length,             \* by offset
  best_length_size

arrays    == <<last_literal, last_match, optimal, best_length, match_length, best_length_size>>
optimizer == <<inputs, job, pool, index, offset, arrays>>

input_data == inputs[job]
input_size == Len(input_data)

OffsetCeiling(i) == IF i > OffsetLimit THEN OffsetLimit
                    ELSE IF i < INITIAL_OFFSET THEN INITIAL_OFFSET ELSE i

\* The input's bytes and the arrays are counted from 0.
InputByte(i) == input_data[i + 1]
Block(b)     == pool.blocks[b]

InitOptimizer ==
  /\ inputs \in Jobs /\ job = 1
  /\ pool = EmptyPool
  /\ index = 0 /\ offset = 1 /\ best_length_size = 2
  /\ last_literal = <<>> /\ last_match = <<>> /\ match_length = <<>>
  /\ optimal = <<>> /\ best_length = <<>>

\* A call of optimize(), up to its loops.  The arrays of the last call are
\* never freed and keep their references; 0 is an entry malloc left unset.
AllocateArrays ==
  LET offsets == 0..OffsetCeiling(input_size - 1)
      indexes == 0..(input_size - 1)
      fake    == NextBlock(pool)
  IN  /\ pc = "optimize"
      /\ pc' = "offset"
      /\ pool' = Assign(Allocate(pool, -1, -1, INITIAL_OFFSET, NULL), NULL, fake)
      /\ index' = 0 /\ offset' = 1 /\ best_length_size' = 2
      /\ last_literal' = [o \in offsets |-> NULL]
      /\ last_match' = [o \in offsets |-> IF o = INITIAL_OFFSET THEN fake ELSE NULL]
      /\ match_length' = [o \in offsets |-> 0]
      /\ optimal' = [n \in indexes |-> NULL]
      /\ best_length' = [n \in indexes |-> IF n = 2 THEN 2 ELSE 0]
      /\ UNCHANGED <<inputs, job>>

-----------------------------------------------------------------------------

IsMatch == /\ index # 0
           /\ index >= offset
           /\ InputByte(index) = InputByte(index - offset)

\* A new block for this index in the slot of an array that held old; it
\* becomes the best parse of this index too if it has fewer bits.
NewBlock(old, bits, blockOffset, chain) ==
  LET block == NextBlock(pool)
      kept  == Assign(Allocate(pool, bits, index, blockOffset, chain), old, block)
      best  == optimal[index]
      wins  == best = NULL \/ kept.blocks[best].bits > bits
  IN  /\ pool' = IF wins THEN Assign(kept, best, block) ELSE kept
      /\ optimal' = IF wins THEN [optimal EXCEPT ![index] = block] ELSE optimal

NextTurn ==
  IF offset < OffsetCeiling(index)
  THEN offset' = offset + 1 /\ UNCHANGED index
  ELSE offset' = 1 /\ index' = index + 1

\* best_length is filled anew for each index.
LengthsTried(n) == best_length_size' = IF offset < OffsetCeiling(index) THEN n ELSE 2

InLoop == index < input_size

RepMatch ==
  /\ pc = "offset" /\ InLoop /\ IsMatch
  /\ IF last_literal[offset] = NULL
     THEN UNCHANGED <<pool, optimal, last_match>>
     ELSE LET literal == Block(last_literal[offset])
              bits    == literal.bits + RepMatchBits(index - literal.index)
          IN  /\ NewBlock(last_match[offset], bits, offset, last_literal[offset])
              /\ last_match' = [last_match EXCEPT ![offset] = NextBlock(pool)]
  /\ pc' = "new offset"
  /\ UNCHANGED <<inputs, job, index, offset, last_literal, match_length, best_length, best_length_size>>

\* The bits of the best parse up to a match of this length that ends here,
\* and of the match's length.
BitsOfLength(length) ==
  Block(optimal[index - length]).bits + EliasGammaBits(length - 1)

\* best_length after the do loop.
BestLengths(longest) ==
  LET Best[n \in Nat] ==
        IF n <= best_length_size THEN best_length[n]
        ELSE IF BitsOfLength(n) <= BitsOfLength(Best[n - 1]) THEN n ELSE Best[n - 1]
  IN  [n \in DOMAIN best_length |->
         IF n \in (best_length_size + 1)..longest THEN Best[n] ELSE best_length[n]]

NewOffset ==
  /\ pc = "new offset"
  /\ LET longest == match_length[offset] + 1
         lengths == BestLengths(longest)
         length  == lengths[longest]
         bits    == Block(optimal[index - length]).bits + NewOffsetBits(offset, length)
         last    == last_match[offset]
     IN  /\ match_length' = [match_length EXCEPT ![offset] = longest]
         /\ IF /\ longest > 1
               /\ last = NULL \/ Block(last).index # index \/ Block(last).bits > bits
            THEN /\ NewBlock(last, bits, offset, optimal[index - length])
                 /\ last_match' = [last_match EXCEPT ![offset] = NextBlock(pool)]
            ELSE UNCHANGED <<pool, optimal, last_match>>
         /\ best_length' = lengths
         /\ LengthsTried(IF longest > best_length_size THEN longest ELSE best_length_size)
  /\ NextTurn
  /\ pc' = "offset"
  /\ UNCHANGED <<inputs, job, last_literal>>

\* Faulty: a mismatch does not end the match.
LiteralsKeepMatch ==
  /\ pc = "offset" /\ InLoop /\ ~IsMatch
  /\ IF last_match[offset] = NULL
     THEN UNCHANGED <<pool, optimal, last_literal>>
     ELSE LET match == Block(last_match[offset])
              bits  == match.bits + LiteralsBits(index - match.index)
          IN  /\ NewBlock(last_literal[offset], bits, 0, last_match[offset])
              /\ last_literal' = [last_literal EXCEPT ![offset] = NextBlock(pool)]
  /\ NextTurn /\ LengthsTried(best_length_size)
  /\ UNCHANGED <<inputs, job, pc, last_match, match_length, best_length>>

Literals ==
  /\ pc = "offset" /\ InLoop /\ ~IsMatch
  /\ match_length' = [match_length EXCEPT ![offset] = 0]
  /\ IF last_match[offset] = NULL
     THEN UNCHANGED <<pool, optimal, last_literal>>
     ELSE LET match == Block(last_match[offset])
              bits  == match.bits + LiteralsBits(index - match.index)
          IN  /\ NewBlock(last_literal[offset], bits, 0, last_match[offset])
              /\ last_literal' = [last_literal EXCEPT ![offset] = NextBlock(pool)]
  /\ NextTurn /\ LengthsTried(best_length_size)
  /\ UNCHANGED <<inputs, job, pc, last_match, best_length>>
=============================================================================
