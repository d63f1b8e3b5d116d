--------------------------- MODULE DepackContract ---------------------------
(***************************************************************************)
(* What stubs/common/runtime.i asks of every backend's Depack, whatever    *)
(* the layout: starting from nothing it produces the bytes code_data ++    *)
(* reloc_stream one by one, it never loses a byte it has produced, and it  *)
(* returns only when all of them are there.                                *)
(***************************************************************************)
EXTENDS Naturals

VARIABLES
  size,              \* length of code_data ++ reloc_stream
  produced,          \* the output offsets that hold their final byte
  returned           \* Depack has executed its rts

contractVars == <<size, produced, returned>>

Init == size \in Nat /\ produced = {} /\ returned = FALSE

Produce ==
  /\ ~returned
  /\ \E at \in 0 .. size - 1 : produced' = produced \cup {at}
  /\ UNCHANGED <<size, returned>>

Return ==
  /\ ~returned
  /\ produced = 0 .. size - 1
  /\ returned' = TRUE
  /\ UNCHANGED <<size, produced>>

Next == Produce \/ Return

Spec == Init /\ [][Next]_contractVars
=============================================================================
