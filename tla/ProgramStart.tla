---------------------------- MODULE ProgramStart ----------------------------
(***************************************************************************)
(* What the user of a packed executable is promised, and gets from         *)
(* AmigaDOS with the original one: at some point the program starts, on    *)
(* memory that holds exactly its relocated code and data and its zeroed    *)
(* BSS, owning no other memory; when it exits that memory is freed.  A     *)
(* file that is not sound may fail to start, but never starts wrong.       *)
(***************************************************************************)
VARIABLES
  image,     \* the memory the program should start on
  memory,    \* the memory it sees, empty while it is not running
  state,     \* "loading", "running" or "exited"
  residents, \* the blocks it lives in
  owned      \* the blocks the process owns

startVars == <<image, memory, state, residents, owned>>

Init ==
  /\ state = "loading"
  /\ memory = <<>>
  /\ residents \subseteq owned

\* Whatever else was allocated to get here is given back.
Begin ==
  /\ state = "loading"
  /\ state' = "running"
  /\ memory' = image
  /\ owned' = residents
  /\ UNCHANGED <<image, residents>>

Exit ==
  /\ state = "running"
  /\ state' = "exited"
  /\ owned' = {}
  /\ memory' = <<>>
  /\ UNCHANGED <<image, residents>>

Next == Begin \/ Exit

Spec == Init /\ [][Next]_startVars
=============================================================================
