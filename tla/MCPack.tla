------------------------------- MODULE MCPack -------------------------------
(***************************************************************************)
(* Pack for programs in one and two kinds of memory and one or two         *)
(* backends.  Sizes are a few bytes either side of where the layouts cost  *)
(* the same; times of one and two seconds are either side of the flash     *)
(* threshold, alone or added up.                                           *)
(***************************************************************************)
EXTENDS Pack

Of(attr, code, bss, stream) == [attr |-> attr, image |-> [code |-> code, bss |-> bss, stream |-> stream]]

Single == {<<Of("any", 16, 4, 1)>>, <<Of("chip", 4, 0, 3)>>, <<Of("fast", 16, 20, 3)>>}
Double == {<<Of("chip", 16, 0, 3), Of("any", 0, 12, 1)>>, <<Of("any", 8, 4, 1), Of("fast", 20, 0, 4)>>}

MCInputs == Single \cup Double

Option(names, overlap, flash, mem) == [names |-> names, overlap |-> overlap, flash |-> flash, mem |-> mem]

MCOptions ==
  {Option(<<"store">>, overlap, flash, mem) :
     overlap \in {"on", "off", "auto"}, flash \in {"off", "auto"}, mem \in {"none", "chip", "fast"}}
  \cup {Option(<<"zultra", "salvador">>, "auto", "on", "none")}
=============================================================================
