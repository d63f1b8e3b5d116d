----------------------------- MODULE MCRuntime -----------------------------
(***************************************************************************)
(* Runtime for all small files: every even site of a short image, both     *)
(* layouts, sound and unsound headers, and one image long enough for an    *)
(* escape to use several digits.                                           *)
(***************************************************************************)
EXTENDS Runtime, TLC

\* Ascending sequences of up to two sites of a hunk of code bytes.
SitesIn(code) ==
  LET even == {s \in 0 .. code - 4 : s % 2 = 0}
  IN  {<<>>} \cup {<<s>> : s \in even}
      \cup {pair \in even \X even : pair[1] < pair[2]}

FilesOf(code, sites) ==
  [code : {code}, bss : {0, 8}, sites : sites, payload : {1, 6}, margin : {0, 7},
   overlap : BOOLEAN, sound : {TRUE}, allocates : {FALSE}]

\* The sites of a file decide its stream.
Encoded(f) == [stream |-> EncodeRelocStream(f.sites)] @@ f

MCFiles == {Encoded(f) : f \in
  UNION {FilesOf(code, SitesIn(code)) : code \in {4, 12}}
  \cup FilesOf(44, {<<40>>, <<2, 38>>})
  \cup [code : {8}, bss : {4}, sites : {<<>>, <<4>>}, payload : {3}, margin : {6},
        overlap : BOOLEAN, sound : BOOLEAN, allocates : BOOLEAN]}
=============================================================================
