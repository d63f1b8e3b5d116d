--------------------------- MODULE MCMixedRuntime ---------------------------
(***************************************************************************)
(* MixedRuntime for files of one, two and three residents in every mixture *)
(* of layouts, with pointers forwards, backwards and within a region, a    *)
(* region of BSS alone, and sites far enough apart for an escape.          *)
(***************************************************************************)
EXTENDS MixedRuntime

MCPart(code, bss, sites, payload, margin, overlap, allocates) ==
  [code |-> code, bss |-> bss, sites |-> sites, stream |-> EncodeGroupStream(sites),
   payload |-> payload, margin |-> margin, overlap |-> overlap, allocates |-> allocates]

At(o, t) == [offset |-> o, target |-> t]

SitesTo(targets) ==
  {<<At(0, t)>> : t \in targets} \cup {<<At(2, t), At(20, u)>> : t \in targets, u \in targets}

Ones == {<<MCPart(24, bss, sites, 5, margin, overlap, FALSE)>> :
           bss \in {0, 4}, sites \in {<<>>} \cup SitesTo({0}), margin \in {0, 30}, overlap \in BOOLEAN}

Twos ==
  {<<MCPart(24, 0, sites, 3, 6, o1, FALSE), MCPart(8, 8, <<At(4, 0)>>, 6, 2, o2, FALSE)>> :
     sites \in SitesTo(0 .. 1), o1 \in BOOLEAN, o2 \in BOOLEAN}
  \cup {<<MCPart(4, 0, <<At(0, 1)>>, 3, 0, TRUE, allocates), MCPart(0, 12, <<>>, 1, 0, o, allocates)>> :
          o \in BOOLEAN, allocates \in BOOLEAN}

Threes ==
  {<<MCPart(8, 0, <<At(0, 2), At(4, 1)>>, 4, 3, o1, FALSE), MCPart(24, 4, sites, 7, 9, o2, FALSE),
     MCPart(4, 0, <<At(0, 1)>>, 2, 1, o1, FALSE)>> :
     sites \in {<<At(0, 0), At(0, 2)>>, <<At(2, 2), At(18, 0)>>}, o1 \in BOOLEAN, o2 \in BOOLEAN}

MCFiles == Ones \cup Twos \cup Threes
=============================================================================
