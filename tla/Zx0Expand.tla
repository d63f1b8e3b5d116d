------------------------------ MODULE Zx0Expand ------------------------------
(***************************************************************************)
(* salvador_vendor/expand.c: the host's ZX0 decoder, with which packing    *)
(* checks what it has compressed.  It may be called with an output buffer  *)
(* of the right size only, and gives up on a stream that would leave it.   *)
(***************************************************************************)
EXTENDS Zx0Format

VARIABLES
  stream,   \* the coded bytes
  host      \* the place reached, and the locals

InitHost == host = [label |-> "idle"]

CallExpand(capacity) ==
  host' = [label |-> "command", return |-> "none", first |-> TRUE, capacity |-> capacity,
           pos |-> 1, mask |-> 0, bits |-> 0, bit |-> 0,
           value |-> 0, inverted |-> FALSE, offset |-> 1, out |-> <<>>]

InputEnds(h) == h.pos > Len(stream)

\* salvador_read_bit(): -1 when the input has ended.
ReadBit(h) ==
  IF h.mask = 0 /\ InputEnds(h) THEN [h EXCEPT !.bit = -1]
  ELSE LET loaded == IF h.mask = 0 THEN [h EXCEPT !.bits = stream[h.pos], !.pos = @ + 1, !.mask = Half]
                                   ELSE h
       IN  [loaded EXCEPT !.bit = TopBit(loaded.bits), !.bits = Shifted(@), !.mask = @ \div 2]

\* A bit of a value, after the control bit that announced it.
ReadDataBit(h) ==
  LET read == ReadBit(h)
      bit  == IF h.inverted THEN 1 - read.bit ELSE read.bit
  IN  [read EXCEPT !.value = IF read.bit = -1 THEN -1 ELSE 2 * @ + bit, !.label = "elias"]

Call(h, inverted, return) ==
  [h EXCEPT !.value = 1, !.inverted = inverted, !.label = "elias", !.return = return]

Reached(label) == host.label = label
Error(h)       == [h EXCEPT !.label = "error"]

\* The bit that tells a match with an offset from what else may follow.
Branch(h, otherwise) ==
  LET read == ReadBit(h)
  IN  IF read.bit = -1 THEN Error(read)
      ELSE IF read.bit = 1 THEN Call(read, TRUE, "offset") ELSE Call(read, FALSE, otherwise)

Command ==
  /\ Reached("command")
  /\ host' = IF host.first THEN Call([host EXCEPT !.first = FALSE], FALSE, "literals")
                           ELSE Branch(host, "literals")

\* One turn of salvador_read_elias() and of its inverted sibling.
ReadElias ==
  /\ Reached("elias")
  /\ LET control == ReadBit(host)
     IN  host' = IF control.bit = 0 THEN ReadDataBit(control)
                                    ELSE [control EXCEPT !.label = host.return]

CopyLiterals ==
  /\ Reached("literals")
  /\ LET n    == host.value
         fits == /\ host.pos + n <= Len(stream) + 1
                 /\ Len(host.out) + n <= host.capacity
         done == [host EXCEPT !.out = @ \o SubSeq(stream, host.pos, host.pos + n - 1),
                              !.pos = @ + n]
     IN  host' = IF fits THEN Branch(done, "rep match") ELSE Error(host)

\* salvador_read_elias_prefix(): the first control bit is the low byte's.
ReadOffset ==
  /\ Reached("offset")
  /\ LET low  == stream[host.pos]
         read == [host EXCEPT !.pos = @ + 1, !.value = 1, !.inverted = FALSE, !.return = "match",
                    !.offset = (host.value - 1) * Half + (Half - 1 - low \div 2) + 1]
     IN  host' = IF host.value = Byte THEN [host EXCEPT !.label = "done"]
                 ELSE IF InputEnds(host) THEN Error(host)
                 ELSE IF low % 2 = 1 THEN [read EXCEPT !.label = "match"]
                 ELSE ReadDataBit(read)

CopyMatch ==
  /\ Reached("match") \/ Reached("rep match")
  /\ LET n    == IF Reached("match") THEN host.value + 1 ELSE host.value
         fits == host.offset <= Len(host.out) /\ Len(host.out) + n <= host.capacity
     IN  host' = IF fits THEN [host EXCEPT !.out = CopiedFrom(@, host.offset, n), !.label = "command"]
                         ELSE Error(host)

HostNext == Command \/ ReadElias \/ CopyLiterals \/ ReadOffset \/ CopyMatch
=============================================================================
