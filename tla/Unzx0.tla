-------------------------------- MODULE Unzx0 --------------------------------
(***************************************************************************)
(* The ZX0 depackers that run on the Amiga, at the level of their basic    *)
(* blocks: stubs/zx0/unzx0_68000.s and, where it differs, its unrolled     *)
(* fork unzx0_68000_fast.s.  The queue of bits is a byte whose lowest set  *)
(* bit marks its end, so that shifting out the last bit leaves zero.       *)
(***************************************************************************)
EXTENDS Zx0Format

VARIABLES
  stream,   \* the coded bytes
  cpu       \* the label reached, the registers, and the bytes written
            \* through a1; `return' is the address bsr pushed

InitCpu == cpu = [label |-> "idle"]

\* Depack called for the bytes at a0.
CallDepack(fast) ==
  cpu' = [label |-> "literals", return |-> "none", fast |-> fast,
          d0 |-> 0, d1 |-> Half, d2 |-> Long - 1, a0 |-> 1, a1 |-> <<>>]

\* addx.l d0,d0, or addx.w d0,d0 in the fast one.
Rotated(value, bit) ==
  IF cpu.fast THEN (value \div Word) * Word + ((2 * value + bit) % Word)
              ELSE (2 * value + bit) % Long

At(labels) == cpu.label \in labels

GetElias(label, initial, return) ==
  /\ At({label})
  /\ cpu' = [cpu EXCEPT !.d0 = initial, !.label = "elias_loop", !.return = return]

LiteralsLength == GetElias("literals", 1, "copy_lits")
RepMatchLength == GetElias("rep_match", 1, "do_copy")
GetOffset      == GetElias("get_offset", Long - 2, "got_offset")

\* Faulty: add where the code has addx, and the mark is lost.
EliasLoopNoMark ==
  /\ At({"elias_loop"})
  /\ LET left  == Shifted(cpu.d1)
         empty == left = 0
         next  == stream[cpu.a0]
         bit   == IF empty THEN TopBit(next) ELSE TopBit(cpu.d1)
     IN  cpu' = [cpu EXCEPT
           !.d1 = IF empty THEN Shifted(next) ELSE left,
           !.a0 = IF empty THEN @ + 1 ELSE @,
           !.label = IF bit = 1 THEN cpu.return ELSE "elias_bt"]

\* .elias_loop: a control bit, taken from the next byte when the queue only
\* held the mark; addx then shifts the mark back in below.
EliasLoop ==
  /\ At({"elias_loop"})
  /\ LET left  == Shifted(cpu.d1)
         empty == left = 0
         next  == stream[cpu.a0]
         bit   == IF empty THEN TopBit(next) ELSE TopBit(cpu.d1)
     IN  cpu' = [cpu EXCEPT
           !.d1 = IF empty THEN (Shifted(next) + TopBit(cpu.d1)) % Byte ELSE left,
           !.a0 = IF empty THEN @ + 1 ELSE @,
           !.label = IF bit = 1 THEN cpu.return ELSE "elias_bt"]

\* .elias_bt: a data bit; no test for an empty queue.
EliasBit ==
  /\ At({"elias_bt"})
  /\ cpu' = [cpu EXCEPT !.d0 = Rotated(@, TopBit(cpu.d1)), !.d1 = Shifted(@),
                        !.label = "elias_loop"]

\* subq #1,d0 and a dbf loop count down the low word only.
DbfTurns(count) == (count % Word) + 1

Less1(value) == IF cpu.fast THEN (value \div Word) * Word + ((value - 1) % Word)
                            ELSE (value - 1) % Long

CopyLits ==
  /\ At({"copy_lits"})
  /\ LET n == DbfTurns(Less1(cpu.d0))
     IN  cpu' = [cpu EXCEPT !.a0 = @ + n, !.d1 = Shifted(@),
                   !.a1 = @ \o SubSeq(stream, cpu.a0, cpu.a0 + n - 1),
                   !.label = IF TopBit(cpu.d1) = 1 THEN "get_offset" ELSE "rep_match"]

\* d2 is negative: the distance back from a1.
Distance(d2) == Long - d2

Copy(n) == [cpu EXCEPT !.a1 = CopiedFrom(@, Distance(cpu.d2), n), !.d1 = Shifted(@),
                       !.label = IF TopBit(cpu.d1) = 1 THEN "get_offset" ELSE "literals"]

\* Faulty: the count is lowered for a match with an offset too.
CopyMatchLess1 == At({"do_copy_offs"}) /\ cpu' = Copy(DbfTurns(Less1(cpu.d0)))

CopyRepMatch == At({"do_copy"}) /\ cpu' = Copy(DbfTurns(Less1(cpu.d0)))
CopyMatch    == At({"do_copy_offs"}) /\ cpu' = Copy(DbfTurns(cpu.d0))

\* The fast one's .do_copy_offs2: two bytes, without a loop.
CopyTwo == At({"do_copy_offs2"}) /\ cpu' = Copy(2)

\* The complement of the offset's high byte is in d0; its low byte, and the
\* first bit of the match's length below it, are next.
GotOffset ==
  /\ At({"got_offset"})
  /\ LET high  == (cpu.d0 + 1) % Byte
         low   == stream[cpu.a0]
         d2    == (cpu.d2 \div Word) * Word + high * Byte + low
         short == IF cpu.fast THEN "do_copy_offs2" ELSE "do_copy_offs"
     IN  cpu' = IF high = 0 THEN [cpu EXCEPT !.label = "done"]
                ELSE [cpu EXCEPT !.d0 = 1, !.a0 = @ + 1,
                        !.d2 = (Long \div 2) * TopBit(cpu.d2 \div (Long \div Byte)) + d2 \div 2,
                        !.label = IF low % 2 = 1 THEN short ELSE "elias_bt",
                        !.return = "do_copy_offs"]

CpuNext ==
  \/ LiteralsLength \/ RepMatchLength \/ GetOffset
  \/ EliasLoop \/ EliasBit
  \/ CopyLits \/ CopyRepMatch \/ CopyMatch \/ CopyTwo
  \/ GotOffset
=============================================================================
