------------------------------ MODULE Registers ------------------------------
(***************************************************************************)
(* The register file (registers.cc, registers.h): an array indexed by the  *)
(* number ArgKind (instruction.h) gives a register.  MA0-MA3, the memory   *)
(* forms of A0-A3, have numbers too; that of MA3 is the array's size.      *)
(***************************************************************************)
EXTENDS Integers

\* ArgKind, the nth register of a class.
Number(class, n) ==
    CASE class = "D"   -> 1 + n
      [] class = "A"   -> 5 + n
      [] class = "PC"  -> 9
      [] class = "SP"  -> 10
      [] class = "MDR" -> 11
      [] class = "PSW" -> 12
      [] class = "LIR" -> 13
      [] class = "LAR" -> 14
      [] class = "MA"  -> 15 + n

mem_reg_off == Number("SP", 0)
num_reg == Number("MA", 3)

\* The array, and the word behind it.
Cell == 0 .. num_reg

\* Cells that are no register: that of ArgKind::NONE, those with the numbers
\* of memory forms and the word behind the array.
Stray == {0} \cup {Number("MA", n) : n \in 0 .. 3}

\* The 16 bits of the PSW, of which half the width of a register is kept.
Masked(class, val, halfword) == IF class = "PSW" THEN val % halfword ELSE val

\* Reg::get turns a memory form into its register.
Get(regs, class, n, halfword) ==
    Masked(class, regs[Number(class, n) - (IF class = "MA" THEN mem_reg_off ELSE 0)], halfword)

\* Slip: the PSW is not cut to 16 bits.
SetUnmasked(regs, class, n, val, halfword) == [regs EXCEPT ![Number(class, n)] = val]

\* Reg::set does not.
Set(regs, class, n, val, halfword) ==
    [regs EXCEPT ![Number(class, n)] = Masked(class, val, halfword)]

==============================================================================
