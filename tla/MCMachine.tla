------------------------------ MODULE MCMachine ------------------------------
(* Machine for TLC: bytes of four values, so that a register has 256 and the *)
(* PSW its four flags.  Two pages of 16 bytes are mapped at the bottom of the *)
(* address space and one at its top.                                          *)
EXTENDS Machine, Bitwise

MCRadix == 4
MCHalf == 128
MCPageSize == 16
MCMapped == 0 .. 31 \cup 240 .. 255
MCNums == {0, 3}
MCTrapVector == 20
MCAnd(a, b) == a & b
MCOr(a, b) == a | b

\* For each size a distance that stays on the mapped pages and a value with the
\* sign, and zero.
MCData(n) ==
    CASE n = 1 -> {0, 1, 3}
      [] n = 2 -> {5, 13}
      [] n = 3 -> {5 + 2 * 16}     \* an address and an immediate
      [] n = 4 -> {9, 253}
      [] n = 5 -> {253 + 2 * 256}
      [] OTHER -> {0}

\* Sixteen beginnings, one for each PSW; the pointers lie in the middle, near
\* the end and at the end of pages.  One instruction is run from each of them,
\* two from the first.
Pointers == <<8, 14, 15, 28, 30, 2, 242, 253>>
Pointer(k) == Pointers[1 + (k % 8)]
Beginning(psw) ==
    [regs |-> [c \in Cell |->
        CASE c \in Stray -> 0
          [] c = Number("D", 0) -> 0
          [] c = Number("D", 3) -> 137 + psw
          [] c = Number("A", 0) -> Pointer(psw)
          [] c = Number("A", 3) -> Pointer(psw \div 2 + 3)
          [] c = Number("PC", 0) -> Pointer(3 * psw + 2)
          [] c = Number("SP", 0) -> Pointer(5 * psw + psw \div 8)
          [] c = Number("LAR", 0) -> Pointer(psw + 5)
          [] c = Number("PSW", 0) -> psw
          [] OTHER -> 100 + c],
     mem |-> [a \in MCMapped |-> (3 * a + a \div 4 + a \div 16) % 4],
     count |-> IF psw = 0 THEN 0 ELSE 1]
MCBeginnings == {Beginning(psw) : psw \in 0 .. 15}
==============================================================================
