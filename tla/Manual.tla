-------------------------------- MODULE Manual --------------------------------
(***************************************************************************)
(* What the instruction manual (insn_docs/insn_nts.dat) says of the        *)
(* instructions of Machine, in its own terms: named registers, memory      *)
(* operands with an effective address, the PC.  It knows nothing of        *)
(* argument kinds, of the numbers of registers, of the order in which a    *)
(* handler does things, or of the loop.                                    *)
(*                                                                         *)
(* The manual has no faults: here an instruction ends in one where bytes   *)
(* it needs are not mapped.  What the emulator does otherwise than the     *)
(* manual is named at the end, and Next leaves it open.                    *)
(***************************************************************************)
EXTENDS InsnForms, Arith

CONSTANTS Radix, PageSize, Mapped, TrapVector

VARIABLES
    reg,   \* <<class, number>> -> word
    mem,   \* mapped address -> byte
    ran    \* the instruction just run, and whether it faulted

vars == <<reg, mem, ran>>

PC == reg[<<"PC", 0>>]
SP == reg[<<"SP", 0>>]
LAR == reg[<<"LAR", 0>>]

Width(n) == <<1, Radix, Radix * Radix, Radix * Radix * Radix, M>>[n + 1]

-----------------------------------------------------------------------------
(* Operands.                                                               *)

Size(kind) ==
    CASE kind \in {"imm8", "d8"} -> 1
      [] kind \in {"imm16", "d16", "abs16"} -> 2
      [] kind \in {"imm32", "d32", "abs32"} -> 4
Extended(kind, val) == s_ext(val, Width(Size(kind)))

\* Displacements are sign-extended but from SP, addresses are not, immediates
\* only for Dn.
Operand(i, k) ==
    LET kinds == i.form.kinds
        kind  == kinds[k]
    IN  CASE kind \in {"D", "A"} -> reg[<<kind, i.nums[k]>>]
          [] kind = "MA" -> reg[<<"A", i.nums[k]>>]
          [] kind \in {"SP", "MDR", "PSW"} -> reg[<<kind, 0>>]
          [] kind \in {"d8", "d16", "d32"} ->
                IF "SP" \in {kinds[j] : j \in i.form.mem} THEN i.args ELSE Extended(kind, i.args)
          [] kind \in {"imm8", "imm16", "imm32"} ->
                IF kinds[2] = "D" THEN Extended(kind, i.args) ELSE i.args
          [] OTHER -> i.args

Addend(i, k) == IF k \in i.form.mem THEN Operand(i, k) ELSE 0
EA(i) == Wrap(Addend(i, 1) + Addend(i, 2) + Addend(i, 3))

-----------------------------------------------------------------------------
(* Memory.                                                                 *)

Bytes(a, n) == {Wrap(a + k) : k \in 0 .. n - 1}
Byte(a, k, n) == IF k < n THEN mem[Wrap(a + k)] * Width(k) ELSE 0
MemN(a, n) == Byte(a, 0, n) + Byte(a, 1, n) + Byte(a, 2, n) + Byte(a, 3, n)
Stored(a, val, n) ==
    [b \in Mapped |-> IF b \in Bytes(a, n) THEN (val \div Width(Wrap(b - a))) % Radix ELSE mem[b]]

-----------------------------------------------------------------------------
(* Instructions.                                                           *)

IsLoad(i) == i.form.op \in Moves /\ 1 \in i.form.mem
IsStore(i) == i.form.op \in Moves /\ i.form.mem # {} /\ 1 \notin i.form.mem
OpSize(op) == CASE op = "MOV" -> 4 [] op = "MOVHU" -> 2 [] op = "MOVBU" -> 1

\* The bytes an instruction needs, and those the emulator looks at: a load of
\* one or two bytes reads four.
Needs(i) ==
    CASE IsLoad(i) \/ IsStore(i) -> Bytes(EA(i), OpSize(i.form.op))
      [] i.form.op \in {"CALLS", "RETS", "TRAP"} -> Bytes(SP, 4)
      [] i.form.op = "RTI" -> Bytes(SP, 2) \cup Bytes(Wrap(SP + 4), 4)
      [] i.form.op = "SETLB" -> Bytes(Wrap(PC + 1), 4)
      [] OTHER -> {}
LooksAt(i) == IF IsLoad(i) THEN Bytes(EA(i), 4) ELSE Needs(i)

\* The flags of the PSW, and the loop instructions decide by them as the
\* branches do.
FlagOn(bit) == (reg[<<"PSW", 0>>] \div bit) % 2 = 1
psw == FlagsIf("Z", FlagOn(1)) \cup FlagsIf("N", FlagOn(2))
         \cup FlagsIf("C", FlagOn(4)) \cup FlagsIf("V", FlagOn(8))
BranchOf == [LEQ |-> "BEQ", LNE |-> "BNE", LGT |-> "BGT", LGE |-> "BGE", LLE |-> "BLE",
             LLT |-> "BLT", LHI |-> "BHI", LCC |-> "BCC", LLS |-> "BLS", LCS |-> "BCS",
             LRA |-> "BRA"]

Following(i) == Wrap(PC + i.form.sz)
Target(i) ==
    IF i.form.kinds[1] = "MA" THEN Operand(i, 1) ELSE Wrap(PC + Operand(i, 1))

\* Where the PC goes.
NextPC(i) ==
    LET op == i.form.op
    IN  CASE op \in {"JMP", "CALLS"} -> Target(i)
          [] op \in Branch -> IF Taken(op, psw) THEN Target(i) ELSE Following(i)
          [] op \in Loop -> IF Taken(BranchOf[op], psw) THEN Wrap(LAR - 4) ELSE Following(i)
          [] op = "RETS" -> MemN(SP, 4)
          [] op = "RTI" -> MemN(Wrap(SP + 4), 4)
          [] op = "TRAP" -> TrapVector
          [] OTHER -> Following(i)

Destination(i) ==
    LET last == Len(i.form.kinds)
        kind == i.form.kinds[last]
    IN  IF kind \in {"D", "A"} THEN <<kind, i.nums[last]>> ELSE <<kind, 0>>

\* The registers it may change beside the PC, and whether it stores.
Changes(i) ==
    LET op == i.form.op
    IN  CASE op \in {"INC", "INC4"} \/ (op \in Moves /\ ~IsStore(i)) -> {Destination(i)}
          [] op = "SETLB" -> {<<"LIR", 0>>, <<"LAR", 0>>}
          [] op = "CALLS" -> {<<"MDR", 0>>}
          [] op = "RTI" -> {<<"PSW", 0>>, <<"SP", 0>>}
          [] op \in Bits -> {<<"PSW", 0>>}
          [] OTHER -> {}
MayStore(i) == IsStore(i) \/ i.form.op \in {"CALLS", "TRAP", "BSET", "BCLR"}

\* What it sets them to.
Set(i, x) ==
    LET op == i.form.op
    IN  CASE op = "INC" -> Wrap(reg[x] + 1)
          [] op = "INC4" -> Wrap(reg[x] + 4)
          [] op = "SETLB" -> IF x[1] = "LIR" THEN MemN(Wrap(PC + 1), 4) ELSE Wrap(PC + 5)
          [] op = "CALLS" -> Following(i)
          [] op = "RTI" -> IF x[1] = "PSW" THEN MemN(SP, 2) ELSE Wrap(SP + 8)
          [] IsLoad(i) -> MemN(EA(i), OpSize(op))
          [] OTHER -> Operand(i, 1) % (IF x[1] = "PSW" THEN Width(2) ELSE M)

MemAfter(i) ==
    CASE IsStore(i) -> Stored(EA(i), Operand(i, 1), OpSize(i.form.op))
      [] i.form.op = "CALLS" -> Stored(SP, Following(i), 4)
      [] i.form.op = "TRAP" -> Stored(SP, Wrap(PC + 2), 4)
      [] OTHER -> mem

Runs(i) ==
    /\ Needs(i) \subseteq Mapped
    /\ ~ran'.fault
    /\ reg' = [x \in DOMAIN reg |-> IF x = <<"PC", 0>> THEN NextPC(i)
                                   ELSE IF x \in Changes(i) THEN Set(i, x) ELSE reg[x]]
    /\ mem' = MemAfter(i)

\* The manual is silent on these; no more than MDR and the PSW are lost.
Faults(i) ==
    /\ ~(LooksAt(i) \subseteq Mapped)
    /\ ran'.fault
    /\ \A x \in DOMAIN reg \ (Changes(i) \cap {<<"MDR", 0>>, <<"PSW", 0>>}) : reg'[x] = reg[x]
    /\ mem' = mem

-----------------------------------------------------------------------------
(* Where the emulator goes its own way.                                    *)

Negative(i, k) == Extended(i.form.kinds[k], i.args) # i.args

\* get_val sign-extends an abs16 and the displacements from SP.
ExtendsAddress(i) ==
    LET kinds == i.form.kinds
    IN  i.form.op \in Moves /\ \E k \in i.form.mem :
          /\ kinds[k] = "abs16" \/ (kinds[k] \in {"d8", "d16"} /\ "SP" \in {kinds[j] : j \in i.form.mem})
          /\ Negative(i, k)

\* CALLS does not sign-extend its displacement, JMP (An) adds An to the PC.
OtherTarget(i) ==
    \/ i.form.op = "CALLS" /\ i.form.kinds[1] = "d16" /\ Negative(i, 1)
    \/ i.form.op = "JMP" /\ i.form.kinds[1] = "MA"

\* A loop instruction goes on at LAR + 1, and LGT and LHI go back when BGT and
\* BHI would not branch.
OtherLoop(i) == i.form.op \in Loop /\ ~Taken(BranchOf[i.form.op], psw)

\* What sets the PC to what it was has, for the loop, not set it.
JumpsToItself(i) == Needs(i) \subseteq Mapped /\ NextPC(i) = PC

\* RTI reads 0 for a PSW that lies across a page boundary.
SplitsPSW(i) == i.form.op = "RTI" /\ SP % PageSize = PageSize - 1

Deviates(i) ==
    \/ i.form.op \in Bits
    \/ ExtendsAddress(i) \/ OtherTarget(i) \/ OtherLoop(i) \/ JumpsToItself(i) \/ SplitsPSW(i)

\* Even then it changes nothing but what it is there to change.
Strays(i) ==
    /\ Deviates(i)
    /\ \A x \in DOMAIN reg \ (Changes(i) \cup {<<"PC", 0>>}) : reg'[x] = reg[x]
    /\ MayStore(i) \/ mem' = mem

Init == ~ran.fault

Next == LET i == ran'.insn IN Runs(i) \/ Faults(i) \/ Strays(i)

Spec == Init /\ [][Next]_vars
==============================================================================
