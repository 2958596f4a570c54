------------------------------- MODULE Machine -------------------------------
(***************************************************************************)
(* The instructions that move data between registers, memory and the PC:   *)
(* MOV, MOVBU, MOVHU, the branches, loops and jumps, CALLS, RETS, RTI,     *)
(* TRAP, INC and INC4 of address registers, and the bit instructions on    *)
(* memory (emulator.cc, execute_insn and the handlers it calls).           *)
(*                                                                         *)
(* An instruction is a form of InsnForms with register numbers and its     *)
(* operand bytes as one number, the displacement below the 8-bit           *)
(* immediate.  A byte has Radix values, so a register has Radix^4; half of *)
(* that width is the PSW's.  Memory is flat, as Mmu implements it: main    *)
(* maps every page readable and writable.  Each step ends with what the    *)
(* loop does to the PC.  Encodings are left out: a step runs any           *)
(* instruction there is, whatever bytes lie at the PC.                     *)
(***************************************************************************)
EXTENDS Operands, Registers, Arith

CONSTANTS
    Radix,        \* values of a byte                        (256)
    PageSize,     \* bytes in a page                         (4096)
    Mapped,       \* the addresses main has mapped
    Nums,         \* register numbers used                   (0 to 3)
    Data(_),      \* number of bytes -> operand values tried (all)
    Beginnings,   \* registers and memory a program may have brought about, count
    MaxInsns,     \* bound on count, the instructions run
    TrapVector,   \* where TRAP goes                         (0x40000010)
    BitAnd(_, _), BitOr(_, _)   \* & and | of the host

\* Values of n bytes, at most the four of a register.
Width(n) == <<1, Radix, Radix * Radix, Radix * Radix * Radix, M>>[n + 1]

ASSUME MachineAssumption ==
    /\ Radix \in Nat \ {0, 1}
    /\ M = Radix * Radix * Radix * Radix
    /\ PageSize \in Nat \ {0}
    /\ Mapped \subseteq Word
    /\ Nums \subseteq 0 .. 3
    /\ \A n \in 0 .. 6 : Data(n) \subseteq Nat
    /\ \A n \in 0 .. 4 : \A val \in Data(n) : val < Width(n)
    /\ MaxInsns \in Nat
    /\ TrapVector \in Word

ASSUME BitwiseAssumption ==
    \A a, b \in Word : BitAnd(a, b) \in Word /\ BitOr(a, b) \in Word

ASSUME BeginningsAssumption ==
    \A b \in Beginnings :
        /\ b.regs \in [Cell -> Word] /\ b.regs[Number("PSW", 0)] < Width(2)
        /\ \A c \in Stray : b.regs[c] = 0
        /\ b.mem \in [Mapped -> 0 .. Radix - 1]
        /\ b.count \in 0 .. MaxInsns

VARIABLES
    regs,    \* Reg::registers
    mem,     \* mapped address -> byte
    ran,     \* the last instruction, and whether an exception ended it
    count    \* how many there were

vars == <<regs, mem, ran, count>>

-----------------------------------------------------------------------------
(* Instructions.                                                           *)

MemoryBits == {f \in Forms : f.op \in Bits /\ Kind(f.kinds, 2) \notin {"D", "none"}}

Handled ==
    MemoryBits \cup
    {f \in Forms : \/ f.op \in Moves \cup Branch \cup Loop
                   \/ f.op \in {"SETLB", "JMP", "CALLS", "RETS", "RTI", "TRAP", "INC4"}
                   \/ f.op = "INC" /\ f.kinds = <<"A">>}

\* Operands without a number have the number 0.  The opcodes of moves from a
\* register to itself are those with an immediate.
Numbered(f) ==
    {nums \in [1 .. Len(f.kinds) -> Nums \cup {0}] :
        /\ \A k \in 1 .. Len(f.kinds) : f.kinds[k] \notin {"D", "A", "MA"} => nums[k] = 0
        /\ RegisterMove(f.kinds) /\ f.kinds[1] = f.kinds[2] => nums[1] # nums[2]}

Insns ==
    UNION {{[form |-> f, nums |-> nums, args |-> args] :
              nums \in Numbered(f), args \in Data(f.arg_sz)} : f \in Handled}

NoInsn == [form |-> CHOOSE f \in Forms : f.op = "NOP", nums |-> <<>>, args |-> 0]

-----------------------------------------------------------------------------
(* Operands.                                                               *)

get(class, n) == Get(regs, class, n, Width(2))
set(r, class, n, val) == Set(r, class, n, val, Width(2))
PC == get("PC", 0)
SP == get("SP", 0)
PSW == get("PSW", 0)

\* get_val of the kth operand: the first four bytes of args for data.
get_val(i, k) ==
    LET kind == i.form.kinds[k]
    IN  IF is_data(kind)
        THEN s_ext(i.args % M, Width(get_arg_sz(kind)))
        ELSE get(kind, i.nums[k])

\* get_val_mem: the sum of the operands that make the address.
Part(i, k) == IF k \in AddressOperands(i.form.kinds) THEN get_val(i, k) ELSE 0
get_val_mem(i) == Wrap(Part(i, 1) + Part(i, 2) + Part(i, 3))

\* The bits of the flags in the PSW.
FlagBit(f) == CASE f = "Z" -> 1 [] f = "N" -> 2 [] f = "C" -> 4 [] f = "V" -> 8
FlagsOf(psw) == {f \in Flag : (psw \div FlagBit(f)) % 2 = 1}
BitIf(f, flags) == IF f \in flags THEN FlagBit(f) ELSE 0
WithFlags(psw, flags) ==
    psw - (psw % 16) + BitIf("Z", flags) + BitIf("N", flags) + BitIf("C", flags) + BitIf("V", flags)

-----------------------------------------------------------------------------
(* Memory.                                                                 *)

Accessible(a, n) == \A k \in 0 .. n - 1 : Wrap(a + k) \in Mapped
Crosses(a, n) == a % PageSize > PageSize - n

Read32(a) ==
    mem[a] + mem[Wrap(a + 1)] * Width(1) + mem[Wrap(a + 2)] * Width(2) + mem[Wrap(a + 3)] * Width(3)

\* A split read of 16 bits loses them.
Read16(a) == IF Crosses(a, 2) THEN 0 ELSE mem[a] + mem[Wrap(a + 1)] * Width(1)

Written(a, val, n) ==
    [b \in Mapped |-> IF Wrap(b - a) < n THEN (val \div Width(Wrap(b - a))) % Radix ELSE mem[b]]

-----------------------------------------------------------------------------
(* How a handler ends.                                                     *)

\* It returns with the registers r: where these have the PC of before, the
\* loop adds the size.
Returns(i, r, m) ==
    /\ regs' = IF r[Number("PC", 0)] = PC THEN set(r, "PC", 0, Wrap(PC + i.form.sz)) ELSE r
    /\ mem' = m
    /\ ran' = [insn |-> i, fault |-> FALSE]

\* Memory throws: nothing catches it before main does.
Throws(i, r) ==
    /\ regs' = r
    /\ mem' = mem
    /\ ran' = [insn |-> i, fault |-> TRUE]

\* An access to n bytes at a throws with the registers r, or goes on.
Accessing(i, a, n, r, rest) ==
    IF Accessible(a, n) THEN rest ELSE Throws(i, r)

Jumps(i, target) == Returns(i, set(regs, "PC", 0, target), mem)

-----------------------------------------------------------------------------
(* The handlers.                                                           *)

Size(op) == CASE op = "MOV" -> 4 [] op = "MOVHU" -> 2 [] op = "MOVBU" -> 1
IsMove(i) == i.form.op \in Moves /\ ~RegisterMove(i.form.kinds)

\* Slip: immediates are sign-extended for every register.
MovedSignExtended(i) == get_val(i, 1)

\* What is moved into a register: only for Dn are immediates sign-extended.
Moved(i) ==
    IF is_imm(i.form.kinds[1]) /\ i.form.kinds[2] # "D" THEN i.args ELSE get_val(i, 1)

\* handle_mov of a register or an immediate.
MovRegister(i) ==
    /\ i.form.op \in Moves /\ RegisterMove(i.form.kinds)
    /\ Returns(i, set(regs, i.form.kinds[2], i.nums[2], Moved(i)), mem)

\* handle_mov from memory: 32 bits are read, the instruction's are kept.
Load(i) ==
    LET last == Len(i.form.kinds)
        addr == get_val_mem(i)
        val  == Read32(addr) % Width(Size(i.form.op))
    IN  /\ IsMove(i) /\ OpLoc(i.form.kinds) = 1
        /\ Accessing(i, addr, 4, regs,
                     Returns(i, set(regs, i.form.kinds[last], i.nums[last], val), mem))

\* handle_mov to memory.
Store(i) ==
    LET addr == get_val_mem(i)
        n    == Size(i.form.op)
    IN  /\ IsMove(i) /\ OpLoc(i.form.kinds) = 2
        /\ Accessing(i, addr, n, regs, Returns(i, regs, Written(addr, get_val(i, 1), n)))

\* handle_jmp, and handle_bcc where the branch is taken: the operand is added
\* to the PC, a register's value like a displacement.
Jmp(i) ==
    /\ i.form.op = "JMP" \/ (i.form.op \in Branch /\ Taken(i.form.op, FlagsOf(PSW)))
    /\ Jumps(i, Wrap(PC + get_val(i, 1)))

BccNotTaken(i) ==
    /\ i.form.op \in Branch /\ ~Taken(i.form.op, FlagsOf(PSW))
    /\ Returns(i, regs, mem)

\* handle_lcc: a loop that ends goes on behind the byte LAR points at.
LoopJump(i) ==
    LET lar == get("LAR", 0)
    IN  /\ i.form.op \in Loop
        /\ Jumps(i, Wrap(IF Loops(i.form.op, FlagsOf(PSW)) THEN lar - 4 ELSE lar + 1))

\* handle_setlb: the word behind the opcode, and the address behind that word.
Setlb(i) ==
    /\ i.form.op = "SETLB"
    /\ Accessing(i, Wrap(PC + 1), 4, regs,
                 Returns(i, set(set(regs, "LIR", 0, Read32(Wrap(PC + 1))), "LAR", 0, Wrap(PC + 5)), mem))

\* handle_calls: MDR is set before the return address is stored.
Calls(i) ==
    LET next   == Wrap(PC + i.form.sz)
        first  == set(regs, "MDR", 0, next)
        target == IF is_data(i.form.kinds[1]) THEN Wrap(PC + i.args) ELSE get("MA", i.nums[1])
    IN  /\ i.form.op = "CALLS"
        /\ Accessing(i, SP, 4, first,
                     Returns(i, set(first, "PC", 0, target), Written(SP, next, 4)))

Rets(i) ==
    /\ i.form.op = "RETS"
    /\ Accessing(i, SP, 4, regs, Jumps(i, Read32(SP)))

\* handle_rti: the PSW is set before the PC is read.
Rti(i) ==
    LET first == set(regs, "PSW", 0, Read16(SP))
        pc    == Wrap(SP + 4)
    IN  /\ i.form.op = "RTI"
        /\ Accessing(i, SP, 2, regs,
             Accessing(i, pc, 4, first,
               Returns(i, set(set(first, "PC", 0, Read32(pc)), "SP", 0, Wrap(SP + 8)), mem)))

Trap(i) ==
    /\ i.form.op = "TRAP"
    /\ Accessing(i, SP, 4, regs,
                 Returns(i, set(regs, "PC", 0, TrapVector), Written(SP, Wrap(PC + 2), 4)))

\* handle_inc of an address register sets no flags.
Inc(i) ==
    /\ i.form.op \in {"INC", "INC4"}
    /\ LET by == IF i.form.op = "INC4" THEN 4 ELSE 1
       IN  Returns(i, set(regs, "A", i.nums[1], Wrap(get("A", i.nums[1]) + by)), mem)

\* handle_btst with memory: it tests the address.
Btst(i) ==
    LET res == BitAnd(get_val(i, 1), get_val_mem(i))
    IN  /\ i.form.op = "BTST"
        /\ Returns(i, set(regs, "PSW", 0, WithFlags(PSW, ZN(res))), mem)

\* handle_bset and handle_bclr: they change the bits of the address, and store
\* its lowest byte there as a word.  The flags are set first.
BitChange(i) ==
    LET s     == get_val(i, 1)
        d     == get_val_mem(i)
        mask  == IF i.form.op = "BCLR" THEN BitAnd(M - 1 - s, d) ELSE BitOr(s, d)
        first == set(regs, "PSW", 0, WithFlags(PSW, FlagsIf("Z", BitAnd(s, d) = 0)))
    IN  /\ i.form.op \in {"BSET", "BCLR"}
        /\ Accessing(i, d, 4, first, Returns(i, first, Written(d, mask % Radix, 4)))

-----------------------------------------------------------------------------
Init ==
    /\ \E b \in Beginnings : regs = b.regs /\ mem = b.mem /\ count = b.count
    /\ ran = [insn |-> NoInsn, fault |-> FALSE]

execute_insn(i) ==
    \/ MovRegister(i) \/ Load(i) \/ Store(i)
    \/ Jmp(i) \/ BccNotTaken(i) \/ LoopJump(i) \/ Setlb(i)
    \/ Calls(i) \/ Rets(i) \/ Rti(i) \/ Trap(i)
    \/ Inc(i) \/ Btst(i) \/ BitChange(i)

\* The loop fetches only where a page is mapped.
Next ==
    /\ count < MaxInsns
    /\ ~ran.fault
    /\ PC \in Mapped
    /\ \E i \in Insns : execute_insn(i)
    /\ count' = count + 1

Spec == Init /\ [][Next]_vars

-----------------------------------------------------------------------------
(* Properties.                                                             *)

\* Registers hold words and the PSW 16 bits, memory holds bytes.
TypeOK ==
    /\ regs \in [Cell -> Word]
    /\ regs[Number("PSW", 0)] < Width(2)
    /\ mem \in [Mapped -> 0 .. Radix - 1]
    /\ ran.fault \in BOOLEAN
    /\ count \in 0 .. MaxInsns

\* No handler sets what is no register: Reg::set takes the number of a memory
\* form as it is, and that of MA3 is one past the end of the array.  Whether
\* one gets there depends on the predicates that tell the kinds apart.
NoStrayRegister == \A c \in Stray : regs[c] = 0

RegisterNames == ({"D", "A"} \X (0 .. 3)) \cup {<<c, 0>> : c \in {"PC", "SP", "MDR", "PSW", "LIR", "LAR"}}

\* Every instruction does what insn_docs/insn_nts.dat says, with the operands of
\* the mnemonic and the widths and extensions given there, and when it faults
\* has stored nothing; the divergences are those Manual names.
Documented == INSTANCE Manual WITH reg <- [x \in RegisterNames |-> regs[Number(x[1], x[2])]]
ImplementsManual == Documented!Spec

\* insn_nts.dat:7914 on JMP (An): "An -> PC".
JumpsToRegister ==
    [][ran'.insn.form.op = "JMP" /\ ran'.insn.form.kinds = <<"MA">> =>
          get("PC", 0)' = get("A", ran'.insn.nums[1])]_vars
==============================================================================
