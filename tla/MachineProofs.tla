---------------------------- MODULE MachineProofs ----------------------------
(***************************************************************************)
(* Theorems about the instructions on registers, memory and the PC, for    *)
(* bytes of any width, pages of any size and any mapped addresses: they    *)
(* set registers only, to words, and implement the instruction manual.     *)
(***************************************************************************)
EXTENDS Machine, TLAPS

-----------------------------------------------------------------------------
(* Words and bytes.                                                        *)

LEMMA Widths ==
    /\ Radix \in Nat /\ Radix >= 2 /\ M \in Nat /\ M > 0 /\ Half \in Nat /\ M = 2 * Half
    /\ Width(0) = 1 /\ Width(1) = Radix /\ Width(4) = M
    /\ Width(2) = Width(1) * Radix /\ Width(3) = Width(2) * Radix /\ M = Width(3) * Radix
    /\ M = Width(2) * Width(2)
    /\ \A n \in 0 .. 4 : Width(n) \in Nat \ {0} /\ Width(n) <= M
    /\ Width(2) >= 4
<1>1. /\ Radix \in Nat /\ Radix >= 2 /\ Half \in Nat /\ Half > 0 /\ M = 2 * Half
      /\ M = Radix * Radix * Radix * Radix
  BY MachineAssumption, HalfAssumption DEF M
<1>2. /\ Width(0) = 1 /\ Width(1) = Radix /\ Width(2) = Radix * Radix
      /\ Width(3) = Radix * Radix * Radix /\ Width(4) = M
  BY DEF Width
<1>3. \A a \in Nat, r \in Nat : a >= 1 /\ r >= 2 => a * r \in Nat /\ a * r >= a + a
  OBVIOUS
<1>4. Width(2) \in Nat /\ Width(2) >= Radix + Radix
  BY <1>1, <1>2, <1>3
<1>5. Width(3) \in Nat /\ Width(3) >= Width(2) + Width(2) /\ Width(3) = Width(2) * Radix
  BY <1>1, <1>2, <1>3, <1>4
<1>6. M \in Nat /\ M >= Width(3) + Width(3) /\ M = Width(3) * Radix
  BY <1>1, <1>2, <1>3, <1>5
<1>7. M = Width(2) * Width(2)
  <2>1. \A a \in Nat, r \in Nat : (a * r) * r = a * (r * r)
    OBVIOUS
  <2> QED
    BY <1>1, <1>2, <1>4, <1>5, <1>6, <2>1
<1>8. \A n \in 0 .. 4 : n = 0 \/ n = 1 \/ n = 2 \/ n = 3 \/ n = 4
  OBVIOUS
<1>9. \A n \in 0 .. 4 : Width(n) \in Nat \ {0} /\ Width(n) <= M
  BY <1>1, <1>2, <1>4, <1>5, <1>6, <1>8
<1> HIDE DEF Width, M
<1> QED
  BY <1>1, <1>2, <1>4, <1>5, <1>6, <1>7, <1>9

LEMMA Words ==
    /\ \A i \in Int : Wrap(i) \in Word
    /\ \A i \in Word : i \in Nat /\ i < M /\ Wrap(i) = i
    /\ 0 \in Word /\ 1 \in Word
BY Widths DEF Wrap, Word

\* s_ext of what lies in a word is a word; that of a whole word is itself.
LEMMA Extended ==
    ASSUME NEW i \in Word, NEW n \in Nat \ {0}, n <= M
    PROVE  s_ext(i, n) \in Word /\ (n = M => s_ext(i, n) = i)
<1>1. i \in Nat /\ i < M /\ M \in Nat
  BY Widths DEF Word
<1>2. i % n \in Nat /\ i % n < n
  BY <1>1
<1>3. n = M => i % n = i
  BY <1>1
<1> QED
  BY <1>1, <1>2, <1>3 DEF s_ext, Word

-----------------------------------------------------------------------------
(* The register file.                                                      *)

IsReg(c, n) ==
    \/ c \in {"D", "A"} /\ n \in 0 .. 3
    \/ c \in {"PC", "SP", "MDR", "PSW", "LIR", "LAR"} /\ n = 0

\* The array between two instructions: words in the registers, sixteen bits in
\* the PSW, and nothing in the cells that are no register.
RegsOK(r) ==
    /\ r \in [Cell -> Word]
    /\ r[Number("PSW", 0)] < Width(2)
    /\ \A c \in Stray : r[c] = 0

LEMMA Numbers ==
    /\ \A n \in 0 .. 3 : Number("D", n) = 1 + n /\ Number("A", n) = 5 + n /\ Number("MA", n) = 15 + n
    /\ Number("PC", 0) = 9 /\ Number("SP", 0) = 10 /\ Number("MDR", 0) = 11
    /\ Number("PSW", 0) = 12 /\ Number("LIR", 0) = 13 /\ Number("LAR", 0) = 14
    /\ Cell = 0 .. 18 /\ Stray = {0, 15, 16, 17, 18} /\ mem_reg_off = 10
<1>1. /\ \A n \in 0 .. 3 : Number("D", n) = 1 + n /\ Number("A", n) = 5 + n /\ Number("MA", n) = 15 + n
      /\ Number("PC", 0) = 9 /\ Number("SP", 0) = 10 /\ Number("MDR", 0) = 11
      /\ Number("PSW", 0) = 12 /\ Number("LIR", 0) = 13 /\ Number("LAR", 0) = 14
  BY DEF Number
<1>2. {Number("MA", n) : n \in 0 .. 3} = {15, 16, 17, 18}
  BY <1>1
<1> QED
  BY <1>1, <1>2 DEF Cell, Stray, num_reg, mem_reg_off

LEMMA RegisterCells ==
    ASSUME NEW c, NEW n, IsReg(c, n)
    PROVE  /\ Number(c, n) \in Cell /\ Number(c, n) \notin Stray /\ Number(c, n) \in Nat
           /\ (Number(c, n) = Number("PSW", 0)) <=> c = "PSW"
           /\ (Number(c, n) = Number("PC", 0)) <=> c = "PC"
           /\ \A b, k : IsReg(b, k) /\ Number(b, k) = Number(c, n) => b = c /\ k = n
BY Numbers DEF IsReg

LEMMA GetReg ==
    ASSUME NEW r, RegsOK(r), NEW c, NEW n, IsReg(c, n)
    PROVE  Get(r, c, n, Width(2)) = r[Number(c, n)] /\ r[Number(c, n)] \in Word
<1>1. r[Number(c, n)] \in Word
  BY RegisterCells DEF RegsOK
<1>2. Get(r, c, n, Width(2)) = Masked(c, r[Number(c, n)], Width(2))
  BY RegisterCells DEF Get, IsReg
<1>3. Masked(c, r[Number(c, n)], Width(2)) = r[Number(c, n)]
  <2>1. CASE c = "PSW"
    BY <1>1, <2>1, Words, Widths DEF RegsOK, Masked, IsReg
  <2>2. CASE c # "PSW"
    BY <2>2 DEF Masked
  <2> QED
    BY <2>1, <2>2
<1> QED
  BY <1>1, <1>2, <1>3

\* A memory form is read as its register.
LEMMA GetMA ==
    ASSUME NEW r, RegsOK(r), NEW n \in 0 .. 3
    PROVE  Get(r, "MA", n, Width(2)) = r[Number("A", n)] /\ r[Number("A", n)] \in Word
<1>1. r[Number("A", n)] \in Word
  BY RegisterCells DEF RegsOK, IsReg
<1>2. Number("MA", n) - mem_reg_off = Number("A", n)
  BY Numbers
<1> QED
  BY <1>1, <1>2 DEF Get, Masked

LEMMA SetAny ==
    ASSUME NEW r, RegsOK(r), NEW c, NEW n, IsReg(c, n), NEW v \in Nat, c # "PSW" => v \in Word
    PROVE  /\ RegsOK(set(r, c, n, v))
           /\ set(r, c, n, v)[Number(c, n)] = IF c = "PSW" THEN v % Width(2) ELSE v
           /\ \A x \in Cell : x # Number(c, n) => set(r, c, n, v)[x] = r[x]
<1>1. Masked(c, v, Width(2)) \in Word /\ (c = "PSW" => Masked(c, v, Width(2)) < Width(2))
  <2>1. CASE c = "PSW"
    <3>1. Width(2) \in Nat \ {0} /\ Width(2) <= M /\ M \in Nat
      BY Widths
    <3>2. v % Width(2) \in Nat /\ v % Width(2) < Width(2)
      BY <3>1
    <3> QED
      BY <2>1, <3>1, <3>2 DEF Masked, Word
  <2>2. CASE c # "PSW"
    BY <2>2 DEF Masked
  <2> QED
    BY <2>1, <2>2
<1>2. /\ set(r, c, n, v) \in [Cell -> Word]
      /\ set(r, c, n, v)[Number(c, n)] = Masked(c, v, Width(2))
      /\ \A x \in Cell : x # Number(c, n) => set(r, c, n, v)[x] = r[x]
  BY <1>1, RegisterCells DEF set, Set, RegsOK
<1>3. Number("PSW", 0) \in Cell /\ Stray \subseteq Cell
  BY Numbers
<1>4. set(r, c, n, v)[Number("PSW", 0)] < Width(2)
  BY <1>1, <1>2, <1>3, RegisterCells DEF RegsOK
<1>5. \A x \in Stray : set(r, c, n, v)[x] = 0
  BY <1>2, <1>3, RegisterCells DEF RegsOK
<1> QED
  BY <1>1, <1>2, <1>4, <1>5 DEF RegsOK, Masked

LEMMA SetReg ==
    ASSUME NEW r, RegsOK(r), NEW c, NEW n, IsReg(c, n), NEW v \in Word
    PROVE  /\ RegsOK(set(r, c, n, v))
           /\ set(r, c, n, v)[Number(c, n)] = IF c = "PSW" THEN v % Width(2) ELSE v
           /\ \A x \in Cell : x # Number(c, n) => set(r, c, n, v)[x] = r[x]
BY Words, SetAny

-----------------------------------------------------------------------------
(* The forms of the instructions.                                          *)

Registers == {"D", "A", "SP", "MDR", "PSW"}
General == {"D", "A", "SP"}

\* The address of a move is one of these or begins with one of those.
Single == {"abs16", "abs32", "MA"}
Displacement == {"d8", "d16", "d32", "D"}
Based(a, b) == a = "D" => b = "A"

RegisterForm(f) ==
    /\ f.op = "MOV" /\ f.mem = {}
    /\ \E k \in Registers \cup {"imm8", "imm16", "imm32"}, r \in Registers :
          f.kinds = <<k, r>> /\ f.arg_sz = get_arg_sz(k)

LoadForm(f) ==
    /\ f.op \in Moves
    /\ \E r \in General :
          \/ \E a \in Single : f.arg_sz = get_arg_sz(a) /\ f.kinds = <<a, r>> /\ f.mem = {1}
          \/ \E a \in Displacement, b \in {"A", "SP"} :
                Based(a, b) /\ f.arg_sz = get_arg_sz(a) /\ f.kinds = <<a, b, r>> /\ f.mem = {1, 2}

StoreForm(f) ==
    /\ f.op \in Moves
    /\ \E r \in General :
          \/ \E a \in Single : f.arg_sz = get_arg_sz(a) /\ f.kinds = <<r, a>> /\ f.mem = {2}
          \/ \E a \in Displacement, b \in {"A", "SP"} :
                Based(a, b) /\ f.arg_sz = get_arg_sz(a) /\ f.kinds = <<r, a, b>> /\ f.mem = {2, 3}

JumpForm(f) ==
    /\ f.mem = {}
    /\ \/ f.op \in Branch /\ f.kinds = <<"d8", "PC">> /\ f.arg_sz = 1
       \/ /\ f.op \in {"JMP", "CALLS"}
          /\ \/ f.kinds = <<"MA">> /\ f.arg_sz = 0
             \/ f.kinds = <<"d16", "PC">> /\ f.arg_sz = 2
             \/ f.kinds = <<"d32", "PC">> /\ f.arg_sz = 4

PlainForm(f) ==
    /\ f.mem = {} /\ f.arg_sz = 0
    /\ \/ f.op \in Loop \cup {"SETLB", "RETS", "RTI", "TRAP"} /\ f.kinds = <<>>
       \/ f.op \in {"INC", "INC4"} /\ f.kinds = <<"A">>

BitForm(f) ==
    /\ f.op \in Bits
    /\ \/ f.kinds = <<"D", "MA">> /\ f.mem = {2} /\ f.arg_sz = 0
       \/ f.kinds = <<"imm8", "d8", "A">> /\ f.mem = {2, 3} /\ f.arg_sz = 2
       \/ f.kinds = <<"imm8", "abs16">> /\ f.mem = {2} /\ f.arg_sz = 3
       \/ f.kinds = <<"imm8", "abs32">> /\ f.mem = {2} /\ f.arg_sz = 5

Shape(f) ==
    /\ f.sz \in 1 .. 7
    /\ \/ RegisterForm(f) \/ LoadForm(f) \/ StoreForm(f)
       \/ JumpForm(f) \/ PlainForm(f) \/ BitForm(f)

HandledOps ==
    Moves \cup Branch \cup Loop \cup Bits
      \cup {"SETLB", "JMP", "CALLS", "RETS", "RTI", "TRAP", "INC", "INC4"}

Wanted(f) ==
    /\ f.op \in HandledOps
    /\ f.op = "INC" => f.kinds = <<"A">>
    /\ f.op \in Bits => Kind(f.kinds, 2) \notin {"D", "none"}

\* Every case of the decoder's tables whose instruction Machine has is of one
\* of these shapes.
LEMMA OneByteForms ==
    \A f \in Sn0to5 \cup Sn6toBandE \cup SnC \cup SnD : Wanted(f) => Shape(f)
<1> USE DEF S, Form, Shape, HandledOps, Moves, Bits, Branch, Loop, Bcc, Lcc, Reg, Registers, General,
            get_arg_sz, Single, Displacement, Based, Wanted, Kind,
            RegisterForm, LoadForm, StoreForm, JumpForm, PlainForm, BitForm
<1>1. \A f \in Sn0to5 : Wanted(f) => Shape(f)
  BY SMTT(60) DEF Sn0to5
<1>2. \A f \in Sn6toBandE : Wanted(f) => Shape(f)
  BY SMTT(60) DEF Sn6toBandE
<1>3. \A f \in SnC : Wanted(f) => Shape(f)
  BY SMTT(60) DEF SnC
<1>4. \A f \in SnD : Wanted(f) => Shape(f)
  BY SMTT(60) DEF SnD
<1> HIDE DEF Wanted, Shape
<1> QED
  BY <1>1, <1>2, <1>3, <1>4

LEMMA TwoByteForms ==
    \A f \in DnF0 \cup DnF1 \cup DnF2 \cup DnF3F4 \cup DnF8 \cup DnFA \cup DnFC \cup DnFE :
        Wanted(f) => Shape(f)
<1> USE DEF D, Form, Shape, HandledOps, Moves, Bits, Branch, Loop, Reg, Registers, General,
            get_arg_sz, Single, Displacement, Based, Wanted, Kind,
            RegisterForm, LoadForm, StoreForm, JumpForm, PlainForm, BitForm
<1>1. \A f \in DnF0 : Wanted(f) => Shape(f)
  BY SMTT(60) DEF DnF0
<1>2. \A f \in DnF1 \cup DnF2 : Wanted(f) => Shape(f)
  BY SMTT(60) DEF DnF1, DnF2
<1>3. \A f \in DnF3F4 : Wanted(f) => Shape(f)
  BY SMTT(60) DEF DnF3F4
<1>4. \A f \in DnF8 : Wanted(f) => Shape(f)
  BY SMTT(60) DEF DnF8
<1>5. \A f \in DnFA : Wanted(f) => Shape(f)
  BY SMTT(60) DEF DnFA
<1>6. \A f \in DnFC : Wanted(f) => Shape(f)
  BY SMTT(60) DEF DnFC
<1>7. \A f \in DnFE : Wanted(f) => Shape(f)
  BY SMTT(60) DEF DnFE
<1> HIDE DEF Wanted, Shape
<1> QED
  BY <1>1, <1>2, <1>3, <1>4, <1>5, <1>6, <1>7

LEMMA DisplacedForms ==
    ASSUME NEW d, NEW sz, NEW n,
           \/ d = "d8" /\ sz = 3 /\ n = 1
           \/ d = "d16" /\ sz = 4 /\ n = 2
           \/ d = "d32" /\ sz = 6 /\ n = 4,
           NEW f \in Displaced(d, sz, n)
    PROVE  Shape(f)
BY SMTT(60) DEF Displaced, D, Form, Shape, Moves, Reg, General, get_arg_sz, Displacement, Based,
                LoadForm, StoreForm

LEMMA HandledForms ==
    ASSUME NEW f \in Handled
    PROVE  Shape(f)
<1>1. f \in Forms /\ Wanted(f)
  BY DEF Handled, MemoryBits, Wanted, HandledOps, Moves, Bits, Branch, Loop
<1>2. CASE f \in Sn0to5 \cup Sn6toBandE \cup SnC \cup SnD
  BY <1>1, <1>2, OneByteForms
<1>3. CASE f \in DnF0 \cup DnF1 \cup DnF2 \cup DnF3F4 \cup DnF8 \cup DnFA \cup DnFC \cup DnFE
  BY <1>1, <1>3, TwoByteForms
<1>4. CASE f \in Displaced("d8", 3, 1) \cup Displaced("d16", 4, 2) \cup Displaced("d32", 6, 4)
  BY <1>4, DisplacedForms
<1>5. CASE f \in Unencoded
  BY <1>1, <1>5 DEF Unencoded, Form, Wanted, HandledOps, Moves, Bits, Branch, Loop
<1> QED
  BY <1>1, <1>2, <1>3, <1>4, <1>5 DEF Forms

KindNames == Registers \cup {"MA", "PC", "imm8", "imm16", "imm32", "d8", "d16", "d32", "abs16", "abs32"}

LEMMA Tuples ==
    /\ \A a, b : /\ Len(<<a, b>>) = 2 /\ Kind(<<a, b>>, 1) = a /\ Kind(<<a, b>>, 2) = b
                 /\ Kind(<<a, b>>, 3) = "none"
    /\ \A a, b, c : /\ Len(<<a, b, c>>) = 3 /\ Kind(<<a, b, c>>, 1) = a /\ Kind(<<a, b, c>>, 2) = b
                    /\ Kind(<<a, b, c>>, 3) = c
    /\ \A a, b : \A k \in 1 .. 2 : <<a, b>>[k] \in {a, b}
    /\ \A a, b, c : \A k \in 1 .. 3 : <<a, b, c>>[k] \in {a, b, c}
BY DEF Kind

\* get_val_mem finds the memory operand where the mnemonic has it.
LEMMA LoadForms ==
    ASSUME NEW f, LoadForm(f)
    PROVE  /\ OpLoc(f.kinds) = 1 /\ AddressOperands(f.kinds) = f.mem /\ ~RegisterMove(f.kinds)
           /\ Len(f.kinds) \in {2, 3} /\ f.mem = 1 .. Len(f.kinds) - 1
           /\ f.kinds[Len(f.kinds)] \in General
           /\ f.op \in Moves
<1>1. PICK r \in General :
          \/ \E a \in Single : f.kinds = <<a, r>> /\ f.mem = {1}
          \/ \E a \in Displacement, b \in {"A", "SP"} :
                Based(a, b) /\ f.kinds = <<a, b, r>> /\ f.mem = {1, 2}
  BY DEF LoadForm
<1>2. CASE \E a \in Single : f.kinds = <<a, r>> /\ f.mem = {1}
  BY <1>2, Tuples DEF LoadForm, OpLoc, AddressOperands, RegisterMove, Single, General,
        is_abs, is_disp, is_reg, is_imm
<1>3. CASE \E a \in Displacement, b \in {"A", "SP"} :
              Based(a, b) /\ f.kinds = <<a, b, r>> /\ f.mem = {1, 2}
  BY <1>3, Tuples DEF LoadForm, OpLoc, AddressOperands, RegisterMove, Displacement, Based, General,
        is_abs, is_disp, is_reg, is_imm
<1> QED
  BY <1>1, <1>2, <1>3

LEMMA StoreForms ==
    ASSUME NEW f, StoreForm(f)
    PROVE  /\ OpLoc(f.kinds) = 2 /\ AddressOperands(f.kinds) = f.mem /\ ~RegisterMove(f.kinds)
           /\ Len(f.kinds) \in {2, 3} /\ f.mem = 2 .. Len(f.kinds)
           /\ f.kinds[1] \in General
           /\ f.op \in Moves
<1>1. PICK r \in General :
          \/ \E a \in Single : f.kinds = <<r, a>> /\ f.mem = {2}
          \/ \E a \in Displacement, b \in {"A", "SP"} :
                Based(a, b) /\ f.kinds = <<r, a, b>> /\ f.mem = {2, 3}
  BY DEF StoreForm
<1>2. CASE \E a \in Single : f.kinds = <<r, a>> /\ f.mem = {2}
  BY <1>2, Tuples DEF StoreForm, OpLoc, AddressOperands, RegisterMove, Single, General,
        is_abs, is_disp, is_reg, is_imm
<1>3. CASE \E a \in Displacement, b \in {"A", "SP"} :
              Based(a, b) /\ f.kinds = <<r, a, b>> /\ f.mem = {2, 3}
  BY <1>3, Tuples DEF StoreForm, OpLoc, AddressOperands, RegisterMove, Displacement, Based, General,
        is_abs, is_disp, is_reg, is_imm
<1> QED
  BY <1>1, <1>2, <1>3

LEMMA BitForms ==
    ASSUME NEW f, BitForm(f)
    PROVE  /\ AddressOperands(f.kinds) = f.mem /\ Len(f.kinds) \in {2, 3} /\ f.mem = 2 .. Len(f.kinds)
           /\ f.op \in Bits
<1>1. CASE f.kinds = <<"D", "MA">>
  BY <1>1, Tuples DEF BitForm, OpLoc, AddressOperands, is_abs, is_disp
<1>2. CASE f.kinds = <<"imm8", "d8", "A">>
  BY <1>2, Tuples DEF BitForm, OpLoc, AddressOperands, is_abs, is_disp
<1>3. CASE f.kinds = <<"imm8", "abs16">>
  BY <1>3, Tuples DEF BitForm, OpLoc, AddressOperands, is_abs, is_disp
<1>4. CASE f.kinds = <<"imm8", "abs32">>
  BY <1>4, Tuples DEF BitForm, OpLoc, AddressOperands, is_abs, is_disp
<1> QED
  BY <1>1, <1>2, <1>3, <1>4 DEF BitForm

LEMMA RegisterForms ==
    ASSUME NEW f, RegisterForm(f)
    PROVE  /\ RegisterMove(f.kinds) /\ Len(f.kinds) = 2
           /\ f.kinds[1] \in Registers \cup {"imm8", "imm16", "imm32"} /\ f.kinds[2] \in Registers
           /\ f.arg_sz = get_arg_sz(f.kinds[1]) /\ f.op = "MOV" /\ f.mem = {}
BY Tuples DEF RegisterForm, RegisterMove, Registers, is_reg, is_imm

LEMMA ArgSizes ==
    /\ \A kind \in Registers \cup {"MA", "PC"} : get_arg_sz(kind) = 0 /\ ~is_data(kind)
    /\ \A kind \in {"imm8", "imm16", "imm32", "d8", "d16", "d32", "abs16", "abs32"} :
          get_arg_sz(kind) \in {1, 2, 4} /\ is_data(kind)
BY DEF get_arg_sz, is_data, Registers

LEMMA KindsNamed ==
    ASSUME NEW f, Shape(f)
    PROVE  /\ Len(f.kinds) \in 0 .. 3
           /\ \A k \in 1 .. Len(f.kinds) : f.kinds[k] \in KindNames
           /\ f.arg_sz \in 0 .. 6
           /\ f.op \notin Bits => f.arg_sz \in 0 .. 4
           /\ f.sz \in Nat
<1>1. f.sz \in Nat
  BY DEF Shape
<1>2. \/ f.kinds = <<>>
      \/ \E a \in KindNames : f.kinds = <<a>>
      \/ \E a, b \in KindNames : f.kinds = <<a, b>>
      \/ \E a, b, c \in KindNames : f.kinds = <<a, b, c>>
  <2>0. /\ Registers \cup {"imm8", "imm16", "imm32"} \subseteq KindNames
        /\ General \subseteq KindNames /\ Single \subseteq KindNames
        /\ Displacement \subseteq KindNames /\ {"A", "SP"} \subseteq KindNames
    BY DEF KindNames, Registers, General, Single, Displacement
  <2>1. CASE RegisterForm(f)
    BY <2>0, <2>1 DEF RegisterForm
  <2>2. CASE LoadForm(f)
    BY <2>0, <2>2 DEF LoadForm
  <2>3. CASE StoreForm(f)
    BY <2>0, <2>3 DEF StoreForm
  <2>4. CASE JumpForm(f) \/ PlainForm(f) \/ BitForm(f)
    BY <2>4 DEF JumpForm, PlainForm, BitForm, KindNames, Registers
  <2> QED
    BY <2>1, <2>2, <2>3, <2>4 DEF Shape
<1>3. Len(f.kinds) \in 0 .. 3 /\ \A k \in 1 .. Len(f.kinds) : f.kinds[k] \in KindNames
  <2>0. CASE f.kinds = <<>>
    BY <2>0
  <2>1. CASE \E a \in KindNames : f.kinds = <<a>>
    <3>1. PICK a \in KindNames : f.kinds = <<a>>
      BY <2>1
    <3>2. Len(f.kinds) = 1 /\ f.kinds[1] = a
      BY <3>1
    <3> QED
      BY <3>2
  <2>2. CASE \E a, b \in KindNames : f.kinds = <<a, b>>
    BY <2>2, Tuples
  <2>3. CASE \E a, b, c \in KindNames : f.kinds = <<a, b, c>>
    <3>1. PICK a \in KindNames, b \in KindNames, c \in KindNames : f.kinds = <<a, b, c>>
      BY <2>3
    <3>2. Len(f.kinds) = 3 /\ \A k \in 1 .. 3 : f.kinds[k] \in {a, b, c}
      BY <3>1, Tuples
    <3> QED
      BY <3>2
  <2> QED
    BY <1>2, <2>0, <2>1, <2>2, <2>3
<1>4. f.arg_sz \in 0 .. 6 /\ (f.op \notin Bits => f.arg_sz \in 0 .. 4)
  <2>1. \A kind \in KindNames : get_arg_sz(kind) \in 0 .. 4
    BY ArgSizes DEF KindNames
  <2>2. CASE RegisterForm(f)
    BY <2>1, <2>2, RegisterForms DEF KindNames
  <2>3. CASE LoadForm(f) \/ StoreForm(f)
    BY <2>1, <2>3 DEF LoadForm, StoreForm, Single, Displacement, KindNames, Registers
  <2>4. CASE JumpForm(f) \/ PlainForm(f) \/ BitForm(f)
    BY <2>4 DEF JumpForm, PlainForm, BitForm
  <2> QED
    BY <2>2, <2>3, <2>4 DEF Shape
<1> QED
  BY <1>1, <1>3, <1>4

-----------------------------------------------------------------------------
(* Operands.                                                               *)

LEMMA InsnParts ==
    ASSUME NEW i \in Insns
    PROVE  /\ Shape(i.form) /\ i.args \in Nat
           /\ i.form.op \notin Bits => i.args \in Word
           /\ \A k \in 1 .. Len(i.form.kinds) :
                 /\ i.nums[k] \in 0 .. 3
                 /\ i.form.kinds[k] \notin {"D", "A", "MA"} => i.nums[k] = 0
<1>0. PICK f \in Handled : \E nums \in Numbered(f), args \in Data(f.arg_sz) :
          i = [form |-> f, nums |-> nums, args |-> args]
  BY DEF Insns
<1>1. PICK nums \in Numbered(f), args \in Data(f.arg_sz) :
          i = [form |-> f, nums |-> nums, args |-> args]
  BY <1>0
<1>2. Shape(f)
  BY HandledForms
<1>3. args \in Nat
  BY <1>2, KindsNamed, MachineAssumption
<1>4. f.op \notin Bits => args \in Word
  <2> SUFFICES ASSUME f.op \notin Bits PROVE args \in Word
    OBVIOUS
  <2>1. f.arg_sz \in 0 .. 4
    BY <1>2, KindsNamed
  <2>2. args < Width(f.arg_sz) /\ Width(f.arg_sz) \in Nat /\ Width(f.arg_sz) <= M /\ M \in Nat
    BY <2>1, MachineAssumption, Widths
  <2> QED
    BY <1>3, <2>2 DEF Word
<1>5. \A k \in 1 .. Len(f.kinds) : nums[k] \in 0 .. 3 /\ (f.kinds[k] \notin {"D", "A", "MA"} => nums[k] = 0)
  <2>1. nums \in [1 .. Len(f.kinds) -> Nums \cup {0}]
        /\ \A k \in 1 .. Len(f.kinds) : f.kinds[k] \notin {"D", "A", "MA"} => nums[k] = 0
    BY DEF Numbered
  <2>2. Nums \cup {0} \subseteq 0 .. 3
    BY MachineAssumption
  <2> QED
    BY <2>1, <2>2
<1> QED
  BY <1>1, <1>2, <1>3, <1>4, <1>5

\* The kth operand names a register, a memory form, or has its value in args.
LEMMA OperandKinds ==
    ASSUME NEW i \in Insns, NEW k \in 1 .. Len(i.form.kinds)
    PROVE  /\ i.form.kinds[k] \in KindNames
           /\ i.form.kinds[k] \in Registers \cup {"PC"} => IsReg(i.form.kinds[k], i.nums[k])
           /\ i.form.kinds[k] = "MA" => i.nums[k] \in 0 .. 3
           /\ is_data(i.form.kinds[k]) <=> i.form.kinds[k] \notin Registers \cup {"MA", "PC"}
<1>1. i.form.kinds[k] \in KindNames
  BY InsnParts, KindsNamed
<1>2. is_data(i.form.kinds[k]) <=> i.form.kinds[k] \notin Registers \cup {"MA", "PC"}
  BY <1>1, ArgSizes DEF KindNames
<1> QED
  BY <1>1, <1>2, InsnParts DEF IsReg, Registers

LEMMA ValueIsWord ==
    ASSUME RegsOK(regs), NEW i \in Insns, NEW k \in 1 .. Len(i.form.kinds)
    PROVE  get_val(i, k) \in Word
<1> DEFINE kind == i.form.kinds[k]
<1>1. CASE is_data(kind)
  <2>1. get_arg_sz(kind) \in {1, 2, 4}
    BY <1>1, OperandKinds, ArgSizes DEF KindNames
  <2>2. PICK n \in 0 .. 4 : n = get_arg_sz(kind)
    BY <2>1
  <2>3. Width(n) \in Nat \ {0} /\ Width(n) <= M
    BY Widths
  <2>4. i.args % M \in Word
    BY InsnParts, Words DEF Wrap
  <2> QED
    BY <1>1, <2>2, <2>3, <2>4, Extended DEF get_val
<1>2. CASE kind \in Registers \cup {"PC"}
  BY <1>2, OperandKinds, GetReg DEF get_val, get
<1>3. CASE kind = "MA"
  BY <1>3, OperandKinds, GetMA DEF get_val, get
<1> QED
  BY <1>1, <1>2, <1>3, OperandKinds

LEMMA AddressIsWord ==
    ASSUME RegsOK(regs), NEW i \in Insns, AddressOperands(i.form.kinds) \subseteq 1 .. Len(i.form.kinds)
    PROVE  get_val_mem(i) \in Word
<1>1. \A k \in 1 .. 3 : Part(i, k) \in Int
  BY ValueIsWord, Words DEF Part
<1> QED
  BY <1>1, Words DEF get_val_mem

-----------------------------------------------------------------------------
(* Memory.                                                                 *)

Memory == [Mapped -> 0 .. Radix - 1]

LEMMA LowPart ==
    ASSUME NEW w \in Nat \ {0}, NEW t \in 0 .. w - 1, NEW d \in Nat
    PROVE  (t + d * w) % w = t
<1> DEFINE x == t + d * w
<1>1. x \in Nat /\ t \in Nat /\ t < w /\ d * w \in Nat
  OBVIOUS
<1>2. \A c \in Nat : \E q \in Nat, r \in Nat : r = c % w /\ r < w /\ c = w * q + r
  <2> TAKE c \in Nat
  <2>1. PICK q \in Nat, r \in Nat : q = c \div w /\ r = c % w /\ r < w /\ c = w * q + r
    OBVIOUS
  <2> QED
    BY <2>1
<1>3. PICK q \in Nat, r \in Nat : r = x % w /\ r < w /\ x = w * q + r
  BY <1>1, <1>2
<1>4. \A a \in Nat, b \in Nat : a < b => a * w + w <= b * w /\ a * w \in Nat /\ b * w \in Nat
  <2> TAKE a \in Nat, b \in Nat
  <2> HAVE a < b
  <2>1. PICK e \in Nat : b = a + 1 + e
    <3>1. b - (a + 1) \in Nat
      OBVIOUS
    <3> QED
      BY <3>1
  <2>2. b * w = a * w + w + e * w /\ e * w \in Nat /\ a * w \in Nat
    BY <2>1
  <2> QED
    BY <2>2
<1>5. w * q = q * w /\ q * w \in Nat
  OBVIOUS
<1>6. q = d
  BY <1>1, <1>3, <1>4, <1>5
<1> QED
  BY <1>1, <1>3, <1>5, <1>6

\* Another digit above a number below w.
LEMMA Digit ==
    ASSUME NEW w \in Nat \ {0}, NEW low \in 0 .. w - 1, NEW r \in Nat, NEW d \in 0 .. r - 1
    PROVE  low + d * w \in 0 .. w * r - 1 /\ (low + d * w) % w = low
<1>1. PICK e \in Nat : r = d + 1 + e
  <2>1. r - (d + 1) \in Nat
    OBVIOUS
  <2> QED
    BY <2>1
<1>2. w * r = d * w + w + e * w
  BY <1>1
<1>3. d * w \in Nat /\ e * w \in Nat
  OBVIOUS
<1>4. low + d * w \in 0 .. w * r - 1
  BY <1>2, <1>3
<1>5. (low + d * w) % w = low
  OBVIOUS
<1> QED
  BY <1>4, <1>5

\* Four bytes as a number, and its lower parts.
LEMMA FourBytes ==
    ASSUME NEW b0 \in 0 .. Radix - 1, NEW b1 \in 0 .. Radix - 1,
           NEW b2 \in 0 .. Radix - 1, NEW b3 \in 0 .. Radix - 1
    PROVE  LET two == b0 + b1 * Width(1)
               four == b0 + b1 * Width(1) + b2 * Width(2) + b3 * Width(3)
           IN  /\ four \in Word /\ two \in Word /\ two < Width(2)
               /\ four % Width(1) = b0 /\ four % Width(2) = two /\ four % Width(4) = four
<1> DEFINE two == b0 + b1 * Width(1)
           three == two + b2 * Width(2)
           four == three + b3 * Width(3)
<1>1. /\ Radix \in Nat /\ Radix >= 2 /\ Width(1) = Radix /\ Width(2) = Width(1) * Radix
      /\ Width(3) = Width(2) * Radix /\ M = Width(3) * Radix /\ M = Width(4)
      /\ Width(1) \in Nat \ {0} /\ Width(2) \in Nat \ {0} /\ Width(3) \in Nat \ {0} /\ M \in Nat \ {0}
      /\ Width(2) <= M
  BY Widths
<1>2. b0 \in 0 .. Width(1) - 1
  BY <1>1
<1>3. two \in 0 .. Width(2) - 1 /\ two % Width(1) = b0
  BY <1>1, <1>2, Digit
<1>4. three \in 0 .. Width(3) - 1 /\ three % Width(2) = two
  <2> HIDE DEF two
  <2> QED
    BY <1>1, <1>3, Digit
<1>5. four \in 0 .. M - 1 /\ four % Width(3) = three
  <2> HIDE DEF three
  <2> QED
    BY <1>1, <1>4, Digit
<1>6. four % Width(2) = two
  <2>1. PICK w \in Nat \ {0}, t \in Nat : w = Width(2) /\ t = two /\ t \in 0 .. w - 1
    BY <1>1, <1>3
  <2>2. b3 * Width(3) = (b3 * Radix) * w
    BY <1>1, <2>1
  <2>3. four = t + (b2 + b3 * Radix) * w /\ b2 + b3 * Radix \in Nat
    BY <1>1, <2>1, <2>2
  <2>4. \A d \in Nat : (t + d * w) % w = t
    BY <2>1, LowPart
  <2> QED
    BY <2>1, <2>3, <2>4
<1>7. four % Width(1) = b0
  <2>1. PICK w \in Nat \ {0} : w = Width(1) /\ b0 \in 0 .. w - 1
    BY <1>1, <1>2
  <2>2. b2 * Width(2) = (b2 * Radix) * w
    BY <1>1, <2>1
  <2>3. Width(3) = Radix * Radix * w
    BY <1>1, <2>1
  <2>4. b3 * Width(3) = (b3 * (Radix * Radix)) * w
    BY <1>1, <2>1, <2>3
  <2>5. b2 * Radix \in Nat /\ b3 * (Radix * Radix) \in Nat
    BY <1>1
  <2>6. four = b0 + (b1 + b2 * Radix + b3 * (Radix * Radix)) * w
    BY <1>1, <2>1, <2>2, <2>4, <2>5
  <2>7. \A d \in Nat : (b0 + d * w) % w = b0
    BY <2>1, LowPart
  <2> QED
    BY <2>1, <2>5, <2>6, <2>7
<1>8. four % Width(4) = four
  <2>1. four \in Word
    BY <1>1, <1>5 DEF Word
  <2> HIDE DEF four
  <2> QED
    BY <1>1, <2>1, Words DEF Wrap
<1> HIDE DEF two, three
<1>9. four \in Word /\ two \in Word
  BY <1>1, <1>3, <1>5 DEF Word
<1> QED
  BY <1>1, <1>3, <1>6, <1>7, <1>8, <1>9 DEF two, three

LEMMA ReadIsWord ==
    ASSUME mem \in Memory, NEW a \in Word
    PROVE  /\ Accessible(a, 4) => Read32(a) \in Word
           /\ Accessible(a, 2) => Read16(a) \in Word /\ Read16(a) < Width(2)
<1>1. Wrap(a + 0) = a
  BY Words
<1>2. ASSUME Accessible(a, 4) PROVE Read32(a) \in Word
  <2>0. \A k \in 0 .. 3 : mem[Wrap(a + k)] \in 0 .. Radix - 1
    BY <1>2 DEF Accessible, Memory
  <2>1. /\ mem[a] \in 0 .. Radix - 1 /\ mem[Wrap(a + 1)] \in 0 .. Radix - 1
        /\ mem[Wrap(a + 2)] \in 0 .. Radix - 1 /\ mem[Wrap(a + 3)] \in 0 .. Radix - 1
    BY <1>1, <2>0
  <2> QED
    BY <2>1, FourBytes DEF Read32
<1>3. ASSUME Accessible(a, 2) PROVE Read16(a) \in Word /\ Read16(a) < Width(2)
  <2>0. \A k \in 0 .. 1 : mem[Wrap(a + k)] \in 0 .. Radix - 1
    BY <1>3 DEF Accessible, Memory
  <2>1. mem[a] \in 0 .. Radix - 1 /\ mem[Wrap(a + 1)] \in 0 .. Radix - 1
    BY <1>1, <2>0
  <2>2. 0 \in Word /\ 0 < Width(2) /\ 0 \in 0 .. Radix - 1
    BY Widths, Words
  <2> QED
    BY <2>1, <2>2, FourBytes DEF Read16
<1> QED
  BY <1>2, <1>3

LEMMA WrittenInMemory ==
    ASSUME mem \in Memory, NEW a \in Word, NEW val \in Word, NEW n \in {1, 2, 4}
    PROVE  Written(a, val, n) \in Memory
<1> SUFFICES ASSUME NEW b \in Mapped
             PROVE  (IF Wrap(b - a) < n THEN (val \div Width(Wrap(b - a))) % Radix ELSE mem[b])
                       \in 0 .. Radix - 1
  BY DEF Written, Memory
<1>1. mem[b] \in 0 .. Radix - 1
  BY DEF Memory
<1>2. ASSUME NEW k \in 0 .. 4 PROVE (val \div Width(k)) % Radix \in 0 .. Radix - 1
  <2>1. PICK w \in Nat \ {0} : w = Width(k)
    BY Widths
  <2>2. val \in Nat /\ Radix \in Nat /\ Radix > 0
    BY Words, Widths
  <2>3. PICK q \in Nat : q = val \div w
    BY <2>2
  <2> QED
    BY <2>1, <2>2, <2>3
<1>3. b - a \in Int
  BY Words, MachineAssumption
<1>4. Wrap(b - a) \in Nat
  BY <1>3, Words
<1> QED
  BY <1>1, <1>2, <1>4

-----------------------------------------------------------------------------
(* Every step sets registers only, to words.                               *)

MachineInv == TypeOK /\ NoStrayRegister

LEMMA InvParts == MachineInv => RegsOK(regs) /\ mem \in Memory
BY DEF MachineInv, TypeOK, NoStrayRegister, RegsOK, Memory

\* What the loop still needs of a state.
Kept == RegsOK(regs') /\ mem' \in Memory /\ ran'.fault \in BOOLEAN

LEMMA PCWord ==
    ASSUME MachineInv
    PROVE  /\ PC \in Word /\ SP \in Word /\ PSW \in Word /\ PSW < Width(2)
           /\ get("LAR", 0) \in Word /\ get("MDR", 0) \in Word /\ get("LIR", 0) \in Word
           /\ PC = regs[Number("PC", 0)] /\ SP = regs[Number("SP", 0)]
           /\ PSW = regs[Number("PSW", 0)] /\ get("LAR", 0) = regs[Number("LAR", 0)]
BY InvParts, GetReg DEF IsReg, PC, SP, PSW, get, RegsOK

LEMMA ReturnsKeep ==
    ASSUME MachineInv, NEW i \in Insns, NEW r, RegsOK(r), NEW m \in Memory, Returns(i, r, m)
    PROVE  Kept
<1>1. Wrap(PC + i.form.sz) \in Word
  BY PCWord, InsnParts, KindsNamed, Words
<1>2. RegsOK(set(r, "PC", 0, Wrap(PC + i.form.sz)))
  BY <1>1, SetReg DEF IsReg
<1> QED
  BY <1>2 DEF Returns, Kept

LEMMA ThrowsKeep ==
    ASSUME MachineInv, NEW i \in Insns, NEW r, RegsOK(r), Throws(i, r)
    PROVE  Kept
BY InvParts DEF Throws, Kept

LEMMA MovRegisterForm ==
    ASSUME NEW i \in Insns, i.form.op \in Moves, RegisterMove(i.form.kinds)
    PROVE  RegisterForm(i.form)
BY InsnParts, LoadForms, StoreForms
   DEF Shape, JumpForm, PlainForm, BitForm, Moves, Branch, Loop, Bits

LEMMA MovRegisterKeeps ==
    ASSUME MachineInv, NEW i \in Insns, MovRegister(i)
    PROVE  Kept
<1>1. RegisterForm(i.form)
  BY MovRegisterForm DEF MovRegister
<1>2. i.form.op \notin Bits /\ Len(i.form.kinds) = 2 /\ i.form.kinds[2] \in Registers
  BY <1>1, RegisterForms DEF Bits
<1>3. Moved(i) \in Word
  BY <1>2, InvParts, InsnParts, ValueIsWord DEF Moved
<1>4. IsReg(i.form.kinds[2], i.nums[2])
  BY <1>2, OperandKinds
<1>5. RegsOK(set(regs, i.form.kinds[2], i.nums[2], Moved(i)))
  BY <1>3, <1>4, InvParts, SetReg
<1> QED
  BY <1>5, InvParts, ReturnsKeep DEF MovRegister

LEMMA MoveForm ==
    ASSUME NEW i \in Insns, IsMove(i)
    PROVE  /\ OpLoc(i.form.kinds) = 1 => LoadForm(i.form)
           /\ OpLoc(i.form.kinds) = 2 => StoreForm(i.form)
BY InsnParts, LoadForms, StoreForms, RegisterForms
   DEF IsMove, Shape, JumpForm, PlainForm, BitForm, Moves, Branch, Loop, Bits

LEMMA SizeOf ==
    ASSUME NEW op \in Moves
    PROVE  Size(op) \in {1, 2, 4}
BY DEF Size, Moves

LEMMA LoadKeeps ==
    ASSUME MachineInv, NEW i \in Insns, Load(i)
    PROVE  Kept
<1> DEFINE last == Len(i.form.kinds)
           addr == get_val_mem(i)
           val  == Read32(addr) % Width(Size(i.form.op))
<1>1. LoadForm(i.form)
  BY MoveForm DEF Load
<1>2. /\ last \in {2, 3} /\ i.form.kinds[last] \in General /\ i.form.op \in Moves
      /\ AddressOperands(i.form.kinds) \subseteq 1 .. last
  BY <1>1, LoadForms
<1>3. addr \in Word
  BY <1>2, InvParts, AddressIsWord
<1>4. ASSUME Accessible(addr, 4) PROVE val \in Word
  <2>1. Read32(addr) \in Word
    BY <1>3, <1>4, InvParts, ReadIsWord
  <2>2. PICK n \in 0 .. 4 : n = Size(i.form.op)
    BY <1>2, SizeOf
  <2>3. PICK w \in Nat \ {0} : w = Width(n) /\ w <= M
    BY Widths
  <2>4. PICK x \in Nat : x = Read32(addr)
    BY <2>1, Words
  <2>5. x % w \in Nat /\ x % w < w
    BY <2>3
  <2> QED
    BY <2>2, <2>3, <2>4, <2>5, Widths DEF Word
<1>5. IsReg(i.form.kinds[last], i.nums[last])
  <2>1. last \in 1 .. Len(i.form.kinds) /\ i.form.kinds[last] \in Registers
    BY <1>2 DEF General, Registers
  <2> HIDE DEF last
  <2> QED
    BY <2>1, OperandKinds
<1>6. Accessible(addr, 4) => RegsOK(set(regs, i.form.kinds[last], i.nums[last], val))
  BY <1>4, <1>5, InvParts, SetReg
<1> HIDE DEF addr, val, last
<1>7. Accessing(i, addr, 4, regs, Returns(i, set(regs, i.form.kinds[last], i.nums[last], val), mem))
  BY DEF Load, addr, val, last
<1> QED
  BY <1>6, <1>7, InvParts, ReturnsKeep, ThrowsKeep DEF Accessing

LEMMA StoreKeeps ==
    ASSUME MachineInv, NEW i \in Insns, Store(i)
    PROVE  Kept
<1> DEFINE addr == get_val_mem(i)
           n == Size(i.form.op)
<1>1. StoreForm(i.form)
  BY MoveForm DEF Store
<1>2. /\ Len(i.form.kinds) \in {2, 3} /\ i.form.op \in Moves
      /\ AddressOperands(i.form.kinds) \subseteq 1 .. Len(i.form.kinds)
  BY <1>1, StoreForms
<1>3. addr \in Word /\ get_val(i, 1) \in Word
  BY <1>2, InvParts, AddressIsWord, ValueIsWord
<1>4. Written(addr, get_val(i, 1), n) \in Memory
  BY <1>2, <1>3, InvParts, SizeOf, WrittenInMemory
<1> HIDE DEF addr, n
<1>5. Accessing(i, addr, n, regs, Returns(i, regs, Written(addr, get_val(i, 1), n)))
  BY DEF Store, addr, n
<1> QED
  BY <1>4, <1>5, InvParts, ReturnsKeep, ThrowsKeep DEF Accessing

LEMMA JumpsKeep ==
    ASSUME MachineInv, NEW i \in Insns, NEW target \in Word, Jumps(i, target)
    PROVE  Kept
<1>1. RegsOK(set(regs, "PC", 0, target))
  BY InvParts, SetReg DEF IsReg
<1> QED
  BY <1>1, InvParts, ReturnsKeep DEF Jumps

LEMMA JumpForms ==
    ASSUME NEW i \in Insns, i.form.op \in Branch \cup {"JMP", "CALLS"}
    PROVE  /\ JumpForm(i.form) /\ Len(i.form.kinds) \in {1, 2} /\ i.args \in Word
           /\ i.form.kinds[1] \in {"MA", "d8", "d16", "d32"}
           /\ i.form.mem = {}
<1>1. JumpForm(i.form)
  BY InsnParts, RegisterForms, LoadForms, StoreForms, BitForms
     DEF Shape, PlainForm, Moves, Branch, Loop, Bits
<1>2. i.form.op \notin Bits
  BY DEF Branch, Bits
<1>3. i.form.kinds = <<"MA">> \/ \E k \in {"d8", "d16", "d32"} : i.form.kinds = <<k, "PC">>
  BY <1>1 DEF JumpForm
<1>4. Len(i.form.kinds) \in {1, 2} /\ i.form.kinds[1] \in {"MA", "d8", "d16", "d32"}
  <2>1. CASE i.form.kinds = <<"MA">>
    BY <2>1
  <2>2. CASE \E k \in {"d8", "d16", "d32"} : i.form.kinds = <<k, "PC">>
    <3>1. PICK k \in {"d8", "d16", "d32"} : i.form.kinds = <<k, "PC">>
      BY <2>2
    <3>2. Len(<<k, "PC">>) = 2 /\ <<k, "PC">>[1] = k
      OBVIOUS
    <3> QED
      BY <3>1, <3>2
  <2> QED
    BY <1>3, <2>1, <2>2
<1>5. i.form.mem = {}
  BY <1>1 DEF JumpForm
<1> QED
  BY <1>1, <1>2, <1>4, <1>5, InsnParts

LEMMA BranchesKeep ==
    ASSUME MachineInv, NEW i \in Insns, Jmp(i) \/ BccNotTaken(i) \/ LoopJump(i)
    PROVE  Kept
<1>1. CASE Jmp(i)
  <2>1. Len(i.form.kinds) \in {1, 2}
    BY <1>1, JumpForms DEF Jmp
  <2>2. get_val(i, 1) \in Word
    BY <2>1, InvParts, ValueIsWord
  <2>3. Wrap(PC + get_val(i, 1)) \in Word
    BY <2>2, PCWord, Words
  <2> QED
    BY <1>1, <2>3, JumpsKeep DEF Jmp
<1>2. CASE BccNotTaken(i)
  BY <1>2, InvParts, ReturnsKeep DEF BccNotTaken
<1>3. CASE LoopJump(i)
  <2>1. Wrap(get("LAR", 0) - 4) \in Word /\ Wrap(get("LAR", 0) + 1) \in Word
    BY PCWord, Words
  <2> QED
    BY <1>3, <2>1, JumpsKeep DEF LoopJump
<1> QED
  BY <1>1, <1>2, <1>3

LEMMA SetlbKeeps ==
    ASSUME MachineInv, NEW i \in Insns, Setlb(i)
    PROVE  Kept
<1> DEFINE next == Wrap(PC + 1)
           r1 == set(regs, "LIR", 0, Read32(next))
           r2 == set(r1, "LAR", 0, Wrap(PC + 5))
<1>1. next \in Word /\ Wrap(PC + 5) \in Word
  BY PCWord, Words
<1>2. Accessible(next, 4) => RegsOK(r1)
  BY <1>1, InvParts, ReadIsWord, SetReg DEF IsReg
<1>3. Accessible(next, 4) => RegsOK(r2)
  <2> HIDE DEF r1
  <2> QED
    BY <1>1, <1>2, SetReg DEF IsReg
<1>4. Accessing(i, next, 4, regs, Returns(i, r2, mem))
  BY DEF Setlb
<1> HIDE DEF next, r2
<1> QED
  BY <1>3, <1>4, InvParts, ReturnsKeep, ThrowsKeep DEF Accessing

LEMMA CallsKeeps ==
    ASSUME MachineInv, NEW i \in Insns, Calls(i)
    PROVE  Kept
<1> DEFINE next   == Wrap(PC + i.form.sz)
           first  == set(regs, "MDR", 0, next)
           target == IF is_data(i.form.kinds[1]) THEN Wrap(PC + i.args) ELSE get("MA", i.nums[1])
           m      == Written(SP, next, 4)
           last   == set(first, "PC", 0, target)
<1>1. next \in Word
  BY PCWord, InsnParts, KindsNamed, Words
<1>2. RegsOK(first)
  BY <1>1, InvParts, SetReg DEF IsReg
<1>3. target \in Word
  <2>1. Len(i.form.kinds) \in {1, 2} /\ i.args \in Word /\ i.form.kinds[1] \in {"MA", "d8", "d16", "d32"}
    BY JumpForms DEF Calls
  <2>2. CASE is_data(i.form.kinds[1])
    BY <2>1, <2>2, PCWord, Words
  <2>3. CASE ~is_data(i.form.kinds[1])
    <3>1. i.form.kinds[1] = "MA"
      BY <2>1, <2>3, ArgSizes
    <3> QED
      BY <2>1, <2>3, <3>1, OperandKinds, InvParts, GetMA DEF get
  <2> QED
    BY <2>2, <2>3
<1>4. RegsOK(last)
  <2> HIDE DEF first, target
  <2> QED
    BY <1>2, <1>3, SetReg DEF IsReg
<1>5. m \in Memory
  <2> HIDE DEF next
  <2> QED
    BY <1>1, PCWord, InvParts, WrittenInMemory
<1>6. Accessing(i, SP, 4, first, Returns(i, last, m))
  BY DEF Calls
<1> HIDE DEF first, last, m
<1> QED
  BY <1>2, <1>4, <1>5, <1>6, InvParts, ReturnsKeep, ThrowsKeep DEF Accessing

LEMMA RetsKeeps ==
    ASSUME MachineInv, NEW i \in Insns, Rets(i)
    PROVE  Kept
<1>1. Accessible(SP, 4) => Read32(SP) \in Word
  BY PCWord, InvParts, ReadIsWord
<1> QED
  BY <1>1, InvParts, JumpsKeep, ThrowsKeep DEF Rets, Accessing

LEMMA RtiKeeps ==
    ASSUME MachineInv, NEW i \in Insns, Rti(i)
    PROVE  Kept
<1> DEFINE first == set(regs, "PSW", 0, Read16(SP))
           pc    == Wrap(SP + 4)
           r2    == set(first, "PC", 0, Read32(pc))
           r3    == set(r2, "SP", 0, Wrap(SP + 8))
<1>1. pc \in Word /\ Wrap(SP + 8) \in Word /\ SP \in Word
  BY PCWord, Words
<1>2. Accessible(SP, 2) => RegsOK(first)
  BY <1>1, InvParts, ReadIsWord, SetReg DEF IsReg
<1>3. Accessible(SP, 2) /\ Accessible(pc, 4) => RegsOK(r2)
  <2> HIDE DEF first, pc
  <2> QED
    BY <1>1, <1>2, InvParts, ReadIsWord, SetReg DEF IsReg
<1>4. Accessible(SP, 2) /\ Accessible(pc, 4) => RegsOK(r3)
  <2> HIDE DEF r2, pc
  <2> QED
    BY <1>1, <1>3, SetReg DEF IsReg
<1>5. Accessing(i, SP, 2, regs, Accessing(i, pc, 4, first, Returns(i, r3, mem)))
  BY DEF Rti
<1> HIDE DEF first, pc, r3
<1> QED
  BY <1>2, <1>4, <1>5, InvParts, ReturnsKeep, ThrowsKeep DEF Accessing

LEMMA TrapKeeps ==
    ASSUME MachineInv, NEW i \in Insns, Trap(i)
    PROVE  Kept
<1> DEFINE r == set(regs, "PC", 0, TrapVector)
           m == Written(SP, Wrap(PC + 2), 4)
<1>1. RegsOK(r)
  BY InvParts, SetReg, MachineAssumption DEF IsReg
<1>2. m \in Memory
  BY PCWord, Words, InvParts, WrittenInMemory
<1>3. Accessing(i, SP, 4, regs, Returns(i, r, m))
  BY DEF Trap
<1> HIDE DEF r, m
<1> QED
  BY <1>1, <1>2, <1>3, InvParts, ReturnsKeep, ThrowsKeep DEF Accessing

LEMMA IncForms ==
    ASSUME NEW i \in Insns, i.form.op \in {"INC", "INC4"}
    PROVE  i.form.kinds = <<"A">> /\ Len(i.form.kinds) = 1 /\ IsReg("A", i.nums[1]) /\ i.form.mem = {}
<1>1. PlainForm(i.form)
  BY InsnParts, RegisterForms, LoadForms, StoreForms, BitForms
     DEF Shape, JumpForm, Moves, Branch, Bits
<1>2. i.form.kinds = <<"A">> /\ i.form.mem = {}
  BY <1>1 DEF PlainForm, Loop
<1>3. Len(i.form.kinds) = 1 /\ i.form.kinds[1] = "A"
  BY <1>2
<1>4. IsReg(i.form.kinds[1], i.nums[1])
  <2>1. 1 \in 1 .. Len(i.form.kinds) /\ i.form.kinds[1] \in Registers
    BY <1>3 DEF Registers
  <2> QED
    BY <2>1, OperandKinds
<1> QED
  BY <1>2, <1>3, <1>4

LEMMA IncKeeps ==
    ASSUME MachineInv, NEW i \in Insns, Inc(i)
    PROVE  Kept
<1>1. PICK by \in {1, 4} : Returns(i, set(regs, "A", i.nums[1], Wrap(get("A", i.nums[1]) + by)), mem)
  BY DEF Inc
<1>2. IsReg("A", i.nums[1])
  BY IncForms DEF Inc
<1>3. Wrap(get("A", i.nums[1]) + by) \in Word
  BY <1>2, InvParts, GetReg, Words DEF get
<1>4. RegsOK(set(regs, "A", i.nums[1], Wrap(get("A", i.nums[1]) + by)))
  BY <1>2, <1>3, InvParts, SetReg
<1> QED
  BY <1>1, <1>4, InvParts, ReturnsKeep

LEMMA FlagsFit ==
    ASSUME NEW psw \in Word, NEW flags
    PROVE  WithFlags(psw, flags) \in Nat
<1>1. psw \in Nat
  BY Words
<1>2. psw % 16 \in Nat /\ psw % 16 <= psw
  BY <1>1
<1>3. \A f \in {"Z", "N", "C", "V"} : BitIf(f, flags) \in Nat
  BY DEF BitIf, FlagBit
<1> QED
  BY <1>1, <1>2, <1>3 DEF WithFlags

LEMMA BitOperands ==
    ASSUME MachineInv, NEW i \in Insns, i.form.op \in Bits
    PROVE  get_val(i, 1) \in Word /\ get_val_mem(i) \in Word
<1>1. BitForm(i.form)
  BY InsnParts, RegisterForms, LoadForms, StoreForms
     DEF Shape, JumpForm, PlainForm, Moves, Branch, Loop, Bits
<1>2. Len(i.form.kinds) \in {2, 3} /\ AddressOperands(i.form.kinds) \subseteq 1 .. Len(i.form.kinds)
  BY <1>1, BitForms
<1>3. RegsOK(regs) /\ 1 \in 1 .. Len(i.form.kinds)
  <2>1. \A l \in {2, 3} : 1 \in 1 .. l
    OBVIOUS
  <2> QED
    BY <1>2, <2>1, InvParts
<1>4. get_val(i, 1) \in Word
  BY <1>3, ValueIsWord
<1>5. get_val_mem(i) \in Word
  BY <1>2, <1>3, AddressIsWord
<1> QED
  BY <1>4, <1>5

LEMMA BitsKeep ==
    ASSUME MachineInv, NEW i \in Insns, Btst(i) \/ BitChange(i)
    PROVE  Kept
<1> DEFINE s == get_val(i, 1)
           d == get_val_mem(i)
<1>1. s \in Word /\ d \in Word
  BY BitOperands DEF Btst, BitChange, Bits
<1>2. \A flags : RegsOK(set(regs, "PSW", 0, WithFlags(PSW, flags)))
  BY InvParts, PCWord, FlagsFit, SetAny DEF IsReg
<1>3. CASE Btst(i)
  BY <1>2, <1>3, InvParts, ReturnsKeep DEF Btst
<1>4. CASE BitChange(i)
  <2> DEFINE mask  == IF i.form.op = "BCLR" THEN BitAnd(M - 1 - s, d) ELSE BitOr(s, d)
             first == set(regs, "PSW", 0, WithFlags(PSW, FlagsIf("Z", BitAnd(s, d) = 0)))
             m     == Written(d, mask % Radix, 4)
  <2>1. RegsOK(first)
    BY <1>2
  <2>2. M - 1 - s \in Word
    BY <1>1, Widths DEF Word
  <2>3. mask \in Word
    BY <1>1, <2>2, BitwiseAssumption
  <2>4. mask % Radix \in Word
    <3> HIDE DEF mask
    <3>1. PICK x \in Nat, r \in Nat : x = mask /\ r = Radix /\ r > 0 /\ r <= M
      BY <2>3, Words, Widths
    <3>2. x % r \in Nat /\ x % r < r
      BY <3>1
    <3> QED
      BY <3>1, <3>2, Widths DEF Word
  <2>5. m \in Memory
    <3> HIDE DEF mask
    <3> QED
      BY <1>1, <2>4, InvParts, WrittenInMemory
  <2>6. Accessing(i, d, 4, first, Returns(i, first, m))
    BY <1>4 DEF BitChange
  <2> HIDE DEF first, m
  <2> QED
    BY <2>1, <2>5, <2>6, InvParts, ReturnsKeep, ThrowsKeep DEF Accessing
<1> QED
  BY <1>3, <1>4

-----------------------------------------------------------------------------
(* The manual's terms.                                                     *)

LEMMA ManualArith ==
    /\ Documented!M = M
    /\ \A x : Documented!Wrap(x) = Wrap(x)
    /\ \A n : Documented!Width(n) = Width(n)
    /\ \A x, n : Documented!s_ext(x, n) = s_ext(x, n)
    /\ Documented!Moves = Moves /\ Documented!Branch = Branch
    /\ Documented!Loop = Loop /\ Documented!Bits = Bits
BY DEF Documented!M, M, Documented!Wrap, Wrap, Documented!Width, Width, Documented!s_ext, s_ext,
       Documented!Moves, Moves, Documented!Branch, Branch, Documented!Loop, Loop,
       Documented!Bits, Bits

LEMMA ManualTaken ==
    \A op, flags : Documented!Taken(op, flags) = Taken(op, flags)
BY Zenon DEF Documented!Taken, Taken, Documented!Less, Less

Named == [x \in RegisterNames |-> regs[Number(x[1], x[2])]]

LEMMA NamedRegisters ==
    /\ \A c, n : IsReg(c, n) <=> <<c, n>> \in RegisterNames
    /\ \A x \in RegisterNames : x = <<x[1], x[2]>> /\ IsReg(x[1], x[2])
    /\ \A c, n : IsReg(c, n) => Named[<<c, n>>] = regs[Number(c, n)]
    /\ DOMAIN Named = RegisterNames
<1>1. \A x \in RegisterNames : x = <<x[1], x[2]>> /\ IsReg(x[1], x[2])
  BY DEF RegisterNames, IsReg
<1>2. \A c, n : IsReg(c, n) <=> <<c, n>> \in RegisterNames
  BY DEF RegisterNames, IsReg
<1> QED
  BY <1>1, <1>2 DEF Named

LEMMA ManualPointers ==
    ASSUME MachineInv
    PROVE  /\ Documented!PC = PC /\ Documented!SP = SP /\ Documented!LAR = get("LAR", 0)
           /\ Named[<<"PSW", 0>>] = PSW
<1>1. \A c \in {"PC", "SP", "LAR", "PSW"} : IsReg(c, 0)
  BY DEF IsReg
<1> QED
  BY <1>1, PCWord, NamedRegisters DEF Documented!PC, Documented!SP, Documented!LAR, Named

\* FlagsOf reads the flags of the PSW as the manual does.
LEMMA ManualFlags ==
    ASSUME MachineInv
    PROVE  Documented!psw = FlagsOf(PSW)
<1>1. \A bit : Documented!FlagOn(bit) <=> (PSW \div bit) % 2 = 1
  BY ManualPointers DEF Documented!FlagOn, Named
<1> QED
  BY <1>1, ManualPointers DEF Documented!psw, Documented!FlagsIf, FlagsOf, FlagBit, Flag

LEMMA ManualBytes ==
    ASSUME NEW a, NEW n \in Nat
    PROVE  Accessible(a, n) <=> Documented!Bytes(a, n) \subseteq Mapped
BY ManualArith DEF Accessible, Documented!Bytes

LEMMA ManualReads ==
    ASSUME mem \in Memory, NEW a \in Word
    PROVE  /\ Accessible(a, 4) => /\ Documented!MemN(a, 4) = Read32(a)
                                  /\ \A n \in {1, 2, 4} : Documented!MemN(a, n) = Read32(a) % Width(n)
           /\ Accessible(a, 2) /\ ~Crosses(a, 2) => Documented!MemN(a, 2) = Read16(a)
<1> DEFINE b(k) == mem[Wrap(a + k)]
<1>1. Wrap(a + 0) = a
  BY Words
<1>2. /\ Documented!MemN(a, 1) = b(0) * Width(0) + 0 + 0 + 0
      /\ Documented!MemN(a, 2) = b(0) * Width(0) + b(1) * Width(1) + 0 + 0
      /\ Documented!MemN(a, 4) = b(0) * Width(0) + b(1) * Width(1) + b(2) * Width(2) + b(3) * Width(3)
  BY ManualArith DEF Documented!MemN, Documented!Byte
<1>3. ASSUME Accessible(a, 4)
      PROVE  /\ Documented!MemN(a, 4) = Read32(a)
             /\ \A n \in {1, 2, 4} : Documented!MemN(a, n) = Read32(a) % Width(n)
  <2>0. \A k \in 0 .. 3 : b(k) \in 0 .. Radix - 1
    BY <1>3 DEF Accessible, Memory
  <2>1. PICK b0 \in 0 .. Radix - 1, b1 \in 0 .. Radix - 1, b2 \in 0 .. Radix - 1, b3 \in 0 .. Radix - 1 :
           b0 = b(0) /\ b1 = b(1) /\ b2 = b(2) /\ b3 = b(3)
    BY <2>0
  <2>2. Read32(a) = b0 + b1 * Width(1) + b2 * Width(2) + b3 * Width(3)
    BY <1>1, <2>1 DEF Read32
  <2>3. /\ Width(0) = 1 /\ Width(1) \in Nat /\ Width(2) \in Nat /\ Width(3) \in Nat
        /\ b0 \in Nat /\ b1 \in Nat /\ b2 \in Nat /\ b3 \in Nat
    BY <2>1, Widths
  <2> HIDE DEF b
  <2>4. /\ Documented!MemN(a, 1) = b0 /\ Documented!MemN(a, 2) = b0 + b1 * Width(1)
        /\ Documented!MemN(a, 4) = Read32(a)
    BY <1>2, <2>1, <2>2, <2>3
  <2>5. Read32(a) % Width(1) = b0 /\ Read32(a) % Width(2) = b0 + b1 * Width(1)
        /\ Read32(a) % Width(4) = Read32(a)
    BY <2>2, FourBytes
  <2> QED
    BY <2>4, <2>5
<1>4. ASSUME Accessible(a, 2), ~Crosses(a, 2) PROVE Documented!MemN(a, 2) = Read16(a)
  <2>0. \A k \in 0 .. 1 : b(k) \in 0 .. Radix - 1
    BY <1>4 DEF Accessible, Memory
  <2>1. PICK b0 \in 0 .. Radix - 1, b1 \in 0 .. Radix - 1 : b0 = b(0) /\ b1 = b(1)
    BY <2>0
  <2>2. Read16(a) = b0 + b1 * Width(1)
    BY <1>1, <1>4, <2>1 DEF Read16
  <2>3. Width(0) = 1 /\ Width(1) \in Nat /\ b0 \in Nat /\ b1 \in Nat
    BY <2>1, Widths
  <2> HIDE DEF b
  <2> QED
    BY <1>2, <2>1, <2>2, <2>3
<1> QED
  BY <1>3, <1>4

\* Adding 2^32 does not change the remainder by 2^32, and a word is its own.
LEMMA WrapWord ==
    ASSUME NEW a \in Int, -M <= a, a < 2 * M
    PROVE  Wrap(a) = IF a < 0 THEN a + M ELSE IF a < M THEN a ELSE a - M
<1>1. M \in Nat /\ M > 0
  BY HalfAssumption DEF M
<1>2. CASE a < 0
  BY <1>1, <1>2, SMTT(30) DEF Wrap
<1>3. CASE a >= 0 /\ a < M
  BY <1>1, <1>3, SMTT(30) DEF Wrap
<1>4. CASE a >= M
  BY <1>1, <1>4, SMTT(30) DEF Wrap
<1> QED
  BY <1>1, <1>2, <1>3, <1>4

\* The distance between two addresses, and the address at a distance.
LEMMA Distances ==
    ASSUME NEW a \in Word, NEW b \in Word
    PROVE  /\ Wrap(b - a) \in Nat /\ Wrap(a + Wrap(b - a)) = b
           /\ \A k \in Nat : k < M /\ b = Wrap(a + k) => Wrap(b - a) = k
<1>1. a \in Nat /\ a < M /\ b \in Nat /\ b < M /\ M \in Nat /\ M > 0
  BY Words, Widths
<1>2. Wrap(b - a) = IF b < a THEN b - a + M ELSE b - a
  BY <1>1, WrapWord
<1>3. \A x \in Int : -M <= x /\ x < 2 * M => Wrap(x) = IF x < 0 THEN x + M ELSE IF x < M THEN x ELSE x - M
  BY WrapWord
<1> HIDE DEF M
<1>4. Wrap(a + Wrap(b - a)) = b
  BY <1>1, <1>2, <1>3
<1>5. \A k \in Nat : k < M /\ b = Wrap(a + k) => Wrap(b - a) = k
  <2> TAKE k \in Nat
  <2> HAVE k < M /\ b = Wrap(a + k)
  <2>1. b = IF a + k < M THEN a + k ELSE a + k - M
    BY <1>1, <1>3
  <2> QED
    BY <1>1, <1>2, <2>1
<1> QED
  BY <1>1, <1>2, <1>4, <1>5

LEMMA ManualWrites ==
    ASSUME NEW a \in Word, NEW val, NEW n \in {1, 2, 4}
    PROVE  Documented!Stored(a, val, n) = Written(a, val, n)
<1>1. M \in Nat /\ M >= 4
  <2>1. Width(2) \in Nat /\ Width(2) >= 4 /\ Width(2) <= M /\ M \in Nat
    BY Widths
  <2> HIDE DEF M
  <2> QED
    BY <2>1
<1>2. ASSUME NEW b \in Mapped PROVE b \in Documented!Bytes(a, n) <=> Wrap(b - a) < n
  <2>1. b \in Word
    BY MachineAssumption
  <2>2. PICK w \in Nat : w = Wrap(b - a) /\ Wrap(a + w) = b /\ \A k \in Nat : k < M /\ b = Wrap(a + k) => w = k
    BY <2>1, Distances
  <2>3. b \in Documented!Bytes(a, n) <=> \E k \in 0 .. n - 1 : b = Wrap(a + k)
    BY ManualArith DEF Documented!Bytes
  <2> QED
    BY <1>1, <2>2, <2>3
<1> QED
  BY <1>2, ManualArith DEF Documented!Stored, Written

-----------------------------------------------------------------------------
(* The operands of the mnemonic are those the handlers take.               *)

LEMMA ManualOperands ==
    ASSUME MachineInv, NEW i \in Insns, NEW k \in 1 .. Len(i.form.kinds)
    PROVE  LET kind == i.form.kinds[k]
           IN  /\ kind \in Registers \cup {"MA"} => Documented!Operand(i, k) = get_val(i, k)
               /\ is_data(kind) /\ i.args \in Word =>
                     /\ Documented!Extended(kind, i.args) = get_val(i, k)
                     /\ get_arg_sz(kind) = 4 => get_val(i, k) = i.args
<1> DEFINE kind == i.form.kinds[k]
<1>1. CASE kind = "MA"
  <2>1. i.nums[k] \in 0 .. 3 /\ ~is_data(kind)
    BY <1>1, OperandKinds, ArgSizes
  <2>2. get_val(i, k) = regs[Number("A", i.nums[k])]
    BY <1>1, <2>1, InvParts, GetMA DEF get_val, get
  <2>3. Named[<<"A", i.nums[k]>>] = regs[Number("A", i.nums[k])]
    BY <2>1, NamedRegisters DEF IsReg
  <2>4. Documented!Operand(i, k) = Named[<<"A", i.nums[k]>>]
    BY <1>1 DEF Documented!Operand, Named
  <2> QED
    BY <1>1, <2>1, <2>2, <2>3, <2>4
<1>2. CASE kind \in Registers
  <2>1. IsReg(kind, i.nums[k]) /\ ~is_data(kind) /\ (kind \notin {"D", "A"} => i.nums[k] = 0)
    BY <1>2, OperandKinds, ArgSizes DEF IsReg
  <2>2. get_val(i, k) = regs[Number(kind, i.nums[k])]
    BY <2>1, InvParts, GetReg DEF get_val, get
  <2>3. Named[<<kind, i.nums[k]>>] = regs[Number(kind, i.nums[k])]
    BY <2>1, NamedRegisters
  <2>4. Documented!Operand(i, k) = Named[<<kind, i.nums[k]>>]
    BY <1>2, <2>1 DEF Documented!Operand, Named, Registers
  <2> QED
    BY <1>2, <2>1, <2>2, <2>3, <2>4
<1>3. CASE is_data(kind)
  <2>1. /\ kind \in {"imm8", "imm16", "imm32", "d8", "d16", "d32", "abs16", "abs32"}
        /\ kind \notin Registers \cup {"MA"}
    BY <1>3, OperandKinds DEF KindNames
  <2>2. Documented!Size(kind) = get_arg_sz(kind) /\ get_arg_sz(kind) \in {1, 2, 4}
    BY <2>1, ArgSizes DEF Documented!Size, get_arg_sz
  <2>3. ASSUME i.args \in Word PROVE i.args % M = i.args
    BY <2>3, Words DEF Wrap
  <2>4. ASSUME i.args \in Word PROVE Documented!Extended(kind, i.args) = get_val(i, k)
    BY <1>3, <2>2, <2>3, <2>4, ManualArith DEF Documented!Extended, get_val
  <2>5. ASSUME i.args \in Word, get_arg_sz(kind) = 4 PROVE get_val(i, k) = i.args
    <3>1. get_val(i, k) = s_ext(i.args, Width(4))
      BY <1>3, <2>3, <2>5 DEF get_val
    <3>2. Width(4) = M /\ M \in Nat \ {0} /\ M <= M
      BY Widths
    <3>3. s_ext(i.args, M) = i.args
      BY <2>5, <3>2, Extended
    <3> QED
      BY <3>1, <3>2, <3>3
  <2> QED
    BY <2>1, <2>4, <2>5
<1>4. CASE kind = "PC"
  BY <1>4, ArgSizes DEF Registers
<1> QED
  BY <1>1, <1>2, <1>3, <1>4, OperandKinds

\* Unless it is one the emulator extends otherwise, the address is the manual's.
LEMMA SameAddress ==
    ASSUME MachineInv, NEW i \in Insns, LoadForm(i.form) \/ StoreForm(i.form),
           ~Documented!ExtendsAddress(i)
    PROVE  Documented!EA(i) = get_val_mem(i)
<1>1. /\ i.form.mem \subseteq 1 .. Len(i.form.kinds) /\ AddressOperands(i.form.kinds) = i.form.mem
      /\ i.form.op \in Moves
  BY LoadForms, StoreForms
<1>2. i.args \in Word
  BY <1>1, InsnParts DEF Moves, Bits
<1>3. \A k \in i.form.mem : i.form.kinds[k] \in {"A", "SP", "D", "MA", "abs16", "abs32", "d8", "d16", "d32"}
  <2>1. CASE LoadForm(i.form)
    <3>1. PICK r \in General :
          \/ \E a \in Single : i.form.kinds = <<a, r>> /\ i.form.mem = {1}
          \/ \E a \in Displacement, b \in {"A", "SP"} :
                i.form.kinds = <<a, b, r>> /\ i.form.mem = {1, 2}
      BY <2>1 DEF LoadForm
    <3> QED
      BY <3>1 DEF Single, Displacement
  <2>2. CASE StoreForm(i.form)
    <3>1. PICK r \in General :
          \/ \E a \in Single : i.form.kinds = <<r, a>> /\ i.form.mem = {2}
          \/ \E a \in Displacement, b \in {"A", "SP"} :
                i.form.kinds = <<r, a, b>> /\ i.form.mem = {2, 3}
      BY <2>2 DEF StoreForm
    <3> QED
      BY <3>1 DEF Single, Displacement
  <2> QED
    BY <2>1, <2>2
<1>4. ASSUME NEW k \in i.form.mem PROVE Documented!Operand(i, k) = get_val(i, k)
  <2> DEFINE kind == i.form.kinds[k]
             sp == "SP" \in {i.form.kinds[j] : j \in i.form.mem}
  <2>0. k \in 1 .. Len(i.form.kinds)
    BY <1>1
  <2>1. CASE kind \in {"A", "SP", "D", "MA"}
    BY <2>0, <2>1, ManualOperands DEF Registers
  <2>2. CASE kind \in {"abs16", "abs32", "d8", "d16", "d32"}
    <3>1. /\ Documented!Extended(kind, i.args) = get_val(i, k)
          /\ kind \in {"abs32", "d32"} => get_val(i, k) = i.args
      <4>1. is_data(kind) /\ (kind \in {"abs32", "d32"} => get_arg_sz(kind) = 4)
        BY <2>2 DEF is_data, get_arg_sz
      <4> QED
        BY <1>2, <2>0, <4>1, ManualOperands
    <3>2. kind = "abs16" \/ (kind \in {"d8", "d16"} /\ sp) => get_val(i, k) = i.args
      BY <1>1, <3>1, ManualArith DEF Documented!ExtendsAddress, Documented!Negative
    <3>3. Documented!Operand(i, k) =
            IF kind \in {"d8", "d16", "d32"} /\ ~sp THEN Documented!Extended(kind, i.args) ELSE i.args
      BY <2>2 DEF Documented!Operand
    <3> QED
      BY <2>2, <3>1, <3>2, <3>3
  <2> QED
    BY <1>3, <2>1, <2>2
<1>5. \A k : Documented!Addend(i, k) = Part(i, k)
  BY <1>1, <1>4 DEF Documented!Addend, Part
<1> QED
  BY <1>5, ManualArith DEF Documented!EA, get_val_mem

-----------------------------------------------------------------------------
(* When a step is one of the manual's.                                     *)

Of(r, x) == r[Number(x[1], x[2])]

LEMMA Returned ==
    ASSUME MachineInv, NEW i \in Insns, NEW r, RegsOK(r), NEW m, Returns(i, r, m)
    PROVE  /\ mem' = m /\ ran' = [insn |-> i, fault |-> FALSE]
           /\ \A x \in RegisterNames :
                 Of(regs', x) = IF x = <<"PC", 0>> /\ Of(r, x) = PC THEN Documented!Following(i) ELSE Of(r, x)
<1>1. Documented!Following(i) = Wrap(PC + i.form.sz) /\ Wrap(PC + i.form.sz) \in Word
  BY PCWord, InsnParts, KindsNamed, Words, ManualArith, ManualPointers DEF Documented!Following
<1>2. \A x \in RegisterNames : /\ Number(x[1], x[2]) \in Cell
                               /\ Number(x[1], x[2]) = Number("PC", 0) <=> x = <<"PC", 0>>
  <2> TAKE x \in RegisterNames
  <2>1. x = <<x[1], x[2]>> /\ IsReg(x[1], x[2])
    BY NamedRegisters
  <2>2. x[1] = "PC" => x[2] = 0
    BY <2>1 DEF IsReg
  <2> QED
    BY <2>1, <2>2, RegisterCells
<1>3. ASSUME Of(r, <<"PC", 0>>) = PC
      PROVE  /\ regs'[Number("PC", 0)] = Wrap(PC + i.form.sz)
             /\ \A c \in Cell : c # Number("PC", 0) => regs'[c] = r[c]
  <2>1. regs' = set(r, "PC", 0, Wrap(PC + i.form.sz))
    BY <1>3 DEF Returns, Of
  <2> QED
    BY <1>1, <2>1, SetReg DEF IsReg
<1>4. Of(r, <<"PC", 0>>) # PC => regs' = r
  BY DEF Returns, Of
<1> QED
  BY <1>1, <1>2, <1>3, <1>4 DEF Returns, Of

\* reg after a step, as the manual's state.
LEMMA NamedAfter == \A x \in RegisterNames : Named'[x] = Of(regs', x) /\ Named[x] = Of(regs, x)
BY DEF Named, Of

LEMMA RunsWhen ==
    ASSUME MachineInv, NEW i \in Insns, NEW r, RegsOK(r), NEW m, Returns(i, r, m),
           Documented!Needs(i) \subseteq Mapped, m = Documented!MemAfter(i),
           \A x \in RegisterNames \ {<<"PC", 0>>} :
              Of(r, x) = IF x \in Documented!Changes(i) THEN Documented!Set(i, x) ELSE Of(regs, x),
           \/ Of(r, <<"PC", 0>>) = Documented!NextPC(i)
           \/ Of(r, <<"PC", 0>>) = PC /\ Documented!NextPC(i) = Documented!Following(i)
    PROVE  Documented!Next
<1>1. /\ mem' = m /\ ran'.insn = i /\ ran'.fault = FALSE
      /\ \A x \in RegisterNames :
            Of(regs', x) = IF x = <<"PC", 0>> /\ Of(r, x) = PC THEN Documented!Following(i) ELSE Of(r, x)
  BY Returned
<1>2. <<"PC", 0>> \in RegisterNames
  BY DEF RegisterNames
<1>3. CASE Of(regs', <<"PC", 0>>) = Documented!NextPC(i)
  <2>1. \A x \in RegisterNames :
          Named'[x] = IF x = <<"PC", 0>> THEN Documented!NextPC(i)
                      ELSE IF x \in Documented!Changes(i) THEN Documented!Set(i, x) ELSE Named[x]
    BY <1>1, <1>3, NamedAfter
  <2>2. Named' = [x \in RegisterNames |->
                    IF x = <<"PC", 0>> THEN Documented!NextPC(i)
                    ELSE IF x \in Documented!Changes(i) THEN Documented!Set(i, x) ELSE Named[x]]
    BY <2>1 DEF Named
  <2>3. Documented!Runs(i)
    BY <1>1, <2>2 DEF Documented!Runs, Named
  <2> QED
    BY <1>1, <2>3 DEF Documented!Next
<1>4. CASE Of(regs', <<"PC", 0>>) # Documented!NextPC(i)
  <2>1. Documented!NextPC(i) = PC
    BY <1>1, <1>2, <1>4
  <2>2. Documented!Deviates(i)
    BY <2>1, ManualPointers DEF Documented!Deviates, Documented!JumpsToItself
  <2>3. \A x \in RegisterNames \ (Documented!Changes(i) \cup {<<"PC", 0>>}) : Named'[x] = Named[x]
    BY <1>1, NamedAfter
  <2>4. Documented!MayStore(i) \/ mem' = mem
    BY <1>1 DEF Documented!MemAfter, Documented!MayStore
  <2>5. Documented!Strays(i)
    BY <2>2, <2>3, <2>4 DEF Documented!Strays, Named
  <2> QED
    BY <1>1, <2>5 DEF Documented!Next
<1> QED
  BY <1>3, <1>4

LEMMA StraysWhen ==
    ASSUME MachineInv, NEW i \in Insns, NEW r, RegsOK(r), NEW m,
           Returns(i, r, m) \/ (Throws(i, r) /\ m = mem),
           Documented!Deviates(i),
           \A x \in RegisterNames \ (Documented!Changes(i) \cup {<<"PC", 0>>}) : Of(r, x) = Of(regs, x),
           Documented!MayStore(i) \/ m = mem
    PROVE  Documented!Next
<1>1. mem' = m /\ ran'.insn = i
  BY Returned DEF Throws
<1>2. \A x \in RegisterNames \ (Documented!Changes(i) \cup {<<"PC", 0>>}) : Of(regs', x) = Of(r, x)
  BY Returned DEF Throws
<1>3. \A x \in RegisterNames \ (Documented!Changes(i) \cup {<<"PC", 0>>}) : Named'[x] = Named[x]
  BY <1>2, NamedAfter
<1>4. Documented!Strays(i)
  BY <1>1, <1>3 DEF Documented!Strays, Named
<1> QED
  BY <1>1, <1>4 DEF Documented!Next

LEMMA FaultsWhen ==
    ASSUME MachineInv, NEW i \in Insns, NEW r, Throws(i, r),
           ~(Documented!LooksAt(i) \subseteq Mapped),
           \A x \in RegisterNames \ (Documented!Changes(i) \cap {<<"MDR", 0>>, <<"PSW", 0>>}) :
              Of(r, x) = Of(regs, x)
    PROVE  Documented!Next
<1>1. mem' = mem /\ ran'.insn = i /\ ran'.fault /\ regs' = r
  BY DEF Throws
<1>2. \A x \in RegisterNames \ (Documented!Changes(i) \cap {<<"MDR", 0>>, <<"PSW", 0>>}) : Named'[x] = Named[x]
  BY <1>1, NamedAfter
<1>3. Documented!Faults(i)
  BY <1>1, <1>2 DEF Documented!Faults, Named
<1> QED
  BY <1>1, <1>3 DEF Documented!Next


-----------------------------------------------------------------------------
(* Each handler does what the manual says, or deviates as named there.     *)

\* Set, by the names of registers.
LEMMA NamedSet ==
    ASSUME NEW r, RegsOK(r), NEW c, NEW n, IsReg(c, n), NEW v \in Nat, c # "PSW" => v \in Word
    PROVE  /\ RegsOK(set(r, c, n, v))
           /\ \A x \in RegisterNames :
                 Of(set(r, c, n, v), x) =
                    IF x = <<c, n>> THEN IF c = "PSW" THEN v % Width(2) ELSE v ELSE Of(r, x)
<1>1. \A x \in RegisterNames : /\ Number(x[1], x[2]) \in Cell
                               /\ Number(x[1], x[2]) = Number(c, n) <=> x = <<c, n>>
  BY NamedRegisters, RegisterCells
<1> QED
  BY <1>1, SetAny DEF Of

LEMMA PCNamed ==
    ASSUME MachineInv
    PROVE  <<"PC", 0>> \in RegisterNames /\ Of(regs, <<"PC", 0>>) = PC
BY PCWord DEF RegisterNames, Of

LEMMA MovesInManual ==
    ASSUME NEW i, i.form.op \in Moves
    PROVE  /\ Documented!NextPC(i) = Documented!Following(i)
           /\ Documented!Changes(i) = IF Documented!IsStore(i) THEN {} ELSE {Documented!Destination(i)}
           /\ ~Documented!IsStore(i) => Documented!MemAfter(i) = mem
           /\ \A x : Documented!Set(i, x) =
                 IF Documented!IsLoad(i) THEN Documented!MemN(Documented!EA(i), Documented!OpSize(i.form.op))
                 ELSE Documented!Operand(i, 1) % (IF x[1] = "PSW" THEN Width(2) ELSE M)
           /\ Documented!Needs(i) =
                 IF Documented!IsLoad(i) \/ Documented!IsStore(i)
                 THEN Documented!Bytes(Documented!EA(i), Documented!OpSize(i.form.op)) ELSE {}
<1> DEFINE op == i.form.op
<1>1. /\ op \notin {"JMP", "CALLS", "RETS", "RTI", "TRAP", "SETLB", "INC", "INC4", "BSET", "BCLR", "BTST"}
      /\ op \notin Branch /\ op \notin Loop /\ op \in Documented!Moves
      /\ op \notin Documented!Branch /\ op \notin Documented!Loop /\ op \notin Documented!Bits
  <2>1. /\ op \notin {"JMP", "CALLS", "RETS", "RTI", "TRAP", "SETLB", "INC", "INC4", "BSET", "BCLR", "BTST"}
        /\ op \notin Branch /\ op \notin Loop /\ op \notin Bits
    BY DEF Moves, Branch, Loop, Bits
  <2> HIDE DEF op
  <2> QED
    BY <2>1, ManualArith DEF op
<1>2. Documented!NextPC(i) = Documented!Following(i)
  BY <1>1 DEF Documented!NextPC
<1>3. Documented!Changes(i) = IF Documented!IsStore(i) THEN {} ELSE {Documented!Destination(i)}
  BY <1>1 DEF Documented!Changes
<1>4. ~Documented!IsStore(i) => Documented!MemAfter(i) = mem
  BY <1>1 DEF Documented!MemAfter
<1>5. ASSUME NEW x
      PROVE  Documented!Set(i, x) =
                 IF Documented!IsLoad(i) THEN Documented!MemN(Documented!EA(i), Documented!OpSize(i.form.op))
                 ELSE Documented!Operand(i, 1) % (IF x[1] = "PSW" THEN Width(2) ELSE M)
  BY <1>1, ManualArith DEF Documented!Set
<1>6. Documented!Needs(i) =
        IF Documented!IsLoad(i) \/ Documented!IsStore(i)
        THEN Documented!Bytes(Documented!EA(i), Documented!OpSize(i.form.op)) ELSE {}
  BY <1>1 DEF Documented!Needs
<1> QED
  BY <1>2, <1>3, <1>4, <1>5, <1>6

LEMMA MovRegisterAsDocumented ==
    ASSUME MachineInv, NEW i \in Insns, MovRegister(i)
    PROVE  Documented!Next
<1> DEFINE c == i.form.kinds[2]
           n == i.nums[2]
           v == Moved(i)
           r == set(regs, c, n, v)
<1>1. RegisterForm(i.form)
  BY MovRegisterForm DEF MovRegister
<1>2. /\ i.form.op = "MOV" /\ i.form.mem = {} /\ Len(i.form.kinds) = 2 /\ c \in Registers
      /\ i.form.kinds[1] \in Registers \cup {"imm8", "imm16", "imm32"}
  BY <1>1, RegisterForms
<1>3. IsReg(c, n) /\ i.args \in Word
  BY <1>2, OperandKinds, InsnParts DEF Bits
<1>4. v \in Word /\ v \in Nat /\ v % M = v
  BY <1>2, <1>3, InvParts, ValueIsWord, Words DEF Moved, Wrap
<1>5. Documented!Operand(i, 1) = v
  <2>1. CASE i.form.kinds[1] \in Registers
    BY <1>2, <2>1, ManualOperands DEF Moved, Registers, is_imm
  <2>2. CASE i.form.kinds[1] \in {"imm8", "imm16", "imm32"}
    <3>1. is_data(i.form.kinds[1])
      BY <2>2, ArgSizes
    <3>2. Documented!Extended(i.form.kinds[1], i.args) = get_val(i, 1)
      BY <1>2, <1>3, <3>1, ManualOperands
    <3>3. Documented!Operand(i, 1) = IF c = "D" THEN get_val(i, 1) ELSE i.args
      BY <2>2, <3>2 DEF Documented!Operand
    <3> QED
      BY <2>2, <3>3 DEF Moved, is_imm
  <2> QED
    BY <1>2, <2>1, <2>2
<1>6. ~Documented!IsLoad(i) /\ ~Documented!IsStore(i)
  BY <1>2 DEF Documented!IsLoad, Documented!IsStore
<1>7. /\ Documented!Needs(i) = {} /\ Documented!MemAfter(i) = mem
      /\ Documented!Changes(i) = {Documented!Destination(i)}
      /\ Documented!NextPC(i) = Documented!Following(i)
  BY <1>2, <1>6, MovesInManual DEF Moves
<1>8. Documented!Destination(i) = <<c, n>>
  BY <1>2, <1>3 DEF Documented!Destination, IsReg, Registers
<1>9. \A x : Documented!Set(i, x) = v % (IF x[1] = "PSW" THEN Width(2) ELSE M)
  BY <1>2, <1>5, <1>6, MovesInManual DEF Moves
<1>10. /\ RegsOK(r)
       /\ \A x \in RegisterNames :
             Of(r, x) = IF x = <<c, n>> THEN IF c = "PSW" THEN v % Width(2) ELSE v ELSE Of(regs, x)
  BY <1>3, <1>4, InvParts, NamedSet
<1>11. Returns(i, r, mem)
  BY DEF MovRegister
<1>12. <<"PC", 0>> # <<c, n>>
  BY <1>2 DEF Registers
<1> HIDE DEF c, n, v, r
<1>13. Of(r, <<"PC", 0>>) = PC
  BY <1>10, <1>12, PCNamed
<1>14. \A x \in RegisterNames \ {<<"PC", 0>>} :
          Of(r, x) = IF x \in Documented!Changes(i) THEN Documented!Set(i, x) ELSE Of(regs, x)
  BY <1>4, <1>7, <1>8, <1>9, <1>10
<1> QED
  BY <1>7, <1>10, <1>11, <1>13, <1>14, RunsWhen

LEMMA LoadAsDocumented ==
    ASSUME MachineInv, NEW i \in Insns, Load(i)
    PROVE  Documented!Next
<1> DEFINE last == Len(i.form.kinds)
           addr == get_val_mem(i)
           size == Size(i.form.op)
           v    == Read32(addr) % Width(size)
           c    == i.form.kinds[last]
           n    == i.nums[last]
           r    == set(regs, c, n, v)
<1>1. LoadForm(i.form)
  BY MoveForm DEF Load
<1>2. /\ last \in {2, 3} /\ c \in General /\ i.form.op \in Moves /\ 1 \in i.form.mem
      /\ AddressOperands(i.form.kinds) \subseteq 1 .. last
  <2>1. /\ last \in {2, 3} /\ c \in General /\ i.form.op \in Moves
        /\ AddressOperands(i.form.kinds) = i.form.mem /\ i.form.mem = 1 .. last - 1
    BY <1>1, LoadForms
  <2> HIDE DEF last, c
  <2> QED
    BY <2>1
<1>3. addr \in Word
  BY <1>2, InvParts, AddressIsWord
<1>4. IsReg(c, n) /\ Documented!Destination(i) = <<c, n>>
  <2>1. c \in Registers
    <3> HIDE DEF c, last
    <3> QED
      BY <1>2 DEF General, Registers
  <2>2. last \in 1 .. Len(i.form.kinds)
    BY <1>2
  <2>3. IsReg(c, n)
    BY <2>1, <2>2, OperandKinds
  <2> QED
    BY <2>1, <2>3 DEF Documented!Destination, IsReg, Registers
<1>5. size \in {1, 2, 4} /\ Documented!OpSize(i.form.op) = size
  BY <1>2, SizeOf DEF Documented!OpSize, Size
<1>6. Documented!IsLoad(i) /\ ~Documented!IsStore(i)
  BY <1>2, ManualArith DEF Documented!IsLoad, Documented!IsStore
<1>7. /\ Documented!Needs(i) = Documented!Bytes(Documented!EA(i), size)
      /\ Documented!LooksAt(i) = Documented!Bytes(Documented!EA(i), 4)
      /\ Documented!MemAfter(i) = mem
      /\ Documented!Changes(i) = {<<c, n>>}
      /\ Documented!NextPC(i) = Documented!Following(i)
      /\ \A x : Documented!Set(i, x) = Documented!MemN(Documented!EA(i), size)
  BY <1>2, <1>4, <1>5, <1>6, MovesInManual DEF Documented!LooksAt
<1>8. <<"PC", 0>> # <<c, n>> /\ c # "PSW"
  BY <1>2 DEF General
<1>9. Accessing(i, addr, 4, regs, Returns(i, r, mem))
  BY DEF Load
<1>10. Accessible(addr, 4) => Read32(addr) \in Word
  BY <1>3, InvParts, ReadIsWord
<1> HIDE DEF addr, size, c, n
<1>11. Accessible(addr, 4) => v \in Word /\ v \in Nat
  <2>1. PICK k \in 0 .. 4 : k = size
    BY <1>5
  <2>2. PICK w \in Nat \ {0} : w = Width(size) /\ w <= M
    BY <2>1, Widths
  <2>3. ASSUME Accessible(addr, 4) PROVE v \in 0 .. w - 1
    <3>1. PICK x \in Nat : x = Read32(addr)
      BY <1>10, <2>3, Words
    <3> QED
      BY <2>2, <3>1
  <2>4. M \in Nat
    BY Widths
  <2> HIDE DEF v
  <2> QED
    BY <2>2, <2>3, <2>4 DEF Word
<1> HIDE DEF v
<1>12. Accessible(addr, 4) =>
         /\ RegsOK(r)
         /\ \A x \in RegisterNames : Of(r, x) = IF x = <<c, n>> THEN v ELSE Of(regs, x)
  BY <1>4, <1>8, <1>11, InvParts, NamedSet
<1> HIDE DEF r
<1>13. CASE Documented!ExtendsAddress(i)
  <2>1. Documented!Deviates(i)
    BY <1>13 DEF Documented!Deviates
  <2>2. CASE Accessible(addr, 4)
    BY <1>7, <1>9, <1>12, <2>1, <2>2, StraysWhen DEF Accessing
  <2>3. CASE ~Accessible(addr, 4)
    BY <1>9, <2>1, <2>3, InvParts, StraysWhen DEF Accessing
  <2> QED
    BY <2>2, <2>3
<1>14. CASE ~Documented!ExtendsAddress(i)
  <2>1. Documented!EA(i) = addr
    BY <1>1, <1>14, SameAddress DEF addr
  <2>2. Accessible(addr, 4) <=> Documented!LooksAt(i) \subseteq Mapped
    BY <1>7, <2>1, ManualBytes
  <2>3. CASE Accessible(addr, 4)
    <3>1. Documented!Needs(i) \subseteq Documented!LooksAt(i)
      BY <1>5, <1>7, ManualArith DEF Documented!Bytes
    <3>2. \A x : Documented!Set(i, x) = v
      BY <1>3, <1>5, <1>7, <2>1, <2>3, InvParts, ManualReads DEF v
    <3>3. \A x \in RegisterNames \ {<<"PC", 0>>} :
            Of(r, x) = IF x \in Documented!Changes(i) THEN Documented!Set(i, x) ELSE Of(regs, x)
      BY <1>7, <1>12, <2>3, <3>2
    <3>4. Of(r, <<"PC", 0>>) = PC
      BY <1>8, <1>12, <2>3, PCNamed
    <3> QED
      BY <1>7, <1>9, <1>12, <2>2, <2>3, <3>1, <3>3, <3>4, RunsWhen DEF Accessing
  <2>4. CASE ~Accessible(addr, 4)
    BY <1>9, <2>2, <2>4, FaultsWhen DEF Accessing
  <2> QED
    BY <2>3, <2>4
<1> QED
  BY <1>13, <1>14

LEMMA StoreAsDocumented ==
    ASSUME MachineInv, NEW i \in Insns, Store(i)
    PROVE  Documented!Next
<1> DEFINE addr == get_val_mem(i)
           size == Size(i.form.op)
           v    == get_val(i, 1)
           m    == Written(addr, v, size)
<1>1. StoreForm(i.form)
  BY MoveForm DEF Store
<1>2. /\ Len(i.form.kinds) \in {2, 3} /\ i.form.kinds[1] \in General /\ i.form.op \in Moves
      /\ AddressOperands(i.form.kinds) \subseteq 1 .. Len(i.form.kinds)
      /\ i.form.mem # {} /\ 1 \notin i.form.mem
  <2>1. PICK last \in {2, 3} : /\ last = Len(i.form.kinds) /\ i.form.mem = 2 .. last
                               /\ AddressOperands(i.form.kinds) = i.form.mem
    BY <1>1, StoreForms
  <2>2. \A l \in {2, 3} : 2 \in 2 .. l /\ 1 \notin 2 .. l /\ 2 .. l \subseteq 1 .. l
    OBVIOUS
  <2>3. 2 \in i.form.mem /\ 1 \notin i.form.mem /\ i.form.mem \subseteq 1 .. last
    BY <2>1, <2>2
  <2> QED
    BY <1>1, <2>1, <2>3, StoreForms
<1>3. addr \in Word /\ v \in Word
  BY <1>2, InvParts, AddressIsWord, ValueIsWord
<1>4. Documented!Operand(i, 1) = v
  BY <1>2, ManualOperands DEF General, Registers
<1>5. size \in {1, 2, 4} /\ Documented!OpSize(i.form.op) = size
  BY <1>2, SizeOf DEF Documented!OpSize, Size
<1>6. ~Documented!IsLoad(i) /\ Documented!IsStore(i)
  BY <1>2, ManualArith DEF Documented!IsLoad, Documented!IsStore
<1>7. /\ Documented!Needs(i) = Documented!Bytes(Documented!EA(i), size)
      /\ Documented!LooksAt(i) = Documented!Needs(i)
      /\ Documented!MemAfter(i) = Documented!Stored(Documented!EA(i), v, size)
      /\ Documented!MayStore(i)
      /\ Documented!Changes(i) = {}
      /\ Documented!NextPC(i) = Documented!Following(i)
  <2>1. /\ Documented!MayStore(i) /\ Documented!LooksAt(i) = Documented!Needs(i)
        /\ Documented!MemAfter(i) = Documented!Stored(Documented!EA(i), v, size)
    BY <1>2, <1>4, <1>5, <1>6 DEF Documented!LooksAt, Documented!MemAfter, Documented!MayStore, Moves
  <2>2. /\ Documented!Needs(i) = Documented!Bytes(Documented!EA(i), size)
        /\ Documented!Changes(i) = {} /\ Documented!NextPC(i) = Documented!Following(i)
    BY <1>2, <1>5, <1>6, MovesInManual
  <2> QED
    BY <2>1, <2>2
<1>8. Accessing(i, addr, size, regs, Returns(i, regs, m))
  BY DEF Store
<1> HIDE DEF addr, size, v
<1>9. CASE Documented!ExtendsAddress(i)
  <2>1. Documented!Deviates(i)
    BY <1>9 DEF Documented!Deviates
  <2> HIDE DEF m
  <2>2. CASE Accessible(addr, size)
    BY <1>7, <1>8, <2>1, <2>2, InvParts, StraysWhen DEF Accessing
  <2>3. CASE ~Accessible(addr, size)
    BY <1>8, <2>1, <2>3, InvParts, StraysWhen DEF Accessing
  <2> QED
    BY <2>2, <2>3
<1>10. CASE ~Documented!ExtendsAddress(i)
  <2>1. Documented!EA(i) = addr
    BY <1>1, <1>10, SameAddress DEF addr
  <2>2. Accessible(addr, size) <=> Documented!Needs(i) \subseteq Mapped
    BY <1>5, <1>7, <2>1, ManualBytes
  <2>3. m = Documented!MemAfter(i)
    BY <1>3, <1>5, <1>7, <2>1, ManualWrites
  <2> HIDE DEF m
  <2>4. CASE Accessible(addr, size)
    BY <1>7, <1>8, <2>2, <2>3, <2>4, InvParts, PCNamed, RunsWhen DEF Accessing
  <2>5. CASE ~Accessible(addr, size)
    BY <1>7, <1>8, <2>2, <2>5, FaultsWhen DEF Accessing
  <2> QED
    BY <2>4, <2>5
<1> QED
  BY <1>9, <1>10


\* What is no move, by its name.
LEMMA OthersInManual ==
    ASSUME NEW i, i.form.op \notin Moves
    PROVE  /\ ~Documented!IsLoad(i) /\ ~Documented!IsStore(i)
           /\ Documented!LooksAt(i) = Documented!Needs(i)
           /\ i.form.op \in Branch \cup Loop \cup {"JMP", "INC", "INC4"} =>
                Documented!Needs(i) = {} /\ Documented!MemAfter(i) = mem
           /\ i.form.op \in Branch \cup Loop \cup {"JMP"} => Documented!Changes(i) = {}
<1>1. ~Documented!IsLoad(i) /\ ~Documented!IsStore(i)
  BY ManualArith DEF Documented!IsLoad, Documented!IsStore
<1>2. Documented!LooksAt(i) = Documented!Needs(i)
  BY <1>1 DEF Documented!LooksAt
<1>3. ASSUME i.form.op \in Branch \cup Loop \cup {"JMP", "INC", "INC4"}
      PROVE  Documented!Needs(i) = {} /\ Documented!MemAfter(i) = mem
  <2>1. i.form.op \notin {"CALLS", "RETS", "TRAP", "RTI", "SETLB"}
    BY <1>3 DEF Branch, Loop
  <2> QED
    BY <1>1, <2>1 DEF Documented!Needs, Documented!MemAfter
<1>4. ASSUME i.form.op \in Branch \cup Loop \cup {"JMP"} PROVE Documented!Changes(i) = {}
  <2>1. i.form.op \notin {"CALLS", "RTI", "SETLB", "INC", "INC4"} /\ i.form.op \notin Moves \cup Bits
    BY <1>4 DEF Branch, Loop, Moves, Bits
  <2> QED
    BY <1>1, <2>1, ManualArith DEF Documented!Changes
<1> QED
  BY <1>1, <1>2, <1>3, <1>4

\* The target of a displacement: CALLS adds it as it is.
LEMMA ManualTarget ==
    ASSUME MachineInv, NEW i \in Insns, i.form.op \in Branch \cup {"JMP", "CALLS"}
    PROVE  /\ i.form.kinds[1] = "MA" => Documented!Target(i) = get_val(i, 1)
           /\ i.form.kinds[1] # "MA" =>
                /\ is_data(i.form.kinds[1])
                /\ Documented!Target(i) = Wrap(PC + get_val(i, 1))
                /\ get_val(i, 1) = Documented!Extended(i.form.kinds[1], i.args)
                /\ i.form.kinds[1] = "d32" => get_val(i, 1) = i.args
<1>1. /\ 1 \in 1 .. Len(i.form.kinds) /\ i.args \in Word /\ i.form.mem = {}
      /\ i.form.kinds[1] \in {"MA", "d8", "d16", "d32"}
  BY JumpForms
<1>2. CASE i.form.kinds[1] = "MA"
  <2>1. Documented!Operand(i, 1) = get_val(i, 1)
    BY <1>1, <1>2, ManualOperands
  <2> QED
    BY <1>2, <2>1 DEF Documented!Target
<1>3. CASE i.form.kinds[1] \in {"d8", "d16", "d32"}
  <2>1. is_data(i.form.kinds[1]) /\ (i.form.kinds[1] = "d32" => get_arg_sz(i.form.kinds[1]) = 4)
    BY <1>3 DEF is_data, get_arg_sz
  <2>2. /\ Documented!Extended(i.form.kinds[1], i.args) = get_val(i, 1)
        /\ i.form.kinds[1] = "d32" => get_val(i, 1) = i.args
    BY <1>1, <2>1, ManualOperands
  <2>3. Documented!Operand(i, 1) = Documented!Extended(i.form.kinds[1], i.args)
    BY <1>1, <1>3 DEF Documented!Operand
  <2>4. Documented!Target(i) = Wrap(PC + get_val(i, 1))
    BY <1>3, <2>2, <2>3, ManualPointers, ManualArith DEF Documented!Target
  <2> QED
    BY <1>3, <2>1, <2>2, <2>4
<1> QED
  BY <1>1, <1>2, <1>3

LEMMA JumpInManual ==
    ASSUME NEW i, i.form.op \in Branch \cup Loop \cup {"JMP", "CALLS"}
    PROVE  Documented!NextPC(i) =
             IF i.form.op \in Loop
             THEN IF Taken(Documented!BranchOf[i.form.op], Documented!psw)
                  THEN Wrap(Documented!LAR - 4) ELSE Documented!Following(i)
             ELSE IF i.form.op \in Branch /\ ~Taken(i.form.op, Documented!psw)
                  THEN Documented!Following(i) ELSE Documented!Target(i)
<1> DEFINE op == i.form.op
<1>1. op \in Branch => op \notin {"JMP", "CALLS", "RETS", "RTI", "TRAP"} /\ op \notin Loop
  BY DEF Branch, Loop
<1>2. op \in {"JMP", "CALLS"} => op \notin Branch /\ op \notin Loop
  BY DEF Branch, Loop
<1>3. op \in Loop => op \notin {"JMP", "CALLS", "RETS", "RTI", "TRAP"} /\ op \notin Branch
  BY DEF Branch, Loop
<1> HIDE DEF op
<1>4. CASE op \in Branch
  <2>1. op \notin {"JMP", "CALLS", "RETS", "RTI", "TRAP"} /\ op \notin Loop
    BY <1>1, <1>4
  <2>2. Documented!NextPC(i) = IF Taken(op, Documented!psw) THEN Documented!Target(i)
                               ELSE Documented!Following(i)
    BY <1>4, <2>1, ManualArith, ManualTaken DEF Documented!NextPC, op
  <2> QED
    BY <1>4, <2>1, <2>2 DEF op
<1>5. CASE op \in Loop
  <2>1. op \notin {"JMP", "CALLS", "RETS", "RTI", "TRAP"} /\ op \notin Branch
    BY <1>3, <1>5
  <2>2. Documented!NextPC(i) =
          IF Taken(Documented!BranchOf[op], Documented!psw) THEN Wrap(Documented!LAR - 4)
          ELSE Documented!Following(i)
    BY <1>5, <2>1, ManualArith, ManualTaken DEF Documented!NextPC, op
  <2> QED
    BY <1>5, <2>1, <2>2 DEF op
<1>6. CASE op \in {"JMP", "CALLS"}
  <2>1. op \notin Branch /\ op \notin Loop
    BY <1>2, <1>6
  <2>2. Documented!NextPC(i) = Documented!Target(i)
    BY <1>6, <2>1, ManualArith DEF Documented!NextPC, op
  <2> QED
    BY <1>6, <2>1, <2>2 DEF op
<1> QED
  BY <1>4, <1>5, <1>6 DEF op

LEMMA JmpAsDocumented ==
    ASSUME MachineInv, NEW i \in Insns, Jmp(i)
    PROVE  Documented!Next
<1> DEFINE to == Wrap(PC + get_val(i, 1))
           r  == set(regs, "PC", 0, to)
<1>1. i.form.op \in Branch \cup {"JMP"} /\ (i.form.op \in Branch => Taken(i.form.op, FlagsOf(PSW)))
  BY DEF Jmp, Branch
<1>2. i.form.op \notin Moves /\ i.form.op \notin Loop
  BY <1>1 DEF Branch, Moves, Loop
<1>3. 1 \in 1 .. Len(i.form.kinds) /\ get_val(i, 1) \in Word
  BY <1>1, JumpForms, InvParts, ValueIsWord
<1>4. to \in Word /\ to \in Nat
  BY <1>3, PCWord, Words
<1>5. /\ RegsOK(r)
      /\ \A x \in RegisterNames : Of(r, x) = IF x = <<"PC", 0>> THEN to ELSE Of(regs, x)
  BY <1>4, InvParts, NamedSet DEF IsReg
<1>6. Returns(i, r, mem)
  BY DEF Jmp, Jumps
<1>7. Documented!Needs(i) = {} /\ Documented!MemAfter(i) = mem /\ Documented!Changes(i) = {}
  BY <1>1, <1>2, OthersInManual
<1>8. Documented!NextPC(i) = Documented!Target(i)
  BY <1>1, <1>2, JumpInManual, ManualFlags
<1> HIDE DEF to, r
<1>9. CASE i.form.kinds[1] = "MA"
  <2>1. i.form.op = "JMP"
    <3>1. JumpForm(i.form)
      BY <1>1, JumpForms
    <3>2. i.form.kinds # <<"d8", "PC">>
      BY <1>9
    <3> QED
      BY <1>1, <3>1, <3>2 DEF JumpForm, Branch
  <2>2. Documented!Deviates(i)
    BY <1>9, <2>1 DEF Documented!Deviates, Documented!OtherTarget
  <2> QED
    BY <1>5, <1>6, <2>2, StraysWhen
<1>10. CASE i.form.kinds[1] # "MA"
  <2>1. Documented!NextPC(i) = to
    BY <1>1, <1>8, <1>10, ManualTarget DEF to
  <2>2. Of(r, <<"PC", 0>>) = to
    BY <1>5, PCNamed
  <2>3. \A x \in RegisterNames \ {<<"PC", 0>>} :
          Of(r, x) = IF x \in Documented!Changes(i) THEN Documented!Set(i, x) ELSE Of(regs, x)
    BY <1>5, <1>7
  <2> QED
    BY <1>5, <1>6, <1>7, <2>1, <2>2, <2>3, RunsWhen
<1> QED
  BY <1>9, <1>10

LEMMA BccNotTakenAsDocumented ==
    ASSUME MachineInv, NEW i \in Insns, BccNotTaken(i)
    PROVE  Documented!Next
<1>1. i.form.op \in Branch /\ ~Taken(i.form.op, FlagsOf(PSW)) /\ Returns(i, regs, mem)
  BY DEF BccNotTaken
<1>2. i.form.op \notin Moves /\ i.form.op \notin Loop
  BY <1>1 DEF Branch, Moves, Loop
<1>3. Documented!Needs(i) = {} /\ Documented!MemAfter(i) = mem /\ Documented!Changes(i) = {}
  BY <1>1, <1>2, OthersInManual
<1>4. Documented!NextPC(i) = Documented!Following(i)
  BY <1>1, <1>2, JumpInManual, ManualFlags
<1> QED
  BY <1>1, <1>3, <1>4, InvParts, PCNamed, RunsWhen

\* A loop instruction goes back whenever the branch on its condition would.
LEMMA LoopsWhenTaken ==
    ASSUME NEW op \in Loop, NEW flags, Taken(Documented!BranchOf[op], flags)
    PROVE  Loops(op, flags)
<1> DEFINE b == Documented!BranchOf[op]
<1>1. \/ (op = "LEQ" /\ b = "BEQ") \/ (op = "LNE" /\ b = "BNE") \/ (op = "LGT" /\ b = "BGT")
      \/ (op = "LGE" /\ b = "BGE") \/ (op = "LLE" /\ b = "BLE") \/ (op = "LLT" /\ b = "BLT")
      \/ (op = "LHI" /\ b = "BHI") \/ (op = "LCC" /\ b = "BCC") \/ (op = "LLS" /\ b = "BLS")
      \/ (op = "LCS" /\ b = "BCS") \/ (op = "LRA" /\ b = "BRA")
  BY DEF Loop, Documented!BranchOf
<1> HIDE DEF b
<1>2. Taken(b, flags)
  BY DEF b
<1> QED
  BY <1>1, <1>2 DEF Taken, Loops

LEMMA LoopJumpAsDocumented ==
    ASSUME MachineInv, NEW i \in Insns, LoopJump(i)
    PROVE  Documented!Next
<1> DEFINE lar == get("LAR", 0)
           to  == Wrap(IF Loops(i.form.op, FlagsOf(PSW)) THEN lar - 4 ELSE lar + 1)
           r   == set(regs, "PC", 0, to)
<1>1. i.form.op \in Loop /\ Returns(i, r, mem)
  BY DEF LoopJump, Jumps
<1>2. i.form.op \notin Moves
  BY <1>1 DEF Moves, Loop
<1>3. to \in Word /\ to \in Nat
  BY PCWord, Words
<1>4. /\ RegsOK(r)
      /\ \A x \in RegisterNames : Of(r, x) = IF x = <<"PC", 0>> THEN to ELSE Of(regs, x)
  BY <1>3, InvParts, NamedSet DEF IsReg
<1>5. Documented!Needs(i) = {} /\ Documented!MemAfter(i) = mem /\ Documented!Changes(i) = {}
  BY <1>1, <1>2, OthersInManual
<1>6. CASE Taken(Documented!BranchOf[i.form.op], Documented!psw)
  <2>1. Documented!NextPC(i) = to
    BY <1>1, <1>6, JumpInManual, LoopsWhenTaken, ManualFlags, ManualPointers
  <2> HIDE DEF to, r
  <2>2. Of(r, <<"PC", 0>>) = to
    BY <1>4, PCNamed
  <2>3. \A x \in RegisterNames \ {<<"PC", 0>>} :
          Of(r, x) = IF x \in Documented!Changes(i) THEN Documented!Set(i, x) ELSE Of(regs, x)
    BY <1>4, <1>5
  <2> QED
    BY <1>1, <1>4, <1>5, <2>1, <2>2, <2>3, RunsWhen
<1>7. CASE ~Taken(Documented!BranchOf[i.form.op], Documented!psw)
  <2>1. Documented!Deviates(i)
    BY <1>1, <1>7, ManualArith, ManualTaken DEF Documented!Deviates, Documented!OtherLoop
  <2> HIDE DEF to, r
  <2> QED
    BY <1>1, <1>4, <2>1, StraysWhen
<1> QED
  BY <1>6, <1>7

LEMMA CallsAsDocumented ==
    ASSUME MachineInv, NEW i \in Insns, Calls(i)
    PROVE  Documented!Next
<1> DEFINE next   == Wrap(PC + i.form.sz)
           first  == set(regs, "MDR", 0, next)
           target == IF is_data(i.form.kinds[1]) THEN Wrap(PC + i.args) ELSE get("MA", i.nums[1])
           r      == set(first, "PC", 0, target)
           m      == Written(SP, next, 4)
<1>1. i.form.op = "CALLS" /\ Accessing(i, SP, 4, first, Returns(i, r, m))
  BY DEF Calls
<1>2. next \in Word /\ next \in Nat /\ Documented!Following(i) = next
  BY PCWord, InsnParts, KindsNamed, Words, ManualArith, ManualPointers DEF Documented!Following
<1>3. 1 \in 1 .. Len(i.form.kinds) /\ i.args \in Word /\ i.form.kinds[1] \in {"MA", "d8", "d16", "d32"}
  BY <1>1, JumpForms
<1>4. target = IF i.form.kinds[1] = "MA" THEN get_val(i, 1) ELSE Wrap(PC + i.args)
  <2>1. is_data(i.form.kinds[1]) <=> i.form.kinds[1] # "MA"
    BY <1>3, OperandKinds DEF Registers
  <2> QED
    BY <2>1 DEF get_val
<1>5. target \in Word /\ target \in Nat
  BY <1>3, <1>4, InvParts, ValueIsWord, PCWord, Words
<1>6. /\ RegsOK(first)
      /\ \A x \in RegisterNames : Of(first, x) = IF x = <<"MDR", 0>> THEN next ELSE Of(regs, x)
  BY <1>2, InvParts, NamedSet DEF IsReg
<1> HIDE DEF first, target
<1>7. /\ RegsOK(r)
      /\ \A x \in RegisterNames : Of(r, x) = IF x = <<"PC", 0>> THEN target ELSE Of(first, x)
  BY <1>5, <1>6, NamedSet DEF IsReg
<1>8. /\ Documented!Needs(i) = Documented!Bytes(SP, 4) /\ Documented!LooksAt(i) = Documented!Needs(i)
      /\ Documented!Changes(i) = {<<"MDR", 0>>} /\ Documented!MayStore(i)
      /\ \A x : Documented!Set(i, x) = next
      /\ Documented!MemAfter(i) = m
  <2>1. ~Documented!IsLoad(i) /\ ~Documented!IsStore(i) /\ Documented!LooksAt(i) = Documented!Needs(i)
    BY <1>1, OthersInManual DEF Moves
  <2>2. Documented!Needs(i) = Documented!Bytes(SP, 4)
    BY <1>1, <2>1, ManualPointers DEF Documented!Needs
  <2>3. Documented!Changes(i) = {<<"MDR", 0>>} /\ Documented!MayStore(i)
    <3>1. i.form.op \notin Documented!Moves /\ i.form.op \notin Documented!Bits
      BY <1>1 DEF Documented!Moves, Documented!Bits
    <3> QED
      BY <1>1, <3>1 DEF Documented!Changes, Documented!MayStore
  <2>4. \A x : Documented!Set(i, x) = next
    BY <1>1, <1>2, <2>1 DEF Documented!Set
  <2>5. Documented!MemAfter(i) = Documented!Stored(SP, next, 4)
    BY <1>1, <1>2, <2>1, ManualPointers DEF Documented!MemAfter
  <2> QED
    BY <2>1, <2>2, <2>3, <2>4, <2>5, PCWord, ManualWrites
<1>9. Accessible(SP, 4) <=> Documented!Needs(i) \subseteq Mapped
  BY <1>8, ManualBytes
<1>10. Documented!NextPC(i) = Documented!Target(i)
  BY <1>1, JumpInManual DEF Branch, Loop
<1> HIDE DEF next, r, m
<1>11. CASE ~Accessible(SP, 4)
  <2>1. Throws(i, first)
    BY <1>1, <1>11 DEF Accessing
  <2> QED
    BY <1>6, <1>8, <1>9, <1>11, <2>1, FaultsWhen
<1>12. CASE Accessible(SP, 4) /\ Documented!Target(i) = target
  <2>1. Of(r, <<"PC", 0>>) = Documented!NextPC(i)
    BY <1>7, <1>10, <1>12, PCNamed
  <2>2. \A x \in RegisterNames \ {<<"PC", 0>>} :
          Of(r, x) = IF x \in Documented!Changes(i) THEN Documented!Set(i, x) ELSE Of(regs, x)
    BY <1>6, <1>7, <1>8
  <2>3. Returns(i, r, m)
    BY <1>1, <1>12 DEF Accessing
  <2> QED
    BY <1>7, <1>8, <1>9, <1>12, <2>1, <2>2, <2>3, RunsWhen
<1>13. CASE Accessible(SP, 4) /\ Documented!Target(i) # target
  <2>1. i.form.kinds[1] # "MA" /\ i.form.kinds[1] # "d32" /\ get_val(i, 1) # i.args
        /\ get_val(i, 1) = Documented!Extended(i.form.kinds[1], i.args)
    BY <1>1, <1>4, <1>13, ManualTarget
  <2>2. i.form.kinds[1] = "d16"
    <3>1. JumpForm(i.form)
      BY <1>1, JumpForms
    <3> QED
      BY <1>1, <2>1, <3>1 DEF JumpForm, Branch
  <2>3. Documented!Deviates(i)
    BY <1>1, <2>1, <2>2 DEF Documented!Deviates, Documented!OtherTarget, Documented!Negative
  <2>4. Returns(i, r, m)
    BY <1>1, <1>13 DEF Accessing
  <2> QED
    BY <1>6, <1>7, <1>8, <2>3, <2>4, StraysWhen
<1> QED
  BY <1>11, <1>12, <1>13


LEMMA SetlbAsDocumented ==
    ASSUME MachineInv, NEW i \in Insns, Setlb(i)
    PROVE  Documented!Next
<1> DEFINE next == Wrap(PC + 1)
           word == Read32(next)
           back == Wrap(PC + 5)
           r1   == set(regs, "LIR", 0, word)
           r2   == set(r1, "LAR", 0, back)
<1>1. i.form.op = "SETLB" /\ Accessing(i, next, 4, regs, Returns(i, r2, mem))
  BY DEF Setlb
<1>2. next \in Word /\ back \in Word /\ back \in Nat
  BY PCWord, Words
<1>3. Accessible(next, 4) => word \in Word /\ word \in Nat
  BY <1>2, InvParts, ReadIsWord, Words
<1>4. /\ ~Documented!IsLoad(i) /\ ~Documented!IsStore(i)
      /\ Documented!LooksAt(i) = Documented!Needs(i)
  BY <1>1, OthersInManual DEF Moves
<1>5. Documented!Needs(i) = Documented!Bytes(next, 4)
  BY <1>1, <1>4, ManualPointers, ManualArith DEF Documented!Needs
<1>6. Documented!Changes(i) = {<<"LIR", 0>>, <<"LAR", 0>>}
  <2>1. i.form.op \notin Documented!Moves /\ i.form.op \notin Documented!Bits
    BY <1>1 DEF Documented!Moves, Documented!Bits
  <2> QED
    BY <1>1, <2>1 DEF Documented!Changes
<1>7. /\ Documented!Set(i, <<"LIR", 0>>) = Documented!MemN(next, 4)
      /\ Documented!Set(i, <<"LAR", 0>>) = back
  BY <1>1, <1>4, ManualPointers, ManualArith DEF Documented!Set
<1>8. Documented!MemAfter(i) = mem
  BY <1>1, <1>4 DEF Documented!MemAfter
<1>9. Documented!NextPC(i) = Documented!Following(i)
  <2>1. i.form.op \notin Documented!Branch /\ i.form.op \notin Documented!Loop
    BY <1>1 DEF Documented!Branch, Documented!Loop
  <2> QED
    BY <1>1, <2>1 DEF Documented!NextPC
<1> HIDE DEF next, word, back
<1>10. Accessible(next, 4) =>
         /\ RegsOK(r1)
         /\ \A x \in RegisterNames : Of(r1, x) = IF x = <<"LIR", 0>> THEN word ELSE Of(regs, x)
  BY <1>3, InvParts, NamedSet DEF IsReg
<1> HIDE DEF r1
<1>11. Accessible(next, 4) =>
         /\ RegsOK(r2)
         /\ \A x \in RegisterNames : Of(r2, x) = IF x = <<"LAR", 0>> THEN back ELSE Of(r1, x)
  BY <1>2, <1>10, NamedSet DEF IsReg
<1> HIDE DEF r2
<1>12. Accessible(next, 4) <=> Documented!Needs(i) \subseteq Mapped
  BY <1>5, ManualBytes
<1>13. CASE Accessible(next, 4)
  <2>1. Documented!MemN(next, 4) = word
    BY <1>2, <1>13, InvParts, ManualReads DEF word
  <2>2. \A x \in RegisterNames \ {<<"PC", 0>>} :
          Of(r2, x) = IF x \in Documented!Changes(i) THEN Documented!Set(i, x) ELSE Of(regs, x)
    BY <1>6, <1>7, <1>10, <1>11, <1>13, <2>1
  <2>3. Of(r2, <<"PC", 0>>) = PC
    BY <1>10, <1>11, <1>13, PCNamed
  <2>4. Returns(i, r2, mem)
    BY <1>1, <1>13 DEF Accessing
  <2> QED
    BY <1>8, <1>9, <1>11, <1>12, <1>13, <2>2, <2>3, <2>4, RunsWhen
<1>14. CASE ~Accessible(next, 4)
  BY <1>1, <1>4, <1>12, <1>14, FaultsWhen DEF Accessing
<1> QED
  BY <1>13, <1>14

LEMMA RetsAsDocumented ==
    ASSUME MachineInv, NEW i \in Insns, Rets(i)
    PROVE  Documented!Next
<1> DEFINE to == Read32(SP)
           r  == set(regs, "PC", 0, to)
<1>1. i.form.op = "RETS" /\ Accessing(i, SP, 4, regs, Returns(i, r, mem))
  BY DEF Rets, Jumps
<1>2. SP \in Word /\ (Accessible(SP, 4) => to \in Word /\ to \in Nat)
  BY PCWord, InvParts, ReadIsWord, Words
<1>3. /\ ~Documented!IsLoad(i) /\ ~Documented!IsStore(i)
      /\ Documented!LooksAt(i) = Documented!Needs(i)
  BY <1>1, OthersInManual DEF Moves
<1>4. Documented!Needs(i) = Documented!Bytes(SP, 4) /\ Documented!MemAfter(i) = mem
  BY <1>1, <1>3, ManualPointers DEF Documented!Needs, Documented!MemAfter
<1>5. Documented!Changes(i) = {} /\ Documented!NextPC(i) = Documented!MemN(SP, 4)
  <2>1. /\ i.form.op \notin Documented!Moves /\ i.form.op \notin Documented!Bits
        /\ i.form.op \notin Documented!Branch /\ i.form.op \notin Documented!Loop
    BY <1>1 DEF Documented!Moves, Documented!Bits, Documented!Branch, Documented!Loop
  <2> QED
    BY <1>1, <2>1, ManualPointers DEF Documented!Changes, Documented!NextPC
<1>6. Accessible(SP, 4) <=> Documented!Needs(i) \subseteq Mapped
  BY <1>4, ManualBytes
<1>7. CASE Accessible(SP, 4)
  <2>1. Documented!NextPC(i) = to
    BY <1>2, <1>5, <1>7, InvParts, ManualReads
  <2> HIDE DEF to
  <2>2. /\ RegsOK(r)
        /\ \A x \in RegisterNames : Of(r, x) = IF x = <<"PC", 0>> THEN to ELSE Of(regs, x)
    BY <1>2, <1>7, InvParts, NamedSet DEF IsReg
  <2>3. Returns(i, r, mem)
    BY <1>1, <1>7 DEF Accessing
  <2> HIDE DEF r
  <2>4. Of(r, <<"PC", 0>>) = to
    BY <2>2, PCNamed
  <2>5. \A x \in RegisterNames \ {<<"PC", 0>>} :
          Of(r, x) = IF x \in Documented!Changes(i) THEN Documented!Set(i, x) ELSE Of(regs, x)
    BY <1>5, <2>2
  <2> QED
    BY <1>4, <1>6, <1>7, <2>1, <2>2, <2>3, <2>4, <2>5, RunsWhen
<1>8. CASE ~Accessible(SP, 4)
  BY <1>1, <1>3, <1>6, <1>8, FaultsWhen DEF Accessing
<1> QED
  BY <1>7, <1>8

LEMMA TrapAsDocumented ==
    ASSUME MachineInv, NEW i \in Insns, Trap(i)
    PROVE  Documented!Next
<1> DEFINE r == set(regs, "PC", 0, TrapVector)
           m == Written(SP, Wrap(PC + 2), 4)
<1>1. i.form.op = "TRAP" /\ Accessing(i, SP, 4, regs, Returns(i, r, m))
  BY DEF Trap
<1>2. SP \in Word /\ TrapVector \in Word /\ TrapVector \in Nat
  BY PCWord, MachineAssumption, Words
<1>3. /\ ~Documented!IsLoad(i) /\ ~Documented!IsStore(i)
      /\ Documented!LooksAt(i) = Documented!Needs(i)
  BY <1>1, OthersInManual DEF Moves
<1>4. /\ Documented!Needs(i) = Documented!Bytes(SP, 4)
      /\ Documented!MemAfter(i) = Documented!Stored(SP, Wrap(PC + 2), 4)
  BY <1>1, <1>3, ManualPointers, ManualArith DEF Documented!Needs, Documented!MemAfter
<1>5. Documented!MemAfter(i) = m
  BY <1>2, <1>4, ManualWrites
<1>6. Documented!Changes(i) = {} /\ Documented!NextPC(i) = TrapVector
  <2>1. /\ i.form.op \notin Documented!Moves /\ i.form.op \notin Documented!Bits
        /\ i.form.op \notin Documented!Branch /\ i.form.op \notin Documented!Loop
    BY <1>1 DEF Documented!Moves, Documented!Bits, Documented!Branch, Documented!Loop
  <2> QED
    BY <1>1, <2>1 DEF Documented!Changes, Documented!NextPC
<1>7. Accessible(SP, 4) <=> Documented!Needs(i) \subseteq Mapped
  BY <1>4, ManualBytes
<1>8. /\ RegsOK(r)
      /\ \A x \in RegisterNames : Of(r, x) = IF x = <<"PC", 0>> THEN TrapVector ELSE Of(regs, x)
  BY <1>2, InvParts, NamedSet DEF IsReg
<1> HIDE DEF r, m
<1>9. Of(r, <<"PC", 0>>) = TrapVector
  BY <1>8, PCNamed
<1>10. \A x \in RegisterNames \ {<<"PC", 0>>} :
          Of(r, x) = IF x \in Documented!Changes(i) THEN Documented!Set(i, x) ELSE Of(regs, x)
  BY <1>6, <1>8
<1>11. CASE Accessible(SP, 4)
  BY <1>1, <1>5, <1>6, <1>7, <1>8, <1>9, <1>10, <1>11, RunsWhen DEF Accessing
<1>12. CASE ~Accessible(SP, 4)
  BY <1>1, <1>3, <1>7, <1>12, FaultsWhen DEF Accessing
<1> QED
  BY <1>11, <1>12

LEMMA IncAsDocumented ==
    ASSUME MachineInv, NEW i \in Insns, Inc(i)
    PROVE  Documented!Next
<1> DEFINE n  == i.nums[1]
           by == IF i.form.op = "INC4" THEN 4 ELSE 1
           v  == Wrap(get("A", n) + by)
           r  == set(regs, "A", n, v)
<1>1. i.form.op \in {"INC", "INC4"} /\ Returns(i, r, mem)
  BY DEF Inc
<1>2. i.form.kinds = <<"A">> /\ Len(i.form.kinds) = 1 /\ i.form.kinds[1] = "A" /\ IsReg("A", n)
  <2>1. i.form.kinds = <<"A">> /\ Len(i.form.kinds) = 1 /\ IsReg("A", n)
    BY <1>1, IncForms
  <2> QED
    BY <2>1
<1>3. /\ get("A", n) = Of(regs, <<"A", n>>) /\ v \in Word /\ v \in Nat
      /\ Named[<<"A", n>>] = get("A", n)
  BY <1>2, InvParts, GetReg, NamedRegisters, Words DEF get, Of
<1>4. Documented!Needs(i) = {} /\ Documented!MemAfter(i) = mem /\ ~Documented!IsLoad(i)
  BY <1>1, OthersInManual DEF Moves
<1>5. Documented!Changes(i) = {<<"A", n>>}
  <2>1. Documented!Destination(i) = <<"A", n>>
    BY <1>2 DEF Documented!Destination
  <2>2. i.form.op \notin Documented!Moves /\ i.form.op \notin Documented!Bits
    BY <1>1 DEF Documented!Moves, Documented!Bits
  <2> HIDE DEF n
  <2> QED
    BY <1>1, <2>1, <2>2 DEF Documented!Changes
<1>6. Documented!Set(i, <<"A", n>>) = v
  <2> DEFINE old == Named[<<"A", n>>]
  <2>1. CASE i.form.op = "INC"
    <3>1. Documented!Set(i, <<"A", n>>) = Wrap(old + 1)
      BY <2>1, <1>4, ManualArith DEF Documented!Set, Named
    <3> QED
      BY <1>3, <2>1, <3>1
  <2>2. CASE i.form.op = "INC4"
    <3>1. Documented!Set(i, <<"A", n>>) = Wrap(old + 4)
      BY <2>2, <1>4, ManualArith DEF Documented!Set, Named
    <3> QED
      BY <1>3, <2>2, <3>1
  <2> QED
    BY <1>1, <2>1, <2>2
<1>7. Documented!NextPC(i) = Documented!Following(i)
  <2>1. i.form.op \notin Documented!Branch /\ i.form.op \notin Documented!Loop
    BY <1>1 DEF Documented!Branch, Documented!Loop
  <2> QED
    BY <1>1, <2>1 DEF Documented!NextPC
<1> HIDE DEF n, v
<1>8. /\ RegsOK(r)
      /\ \A x \in RegisterNames : Of(r, x) = IF x = <<"A", n>> THEN v ELSE Of(regs, x)
  BY <1>2, <1>3, InvParts, NamedSet
<1> HIDE DEF r
<1>9. Of(r, <<"PC", 0>>) = PC
  BY <1>8, PCNamed
<1>10. \A x \in RegisterNames \ {<<"PC", 0>>} :
          Of(r, x) = IF x \in Documented!Changes(i) THEN Documented!Set(i, x) ELSE Of(regs, x)
  BY <1>5, <1>6, <1>8
<1> QED
  BY <1>1, <1>4, <1>7, <1>8, <1>9, <1>10, RunsWhen


\* RTI reads the PSW as two bytes, unless these are in two pages.
LEMMA SplitPSW ==
    ASSUME MachineInv, NEW i \in Insns, i.form.op = "RTI", ~Documented!SplitsPSW(i)
    PROVE  ~Crosses(SP, 2)
<1>1. PICK p \in Nat \ {0}, s \in Nat : p = PageSize /\ s = SP
  BY MachineAssumption, PCWord, Words
<1>2. s % p # p - 1
  BY <1>1, ManualPointers DEF Documented!SplitsPSW
<1>3. s % p \in Nat /\ s % p < p
  BY <1>1
<1>4. ~(s % p > p - 2)
  BY <1>1, <1>2, <1>3
<1> QED
  BY <1>1, <1>4 DEF Crosses

LEMMA RtiAsDocumented ==
    ASSUME MachineInv, NEW i \in Insns, Rti(i)
    PROVE  Documented!Next
<1> DEFINE psw   == Read16(SP)
           pc    == Wrap(SP + 4)
           to    == Read32(pc)
           up    == Wrap(SP + 8)
           first == set(regs, "PSW", 0, psw)
           r2    == set(first, "PC", 0, to)
           r3    == set(r2, "SP", 0, up)
<1>1. /\ i.form.op = "RTI"
      /\ Accessing(i, SP, 2, regs, Accessing(i, pc, 4, first, Returns(i, r3, mem)))
  BY DEF Rti
<1>2. SP \in Word /\ pc \in Word /\ up \in Word /\ up \in Nat
  BY PCWord, Words
<1>3. /\ Accessible(SP, 2) => psw \in Word /\ psw \in Nat /\ psw % Width(2) = psw
      /\ Accessible(pc, 4) => to \in Word /\ to \in Nat
  <2>1. Accessible(SP, 2) => psw \in Nat /\ psw \in Word /\ psw < Width(2)
    BY <1>2, InvParts, ReadIsWord, Words
  <2>2. Width(2) \in Nat \ {0}
    BY Widths
  <2>3. Accessible(pc, 4) => to \in Word /\ to \in Nat
    BY <1>2, InvParts, ReadIsWord, Words
  <2> HIDE DEF psw, to, pc
  <2> QED
    BY <2>1, <2>2, <2>3
<1>4. /\ ~Documented!IsLoad(i) /\ ~Documented!IsStore(i)
      /\ Documented!LooksAt(i) = Documented!Needs(i)
  BY <1>1, OthersInManual DEF Moves
<1>5. /\ Documented!Needs(i) = Documented!Bytes(SP, 2) \cup Documented!Bytes(pc, 4)
      /\ Documented!MemAfter(i) = mem
  BY <1>1, <1>4, ManualPointers, ManualArith DEF Documented!Needs, Documented!MemAfter
<1>6. /\ Documented!Changes(i) = {<<"PSW", 0>>, <<"SP", 0>>}
      /\ Documented!NextPC(i) = Documented!MemN(pc, 4)
  <2>1. /\ i.form.op \notin Documented!Moves /\ i.form.op \notin Documented!Bits
        /\ i.form.op \notin Documented!Branch /\ i.form.op \notin Documented!Loop
    BY <1>1 DEF Documented!Moves, Documented!Bits, Documented!Branch, Documented!Loop
  <2> QED
    BY <1>1, <2>1, ManualPointers, ManualArith DEF Documented!Changes, Documented!NextPC
<1>7. /\ Documented!Set(i, <<"PSW", 0>>) = Documented!MemN(SP, 2)
      /\ Documented!Set(i, <<"SP", 0>>) = up
  BY <1>1, <1>4, ManualPointers, ManualArith DEF Documented!Set
<1>8. Accessible(SP, 2) /\ Accessible(pc, 4) <=> Documented!Needs(i) \subseteq Mapped
  <2>1. /\ Accessible(SP, 2) <=> Documented!Bytes(SP, 2) \subseteq Mapped
        /\ Accessible(pc, 4) <=> Documented!Bytes(pc, 4) \subseteq Mapped
    BY ManualBytes
  <2> HIDE DEF pc
  <2> QED
    BY <1>5, <2>1
<1>9. CASE ~Accessible(SP, 2)
  BY <1>1, <1>4, <1>8, <1>9, FaultsWhen DEF Accessing
<1>10. CASE Accessible(SP, 2)
  <2> HIDE DEF psw, pc, to, up
  <2>1. /\ RegsOK(first)
        /\ \A x \in RegisterNames : Of(first, x) = IF x = <<"PSW", 0>> THEN psw ELSE Of(regs, x)
    BY <1>3, <1>10, InvParts, NamedSet DEF IsReg
  <2> HIDE DEF first
  <2>2. CASE ~Accessible(pc, 4)
    <3>1. Throws(i, first)
      BY <1>1, <1>10, <2>2 DEF Accessing
    <3> QED
      BY <1>4, <1>6, <1>8, <2>1, <2>2, <3>1, FaultsWhen
  <2>3. CASE Accessible(pc, 4)
    <3>1. /\ RegsOK(r2)
          /\ \A x \in RegisterNames : Of(r2, x) = IF x = <<"PC", 0>> THEN to ELSE Of(first, x)
      BY <1>3, <2>1, <2>3, NamedSet DEF IsReg
    <3> HIDE DEF r2
    <3>2. /\ RegsOK(r3)
          /\ \A x \in RegisterNames : Of(r3, x) = IF x = <<"SP", 0>> THEN up ELSE Of(r2, x)
      BY <1>2, <3>1, NamedSet DEF IsReg
    <3> HIDE DEF r3
    <3>3. Returns(i, r3, mem)
      BY <1>1, <1>10, <2>3 DEF Accessing
    <3>4. CASE Documented!SplitsPSW(i)
      <4>1. Documented!Deviates(i)
        BY <3>4 DEF Documented!Deviates
      <4>2. \A x \in RegisterNames \ (Documented!Changes(i) \cup {<<"PC", 0>>}) : Of(r3, x) = Of(regs, x)
        BY <1>6, <2>1, <3>1, <3>2
      <4> QED
        BY <3>2, <3>3, <4>1, <4>2, StraysWhen
    <3>5. CASE ~Documented!SplitsPSW(i)
      <4>1. Documented!MemN(SP, 2) = psw
        BY <1>1, <1>2, <1>10, <3>5, InvParts, SplitPSW, ManualReads DEF psw
      <4>2. Documented!NextPC(i) = to
        BY <1>2, <1>6, <2>3, InvParts, ManualReads DEF to
      <4>3. \A x \in RegisterNames \ {<<"PC", 0>>} :
              Of(r3, x) = IF x \in Documented!Changes(i) THEN Documented!Set(i, x) ELSE Of(regs, x)
        BY <1>6, <1>7, <2>1, <3>1, <3>2, <4>1
      <4>4. Of(r3, <<"PC", 0>>) = to
        BY <3>1, <3>2, PCNamed
      <4> QED
        BY <1>5, <1>8, <1>10, <2>3, <3>2, <3>3, <4>2, <4>3, <4>4, RunsWhen
    <3> QED
      BY <3>4, <3>5
  <2> QED
    BY <2>2, <2>3
<1> QED
  BY <1>9, <1>10

LEMMA BitsAsDocumented ==
    ASSUME MachineInv, NEW i \in Insns, Btst(i) \/ BitChange(i)
    PROVE  Documented!Next
<1>1. i.form.op \in Bits /\ (BitChange(i) => i.form.op \in {"BSET", "BCLR"})
  BY DEF Btst, BitChange, Bits
<1>2. Documented!Deviates(i)
  BY <1>1, ManualArith DEF Documented!Deviates
<1>3. Documented!Changes(i) = {<<"PSW", 0>>}
  <2>1. i.form.op \notin Documented!Moves /\ i.form.op \notin {"INC", "INC4", "SETLB", "CALLS", "RTI"}
    BY <1>1 DEF Documented!Moves, Bits
  <2> QED
    BY <1>1, <2>1, ManualArith DEF Documented!Changes
<1>4. \A flags :
        /\ RegsOK(set(regs, "PSW", 0, WithFlags(PSW, flags)))
        /\ \A x \in RegisterNames \ {<<"PSW", 0>>} :
              Of(set(regs, "PSW", 0, WithFlags(PSW, flags)), x) = Of(regs, x)
  BY InvParts, PCWord, FlagsFit, NamedSet DEF IsReg
<1>5. CASE Btst(i)
  <2>1. PICK flags : Returns(i, set(regs, "PSW", 0, WithFlags(PSW, flags)), mem)
    BY <1>5 DEF Btst
  <2> QED
    BY <1>2, <1>3, <1>4, <2>1, StraysWhen
<1>6. CASE BitChange(i)
  <2>1. PICK flags, m, d :
          Accessing(i, d, 4, set(regs, "PSW", 0, WithFlags(PSW, flags)),
                    Returns(i, set(regs, "PSW", 0, WithFlags(PSW, flags)), m))
    BY <1>6 DEF BitChange
  <2>2. Documented!MayStore(i)
    BY <1>1, <1>6 DEF Documented!MayStore
  <2> QED
    BY <1>2, <1>3, <1>4, <2>1, <2>2, StraysWhen DEF Accessing
<1> QED
  BY <1>5, <1>6

-----------------------------------------------------------------------------
(* Theorems.                                                               *)

LEMMA MachineStep ==
    ASSUME MachineInv, [Next]_vars
    PROVE  MachineInv'
<1>1. CASE Next
  <2>1. PICK i \in Insns : execute_insn(i)
    BY <1>1 DEF Next
  <2>2. Kept
    BY <2>1, MovRegisterKeeps, LoadKeeps, StoreKeeps, BranchesKeep, SetlbKeeps, CallsKeeps,
       RetsKeeps, RtiKeeps, TrapKeeps, IncKeeps, BitsKeep DEF execute_insn
  <2>3. count' \in 0 .. MaxInsns
    BY <1>1, MachineAssumption DEF Next, MachineInv, TypeOK
  <2> QED
    BY <2>2, <2>3 DEF Kept, RegsOK, Memory, MachineInv, TypeOK, NoStrayRegister
<1>2. CASE UNCHANGED vars
  BY <1>2 DEF vars, MachineInv, TypeOK, NoStrayRegister
<1> QED
  BY <1>1, <1>2

\* Whatever instruction ran last, registers are words, memory bytes, and the
\* cells that are no registers 0.
THEOREM MachineInvariant == Spec => []MachineInv
<1>1. Init => MachineInv
  BY BeginningsAssumption DEF Init, MachineInv, TypeOK, NoStrayRegister
<1> QED
  BY <1>1, MachineStep, PTL DEF Spec

\* Registers hold words, memory bytes, whatever the program and the width.
THEOREM MachineTypeCorrect == Spec => []TypeOK
BY MachineInvariant, PTL DEF MachineInv

\* No handler sets a cell that is no register, neither that of a memory form
\* nor the one past the end of the array.
THEOREM OnlyRegistersSet == Spec => []NoStrayRegister
BY MachineInvariant, PTL DEF MachineInv

LEMMA StepAsDocumented ==
    ASSUME MachineInv, [Next]_vars
    PROVE  Documented!Next \/ UNCHANGED Documented!vars
<1>1. CASE Next
  <2>1. PICK i \in Insns : execute_insn(i)
    BY <1>1 DEF Next
  <2> QED
    BY <2>1, MovRegisterAsDocumented, LoadAsDocumented, StoreAsDocumented, JmpAsDocumented,
       BccNotTakenAsDocumented, LoopJumpAsDocumented, SetlbAsDocumented, CallsAsDocumented,
       RetsAsDocumented, RtiAsDocumented, TrapAsDocumented, IncAsDocumented, BitsAsDocumented
       DEF execute_insn
<1>2. CASE UNCHANGED vars
  <2>1. \A x \in RegisterNames : regs'[Number(x[1], x[2])] = regs[Number(x[1], x[2])]
    BY <1>2 DEF vars
  <2> QED
    BY <1>2, <2>1 DEF vars, Documented!vars
<1> QED
  BY <1>1, <1>2

\* The handlers implement the instruction manual: each step has the effect the
\* manual gives the instruction, faults having stored nothing, or is one of the
\* divergences Manual names.
THEOREM MachineImplementsManual == Spec => ImplementsManual
<1>1. Init => Documented!Init
  BY DEF Init, Documented!Init
<1>2. Spec => []MachineInv
  BY MachineInvariant
<1>3. MachineInv /\ [Next]_vars => [Documented!Next]_(Documented!vars)
  BY StepAsDocumented
<1> QED
  BY <1>1, <1>2, <1>3, PTL DEF Spec, ImplementsManual, Documented!Spec
=============================================================================
