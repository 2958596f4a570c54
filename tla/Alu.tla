--------------------------------- MODULE Alu ---------------------------------
(***************************************************************************)
(* The register instructions: each action runs one handler of emulator.cc  *)
(* (438-1153) on two data registers, MDR and the flags of the PSW.         *)
(*                                                                         *)
(* Left out: memory operands of BTST, BSET and BCLR (which take the        *)
(* address for its contents), and ASR and LSR with one operand, which the  *)
(* decoder does not produce.  Bcc and Lcc change nothing but the PC: what  *)
(* they decide is Taken and Loops of the flags.                            *)
(***************************************************************************)
EXTENDS Arith

CONSTANTS
    Narrow,      \* width of a narrower type -> how many values it has
    MaxShift,    \* bound on the shift distances tried   (31)
    Pow2,        \* shift distance n -> 2^n
    BitAnd(_, _), BitOr(_, _), BitXor(_, _)   \* &, | and ^ of the host

ASSUME NarrowAssumption ==
    /\ Narrow \in [{"B", "H"} -> Nat]
    /\ \A w \in DOMAIN Narrow : Narrow[w] >= 2 /\ M % Narrow[w] = 0
    /\ MaxShift \in Nat
    /\ Pow2 \in [0 .. MaxShift -> Nat \ {0}]

ASSUME BitwiseAssumption ==
    \A a, b \in Word : BitAnd(a, b) \in Word /\ BitOr(a, b) \in Word /\ BitXor(a, b) \in Word

Dn == {"D0", "D1"}

VARIABLES
    D,        \* the data registers
    MDR,
    psw,      \* the flags that are on
    last,     \* the ADD, MUL or CMP the flags and MDR come from, its operands
    crashed   \* the host's division trap has ended the process

vars == <<D, MDR, psw, last, crashed>>

None == [op |-> "NONE", s |-> 0, d |-> 0, dst |-> "D0"]
Ran(op, s, dst) == [op |-> op, s |-> s, d |-> D[dst], dst |-> dst]

\* An immediate of type w as it lies in args, and as s_ext makes it.
Imm(w) == 0 .. Narrow[w] - 1

-----------------------------------------------------------------------------
Init ==
    /\ D \in [Dn -> Word]
    /\ MDR = 0
    /\ psw = {}
    /\ last = None
    /\ crashed = FALSE

\* How a handler ends: dst gets res, the PSW flags.
Sets(dst, res, flags) ==
    /\ D' = [D EXCEPT ![dst] = res]
    /\ psw' = flags

\* The process goes on.
Goes == ~crashed /\ UNCHANGED crashed

AddSub(op, src, dst) ==
    LET sign  == IF op \in {"SUB", "SUBC"} THEN -1 ELSE 1
        carry == IF op \in {"ADDC", "SUBC"} THEN Bit("C" \in psw) ELSE 0
        res   == AddResult(D[dst], D[src], sign, carry)
    IN  /\ Sets(dst, res, AddFlags(D[dst], D[src], D[src], res))
        /\ last' = IF sign = 1 /\ carry = 0 THEN Ran("ADD", D[src], dst) ELSE None
        /\ UNCHANGED MDR
        /\ Goes

AddImm(i, w, dst) ==
    LET s   == s_ext(i, Narrow[w])
        res == AddResult(D[dst], s, 1, 0)
    IN  /\ Sets(dst, res, AddFlags(D[dst], s, i, res))
        /\ last' = None
        /\ UNCHANGED MDR
        /\ Goes

Mul(op, src, dst) ==
    LET res == Product(op, D[dst], D[src])
    IN  /\ Sets(dst, Low(res), ZN(Low(res)))
        /\ MDR' = High(res)
        /\ last' = Ran(op, D[src], dst)
        /\ Goes

\* The divisor 0 has a result of its own.
DivByZero(src, dst) ==
    /\ D[src] = 0
    /\ Sets(dst, Wrap(Narrow["B"] - 1), {"V"})
    /\ MDR' = 0
    /\ last' = None
    /\ Goes

Div(op, src, dst) ==
    /\ D[src] # 0
    /\ ~QuotientTraps(op, D[dst], MDR, D[src])
    /\ LET res == Quotient(op, D[dst], MDR, D[src])
       IN  Sets(dst, res, ZN(res))
    /\ MDR' = Remainder(op, D[dst], MDR, D[src])
    /\ last' = None
    /\ Goes

DivTraps(op, src, dst) ==
    /\ ~crashed
    /\ D[src] # 0
    /\ QuotientTraps(op, D[dst], MDR, D[src])
    /\ crashed' = TRUE
    /\ UNCHANGED <<D, MDR, psw, last>>

\* INC of a data register; INC4 is for address registers and sets no flags.
Inc(dst) ==
    LET d == Wrap(D[dst] + 1)
    IN  /\ Sets(dst, d, ZN(d) \cup FlagsIf("C", d = 0) \cup FlagsIf("V", d = Half))
        /\ last' = None
        /\ UNCHANGED MDR
        /\ Goes

\* s is a register or a sign-extended immediate.
Cmp(s, dst) ==
    /\ psw' = CmpFlags(D[dst], s)
    /\ last' = Ran("CMP", s, dst)
    /\ UNCHANGED <<D, MDR>>
    /\ Goes

Logic(op, s, dst) ==
    LET res == CASE op = "AND" -> BitAnd(s, D[dst])
                 [] op = "OR"  -> BitOr(s, D[dst])
                 [] op = "XOR" -> BitXor(s, D[dst])
    IN  /\ Sets(dst, res, ZN(res))
        /\ last' = None
        /\ UNCHANGED MDR
        /\ Goes

\* AND and OR of an immediate into the PSW; its bits above the flags are lost.
LogicPSW(op, flags) ==
    /\ psw' = IF op = "AND" THEN psw \cap flags ELSE psw \cup flags
    /\ last' = None
    /\ UNCHANGED <<D, MDR>>
    /\ Goes

NotDn(dst) ==
    LET res == M - 1 - D[dst]
    IN  /\ Sets(dst, res, ZN(res))
        /\ last' = None
        /\ UNCHANGED MDR
        /\ Goes

Btst(s, dst) ==
    /\ psw' = ZN(BitAnd(s, D[dst]))
    /\ last' = None
    /\ UNCHANGED <<D, MDR>>
    /\ Goes

\* ASL, ASL2, ASR, LSR: C is the lowest bit of what is shifted.
Shift(op, shift, dst) ==
    LET d   == D[dst]
        res == CASE op = "ASL" -> Wrap(d * Pow2[shift])
                 [] op = "ASR" -> Wrap(Signed(d) \div Pow2[shift])
                 [] op = "LSR" -> d \div Pow2[shift]
    IN  /\ Sets(dst, res, ZN(res) \cup FlagsIf("C", shift # 0 /\ d % 2 = 1))
        /\ last' = None
        /\ UNCHANGED MDR
        /\ Goes

\* Slip: ROL does not drop the bit it moves around.
RotateWide(op, dst) ==
    LET d   == D[dst]
        res == IF op = "ROR" THEN d \div 2 + (d % 2) * Half ELSE 2 * d + d \div Half
    IN  /\ Sets(dst, res, ZN(res))
        /\ last' = None
        /\ UNCHANGED MDR
        /\ Goes

\* ROR and ROL by one bit.
Rotate(op, dst) ==
    LET d   == D[dst]
        res == IF op = "ROR" THEN d \div 2 + (d % 2) * Half ELSE Wrap(2 * d) + d \div Half
    IN  /\ Sets(dst, res, ZN(res))
        /\ last' = None
        /\ UNCHANGED MDR
        /\ Goes

\* EXTB, EXTBU, EXTH, EXTHU and, into MDR, EXT: no flags.
Extend(w, signed, dst) ==
    LET i == D[dst] % Narrow[w]
    IN  /\ D' = [D EXCEPT ![dst] = IF signed THEN s_ext(i, Narrow[w]) ELSE i]
        /\ last' = None
        /\ UNCHANGED <<MDR, psw>>
        /\ Goes

Ext(src) ==
    /\ MDR' = IF Signed(D[src]) < 0 THEN M - 1 ELSE 0
    /\ last' = None
    /\ UNCHANGED <<D, psw>>
    /\ Goes

Clr(dst) ==
    /\ Sets(dst, 0, {"Z"})
    /\ last' = None
    /\ UNCHANGED MDR
    /\ Goes

\* The operands of the instructions with a register or an immediate.
Source == {D[r] : r \in Dn} \cup UNION {{s_ext(i, Narrow[w]) : i \in Imm(w)} : w \in DOMAIN Narrow}

Next ==
    \/ \E src, dst \in Dn :
         \/ \E op \in {"ADD", "ADDC", "SUB", "SUBC"} : AddSub(op, src, dst)
         \/ \E op \in {"MUL", "MULU"} : Mul(op, src, dst)
         \/ \E op \in {"DIV", "DIVU"} : Div(op, src, dst) \/ DivTraps(op, src, dst)
         \/ DivByZero(src, dst)
    \/ \E dst \in Dn :
         \/ \E w \in DOMAIN Narrow : \E i \in Imm(w) : AddImm(i, w, dst)
         \/ \E s \in Source : \/ Cmp(s, dst) \/ Btst(s, dst)
                              \/ \E op \in {"AND", "OR", "XOR"} : Logic(op, s, dst)
         \/ \E op \in {"ASL", "ASR", "LSR"}, shift \in 0 .. MaxShift : Shift(op, shift, dst)
         \/ \E op \in {"ROR", "ROL"} : Rotate(op, dst)
         \/ \E w \in DOMAIN Narrow, signed \in BOOLEAN : Extend(w, signed, dst)
         \/ Inc(dst) \/ NotDn(dst) \/ Ext(dst) \/ Clr(dst)
    \/ \E op \in {"AND", "OR"}, flags \in SUBSET Flag : LogicPSW(op, flags)

Spec == Init /\ [][Next]_vars

-----------------------------------------------------------------------------
(* Properties.                                                             *)

\* Registers hold words, and the flags are the four of the PSW.
TypeOK ==
    /\ D \in [Dn -> Word]
    /\ MDR \in Word
    /\ psw \subseteq Flag
    /\ last.s \in Word /\ last.d \in Word /\ last.dst \in Dn
    /\ crashed \in BOOLEAN

\* After a CMP the unsigned branches, and the loop instructions of the same
\* conditions, go by the operands: handle_cmp finds the borrow from the
\* difference alone, and handle_bcc and handle_lcc combine it with Z.
UnsignedBranchesDecide ==
    last.op = "CMP" => TellOrder(psw, last.d, last.s)

\* An ADD of two registers leaves the flag with which an ADDC of any two
\* high words makes the two-word sum: handle_add guesses the carry from the
\* sum and one operand.
TwoWordSum ==
    last.op = "ADD" => MakesTwoWordSum(psw, last.d, last.s)

\* Dividing the product MUL left in MDR and the register by the one factor
\* gives the other; with MULU and DIVU only for factors under 2^31, as DIVU
\* sign-extends its divisor.
DivUndoesMul ==
    /\ last.op = "MUL" /\ last.s # 0 =>
          /\ ~QuotientTraps("DIV", D[last.dst], MDR, last.s)
          /\ Quotient("DIV", D[last.dst], MDR, last.s) = last.d
          /\ Remainder("DIV", D[last.dst], MDR, last.s) = 0
    /\ last.op = "MULU" /\ last.s \in 1 .. Half - 1 =>
          /\ Quotient("DIVU", D[last.dst], MDR, last.s) = last.d
          /\ Remainder("DIVU", D[last.dst], MDR, last.s) = 0

\* emulator.cc:680 sets V in CMP "If we overflow and ARENT negative": a V
\* that is on says that the difference is not a signed word.  BGE, BLT, BGT
\* and BLE go by it.
OverflowIsOverflow ==
    last.op = "CMP" /\ "V" \in psw =>
        Signed(last.d) - Signed(last.s) \notin -Half .. Half - 1
==============================================================================
