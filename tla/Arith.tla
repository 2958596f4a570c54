-------------------------------- MODULE Arith --------------------------------
(***************************************************************************)
(* The arithmetic of the instruction handlers (emulator.cc, 438-1153) as   *)
(* functions of the operands: results, the flags of the PSW, and what the  *)
(* conditional branches make of these.  A register holds 2 * Half values.  *)
(***************************************************************************)
EXTENDS Integers

CONSTANT Half   \* 2^31

ASSUME HalfAssumption == Half \in Nat \ {0}

M == 2 * Half
Word == 0 .. M - 1

\* The casts between reg_type, reg_type_s and the 64-bit types.
Wrap(i) == i % M
Signed(w) == IF w < Half THEN w ELSE w - M
Signed64(c) == IF c < Half * M THEN c ELSE c - M * M

\* s_ext of a word whose lowest bits are a narrower type with n values: ones
\* are put above its sign, and what is there is left where it has none.
s_ext(i, n) == IF i % n < n \div 2 THEN i ELSE (i % n) + (M - n)

Bit(b) == IF b THEN 1 ELSE 0

\* The flags of the PSW are the set of those that are on.
Flag == {"Z", "N", "C", "V"}
FlagsIf(f, on) == IF on THEN {f} ELSE {}
ZN(res) == FlagsIf("Z", res = 0) \cup FlagsIf("N", Signed(res) < 0)

-----------------------------------------------------------------------------
(* ADD, ADDC, SUB, SUBC: handle_add with sign 1 or -1.                     *)

AddResult(d, s, sign, carry) == Wrap(d + s * sign + carry * sign)

\* Slip: the carry is on when the sum did not run over.
AddFlagsInverted(d, s, sOrig, res) ==
    ZN(res) \cup FlagsIf("C", res >= sOrig)

\* sOrig is the source before its sign extension.
AddFlags(d, s, sOrig, res) ==
    ZN(res) \cup FlagsIf("V", Signed(res) < Signed(d) /\ Signed(res) < Signed(s) /\ Signed(res) > 0)
            \cup FlagsIf("C", res < sOrig)

-----------------------------------------------------------------------------
(* CMP.                                                                    *)

\* Slip: the carry is decided by the signed values.
CmpFlagsSigned(d, s) ==
    LET res == Wrap(d - s)
    IN  ZN(res) \cup FlagsIf("C", Signed(res) > Signed(d))

CmpFlags(d, s) ==
    LET res == Wrap(d - s)
    IN  ZN(res) \cup FlagsIf("V", Signed(res) > Signed(d) /\ Signed(res) > 0)
                \cup FlagsIf("C", res > d)

-----------------------------------------------------------------------------
(* MUL, MULU, DIV, DIVU: MDR is the high word.                             *)

Product(op, d, s) == (IF op = "MUL" THEN Signed(d) * Signed(s) ELSE d * s) % (M * M)

High(c) == c \div M
Low(c) == c % M

\* Division of C++ rounds to zero.
Abs(i) == IF i < 0 THEN -i ELSE i
Quot(a, b) == IF (a < 0) = (b < 0) THEN Abs(a) \div Abs(b) ELSE -(Abs(a) \div Abs(b))
Rem(a, b) == a - b * Quot(a, b)

\* Slip: the high word is left out.
CombinedLow(d, mdr) == d

Combined(d, mdr) == d + mdr * M

\* The divisor is a signed 32-bit variable: DIVU's reaches the 64-bit
\* division sign-extended.
Divisor(op, s) == IF op = "DIV" THEN Signed(s) ELSE Signed(s) % (M * M)
Dividend(op, d, mdr) ==
    IF op = "DIV" THEN Signed64(Combined(d, mdr)) ELSE Combined(d, mdr)

Quotient(op, d, mdr, s) == Wrap(Quot(Dividend(op, d, mdr), Divisor(op, s)))
Remainder(op, d, mdr, s) == Wrap(Rem(Dividend(op, d, mdr), Divisor(op, s)))

\* The one quotient 64 bits cannot hold: the division traps on the host.
QuotientTraps(op, d, mdr, s) ==
    op = "DIV" /\ s = M - 1 /\ Combined(d, mdr) = Half * M

-----------------------------------------------------------------------------
(* Bcc and Lcc.                                                            *)

Branch == {"BEQ", "BNE", "BGT", "BGE", "BLE", "BLT", "BHI", "BCC", "BLS", "BCS",
           "BVC", "BVS", "BNC", "BNS", "BRA"}
Loop == {"LEQ", "LNE", "LGT", "LGE", "LLE", "LLT", "LHI", "LCC", "LLS", "LCS", "LRA"}

Less(psw) == ("N" \in psw) # ("V" \in psw)

Taken(op, psw) ==
    LET z == "Z" \in psw
        c == "C" \in psw
    IN  CASE op = "BEQ" -> z
          [] op = "BNE" -> ~z
          [] op = "BGT" -> ~(z \/ Less(psw))
          [] op = "BGE" -> ~Less(psw)
          [] op = "BLE" -> z \/ Less(psw)
          [] op = "BLT" -> Less(psw)
          [] op = "BHI" -> ~(c \/ z)
          [] op = "BCC" -> ~c
          [] op = "BLS" -> c \/ z
          [] op = "BCS" -> c
          [] op = "BVC" -> "V" \notin psw
          [] op = "BVS" -> "V" \in psw
          [] op = "BNC" -> "N" \notin psw
          [] op = "BNS" -> "N" \in psw
          [] op = "BRA" -> TRUE

\* LGT and LHI do not decide as BGT and BHI do.
Loops(op, psw) ==
    LET z == "Z" \in psw
        c == "C" \in psw
    IN  CASE op = "LEQ" -> z
          [] op = "LNE" -> ~z
          [] op = "LGT" -> ~z \/ ~Less(psw)
          [] op = "LGE" -> ~Less(psw)
          [] op = "LLE" -> z \/ Less(psw)
          [] op = "LLT" -> Less(psw)
          [] op = "LHI" -> ~c \/ ~z
          [] op = "LCC" -> ~c
          [] op = "LLS" -> c \/ z
          [] op = "LCS" -> c
          [] op = "LRA" -> TRUE

-----------------------------------------------------------------------------
(* What flags tell.                                                        *)

\* The unsigned branches and loop instructions tell how d and s compare.
\* (LHI is not among them.)
TellOrder(psw, d, s) ==
    /\ Taken("BCS", psw) <=> d < s
    /\ Taken("BCC", psw) <=> d >= s
    /\ Taken("BHI", psw) <=> d > s
    /\ Taken("BLS", psw) <=> d <= s
    /\ Taken("BEQ", psw) <=> d = s
    /\ Taken("BNE", psw) <=> d # s
    /\ Loops("LCS", psw) <=> d < s
    /\ Loops("LCC", psw) <=> d >= s
    /\ Loops("LLS", psw) <=> d <= s
    /\ Loops("LEQ", psw) <=> d = s
    /\ Loops("LNE", psw) <=> d # s

\* The carry is the part of the sum that is not in the word.
CarriesSum(psw, d, s) == Bit("C" \in psw) * M + AddResult(d, s, 1, 0) = d + s

\* With the flag an ADD of dl and sl left, an ADDC of any two words makes the
\* high word of the sum of the pairs; what does not fit is one bit.
MakesTwoWordSum(psw, dl, sl) ==
    \A d, s \in Word : \E out \in {0, 1} :
        out * (M * M) + AddResult(d, s, 1, Bit("C" \in psw)) * M + AddResult(dl, sl, 1, 0)
          = (d * M + dl) + (s * M + sl)
==============================================================================
