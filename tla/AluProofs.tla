------------------------------- MODULE AluProofs -------------------------------
(***************************************************************************)
(* Theorems about the register instructions, for words of every width:     *)
(* what the flags and MDR still say of an earlier CMP, ADD or MUL.         *)
(***************************************************************************)
EXTENDS Alu, TLAPS

-----------------------------------------------------------------------------
(* What the flags of CMP and ADD tell, from the operators of Arith alone.  *)

\* Adding 2^32 does not change the remainder by 2^32, and a word is its own.
LEMMA WrapWord ==
    ASSUME NEW a \in Int, -M <= a, a < 2 * M
    PROVE  Wrap(a) = IF a < 0 THEN a + M ELSE IF a < M THEN a ELSE a - M
<1>1. M \in Nat /\ M > 0
  BY HalfAssumption DEF M
<1>2. CASE a < 0
  BY <1>1, <1>2, SMTT(30) DEF Wrap
<1>3. CASE a >= 0 /\ a < M
  BY <1>1, <1>3, SMTT(30) DEF Wrap
<1>4. CASE a >= M
  BY <1>1, <1>4, SMTT(30) DEF Wrap
<1> QED
  BY <1>1, <1>2, <1>3, <1>4

\* handle_cmp and the unsigned conditions of handle_bcc and handle_lcc: the
\* difference is above d exactly when the subtraction borrows.
THEOREM CompareTellsOrder ==
    ASSUME NEW d \in Word, NEW s \in Word
    PROVE  TellOrder(CmpFlags(d, s), d, s)
<1>1. M \in Nat /\ M > 0
  BY HalfAssumption DEF M
<1>2. Wrap(d - s) = IF d < s THEN d - s + M ELSE d - s
  BY <1>1, WrapWord, SMT DEF Word
<1>3. ("C" \in CmpFlags(d, s)) <=> d < s
  BY <1>1, <1>2, SMT DEF CmpFlags, ZN, FlagsIf, Word
<1>4. ("Z" \in CmpFlags(d, s)) <=> d = s
  BY <1>1, <1>2, SMT DEF CmpFlags, ZN, FlagsIf, Word
<1> QED
  BY <1>1, <1>3, <1>4, SMT DEF TellOrder, Taken, Loops, Word

\* handle_add: the sum of two registers is below the source exactly when it
\* runs over, so the carry and the result together are the whole sum.
THEOREM AddCarriesSum ==
    ASSUME NEW d \in Word, NEW s \in Word
    PROVE  CarriesSum(AddFlags(d, s, s, AddResult(d, s, 1, 0)), d, s)
<1>1. M \in Nat /\ M > 0
  BY HalfAssumption DEF M
<1> DEFINE res == AddResult(d, s, 1, 0)
<1>2. res = IF d + s < M THEN d + s ELSE d + s - M
  BY <1>1, WrapWord, SMT DEF AddResult, Word
<1>3. ("C" \in AddFlags(d, s, s, res)) <=> d + s >= M
  BY <1>1, <1>2, SMT DEF AddFlags, ZN, FlagsIf, Word
<1> QED
  BY <1>1, <1>2, <1>3, SMT DEF CarriesSum, Bit, Word

\* How the parts of the sum of two pairs of words come together.
LEMMA Regroup ==
    ASSUME NEW dh \in Int, NEW sh \in Int, NEW c \in Int, NEW mm \in Int, NEW h \in Int,
           NEW low \in Int, NEW dl \in Int, NEW sl \in Int,
           h = dh + sh + c - mm, c + low = dl + sl
    PROVE  mm + h + low = (dh + dl) + (sh + sl)
BY SMT

\* ADD then ADDC: the pairs of registers are added as numbers of two words.
THEOREM AddcMakesTwoWordSum ==
    ASSUME NEW dl \in Word, NEW sl \in Word
    PROVE  MakesTwoWordSum(AddFlags(dl, sl, sl, AddResult(dl, sl, 1, 0)), dl, sl)
<1> DEFINE flags == AddFlags(dl, sl, sl, AddResult(dl, sl, 1, 0))
           carry == Bit("C" \in flags)
<1>1. M \in Nat /\ M > 0
  BY HalfAssumption DEF M
<1>2. carry \in {0, 1}
  BY DEF Bit
<1>3. carry * M + AddResult(dl, sl, 1, 0) = dl + sl
  BY AddCarriesSum DEF CarriesSum
<1>4. SUFFICES ASSUME NEW d \in Word, NEW s \in Word
               PROVE  \E out \in {0, 1} :
                        out * (M * M) + AddResult(d, s, 1, carry) * M + AddResult(dl, sl, 1, 0)
                          = (d * M + dl) + (s * M + sl)
  BY DEF MakesTwoWordSum
<1> DEFINE sum == d + s + carry
           high == AddResult(d, s, 1, carry)
           low == AddResult(dl, sl, 1, 0)
<1>5. /\ sum \in Int /\ -M <= sum /\ sum < 2 * M
      /\ high = Wrap(sum)
  BY <1>1, <1>2, SMT DEF AddResult, Word
<1>6. high = IF sum < M THEN sum ELSE sum - M
  BY <1>1, <1>2, <1>5, WrapWord, SMT DEF Word
<1>7. low \in Int
  BY <1>1, SMT DEF AddResult, Wrap, Word
<1>8. CASE sum < M
  <2>1. high * M = d * M + s * M + carry * M
    BY <1>1, <1>2, <1>6, <1>8, SMT DEF Word
  <2>2. 0 * (M * M) + high * M + low = (d * M + dl) + (s * M + sl)
    BY <1>1, <1>2, <1>3, <1>7, <2>1, SMT DEF Word
  <2> QED
    BY <2>2
<1>9. CASE sum >= M
  <2>1. high * M = d * M + s * M + carry * M - M * M
    BY <1>1, <1>2, <1>6, <1>9, SMT DEF Word
  <2>2. M * M \in Int /\ d * M \in Int /\ s * M \in Int /\ carry * M \in Int /\ high * M \in Int
    BY <1>1, <1>2, <1>5, SMT DEF Wrap, Word
  <2>3. 1 * (M * M) = M * M
    BY <2>2, SMT
  <2>4. 1 * (M * M) + high * M + low = (d * M + dl) + (s * M + sl)
    BY <1>3, <1>7, <2>1, <2>2, <2>3, Regroup DEF Word
  <2> QED
    BY <2>4
<1> QED
  BY <1>1, <1>2, <1>8, <1>9, SMT DEF Word

-----------------------------------------------------------------------------
(* Words.                                                                  *)

LEMMA Words ==
    /\ Half \in Nat /\ Half > 0 /\ M \in Nat /\ M > 0 /\ M = Half + Half
    /\ 0 \in Word /\ M - 1 \in Word
    /\ \A i \in Int : Wrap(i) \in Word
    /\ \A i \in Word : i \in Nat /\ Signed(i) \in Int /\ Wrap(i) = i
<1>1. Half \in Nat /\ Half > 0 /\ M \in Nat /\ M > 0 /\ M = Half + Half
  BY HalfAssumption DEF M
<1>2. \A i \in Int : Wrap(i) \in Word
  BY <1>1 DEF Wrap, Word
<1>3. \A i \in Word : i \in Nat /\ Wrap(i) = i
  BY <1>1 DEF Wrap, Word
<1>4. \A i \in Word : Signed(i) \in Int
  BY <1>1 DEF Signed, Word
<1> QED
  BY <1>1, <1>2, <1>3, <1>4 DEF Word

LEMMA NarrowSizes ==
    ASSUME NEW w \in {"B", "H"}
    PROVE  Narrow[w] \in Nat /\ 2 <= Narrow[w] /\ Narrow[w] <= M
<1>1. PICK n \in Nat : n = Narrow[w] /\ n >= 2 /\ M % n = 0
  BY NarrowAssumption
<1>2. n <= M
  BY <1>1, Words
<1> QED
  BY <1>1, <1>2

LEMMA Extended ==
    ASSUME NEW w \in {"B", "H"}, NEW i \in Imm(w)
    PROVE  i \in Word /\ s_ext(i, Narrow[w]) \in Word
<1>1. PICK n \in Nat : n = Narrow[w] /\ 2 <= n /\ n <= M
  BY NarrowSizes
<1>2. i \in Nat /\ i < n
  BY <1>1 DEF Imm
<1>3. i % n = i
  BY <1>1, <1>2
<1>4. s_ext(i, n) = i \/ s_ext(i, n) = i + (M - n)
  BY <1>3 DEF s_ext
<1> QED
  BY <1>1, <1>2, <1>4, Words DEF Word

LEMMA Flags ==
    /\ \A res : ZN(res) \subseteq Flag
    /\ \A d, s, o, res : AddFlags(d, s, o, res) \subseteq Flag
    /\ \A d, s : CmpFlags(d, s) \subseteq Flag
    /\ \A on : FlagsIf("C", on) \subseteq Flag /\ FlagsIf("V", on) \subseteq Flag
BY DEF ZN, FlagsIf, Flag, AddFlags, CmpFlags

LEMMA SourceWords ==
    ASSUME TypeOK, NEW s \in Source
    PROVE  s \in Word
BY Extended, NarrowAssumption DEF Source, TypeOK

-----------------------------------------------------------------------------
(* Products of two words, and the parts of them.                           *)

LEMMA TwoWords ==
    ASSUME NEW c \in Nat, c < M * M
    PROVE  Low(c) \in Word /\ High(c) \in Word /\ Combined(Low(c), High(c)) = c
<1>1. M \in Nat /\ M > 0
  BY Words
<1>2. PICK q \in Nat, r \in Nat : q = c \div M /\ r = c % M /\ r < M /\ c = M * q + r
  BY <1>1
<1>3. q < M
  <2> SUFFICES ASSUME ~(q < M) PROVE FALSE
    OBVIOUS
  <2>1. PICK e \in Nat : q = M + e
    <3>1. q - M \in Nat /\ q = M + (q - M)
      BY <1>1
    <3> QED
      BY <3>1
  <2>2. M * q = M * M + M * e /\ M * e \in Nat /\ M * M \in Nat
    BY <1>1, <2>1
  <2>3. PICK x \in Nat, y \in Nat : x = M * M /\ y = M * e
    BY <2>2
  <2> QED
    BY <1>2, <2>2, <2>3
<1>4. M * q = q * M
  BY <1>1
<1>5. r + q * M = c
  <2>1. PICK x \in Nat : x = q * M
    BY <1>1
  <2> QED
    BY <1>2, <1>4, <2>1
<1> QED
  BY <1>1, <1>2, <1>3, <1>5 DEF Low, High, Combined, Word

LEMMA ProductBound ==
    ASSUME NEW h \in Nat, NEW x \in Nat, NEW y \in Nat, x <= h, y <= h
    PROVE  x * y \in Nat /\ x * y <= h * h
<1>1. PICK e \in Nat : h = x + e
  <2>1. h - x \in Nat /\ h = x + (h - x)
    OBVIOUS
  <2> QED
    BY <2>1
<1>2. PICK g \in Nat : h = y + g
  <2>1. h - y \in Nat /\ h = y + (h - y)
    OBVIOUS
  <2> QED
    BY <2>1
<1>3. h * y = x * y + e * y
  BY <1>1
<1>4. h * h = h * y + h * g
  BY <1>2
<1>5. x * y \in Nat /\ e * y \in Nat /\ h * g \in Nat /\ h * y \in Nat /\ h * h \in Nat
  OBVIOUS
<1> QED
  BY <1>3, <1>4, <1>5

LEMMA SignedRange ==
    ASSUME NEW w \in Word
    PROVE  /\ Signed(w) \in Int /\ -Half <= Signed(w) /\ Signed(w) < Half
           /\ Signed(w) = 0 <=> w = 0
           /\ Wrap(Signed(w)) = w
<1>1. Half \in Nat /\ Half > 0 /\ M \in Nat /\ M = Half + Half /\ w \in Nat /\ w < M
  BY Words DEF Word
<1>2. /\ Signed(w) \in Int /\ -Half <= Signed(w) /\ Signed(w) < Half
      /\ Signed(w) = 0 <=> w = 0
      /\ Signed(w) = w \/ (Signed(w) = w - M /\ w - M < 0)
  BY <1>1 DEF Signed
<1>3. -M <= Signed(w) /\ Signed(w) < 2 * M
  BY <1>1, <1>2
<1>4. Wrap(Signed(w)) = w
  BY <1>1, <1>2, <1>3, WrapWord
<1> QED
  BY <1>2, <1>4

\* The product of two signed words has at most the square of 2^31 either way.
LEMMA SignedProduct ==
    ASSUME NEW x \in Int, -Half <= x, x <= Half, NEW y \in Int, -Half <= y, y <= Half
    PROVE  x * y \in Int /\ -(Half * Half) <= x * y /\ x * y <= Half * Half
<1>1. Half \in Nat /\ Half * Half \in Nat /\ x * y \in Int
  BY Words
<1>2. PICK q \in Nat : q = Half * Half
  BY <1>1
<1>3. CASE x >= 0 /\ y >= 0
  BY <1>1, <1>2, <1>3, ProductBound
<1>4. CASE x >= 0 /\ y < 0
  <2>1. PICK z \in Nat : z = -y /\ z <= Half
    BY <1>1, <1>4
  <2>2. x * z \in Nat /\ x * z <= q
    BY <1>1, <1>2, <1>4, <2>1, ProductBound
  <2>3. x * y = -(x * z)
    BY <2>1
  <2> QED
    BY <1>1, <1>2, <2>2, <2>3
<1>5. CASE x < 0 /\ y >= 0
  <2>1. PICK z \in Nat : z = -x /\ z <= Half
    BY <1>1, <1>5
  <2>2. z * y \in Nat /\ z * y <= q
    BY <1>1, <1>2, <1>5, <2>1, ProductBound
  <2>3. x * y = -(z * y)
    BY <2>1
  <2> QED
    BY <1>1, <1>2, <2>2, <2>3
<1>6. CASE x < 0 /\ y < 0
  <2>1. PICK u \in Nat, v \in Nat : u = -x /\ v = -y /\ u <= Half /\ v <= Half
    BY <1>1, <1>6
  <2>2. u * v \in Nat /\ u * v <= q
    BY <1>1, <1>2, <2>1, ProductBound
  <2>3. x * y = u * v
    BY <2>1
  <2> QED
    BY <1>1, <1>2, <2>2, <2>3
<1> QED
  BY <1>3, <1>4, <1>5, <1>6

\* The squares the widths of a product are made of.
LEMMA Squares ==
    \E q \in Nat : /\ q > 0 /\ Half * Half = q /\ M * M = 4 * q
                  /\ Half * M = 2 * q /\ q >= Half
<1>1. PICK h \in Nat : h = Half /\ h > 0
  BY Words
<1>2. M = 2 * h
  BY <1>1 DEF M
<1>3. PICK q \in Nat : q = h * h
  BY <1>1
<1>4. (2 * h) * (2 * h) = 4 * (h * h) /\ h * (2 * h) = 2 * (h * h)
  BY <1>1
<1>5. q >= h
  <2>1. PICK e \in Nat : h = e + 1
    <3>1. h - 1 \in Nat /\ h = (h - 1) + 1
      BY <1>1
    <3> QED
      BY <3>1
  <2>2. h * h = e * h + h /\ e * h \in Nat
    BY <2>1
  <2> QED
    BY <1>3, <2>2
<1> QED
  BY <1>1, <1>2, <1>3, <1>4, <1>5

\* MUL's 64 bits, read as a signed number, are the product.
LEMMA MulProduct ==
    ASSUME NEW d \in Word, NEW s \in Word
    PROVE  LET c == Product("MUL", d, s)
               p == Signed(d) * Signed(s)
           IN  /\ c \in Nat /\ c < M * M /\ p \in Int
               /\ Signed64(c) = p
               /\ c = Half * M => FALSE
<1>1. /\ Signed(d) \in Int /\ -Half <= Signed(d) /\ Signed(d) <= Half
      /\ Signed(s) \in Int /\ -Half <= Signed(s) /\ Signed(s) <= Half
  BY SignedRange, Words
<1>2. PICK q \in Nat : q > 0 /\ Half * Half = q /\ M * M = 4 * q /\ Half * M = 2 * q
  BY Squares
<1>3. PICK p \in Int : p = Signed(d) * Signed(s) /\ -q <= p /\ p <= q
  BY <1>1, <1>2, SignedProduct
<1>4. PICK w \in Nat : w = M * M /\ w = 4 * q
  BY <1>2
<1>5. Product("MUL", d, s) = p % w
  BY <1>3, <1>4 DEF Product
<1>6. CASE p >= 0
  <2>1. p % w = p
    BY <1>2, <1>3, <1>4, <1>6
  <2>2. Signed64(p) = p
    BY <1>2, <1>3, <1>6 DEF Signed64
  <2> QED
    BY <1>2, <1>3, <1>4, <1>5, <1>6, <2>1, <2>2
<1>7. CASE p < 0
  <2>1. p % w = p + w
    BY <1>2, <1>3, <1>4, <1>7, SMTT(30)
  <2>2. Signed64(p + w) = p
    <3>1. ~(p + w < Half * M)
      BY <1>2, <1>3, <1>4, <1>7
    <3>2. (p + w) - (M * M) = p
      BY <1>3, <1>4
    <3> QED
      BY <3>1, <3>2 DEF Signed64
  <2> QED
    BY <1>2, <1>3, <1>4, <1>5, <1>7, <2>1, <2>2
<1> QED
  BY <1>6, <1>7

LEMMA UnsignedProduct ==
    ASSUME NEW d \in Word, NEW s \in Word
    PROVE  Product("MULU", d, s) = d * s /\ d * s \in Nat /\ d * s < M * M
<1>1. PICK m \in Nat : M = m + 1
  <2>1. M - 1 \in Nat /\ M = (M - 1) + 1
    BY Words
  <2> QED
    BY <2>1
<1>2. d \in Nat /\ s \in Nat /\ d <= m /\ s <= m
  BY <1>1 DEF Word
<1>3. d * s \in Nat /\ d * s <= m * m
  BY <1>2, ProductBound
<1>4. m * m \in Nat /\ (m + 1) * (m + 1) = (m * m) + (m + (m + 1))
  OBVIOUS
<1>5. PICK w \in Nat : w = M * M /\ d * s < w
  <2>1. PICK x \in Nat : x = m * m
    BY <1>4
  <2> QED
    BY <1>1, <1>3, <1>4, <2>1
<1>6. PICK p \in Nat : p = d * s /\ p < w
  BY <1>3, <1>5
<1>7. p % w = p
  BY <1>6
<1> QED
  BY <1>5, <1>6, <1>7 DEF Product

\* Of a product, one factor and no remainder.
LEMMA Divides ==
    ASSUME NEW x \in Int, NEW y \in Int, y # 0
    PROVE  Quot(x * y, y) = x /\ Rem(x * y, y) = 0
<1>1. PICK u \in Nat : u = Abs(x)
  BY DEF Abs
<1>2. PICK v \in Nat : v = Abs(y) /\ v > 0
  BY DEF Abs
<1>3. (u * v) \div v = u
  BY <1>2
<1>4. Abs(x * y) = u * v
  <2>1. CASE x >= 0 /\ y > 0
    <3>1. u = x /\ v = y /\ u * v \in Nat
      BY <1>1, <1>2, <2>1 DEF Abs
    <3> QED
      BY <3>1 DEF Abs
  <2>2. CASE x >= 0 /\ y < 0
    <3>1. u = x /\ v = -y /\ u * v \in Nat
      BY <1>1, <1>2, <2>2 DEF Abs
    <3>2. x * y = -(u * v)
      BY <3>1
    <3> QED
      BY <3>1, <3>2 DEF Abs
  <2>3. CASE x < 0 /\ y > 0
    <3>1. u = -x /\ v = y /\ u * v \in Nat
      BY <1>1, <1>2, <2>3 DEF Abs
    <3>2. x * y = -(u * v)
      BY <3>1
    <3> QED
      BY <3>1, <3>2 DEF Abs
  <2>4. CASE x < 0 /\ y < 0
    <3>1. u = -x /\ v = -y /\ u * v \in Nat
      BY <1>1, <1>2, <2>4 DEF Abs
    <3>2. x * y = u * v
      BY <3>1
    <3> QED
      BY <3>1, <3>2 DEF Abs
  <2> QED
    BY <2>1, <2>2, <2>3, <2>4
<1>5. Abs(x * y) \div Abs(y) = u
  BY <1>2, <1>3, <1>4
<1>6. (x * y < 0) <=> ((x < 0 /\ y > 0) \/ (x > 0 /\ y < 0))
  OBVIOUS
<1>7. Quot(x * y, y) = IF (x * y < 0) = (y < 0) THEN u ELSE -u
  BY <1>5 DEF Quot
<1>8. Quot(x * y, y) = x
  <2>1. CASE x >= 0 /\ y > 0
    BY <1>1, <1>6, <1>7, <2>1 DEF Abs
  <2>2. CASE x >= 0 /\ y < 0
    BY <1>1, <1>6, <1>7, <2>2 DEF Abs
  <2>3. CASE x < 0 /\ y > 0
    BY <1>1, <1>6, <1>7, <2>3 DEF Abs
  <2>4. CASE x < 0 /\ y < 0
    BY <1>1, <1>6, <1>7, <2>4 DEF Abs
  <2> QED
    BY <2>1, <2>2, <2>3, <2>4
<1>9. Rem(x * y, y) = 0
  <2>1. PICK p \in Int : p = x * y /\ p = y * x
    OBVIOUS
  <2>2. Rem(p, y) = p - (y * x)
    BY <1>8, <2>1 DEF Rem
  <2> QED
    BY <2>1, <2>2
<1> QED
  BY <1>8, <1>9


LEMMA DivisionWords ==
    ASSUME NEW op \in {"DIV", "DIVU"}, NEW d \in Word, NEW mdr \in Word, NEW s \in Word, s # 0
    PROVE  Quotient(op, d, mdr, s) \in Word /\ Remainder(op, d, mdr, s) \in Word
<1>1. PICK q \in Nat : q > 0 /\ M * M = 4 * q /\ q >= Half
  BY Squares
<1>2. Signed(s) \in Int /\ Signed(s) # 0 /\ -Half <= Signed(s) /\ Signed(s) < Half
  BY SignedRange
<1>3. PICK b \in Int : b = Divisor(op, s) /\ b # 0
  <2>1. PICK w \in Nat : w = M * M /\ w > Half
    BY <1>1, Words
  <2>2. PICK i \in Int : i = Signed(s) /\ i # 0 /\ -w < i /\ i < w
    BY <1>2, <2>1, Words
  <2>3. i % w \in Int /\ i % w # 0
    BY <2>1, <2>2, SMTT(30)
  <2> QED
    BY <2>1, <2>2, <2>3 DEF Divisor
<1>4. PICK a \in Int : a = Dividend(op, d, mdr)
  <2>1. d \in Int /\ mdr * M \in Int /\ Half * M \in Int /\ M * M \in Int
    BY Words
  <2>2. Combined(d, mdr) \in Int
    BY <2>1 DEF Combined
  <2> QED
    BY <2>1, <2>2 DEF Dividend, Signed64
<1>5. Quot(a, b) \in Int
  <2>1. Abs(a) \in Nat /\ Abs(b) \in Nat /\ Abs(b) > 0
    BY <1>3 DEF Abs
  <2>2. Abs(a) \div Abs(b) \in Int
    BY <2>1
  <2> QED
    BY <2>2 DEF Quot
<1>6. Rem(a, b) \in Int
  BY <1>5 DEF Rem
<1> QED
  BY <1>3, <1>4, <1>5, <1>6, Words DEF Quotient, Remainder

-----------------------------------------------------------------------------
(* The inductive invariant.                                                *)

\* What CMP, ADD or MUL leave stands until the next instruction: the flags are
\* those of the operands, and MDR and the register hold the product.
FlagsStand ==
    /\ last.op = "CMP" => psw = CmpFlags(last.d, last.s)
    /\ last.op = "ADD" => psw = AddFlags(last.d, last.s, last.s, AddResult(last.d, last.s, 1, 0))

ProductStands ==
    last.op \in {"MUL", "MULU"} =>
        /\ D[last.dst] = Low(Product(last.op, last.d, last.s))
        /\ MDR = High(Product(last.op, last.d, last.s))

AluInv == TypeOK /\ FlagsStand /\ ProductStands

LEMMA InitInv == Init => AluInv
<1> SUFFICES ASSUME Init PROVE AluInv
  OBVIOUS
<1>1. last.op = "NONE" /\ last.s = 0 /\ last.d = 0 /\ last.dst = "D0"
  BY DEF Init, None
<1>2. TypeOK
  BY <1>1, Words DEF Init, TypeOK, Dn
<1> QED
  BY <1>1, <1>2 DEF AluInv, FlagsStand, ProductStands

\* The instructions nobody combines with a later one.
LEMMA Finishes ==
    ASSUME AluInv, D' \in [Dn -> Word], MDR' \in Word, psw' \subseteq Flag, last' = None, Goes
    PROVE  AluInv'
BY Words DEF AluInv, TypeOK, FlagsStand, ProductStands, None, Goes, Dn

LEMMA SetsTypes ==
    ASSUME TypeOK, NEW dst \in Dn, NEW res \in Word, NEW flags, flags \subseteq Flag,
           Sets(dst, res, flags)
    PROVE  D' \in [Dn -> Word] /\ psw' \subseteq Flag /\ D'[dst] = res
BY DEF Sets, TypeOK

LEMMA AddSubInv ==
    ASSUME AluInv, NEW op \in {"ADD", "ADDC", "SUB", "SUBC"}, NEW src \in Dn, NEW dst \in Dn,
           AddSub(op, src, dst)
    PROVE  AluInv'
<1> DEFINE sign  == IF op \in {"SUB", "SUBC"} THEN -1 ELSE 1
           carry == IF op \in {"ADDC", "SUBC"} THEN Bit("C" \in psw) ELSE 0
           res   == AddResult(D[dst], D[src], sign, carry)
           flags == AddFlags(D[dst], D[src], D[src], res)
<1>1. TypeOK /\ D[dst] \in Word /\ D[src] \in Word
  BY DEF AluInv, TypeOK
<1>2. sign \in {-1, 1} /\ carry \in {0, 1}
  BY DEF Bit
<1>3. Sets(dst, res, flags) /\ MDR' = MDR /\ Goes
      /\ last' = IF sign = 1 /\ carry = 0 THEN Ran("ADD", D[src], dst) ELSE None
  BY DEF AddSub
<1> HIDE DEF sign, carry
<1>4. res \in Word
  <2>1. D[dst] + (D[src] * sign) + (carry * sign) \in Int
    BY <1>1, <1>2, Words
  <2> QED
    BY <2>1, Words DEF AddResult
<1>5. D' \in [Dn -> Word] /\ psw' \subseteq Flag /\ psw' = flags
  BY <1>1, <1>3, <1>4, SetsTypes, Flags DEF Sets
<1>6. MDR' \in Word
  BY <1>1, <1>3 DEF TypeOK
<1>7. CASE sign = 1 /\ carry = 0
  <2>1. last' = Ran("ADD", D[src], dst)
    BY <1>3, <1>7
  <2>2. /\ last'.op = "ADD" /\ last'.s = D[src] /\ last'.d = D[dst] /\ last'.dst = dst
    BY <2>1 DEF Ran
  <2>3. psw' = AddFlags(D[dst], D[src], D[src], AddResult(D[dst], D[src], 1, 0))
    BY <1>5, <1>7
  <2> QED
    BY <1>1, <1>3, <1>5, <1>6, <2>2, <2>3 DEF AluInv, TypeOK, FlagsStand, ProductStands, Goes
<1>8. CASE ~(sign = 1 /\ carry = 0)
  BY <1>3, <1>5, <1>6, <1>8, Finishes
<1> QED
  BY <1>7, <1>8

LEMMA AddImmInv ==
    ASSUME AluInv, NEW w \in DOMAIN Narrow, NEW i \in Imm(w), NEW dst \in Dn, AddImm(i, w, dst)
    PROVE  AluInv'
<1>1. TypeOK /\ D[dst] \in Word /\ s_ext(i, Narrow[w]) \in Word /\ MDR \in Word
  BY Extended, NarrowAssumption DEF AluInv, TypeOK
<1>2. AddResult(D[dst], s_ext(i, Narrow[w]), 1, 0) \in Word
  BY <1>1, Words DEF AddResult
<1>3. D' \in [Dn -> Word] /\ psw' \subseteq Flag
  BY <1>1, <1>2, SetsTypes, Flags DEF AddImm
<1> QED
  BY <1>1, <1>3, Finishes DEF AddImm

LEMMA MulInv ==
    ASSUME AluInv, NEW op \in {"MUL", "MULU"}, NEW src \in Dn, NEW dst \in Dn, Mul(op, src, dst)
    PROVE  AluInv'
<1>1. TypeOK /\ D[dst] \in Word /\ D[src] \in Word
  BY DEF AluInv, TypeOK
<1>2. PICK c \in Nat : c = Product(op, D[dst], D[src]) /\ c < M * M
  BY <1>1, MulProduct, UnsignedProduct
<1>3. Low(c) \in Word /\ High(c) \in Word
  BY <1>2, TwoWords
<1>4. /\ Sets(dst, Low(c), ZN(Low(c))) /\ MDR' = High(c)
      /\ last' = Ran(op, D[src], dst) /\ Goes
  BY <1>2 DEF Mul
<1>5. D' \in [Dn -> Word] /\ psw' \subseteq Flag /\ D'[dst] = Low(c)
  BY <1>1, <1>3, <1>4, SetsTypes, Flags
<1>6. last'.op = op /\ last'.s = D[src] /\ last'.d = D[dst] /\ last'.dst = dst
  BY <1>4 DEF Ran
<1> QED
  BY <1>1, <1>2, <1>3, <1>4, <1>5, <1>6 DEF AluInv, TypeOK, FlagsStand, ProductStands, Goes

LEMMA DivInv ==
    ASSUME AluInv, NEW op \in {"DIV", "DIVU"}, NEW src \in Dn, NEW dst \in Dn, Div(op, src, dst)
    PROVE  AluInv'
<1>1. TypeOK /\ D[dst] \in Word /\ D[src] \in Word /\ MDR \in Word /\ D[src] # 0
  BY DEF AluInv, TypeOK, Div
<1>2. /\ Quotient(op, D[dst], MDR, D[src]) \in Word
      /\ Remainder(op, D[dst], MDR, D[src]) \in Word
  BY <1>1, DivisionWords
<1>3. D' \in [Dn -> Word] /\ psw' \subseteq Flag
  BY <1>1, <1>2, SetsTypes, Flags DEF Div
<1> QED
  BY <1>2, <1>3, Finishes DEF Div

LEMMA DivByZeroInv ==
    ASSUME AluInv, NEW src \in Dn, NEW dst \in Dn, DivByZero(src, dst)
    PROVE  AluInv'
<1>1. TypeOK /\ Wrap(Narrow["B"] - 1) \in Word
  BY NarrowSizes, Words DEF AluInv
<1>2. D' \in [Dn -> Word] /\ psw' \subseteq Flag
  BY <1>1, SetsTypes DEF DivByZero, Flag
<1> QED
  BY <1>2, Words, Finishes DEF DivByZero


LEMMA IncInv == ASSUME AluInv, NEW dst \in Dn, Inc(dst) PROVE AluInv'
<1>1. TypeOK /\ D[dst] \in Word /\ MDR \in Word
  BY DEF AluInv, TypeOK
<1>2. Wrap(D[dst] + 1) \in Word
  BY <1>1, Words
<1>3. D' \in [Dn -> Word] /\ psw' \subseteq Flag
  <2> DEFINE d == Wrap(D[dst] + 1)
             flags == ZN(d) \cup FlagsIf("C", d = 0) \cup FlagsIf("V", d = Half)
  <2>1. Sets(dst, d, flags)
    BY DEF Inc
  <2>2. flags \subseteq Flag
    BY Flags
  <2> QED
    BY <1>1, <1>2, <2>1, <2>2, SetsTypes
<1> QED
  BY <1>1, <1>3, Finishes DEF Inc

LEMMA CmpInv == ASSUME AluInv, NEW s \in Source, NEW dst \in Dn, Cmp(s, dst) PROVE AluInv'
<1>1. TypeOK /\ D[dst] \in Word /\ s \in Word
  BY SourceWords DEF AluInv, TypeOK
<1>2. last'.op = "CMP" /\ last'.s = s /\ last'.d = D[dst] /\ last'.dst = dst
  BY DEF Cmp, Ran
<1>3. psw' = CmpFlags(D[dst], s) /\ psw' \subseteq Flag
  BY Flags DEF Cmp
<1> QED
  BY <1>1, <1>2, <1>3 DEF Cmp, AluInv, TypeOK, FlagsStand, ProductStands, Goes

LEMMA LogicInv ==
    ASSUME AluInv, NEW op \in {"AND", "OR", "XOR"}, NEW s \in Source, NEW dst \in Dn,
           Logic(op, s, dst)
    PROVE  AluInv'
<1> DEFINE res == CASE op = "AND" -> BitAnd(s, D[dst])
                    [] op = "OR"  -> BitOr(s, D[dst])
                    [] op = "XOR" -> BitXor(s, D[dst])
<1>1. TypeOK /\ D[dst] \in Word /\ s \in Word /\ MDR \in Word
  BY SourceWords DEF AluInv, TypeOK
<1>2. res \in Word
  BY <1>1, BitwiseAssumption
<1>3. Sets(dst, res, ZN(res)) /\ last' = None /\ MDR' = MDR /\ Goes
  BY DEF Logic
<1> HIDE DEF res
<1>4. D' \in [Dn -> Word] /\ psw' \subseteq Flag
  BY <1>1, <1>2, <1>3, SetsTypes, Flags
<1> QED
  BY <1>1, <1>3, <1>4, Finishes

LEMMA ShiftInv ==
    ASSUME AluInv, NEW op \in {"ASL", "ASR", "LSR"}, NEW shift \in 0 .. MaxShift, NEW dst \in Dn,
           Shift(op, shift, dst)
    PROVE  AluInv'
<1> DEFINE res == CASE op = "ASL" -> Wrap(D[dst] * Pow2[shift])
                    [] op = "ASR" -> Wrap(Signed(D[dst]) \div Pow2[shift])
                    [] op = "LSR" -> D[dst] \div Pow2[shift]
           flags == ZN(res) \cup FlagsIf("C", shift # 0 /\ D[dst] % 2 = 1)
<1>1. TypeOK /\ D[dst] \in Word /\ MDR \in Word
  BY DEF AluInv, TypeOK
<1>2. PICK p \in Nat : p = Pow2[shift] /\ p > 0
  BY NarrowAssumption
<1>3. res \in Word
  <2>1. PICK d \in Nat : d = D[dst] /\ d < M
    BY <1>1, Words DEF Word
  <2>2. PICK i \in Int : i = Signed(d)
    BY <1>1, <2>1, Words
  <2>3. d * p \in Int /\ i \div p \in Int
    BY <1>2
  <2>4. d \div p \in Nat /\ d \div p <= d
    <3>1. PICK q \in Nat, r \in Nat : q = d \div p /\ d = p * q + r
      <4>1. d \div p \in Nat /\ d % p \in Nat /\ d = p * (d \div p) + (d % p)
        BY <1>2
      <4> QED
        BY <4>1
    <3>2. PICK e \in Nat : p = e + 1
      <4>1. p - 1 \in Nat /\ p = (p - 1) + 1
        BY <1>2
      <4> QED
        BY <4>1
    <3>3. p * q = e * q + q /\ e * q \in Nat
      BY <3>2
    <3> QED
      BY <3>1, <3>3
  <2>5. d \div p \in Word
    BY <2>1, <2>4, Words DEF Word
  <2> QED
    BY <1>2, <2>1, <2>2, <2>3, <2>5, Words
<1>4. Sets(dst, res, flags) /\ last' = None /\ MDR' = MDR /\ Goes
  BY DEF Shift
<1>5. flags \subseteq Flag
  BY Flags
<1> HIDE DEF res, flags
<1>6. D' \in [Dn -> Word] /\ psw' \subseteq Flag
  BY <1>1, <1>3, <1>4, <1>5, SetsTypes
<1> QED
  BY <1>1, <1>4, <1>6, Finishes

LEMMA RotateInv ==
    ASSUME AluInv, NEW op \in {"ROR", "ROL"}, NEW dst \in Dn, Rotate(op, dst)
    PROVE  AluInv'
<1> DEFINE d == D[dst]
           res == IF op = "ROR" THEN d \div 2 + (d % 2) * Half ELSE Wrap(2 * d) + d \div Half
<1>1. TypeOK /\ d \in Word /\ MDR \in Word
  BY DEF AluInv, TypeOK
<1>2. Sets(dst, res, ZN(res)) /\ last' = None /\ MDR' = MDR /\ Goes
  BY DEF Rotate
<1>3. res \in Word
  <2>1. PICK h \in Nat, x \in Nat : h = Half /\ h > 0 /\ x = d /\ x < h + h /\ M = h + h
    BY <1>1, Words DEF Word
  <2>2. CASE op = "ROR"
    <3>1. PICK q \in Nat, b \in {0, 1} : q = x \div 2 /\ b = x % 2 /\ x = (2 * q) + b
      BY <2>1
    <3>2. q < h
      BY <2>1, <3>1
    <3>3. b * h = 0 \/ b * h = h
      BY <2>1, <3>1
    <3>4. (q + (b * h)) \in Nat /\ q + (b * h) < M
      BY <2>1, <3>2, <3>3
    <3> QED
      BY <2>1, <2>2, <3>1, <3>4, Words DEF Word
  <2>3. CASE op = "ROL"
    <3>1. CASE x < h
      <4>1. x \div h = 0
        BY <2>1, <3>1
      <4>2. Wrap(2 * x) \in Word
        BY Words
      <4> QED
        BY <2>1, <2>3, <4>1, <4>2, Words
    <3>2. CASE ~(x < h)
      <4>1. x \div h = 1
        BY <2>1, <3>2
      <4>2. 2 * x \in Int /\ -M <= 2 * x /\ 2 * x < 2 * M
        BY <2>1
      <4>3. Wrap(2 * x) = (2 * x) - M
        BY <2>1, <3>2, <4>2, WrapWord
      <4>4. ((2 * x) - M) + 1 \in Nat /\ ((2 * x) - M) + 1 < M
        BY <2>1, <3>2
      <4> QED
        BY <2>1, <2>3, <4>1, <4>3, <4>4, Words DEF Word
    <3> QED
      BY <3>1, <3>2
  <2> QED
    BY <2>2, <2>3
<1> HIDE DEF res
<1>4. D' \in [Dn -> Word] /\ psw' \subseteq Flag
  BY <1>1, <1>2, <1>3, SetsTypes, Flags
<1> QED
  BY <1>1, <1>2, <1>4, Finishes


LEMMA ExtendInv ==
    ASSUME AluInv, NEW w \in DOMAIN Narrow, NEW signed \in BOOLEAN, NEW dst \in Dn,
           Extend(w, signed, dst)
    PROVE  AluInv'
<1>1. TypeOK /\ D[dst] \in Word /\ MDR \in Word /\ psw \subseteq Flag /\ w \in {"B", "H"}
  BY NarrowAssumption DEF AluInv, TypeOK
<1>2. PICK n \in Nat : n = Narrow[w] /\ 2 <= n /\ n <= M
  BY <1>1, NarrowSizes
<1>3. D[dst] % n \in Imm(w)
  BY <1>1, <1>2, Words DEF Imm
<1>4. PICK res \in Word : D' = [D EXCEPT ![dst] = res]
  BY <1>1, <1>2, <1>3, Extended DEF Extend
<1>5. D' \in [Dn -> Word]
  BY <1>1, <1>4 DEF TypeOK
<1> QED
  BY <1>1, <1>5, Finishes DEF Extend

LEMMA SmallInv ==
    ASSUME AluInv, NEW dst \in Dn, NotDn(dst) \/ Ext(dst) \/ Clr(dst)
    PROVE  AluInv'
<1>1. TypeOK /\ D[dst] \in Word /\ MDR \in Word /\ D \in [Dn -> Word] /\ psw \subseteq Flag
  BY DEF AluInv, TypeOK
<1>2. CASE NotDn(dst)
  <2>1. M - 1 - D[dst] \in Word
    BY <1>1, Words DEF Word
  <2>2. D' \in [Dn -> Word] /\ psw' \subseteq Flag
    BY <1>1, <1>2, <2>1, SetsTypes, Flags DEF NotDn
  <2> QED
    BY <1>1, <1>2, <2>2, Finishes DEF NotDn
<1>3. CASE Ext(dst)
  BY <1>1, <1>3, Words, Finishes DEF Ext
<1>4. CASE Clr(dst)
  <2>1. D' \in [Dn -> Word] /\ psw' \subseteq Flag
    <3>1. {"Z"} \subseteq Flag
      BY DEF Flag
    <3> QED
      BY <1>1, <1>4, <3>1, Words, SetsTypes DEF Clr
  <2> QED
    BY <1>1, <1>4, <2>1, Finishes DEF Clr
<1> QED
  BY <1>2, <1>3, <1>4

LEMMA RestInv ==
    ASSUME AluInv
    PROVE  /\ \A s \in Source, dst \in Dn : Btst(s, dst) => AluInv'
           /\ \A op \in {"AND", "OR"}, flags \in SUBSET Flag : LogicPSW(op, flags) => AluInv'
           /\ \A op \in {"DIV", "DIVU"}, src, dst \in Dn : DivTraps(op, src, dst) => AluInv'
           /\ UNCHANGED vars => AluInv'
<1>1. TypeOK /\ MDR \in Word /\ D \in [Dn -> Word] /\ psw \subseteq Flag
  BY DEF AluInv, TypeOK
<1>2. ASSUME NEW s \in Source, NEW dst \in Dn, Btst(s, dst) PROVE AluInv'
  BY <1>1, <1>2, Flags, Finishes DEF Btst
<1>3. ASSUME NEW op \in {"AND", "OR"}, NEW flags \in SUBSET Flag, LogicPSW(op, flags)
      PROVE  AluInv'
  BY <1>1, <1>3, Finishes DEF LogicPSW
<1>4. ASSUME NEW op \in {"DIV", "DIVU"}, NEW src \in Dn, NEW dst \in Dn, DivTraps(op, src, dst)
      PROVE  AluInv'
  BY <1>4 DEF DivTraps, AluInv, TypeOK, FlagsStand, ProductStands
<1>5. UNCHANGED vars => AluInv'
  BY DEF vars, AluInv, TypeOK, FlagsStand, ProductStands
<1> QED
  BY <1>2, <1>3, <1>4, <1>5

LEMMA StepInv == AluInv /\ [Next]_vars => AluInv'
<1> SUFFICES ASSUME AluInv, [Next]_vars PROVE AluInv'
  OBVIOUS
<1>1. ASSUME NEW src \in Dn, NEW dst \in Dn,
             \/ \E op \in {"ADD", "ADDC", "SUB", "SUBC"} : AddSub(op, src, dst)
             \/ \E op \in {"MUL", "MULU"} : Mul(op, src, dst)
             \/ \E op \in {"DIV", "DIVU"} : Div(op, src, dst) \/ DivTraps(op, src, dst)
             \/ DivByZero(src, dst)
      PROVE  AluInv'
  BY <1>1, AddSubInv, MulInv, DivInv, DivByZeroInv, RestInv
<1>2. ASSUME NEW dst \in Dn, NEW w \in DOMAIN Narrow, NEW i \in Imm(w), AddImm(i, w, dst)
      PROVE  AluInv'
  BY <1>2, AddImmInv
<1>3. ASSUME NEW dst \in Dn, NEW s \in Source,
             \/ Cmp(s, dst) \/ Btst(s, dst)
             \/ \E op \in {"AND", "OR", "XOR"} : Logic(op, s, dst)
      PROVE  AluInv'
  BY <1>3, CmpInv, LogicInv, RestInv
<1>4. ASSUME NEW dst \in Dn, NEW op \in {"ASL", "ASR", "LSR"}, NEW shift \in 0 .. MaxShift,
             Shift(op, shift, dst)
      PROVE  AluInv'
  BY <1>4, ShiftInv
<1>5. ASSUME NEW dst \in Dn,
             \/ \E op \in {"ROR", "ROL"} : Rotate(op, dst)
             \/ \E w \in DOMAIN Narrow, signed \in BOOLEAN : Extend(w, signed, dst)
             \/ Inc(dst) \/ NotDn(dst) \/ Ext(dst) \/ Clr(dst)
      PROVE  AluInv'
  BY <1>5, RotateInv, ExtendInv, IncInv, SmallInv
<1>6. ASSUME NEW op \in {"AND", "OR"}, NEW flags \in SUBSET Flag, LogicPSW(op, flags)
      PROVE  AluInv'
  BY <1>6, RestInv
<1>7. UNCHANGED vars => AluInv'
  BY RestInv
<1> QED
  BY <1>1, <1>2, <1>3, <1>4, <1>5, <1>6, <1>7 DEF Next

-----------------------------------------------------------------------------
(* The theorems.                                                           *)

\* What the last CMP, ADD or MUL left is there for the next instruction.
THEOREM AluInvariant == Spec => []AluInv
<1> QED
  BY InitInv, StepInv, PTL DEF Spec

\* No handler brings a register out of its width or sets a flag the PSW has not.
THEOREM AluTypeCorrect == Spec => []TypeOK
<1>1. AluInv => TypeOK
  BY DEF AluInv
<1> QED
  BY <1>1, AluInvariant, PTL

\* Unsigned comparisons come out right for words of every width.
THEOREM BranchesDecide == Spec => []UnsignedBranchesDecide
<1>1. AluInv => UnsignedBranchesDecide
  BY CompareTellsOrder DEF AluInv, TypeOK, FlagsStand, UnsignedBranchesDecide
<1> QED
  BY <1>1, AluInvariant, PTL

\* ADD and ADDC add numbers of two words.
THEOREM SumsCarry == Spec => []TwoWordSum
<1>1. AluInv => TwoWordSum
  BY AddcMakesTwoWordSum DEF AluInv, TypeOK, FlagsStand, TwoWordSum
<1> QED
  BY <1>1, AluInvariant, PTL

\* DIV of what MUL left gives the factor back and never traps; DIVU of what
\* MULU left does so for a divisor below 2^31.
THEOREM DivisionUndoes == Spec => []DivUndoesMul
<1>1. ASSUME AluInv, last.op = "MUL", last.s # 0
      PROVE  /\ ~QuotientTraps("DIV", D[last.dst], MDR, last.s)
             /\ Quotient("DIV", D[last.dst], MDR, last.s) = last.d
             /\ Remainder("DIV", D[last.dst], MDR, last.s) = 0
  <2>1. PICK d \in Word, s \in Word : d = last.d /\ s = last.s /\ s # 0
    BY <1>1 DEF AluInv, TypeOK
  <2>2. PICK c \in Nat : c = Product("MUL", d, s) /\ c < M * M
    BY MulProduct
  <2>3. D[last.dst] = Low(c) /\ MDR = High(c)
    BY <1>1, <2>1, <2>2 DEF AluInv, ProductStands
  <2>4. Combined(D[last.dst], MDR) = c
    BY <2>2, <2>3, TwoWords
  <2>5. ~QuotientTraps("DIV", D[last.dst], MDR, s)
    BY <2>2, <2>4, MulProduct DEF QuotientTraps
  <2>6. PICK x \in Int, y \in Int : x = Signed(d) /\ y = Signed(s) /\ y # 0 /\ Wrap(x) = d
    BY <2>1, SignedRange
  <2>7. Dividend("DIV", D[last.dst], MDR) = x * y /\ Divisor("DIV", s) = y
    BY <2>2, <2>4, <2>6, MulProduct DEF Dividend, Divisor
  <2>8. Quotient("DIV", D[last.dst], MDR, s) = d /\ Remainder("DIV", D[last.dst], MDR, s) = Wrap(0)
    BY <2>6, <2>7, Divides DEF Quotient, Remainder
  <2> QED
    BY <2>1, <2>5, <2>8, Words
<1>2. ASSUME AluInv, last.op = "MULU", last.s \in 1 .. Half - 1
      PROVE  /\ Quotient("DIVU", D[last.dst], MDR, last.s) = last.d
             /\ Remainder("DIVU", D[last.dst], MDR, last.s) = 0
  <2>1. PICK d \in Word, s \in Word : d = last.d /\ s = last.s /\ s > 0 /\ s < Half
    BY <1>2, Words DEF AluInv, TypeOK
  <2>2. PICK c \in Nat : c = Product("MULU", d, s) /\ c = d * s /\ c < M * M
    BY UnsignedProduct
  <2>3. D[last.dst] = Low(c) /\ MDR = High(c)
    BY <1>2, <2>1, <2>2 DEF AluInv, ProductStands
  <2>4. Combined(D[last.dst], MDR) = c
    BY <2>2, <2>3, TwoWords
  <2>5. Divisor("DIVU", s) = s
    <3>1. PICK q \in Nat : q > 0 /\ M * M = 4 * q /\ q >= Half
      BY Squares
    <3>2. PICK w \in Nat : w = M * M /\ s < w
      BY <2>1, <3>1, Words
    <3>3. s \in Nat /\ s % w = s
      BY <3>2, Words
    <3>4. Signed(s) = s
      BY <2>1 DEF Signed
    <3> QED
      BY <3>2, <3>3, <3>4 DEF Divisor
  <2>6. Dividend("DIVU", D[last.dst], MDR) = d * s
    BY <2>2, <2>4 DEF Dividend
  <2>7. d \in Int /\ s \in Int /\ s # 0 /\ Wrap(d) = d
    BY <2>1, Words
  <2>8. Quotient("DIVU", D[last.dst], MDR, s) = d /\ Remainder("DIVU", D[last.dst], MDR, s) = Wrap(0)
    BY <2>5, <2>6, <2>7, Divides DEF Quotient, Remainder
  <2> QED
    BY <2>1, <2>8, Words
<1>3. AluInv => DivUndoesMul
  BY <1>1, <1>2 DEF DivUndoesMul
<1> QED
  BY <1>3, AluInvariant, PTL

================================================================================
