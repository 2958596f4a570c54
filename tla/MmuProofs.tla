------------------------------- MODULE MmuProofs -------------------------------
(***************************************************************************)
(* Theorems about Mmu: an access over one host page or two is one access   *)
(* to a flat array, for every number and size of pages.                    *)
(***************************************************************************)
EXTENDS Mmu, FiniteSetTheorems, TLAPS

-----------------------------------------------------------------------------
(* Addresses.                                                              *)

LEMMA Sizes0 ==
    /\ NumVPages \in Nat /\ NumVPages >= 2
    /\ PageSize \in Nat /\ PageSize >= 16
    /\ \E m \in Nat \ {0} : PageSize = 16 * m
    /\ TotalBytes \in Nat /\ TotalBytes = NumVPages * PageSize
    /\ PageSize + PageSize <= TotalBytes
<1>1. NumVPages \in Nat /\ NumVPages >= 2 /\ PageSize \in Nat \ {0} /\ PageSize % 16 = 0
  BY SizesAssumption
<1>2. PICK m \in Nat \ {0} : PageSize = 16 * m
  <2>1. PageSize \div 16 \in Nat /\ PageSize = 16 * (PageSize \div 16)
    BY <1>1
  <2>2. PageSize \div 16 # 0
    BY <1>1, <2>1
  <2> QED
    BY <2>1, <2>2
<1>3. TotalBytes \in Nat /\ PageSize + PageSize <= TotalBytes
  <2>1. PICK d \in Nat : NumVPages = d + 2
    <3>1. NumVPages - 2 \in Nat /\ NumVPages = (NumVPages - 2) + 2
      BY <1>1
    <3> QED
      BY <3>1
  <2>2. d * PageSize \in Nat /\ (d + 2) * PageSize = d * PageSize + (PageSize + PageSize)
    BY <1>1
  <2> QED
    BY <1>1, <2>1, <2>2 DEF TotalBytes
<1> QED
  BY <1>1, <1>2, <1>3 DEF TotalBytes

LEMMA PagesApart ==
    ASSUME NEW p \in Nat, NEW q \in Nat, p < q
    PROVE  /\ p * PageSize + PageSize <= q * PageSize
           /\ p * PageSize \in Nat /\ q * PageSize \in Nat
<1>1. PICK d \in Nat : q = p + 1 + d
  <2>1. q - (p + 1) \in Nat /\ q = p + 1 + (q - (p + 1))
    OBVIOUS
  <2> QED
    BY <2>1
<1>2. d * PageSize \in Nat /\ p * PageSize \in Nat
  BY Sizes0
<1>3. q * PageSize = p * PageSize + PageSize + d * PageSize
  BY <1>1, Sizes0
<1> QED
  BY <1>2, <1>3, Sizes0

LEMMA Parts ==
    ASSUME NEW a \in Nat
    PROVE  /\ PageOf(a) \in Nat /\ a % PageSize \in Nat /\ a % PageSize < PageSize
           /\ PageOf(a) * PageSize \in Nat
           /\ a = PageOf(a) * PageSize + (a % PageSize)
<1>1. PageSize \in Nat \ {0}
  BY Sizes0
<1>2. /\ PageOf(a) \in Nat /\ a % PageSize \in Nat /\ a % PageSize < PageSize
      /\ a = PageOf(a) * PageSize + (a % PageSize)
  BY <1>1 DEF PageOf
<1> QED
  BY <1>1, <1>2

LEMMA PartsUnique ==
    ASSUME NEW a \in Nat, NEW q \in Nat, NEW o \in Nat, o < PageSize, a = q * PageSize + o
    PROVE  PageOf(a) = q /\ a % PageSize = o
<1>1. /\ PageOf(a) \in Nat /\ a % PageSize \in Nat /\ a % PageSize < PageSize
      /\ PageOf(a) * PageSize \in Nat /\ q * PageSize \in Nat /\ PageSize \in Nat
      /\ a = PageOf(a) * PageSize + (a % PageSize)
  BY Parts, Sizes0
<1>2. ~(PageOf(a) < q)
  <2>1. PageOf(a) < q => PageOf(a) * PageSize + PageSize <= q * PageSize
    BY <1>1, PagesApart
  <2> QED
    BY <1>1, <2>1
<1>3. ~(q < PageOf(a))
  <2>1. q < PageOf(a) => q * PageSize + PageSize <= PageOf(a) * PageSize
    BY <1>1, PagesApart
  <2> QED
    BY <1>1, <2>1
<1>4. PageOf(a) = q
  BY <1>1, <1>2, <1>3
<1>5. PICK b \in Nat : b = q * PageSize
  BY <1>1
<1>6. PICK r \in Nat : r = a % PageSize
  BY <1>1
<1>7. b + o = b + r
  BY <1>1, <1>4, <1>5, <1>6
<1> QED
  BY <1>4, <1>6, <1>7

\* A sum on the page of its address, or on the next.
LEMMA NextByte ==
    ASSUME NEW a \in Nat, NEW n \in Nat, n <= PageSize
    PROVE  /\ (a % PageSize) + n < PageSize =>
                 PageOf(a + n) = PageOf(a) /\ (a + n) % PageSize = (a % PageSize) + n
           /\ ~((a % PageSize) + n < PageSize) =>
                 /\ PageOf(a + n) = PageOf(a) + 1
                 /\ (a + n) % PageSize = ((a % PageSize) + n) - PageSize
<1>1. PICK q \in Nat, o \in Nat : /\ q = PageOf(a) /\ o = a % PageSize /\ o < PageSize
                                  /\ q * PageSize \in Nat /\ a = q * PageSize + o
  BY Parts
<1>2. CASE o + n < PageSize
  <2>1. a + n = q * PageSize + (o + n) /\ a + n \in Nat /\ o + n \in Nat
    BY <1>1
  <2>2. PageOf(a + n) = q /\ (a + n) % PageSize = o + n
    BY <1>2, <2>1, PartsUnique
  <2> QED
    BY <1>1, <1>2, <2>2
<1>3. CASE ~(o + n < PageSize)
  <2>1. PICK r \in Nat : r = (o + n) - PageSize /\ r < PageSize
    BY <1>1, <1>3, Sizes0
  <2>2. (q + 1) * PageSize = q * PageSize + PageSize
    BY Sizes0
  <2>3. a + n = (q + 1) * PageSize + r /\ a + n \in Nat /\ q + 1 \in Nat
    <3>1. PICK b \in Nat : b = q * PageSize
      BY <1>1
    <3>2. a + n = (b + PageSize) + r
      BY <1>1, <2>1, <3>1, Sizes0
    <3> QED
      BY <2>2, <3>1, <3>2
  <2>4. PageOf(a + n) = q + 1 /\ (a + n) % PageSize = r
    BY <2>1, <2>3, PartsUnique
  <2> QED
    BY <1>1, <1>3, <2>1, <2>4
<1> QED
  BY <1>1, <1>2, <1>3

\* An address that has run over the end of the address space.
LEMMA Wrapped ==
    ASSUME NEW x \in Nat, x < TotalBytes + TotalBytes
    PROVE  /\ Wrap(x) \in VAddr
           /\ Wrap(x) = IF x < TotalBytes THEN x ELSE x - TotalBytes
           /\ Wrap(x) % PageSize = x % PageSize
           /\ PageOf(Wrap(x)) \in VPage
           /\ PageOf(Wrap(x)) = IF PageOf(x) < NumVPages THEN PageOf(x) ELSE PageOf(x) - NumVPages
<1>1. PICK q \in Nat, o \in Nat : /\ q = PageOf(x) /\ o = x % PageSize /\ o < PageSize
                                  /\ q * PageSize \in Nat /\ x = q * PageSize + o
  BY Parts
<1>2. /\ NumVPages \in Nat /\ PageSize \in Nat /\ TotalBytes \in Nat /\ TotalBytes > 0
      /\ TotalBytes = NumVPages * PageSize
  BY Sizes0
<1>3. Wrap(x) = (IF x < TotalBytes THEN x ELSE x - TotalBytes) /\ Wrap(x) \in VAddr
  BY <1>2 DEF Wrap, VAddr
<1>4. CASE q < NumVPages
  <2>1. q * PageSize + PageSize <= TotalBytes
    BY <1>2, <1>4, PagesApart
  <2>2. x < TotalBytes
    BY <1>1, <1>2, <2>1
  <2>3. Wrap(x) = x
    BY <1>3, <2>2
  <2> QED
    BY <1>1, <1>2, <1>3, <1>4, <2>3 DEF VPage
<1>5. CASE ~(q < NumVPages)
  <2>1. PICK d \in Nat : q = NumVPages + d
    <3>1. q - NumVPages \in Nat /\ q = NumVPages + (q - NumVPages)
      BY <1>2, <1>5
    <3> QED
      BY <3>1
  <2>2. q * PageSize = TotalBytes + d * PageSize /\ d * PageSize \in Nat
    BY <1>2, <2>1
  <2>3. ~(x < TotalBytes) /\ x - TotalBytes = d * PageSize + o
    <3>1. PICK e \in Nat : e = d * PageSize
      BY <2>2
    <3>2. x = (TotalBytes + e) + o
      BY <1>1, <2>2, <3>1
    <3>3. ~(x < TotalBytes) /\ x - TotalBytes = e + o
      BY <1>2, <3>2
    <3> QED
      BY <3>1, <3>3
  <2>4. Wrap(x) = d * PageSize + o /\ Wrap(x) \in Nat /\ Wrap(x) < TotalBytes
    BY <1>2, <1>3, <2>3 DEF VAddr
  <2>5. PageOf(Wrap(x)) = d /\ Wrap(x) % PageSize = o
    BY <1>1, <2>4, PartsUnique
  <2>6. d < NumVPages
    <3>1. NumVPages < d => NumVPages * PageSize + PageSize <= d * PageSize
      BY <1>2, PagesApart
    <3>2. NumVPages = d => NumVPages * PageSize = d * PageSize
      OBVIOUS
    <3>3. d * PageSize < TotalBytes
      <4>1. PICK e \in Nat : e = d * PageSize
        BY <2>2
      <4>2. e + o < TotalBytes
        BY <2>4, <4>1
      <4> QED
        BY <1>2, <4>1, <4>2
    <3> QED
      BY <1>2, <2>2, <3>1, <3>2, <3>3
  <2> QED
    BY <1>1, <1>2, <1>3, <1>5, <2>1, <2>5, <2>6 DEF VPage
<1> QED
  BY <1>4, <1>5

LEMMA SamePte ==
    ASSUME NEW x \in Nat, x < TotalBytes + TotalBytes,
           NEW y \in Nat, y < TotalBytes + TotalBytes, PageOf(x) = PageOf(y)
    PROVE  Pte(x) = Pte(y)
BY Wrapped DEF Pte

-----------------------------------------------------------------------------
(* Accesses over one page or two.                                          *)

\* page_mask finds every access that leaves its page, and split_point the
\* byte it leaves it at.
LEMMA Crossing ==
    ASSUME NEW a \in VAddr, NEW T \in {1, 2, 4, 8}
    PROVE  /\ Split(a, T) <=> ~((a % PageSize) + (T - 1) < PageSize)
           /\ Split(a, T) => SplitPoint(a, T) - 1 = PageSize - (a % PageSize)
<1>1. /\ a \in Nat /\ T \in Nat /\ T - 1 \in Nat /\ T >= 1 /\ T - 1 <= 7
      /\ PageSize \in Nat /\ PageSize >= 16 /\ T - 1 <= PageSize
  BY Sizes0 DEF VAddr
<1>2. PICK q \in Nat, o \in Nat : /\ q = PageOf(a) /\ o = a % PageSize /\ o < PageSize
                                  /\ q * PageSize \in Nat /\ a = q * PageSize + o
  BY <1>1, Parts
<1>3. a + T - 1 = a + (T - 1) /\ (a + T - 1) \in Nat
  BY <1>1
<1>4. CASE o + (T - 1) < PageSize
  <2>1. PageOf(a + T - 1) = PageOf(a)
    BY <1>1, <1>2, <1>3, <1>4, NextByte
  <2> QED
    BY <1>2, <1>4, <2>1 DEF Split, MaskedPage
<1>5. CASE ~(o + (T - 1) < PageSize)
  <2>1. PageOf(a + T - 1) = q + 1 /\ (a + T - 1) % PageSize = (o + (T - 1)) - PageSize
    BY <1>1, <1>2, <1>3, <1>5, NextByte
  <2>2. Split(a, T)
    <3>1. (q + 1) % 16 # q % 16
      BY <1>2
    <3> QED
      BY <1>2, <2>1, <3>1 DEF Split, MaskedPage
  <2>3. PICK r \in Nat : r = (o + (T - 1)) - PageSize /\ r < 16
    BY <1>1, <1>2, <1>5
  <2>4. (a + T - 1) = (q + 1) * PageSize + r
    BY <1>1, <1>2, <1>3, <2>1, <2>3, Parts
  <2>5. PICK m \in Nat : PageSize = 16 * m
    BY Sizes0
  <2>6. PICK e \in Nat : (q + 1) * PageSize = 16 * e
    <3>1. PICK c \in Nat : c = q + 1
      BY <1>2
    <3>2. c * m \in Nat /\ c * (16 * m) = 16 * (c * m)
      OBVIOUS
    <3> QED
      BY <2>5, <3>1, <3>2
  <2>7. (a + T - 1) % 16 = r
    <3>1. (a + T - 1) = 16 * e + r
      BY <2>4, <2>6
    <3>2. (16 * e + r) % 16 = r
      BY <2>3
    <3> QED
      BY <3>1, <3>2
  <2>8. SplitPoint(a, T) - 1 = PageSize - o
    <3>1. SplitPoint(a, T) = T - r
      BY <2>7 DEF SplitPoint
    <3>2. (T - r) - 1 = PageSize - o
      <4>1. o \in Nat /\ r \in Nat /\ r = (o + (T - 1)) - PageSize
        BY <1>2, <2>3
      <4> QED
        BY <1>1, <4>1
    <3> QED
      BY <3>1, <3>2
  <2> QED
    BY <1>2, <1>5, <2>2, <2>8
<1> QED
  BY <1>2, <1>4, <1>5

\* Byte k of an access is moved where address a + k lives.
LEMMA ByteHome ==
    ASSUME NEW a \in VAddr, NEW T \in {1, 2, 4, 8}, NEW k \in 0 .. T - 1
    PROVE  /\ FrameOf(a, T, k) = FrameAt(a + k)
           /\ OffsetOf(a, T, k) = (a + k) % PageSize
           /\ OffsetOf(a, T, k) \in Offset
           /\ Pte(a + k) = IF InSecond(a, T, k) THEN Pte(a + T) ELSE Pte(a)
<1>1. /\ a \in Nat /\ a < TotalBytes /\ T \in Nat /\ k \in Nat /\ k <= T - 1 /\ T <= 8
      /\ PageSize \in Nat /\ PageSize >= 16 /\ k <= PageSize /\ T <= PageSize
      /\ a + k \in Nat /\ a + T \in Nat
      /\ TotalBytes \in Nat /\ a + k < TotalBytes + TotalBytes /\ a + T < TotalBytes + TotalBytes
      /\ a < TotalBytes + TotalBytes
  BY Sizes0 DEF VAddr
<1>2. PICK o \in Nat : o = a % PageSize /\ o < PageSize /\ PageOf(a) \in Nat
  BY <1>1, Parts
<1>3. (a + k) % PageSize \in Offset
  <2>1. (a + k) % PageSize \in Nat /\ (a + k) % PageSize < PageSize
    BY <1>1, Parts
  <2> QED
    BY <1>1, <2>1 DEF Offset
<1>4. Split(a, T) <=> ~(o + (T - 1) < PageSize)
  BY <1>2, Crossing
<1>5. Split(a, T) => SplitPoint(a, T) - 1 = PageSize - o
  BY <1>2, Crossing
<1>6. InSecond(a, T, k) <=> ~(o + k < PageSize)
  BY <1>1, <1>2, <1>4, <1>5 DEF InSecond
<1>7. CASE o + k < PageSize
  <2>1. PageOf(a + k) = PageOf(a) /\ (a + k) % PageSize = o + k
    BY <1>1, <1>2, <1>7, NextByte
  <2>2. Pte(a + k) = Pte(a)
    BY <1>1, <2>1, SamePte
  <2> QED
    BY <1>2, <1>3, <1>6, <1>7, <2>1, <2>2 DEF FrameOf, OffsetOf, FrameAt
<1>8. CASE ~(o + k < PageSize)
  <2>1. PageOf(a + k) = PageOf(a) + 1 /\ (a + k) % PageSize = (o + k) - PageSize
    BY <1>1, <1>2, <1>8, NextByte
  <2>2. ~(o + T < PageSize)
    BY <1>1, <1>2, <1>8
  <2>3. PageOf(a + T) = PageOf(a) + 1
    BY <1>1, <1>2, <2>2, NextByte
  <2>4. Pte(a + k) = Pte(a + T)
    BY <1>1, <2>1, <2>3, SamePte
  <2>5. SplitPoint(a, T) - 1 = PageSize - o
    BY <1>5, <1>6, <1>8 DEF InSecond
  <2>6. k - (SplitPoint(a, T) - 1) = (o + k) - PageSize
    BY <1>1, <1>2, <2>5
  <2> QED
    BY <1>3, <1>6, <1>8, <2>1, <2>4, <2>6 DEF FrameOf, OffsetOf, FrameAt
<1> QED
  BY <1>7, <1>8

\* The two checks of an access are the check of every byte it moves.
LEMMA AccessIsAllowed ==
    ASSUME NEW a \in VAddr, NEW T \in {1, 2, 4, 8}, NEW perm
    PROVE  Access(a, T, perm)
             <=> \A k \in 0 .. T - 1 : Pte(a + k).present /\ perm \in Pte(a + k).rwx
<1>1. a \in Nat /\ a + 0 = a /\ 0 \in 0 .. T - 1 /\ T - 1 \in 0 .. T - 1
  BY DEF VAddr
<1>2. ~InSecond(a, T, 0)
  <2>1. (a % PageSize) \in Nat /\ (a % PageSize) < PageSize /\ PageSize \in Nat
    BY <1>1, Parts, Sizes0
  <2> QED
    BY <2>1, Crossing DEF InSecond
<1>3. Split(a, T) => InSecond(a, T, T - 1)
  <2>1. (a % PageSize) \in Nat /\ (a % PageSize) < PageSize /\ PageSize \in Nat
    BY <1>1, Parts, Sizes0
  <2> QED
    BY <2>1, Crossing DEF InSecond
<1>4. \A k \in 0 .. T - 1 : Pte(a + k) = IF InSecond(a, T, k) THEN Pte(a + T) ELSE Pte(a)
  BY ByteHome
<1>5. ASSUME Access(a, T, perm), NEW k \in 0 .. T - 1
      PROVE  Pte(a + k).present /\ perm \in Pte(a + k).rwx
  BY <1>4, <1>5 DEF Access, InSecond
<1>6. ASSUME \A k \in 0 .. T - 1 : Pte(a + k).present /\ perm \in Pte(a + k).rwx
      PROVE  Access(a, T, perm)
  <2>1. Pte(a).present /\ perm \in Pte(a).rwx
    BY <1>1, <1>6
  <2>2. Split(a, T) => Pte(a + T).present /\ perm \in Pte(a + T).rwx
    BY <1>1, <1>3, <1>4, <1>6
  <2> QED
    BY <2>1, <2>2 DEF Access
<1> QED
  BY <1>5, <1>6

-----------------------------------------------------------------------------
(* The inductive invariant.                                                *)

\* What is mapped is mapped to a host page, each page to one of its own: a
\* store would otherwise be seen at two addresses.
FramesApart ==
    /\ \A p \in VPage : table[p].present => table[p].page_addr \in Frame
    /\ \A p, q \in VPage : table[p].present /\ table[q].present
                             /\ table[p].page_addr = table[q].page_addr => p = q

MmuInv == TypeOK /\ FramesApart

LEMMA PteTypes ==
    ASSUME TypeOK, FramesApart, NEW x \in Nat, x < TotalBytes + TotalBytes
    PROVE  /\ Pte(x) \in Entry
           /\ Pte(x).present => FrameAt(x) \in Frame
BY Wrapped DEF Pte, FrameAt, TypeOK, FramesApart

LEMMA Extent ==
    ASSUME NEW a \in VAddr, NEW T \in {1, 2, 4, 8}, NEW k \in 0 .. T - 1
    PROVE  /\ a + k \in Nat /\ a + k < TotalBytes + TotalBytes
           /\ k \in Nat /\ k < TotalBytes
BY Sizes0 DEF VAddr

LEMMA ReadInMemory ==
    ASSUME TypeOK, FramesApart, NEW a \in VAddr, NEW T \in {1, 2, 4, 8}, NEW perm,
           Access(a, T, perm)
    PROVE  /\ Bytes(a, T) \in Word(T)
           /\ \A k \in 0 .. T - 1 : Bytes(a, T)[k] = mem[FrameAt(a + k)][(a + k) % PageSize]
           /\ \A k \in 0 .. T - 1 : FrameOf(a, T, k) \in Frame
<1>1. ASSUME NEW k \in 0 .. T - 1
      PROVE  /\ FrameOf(a, T, k) = FrameAt(a + k) /\ OffsetOf(a, T, k) = (a + k) % PageSize
             /\ FrameOf(a, T, k) \in Frame /\ OffsetOf(a, T, k) \in Offset
  <2>1. Pte(a + k).present
    BY AccessIsAllowed
  <2>2. FrameAt(a + k) \in Frame
    BY <2>1, Extent, PteTypes
  <2> QED
    BY <2>2, ByteHome
<1>2. ASSUME NEW k \in 0 .. T - 1
      PROVE  mem[FrameOf(a, T, k)][OffsetOf(a, T, k)] \in Byte
  BY <1>1 DEF TypeOK
<1> QED
  BY <1>1, <1>2 DEF Bytes, Word

\* The bytes of a split access are reversed twice, unless it is one of two
\* bytes: htonl then brings the wrong half to the front.
LEMMA SplitReadsBack ==
    ASSUME NEW T \in {4, 8}, NEW b \in Word(T)
    PROVE  FlipEndianness(ShiftIn(b, T), T) = b
<1> DEFINE val == ShiftIn(b, T)
           width == IF T > 4 THEN 8 ELSE 4
           extended == [k \in 0 .. width - 1 |-> IF k < T THEN val[k] ELSE 0]
<1>1. width = T
  OBVIOUS
<1>2. ASSUME NEW k \in 0 .. T - 1
      PROVE  extended[width - 1 - k] = b[k]
  <2>1. /\ width - 1 - k \in 0 .. width - 1 /\ width - 1 - k < T
        /\ T - 1 - (width - 1 - k) = k /\ width - 1 - k \in 0 .. T - 1
    BY <1>1
  <2>2. extended[width - 1 - k] = val[width - 1 - k]
    BY <2>1
  <2>3. val[width - 1 - k] = b[T - 1 - (width - 1 - k)]
    BY <2>1 DEF ShiftIn
  <2> QED
    BY <2>1, <2>2, <2>3
<1>3. FlipEndianness(val, T) = [k \in 0 .. T - 1 |-> extended[width - 1 - k]]
  BY DEF FlipEndianness
<1>4. b = [k \in 0 .. T - 1 |-> b[k]]
  BY DEF Word
<1> HIDE DEF val, extended, width
<1> QED
  BY <1>2, <1>3, <1>4 DEF val

LEMMA ReadTypes ==
    ASSUME NEW a \in VAddr, NEW T \in {1, 2, 4, 8}, Bytes(a, T) \in Word(T)
    PROVE  /\ ReadValue(a, T) \in Word(T)
           /\ T # 2 => ReadValue(a, T) = Bytes(a, T)
<1> DEFINE b == Bytes(a, T)
<1>1. CASE ~Split(a, T)
  BY <1>1 DEF ReadValue
<1>2. CASE Split(a, T) /\ T \in {4, 8}
  BY <1>2, SplitReadsBack DEF ReadValue
<1>3. CASE Split(a, T) /\ T = 1
  <2>1. a \in Nat /\ (a % PageSize) \in Nat /\ (a % PageSize) < PageSize /\ PageSize \in Nat
    BY Parts, Sizes0 DEF VAddr
  <2> QED
    BY <1>3, <2>1, Crossing
<1>4. CASE Split(a, T) /\ T = 2
  <2> DEFINE val == ShiftIn(b, T)
             extended == [k \in 0 .. 3 |-> IF k < T THEN val[k] ELSE 0]
  <2>1. \A k \in 0 .. 1 : val[k] \in Byte
    BY <1>4 DEF ShiftIn, Word
  <2>2. \A k \in 0 .. 3 : extended[k] \in Byte
    BY <1>4, <2>1, SizesAssumption
  <2>3. ReadValue(a, T) = [k \in 0 .. T - 1 |-> extended[3 - k]]
    <3>1. FlipEndianness(val, T) = [k \in 0 .. T - 1 |-> extended[3 - k]]
      BY <1>4 DEF FlipEndianness
    <3> QED
      BY <1>4, <3>1 DEF ReadValue
  <2> HIDE DEF extended
  <2>4. \A k \in 0 .. T - 1 : extended[3 - k] \in Byte
    BY <1>4, <2>2
  <2> QED
    BY <1>4, <2>3, <2>4 DEF Word
<1> QED
  BY <1>1, <1>2, <1>3, <1>4


\* The bytes a page-wise copy brings to one byte of a frame.
LEMMA ImageBytes ==
    ASSUME NEW data \in Images
    PROVE  \E n \in 0 .. TotalBytes - 1 :
              /\ DOMAIN data = 0 .. n - 1 /\ Cardinality(DOMAIN data) = n
              /\ \A k \in 0 .. n - 1 : data[k] \in Byte
<1>1. PICK n \in 0 .. TotalBytes - 1 : data \in Word(n)
  BY DataAssumption
<1>2. n \in Nat /\ DOMAIN data = 0 .. n - 1 /\ \A k \in 0 .. n - 1 : data[k] \in Byte
  BY <1>1, Sizes0 DEF Word
<1>3. Cardinality(0 .. n - 1) = n
  BY <1>2, FS_Interval
<1> QED
  BY <1>2, <1>3

LEMMA InitInv == Init => MmuInv
BY SizesAssumption DEF Init, MmuInv, TypeOK, FramesApart, NoEntry, Entry

LEMMA MapPageInv ==
    ASSUME MmuInv, NEW p \in VPage, NEW f \in Frame, NEW perms \in PermChoices,
           MapPage(p, f, perms)
    PROVE  MmuInv'
<1>1. TypeOK /\ FramesApart
  BY DEF MmuInv
<1>2. PresentEntry(f, perms) \in Entry /\ PresentEntry(f, perms).present
      /\ PresentEntry(f, perms).page_addr = f
  BY SizesAssumption DEF PresentEntry, Entry
<1>3. table' \in [VPage -> Entry] /\ table'[p] = PresentEntry(f, perms)
      /\ \A q \in VPage \ {p} : table'[q] = table[q]
  BY <1>1, <1>2 DEF MapPage, TypeOK
<1>4. mem' \in [Frame -> [Offset -> Byte]]
  BY <1>1, SizesAssumption DEF MapPage, TypeOK
<1>5. TypeOK'
  BY <1>3, <1>4 DEF MapPage, TypeOK
<1>6. FramesApart'
  <2>1. \A q \in VPage : table[q].present => table[q].page_addr # f
    BY DEF MapPage
  <2> QED
    BY <1>1, <1>2, <1>3, <2>1 DEF FramesApart
<1> QED
  BY <1>5, <1>6 DEF MmuInv

LEMMA ReadInv ==
    ASSUME MmuInv, NEW a \in Addrs, NEW T \in ReadSizes, Read(a, T)
    PROVE  MmuInv'
<1>1. TypeOK /\ FramesApart /\ a \in VAddr /\ T \in {1, 2, 4, 8}
  BY SizesAssumption DEF MmuInv
<1>2. Access(a, T, "r") => ReadValue(a, T) \in Word(T)
  BY <1>1, ReadInMemory, ReadTypes
<1>3. Access(a, T, "r") \in BOOLEAN
  BY DEF Access
<1>4. TypeOK'
  BY <1>1, <1>2, <1>3 DEF Read, TypeOK
<1> QED
  BY <1>1, <1>4 DEF MmuInv, FramesApart, Read

LEMMA WriteInv ==
    ASSUME MmuInv, NEW a \in Addrs, NEW T \in WriteSizes, NEW val \in Words(T),
           Write(a, T, val)
    PROVE  MmuInv'
<1>1. TypeOK /\ FramesApart /\ a \in VAddr /\ T \in {1, 2, 4, 8} /\ val \in Word(T)
  BY SizesAssumption, DataAssumption DEF MmuInv
<1>2. mem' \in [Frame -> [Offset -> Byte]]
  <2> DEFINE Hit(f, o, k) == FrameOf(a, T, k) = f /\ OffsetOf(a, T, k) = o
             Chosen(f, o) == CHOOSE k \in 0 .. T - 1 : Hit(f, o, k)
             new(f, o) == IF \E k \in 0 .. T - 1 : Hit(f, o, k)
                          THEN val[Chosen(f, o)] ELSE mem[f][o]
  <2>1. ASSUME NEW f \in Frame, NEW o \in Offset
        PROVE  new(f, o) \in Byte
    <3>1. CASE \E k \in 0 .. T - 1 : Hit(f, o, k)
      <4>1. Chosen(f, o) \in 0 .. T - 1
        BY <3>1
      <4> HIDE DEF Chosen, Hit
      <4> QED
        BY <1>1, <3>1, <4>1 DEF Word
    <3>2. CASE ~(\E k \in 0 .. T - 1 : Hit(f, o, k))
      BY <1>1, <3>2 DEF TypeOK
    <3> QED
      BY <3>1, <3>2
  <2>2. Access(a, T, "w") => mem' = [f \in Frame |-> [o \in Offset |-> new(f, o)]]
    BY DEF Write
  <2> HIDE DEF new
  <2>3. [f \in Frame |-> [o \in Offset |-> new(f, o)]] \in [Frame -> [Offset -> Byte]]
    BY <2>1
  <2>4. ~Access(a, T, "w") => mem' = mem
    BY DEF Write
  <2> QED
    BY <1>1, <2>2, <2>3, <2>4 DEF TypeOK
<1>3. Access(a, T, "w") \in BOOLEAN
  BY DEF Access
<1>4. TypeOK'
  BY <1>1, <1>2, <1>3 DEF Write, TypeOK
<1> QED
  BY <1>1, <1>4 DEF MmuInv, FramesApart, Write

LEMMA WriteManyInv ==
    ASSUME MmuInv, NEW start \in LoadStarts, NEW data \in Images, WriteMany(start, data)
    PROVE  MmuInv'
<1>1. TypeOK /\ FramesApart
  BY DEF MmuInv
<1>2. \A k \in DOMAIN data : data[k] \in Byte
  BY ImageBytes
<1> DEFINE num == Cardinality(DOMAIN data)
           chunks == 0 .. (num - 1) \div PageSize
           copied == {c \in chunks : \A d \in 0 .. c : Pte(start + d * PageSize).present}
           aligned == start % PageSize = 0
           Source(f, o) == {c * PageSize + o : c \in
                              {c \in copied : Pte(start + c * PageSize).page_addr = f}}
                           \cap DOMAIN data
           new(f, o) == IF Source(f, o) = {} THEN mem[f][o]
                        ELSE data[CHOOSE k \in Source(f, o) : TRUE]
<1>3. ASSUME NEW f \in Frame, NEW o \in Offset
      PROVE  new(f, o) \in Byte
  <2>1. CASE Source(f, o) = {}
    BY <1>1, <2>1 DEF TypeOK
  <2>2. CASE Source(f, o) # {}
    <3> DEFINE S == Source(f, o)
    <3>1. S # {} /\ S \subseteq DOMAIN data
      BY <2>2
    <3> HIDE DEF S
    <3>2. (CHOOSE k \in S : TRUE) \in DOMAIN data
      BY <3>1
    <3>3. data[CHOOSE k \in S : TRUE] \in Byte
      BY <1>2, <3>2
    <3> QED
      BY <2>2, <3>3 DEF S
  <2> QED
    BY <2>1, <2>2
<1>4. mem' = IF aligned THEN [f \in Frame |-> [o \in Offset |-> new(f, o)]] ELSE mem
  BY DEF WriteMany
<1>5. result' = [op |-> "load", addr |-> start, size |-> num,
                 ok |-> aligned /\ copied = chunks, val |-> data]
  BY DEF WriteMany
<1> HIDE DEF new, copied, chunks, aligned, num
<1>6. [f \in Frame |-> [o \in Offset |-> new(f, o)]] \in [Frame -> [Offset -> Byte]]
  BY <1>3
<1>7. mem' \in [Frame -> [Offset -> Byte]]
  BY <1>1, <1>4, <1>6 DEF TypeOK
<1>8. table' = table
  BY DEF WriteMany
<1>9. TypeOK'
  BY <1>1, <1>5, <1>7, <1>8 DEF TypeOK
<1> QED
  BY <1>1, <1>8, <1>9 DEF MmuInv, FramesApart

LEMMA StepInv == MmuInv /\ [Next]_vars => MmuInv'
<1> SUFFICES ASSUME MmuInv, [Next]_vars PROVE MmuInv'
  OBVIOUS
<1>1. ASSUME NEW p \in VPage, NEW f \in Frame, NEW perms \in PermChoices, MapPage(p, f, perms)
      PROVE  MmuInv'
  BY <1>1, MapPageInv
<1>2. ASSUME NEW a \in Addrs, NEW T \in ReadSizes, Read(a, T) PROVE MmuInv'
  BY <1>2, ReadInv
<1>3. ASSUME NEW a \in Addrs, NEW T \in WriteSizes, NEW val \in Words(T), Write(a, T, val)
      PROVE  MmuInv'
  BY <1>3, WriteInv
<1>4. ASSUME NEW start \in LoadStarts, NEW data \in Images, WriteMany(start, data)
      PROVE  MmuInv'
  BY <1>4, WriteManyInv
<1>5. UNCHANGED vars => MmuInv'
  BY DEF vars, MmuInv, TypeOK, FramesApart
<1> QED
  BY <1>1, <1>2, <1>3, <1>4, <1>5 DEF Next

\* The translation of pages and the contents of frames stay well formed, and
\* no two pages come to share a frame, whatever is mapped, read or written.
THEOREM MmuInvariant == Spec => []MmuInv
<1> QED
  BY InitInv, StepInv, PTL DEF Spec

\* A read that succeeds yields as many bytes as it asked for.
THEOREM MmuTypeCorrect == Spec => []TypeOK
<1>1. MmuInv => TypeOK
  BY DEF MmuInv
<1> QED
  BY <1>1, MmuInvariant, PTL


-----------------------------------------------------------------------------
(* What a step may do to memory.                                           *)

LEMMA AnyPage ==
    ASSUME NEW x \in Nat
    PROVE  \E p \in VPage : Pte(x) = table[p]
<1>1. Wrap(x) \in VAddr
  BY Sizes0 DEF Wrap, VAddr
<1>2. PICK y \in VAddr : y = Wrap(x)
  BY <1>1
<1>3. y \in Nat /\ y < TotalBytes + TotalBytes /\ y < TotalBytes
  BY Sizes0 DEF VAddr
<1>4. Wrap(y) = y /\ PageOf(Wrap(y)) \in VPage
  BY <1>3, Wrapped
<1> QED
  BY <1>2, <1>4 DEF Pte

\* Every host page a store changes is that of a page whose permissions it
\* asked, on either side of a split.
LEMMA WriteTouches ==
    ASSUME MmuInv, NEW a \in Addrs, NEW T \in WriteSizes, NEW val \in Words(T),
           Write(a, T, val),
           NEW f \in Frame, mem'[f] # mem[f]
    PROVE  \E p \in VPage : IsOn(p, f) /\ "w" \in table[p].rwx
<1>1. TypeOK /\ FramesApart /\ a \in VAddr /\ T \in {1, 2, 4, 8}
  BY SizesAssumption DEF MmuInv
<1>2. Access(a, T, "w")
  BY DEF Write
<1>3. PICK k \in 0 .. T - 1 : FrameOf(a, T, k) = f
  <2> SUFFICES ASSUME \A k \in 0 .. T - 1 : FrameOf(a, T, k) # f PROVE FALSE
    OBVIOUS
  <2>1. mem'[f] = [o \in Offset |-> mem[f][o]]
    BY <1>2 DEF Write
  <2>2. mem[f] = [o \in Offset |-> mem[f][o]]
    BY <1>1 DEF TypeOK
  <2> QED
    BY <2>1, <2>2
<1>4. Pte(a + k).present /\ "w" \in Pte(a + k).rwx /\ FrameAt(a + k) = f
  BY <1>1, <1>2, <1>3, AccessIsAllowed, ByteHome
<1>5. PICK p \in VPage : Pte(a + k) = table[p]
  BY <1>1, Extent, AnyPage
<1> QED
  BY <1>4, <1>5 DEF FrameAt, IsOn

\* The loader copies to pages that are there.
LEMMA LoadTouches ==
    ASSUME MmuInv, NEW start \in LoadStarts, NEW data \in Images, WriteMany(start, data),
           NEW f \in Frame, mem'[f] # mem[f]
    PROVE  \E p \in VPage : IsOn(p, f)
<1>1. TypeOK /\ start \in VAddr
  BY SizesAssumption DEF MmuInv
<1> DEFINE num == Cardinality(DOMAIN data)
           chunks == 0 .. (num - 1) \div PageSize
           copied == {c \in chunks : \A d \in 0 .. c : Pte(start + d * PageSize).present}
           Source(o) == {c * PageSize + o : c \in
                           {c \in copied : Pte(start + c * PageSize).page_addr = f}}
                        \cap DOMAIN data
           new(o) == IF Source(o) = {} THEN mem[f][o]
                     ELSE data[CHOOSE k \in Source(o) : TRUE]
<1>2. mem'[f] = [o \in Offset |-> new(o)]
  BY DEF WriteMany
<1>3. PICK c \in copied : Pte(start + c * PageSize).page_addr = f
  <2> SUFFICES ASSUME \A c \in copied : Pte(start + c * PageSize).page_addr # f PROVE FALSE
    OBVIOUS
  <2>1. \A o \in Offset : Source(o) = {}
    OBVIOUS
  <2> HIDE DEF Source
  <2>2. [o \in Offset |-> new(o)] = [o \in Offset |-> mem[f][o]]
    BY <2>1
  <2>3. mem[f] = [o \in Offset |-> mem[f][o]]
    BY <1>1 DEF TypeOK
  <2> QED
    BY <1>2, <2>2, <2>3
<1>4. num \in Nat
  BY ImageBytes, Sizes0
<1>5. c \in Nat /\ c \in 0 .. c
  BY <1>4, Sizes0
<1>6. Pte(start + c * PageSize).present
  BY <1>5
<1>7. start + c * PageSize \in Nat
  BY <1>1, <1>5, Sizes0 DEF VAddr
<1>8. PICK p \in VPage : Pte(start + c * PageSize) = table[p]
  BY <1>7, AnyPage
<1> QED
  BY <1>3, <1>6, <1>8 DEF IsOn

\* Nothing but a write with permission or the loader changes a host page a
\* guest page is on, and these change no other.
THEOREM StoresChecked == Spec => StoresAreChecked
<1>1. MmuInv /\ [Next]_vars
        => [\A f \in Frame : mem'[f] # mem[f] =>
              \/ result'.op = "write" /\ \E p \in VPage : IsOn(p, f) /\ "w" \in table[p].rwx
              \/ result'.op = "load" /\ \E p \in VPage : IsOn(p, f)
              \/ result'.op = "map" /\ \A p \in VPage : ~IsOn(p, f)]_vars
  <2> SUFFICES ASSUME MmuInv, Next, NEW f \in Frame, mem'[f] # mem[f]
               PROVE  \/ result'.op = "write" /\ \E p \in VPage : IsOn(p, f) /\ "w" \in table[p].rwx
                      \/ result'.op = "load" /\ \E p \in VPage : IsOn(p, f)
                      \/ result'.op = "map" /\ \A p \in VPage : ~IsOn(p, f)
    OBVIOUS
  <2>1. ASSUME NEW q \in VPage, NEW g \in Frame, NEW perms \in PermChoices,
               MapPage(q, g, perms)
        PROVE  result'.op = "map" /\ \A p \in VPage : ~IsOn(p, f)
    <3>1. f = g
      BY <2>1 DEF MapPage, MmuInv, TypeOK
    <3> QED
      BY <2>1, <3>1 DEF MapPage, IsOn
  <2>2. ASSUME NEW a \in Addrs, NEW T \in ReadSizes, Read(a, T) PROVE FALSE
    BY <2>2 DEF Read
  <2>3. ASSUME NEW a \in Addrs, NEW T \in WriteSizes, NEW val \in Words(T), Write(a, T, val)
        PROVE  result'.op = "write" /\ \E p \in VPage : IsOn(p, f) /\ "w" \in table[p].rwx
    <3>1. result'.op = "write"
      BY <2>3 DEF Write
    <3> QED
      BY <2>3, <3>1, WriteTouches
  <2>4. ASSUME NEW start \in LoadStarts, NEW data \in Images, WriteMany(start, data)
        PROVE  result'.op = "load" /\ \E p \in VPage : IsOn(p, f)
    <3>1. result'.op = "load"
      BY <2>4 DEF WriteMany
    <3> QED
      BY <2>4, <3>1, LoadTouches
  <2> QED
    BY <2>1, <2>2, <2>3, <2>4 DEF Next
<1> QED
  BY <1>1, MmuInvariant, PTL DEF Spec, StoresAreChecked

-----------------------------------------------------------------------------
(* The pages as one array.                                                 *)

CellAt(b) == IF Pte(b).present THEN mem[FrameAt(b)][b % PageSize] ELSE 0

Distance(a, b) == (b - a) % TotalBytes

\* An address is reached in one way only, and at one place only.
LEMMA OneWay ==
    ASSUME NEW a \in VAddr, NEW b \in VAddr
    PROVE  /\ Distance(a, b) \in Nat /\ Distance(a, b) < TotalBytes
           /\ Wrap(a + Distance(a, b)) = b
           /\ \A k \in Nat : k < TotalBytes /\ Wrap(a + k) = b => k = Distance(a, b)
<1>1. TotalBytes \in Nat \ {0} /\ a \in Nat /\ b \in Nat /\ a < TotalBytes /\ b < TotalBytes
  BY Sizes0 DEF VAddr
<1>2. Distance(a, b) = IF a <= b THEN b - a ELSE (b - a) + TotalBytes
  BY <1>1 DEF Distance
<1>3. Distance(a, b) \in Nat /\ Distance(a, b) < TotalBytes
  BY <1>1, <1>2
<1>4. \A k \in Nat : k < TotalBytes =>
        Wrap(a + k) = IF a + k < TotalBytes THEN a + k ELSE (a + k) - TotalBytes
  BY <1>1 DEF Wrap
<1>5. Wrap(a + Distance(a, b)) = b
  BY <1>1, <1>2, <1>3, <1>4
<1>6. ASSUME NEW k \in Nat, k < TotalBytes, Wrap(a + k) = b
      PROVE  k = Distance(a, b)
  BY <1>1, <1>2, <1>4, <1>6
<1> QED
  BY <1>3, <1>5, <1>6

LEMMA SameByte ==
    ASSUME FramesApart,
           NEW x \in Nat, x < TotalBytes + TotalBytes, Pte(x).present,
           NEW y \in Nat, y < TotalBytes + TotalBytes, Pte(y).present,
           FrameAt(x) = FrameAt(y), x % PageSize = y % PageSize
    PROVE  Wrap(x) = Wrap(y)
<1>1. /\ Wrap(x) \in Nat /\ Wrap(y) \in Nat
      /\ Wrap(x) % PageSize = x % PageSize /\ Wrap(y) % PageSize = y % PageSize
      /\ PageOf(Wrap(x)) \in VPage /\ PageOf(Wrap(y)) \in VPage
  BY Wrapped DEF VAddr
<1>2. PageOf(Wrap(x)) = PageOf(Wrap(y))
  BY <1>1 DEF FramesApart, FrameAt, Pte
<1>3. /\ Wrap(x) = PageOf(Wrap(x)) * PageSize + (Wrap(x) % PageSize)
      /\ Wrap(y) = PageOf(Wrap(y)) * PageSize + (Wrap(y) % PageSize)
  BY <1>1, Parts
<1> QED
  BY <1>1, <1>2, <1>3

\* The page of an address in the array, and what it holds there.
LEMMA Flattened ==
    ASSUME NEW x \in Nat, x < TotalBytes + TotalBytes
    PROVE  /\ Wrap(x) \in VAddr /\ PageOf(Wrap(x)) \in VPage
           /\ Pte(Wrap(x)) = Pte(x) /\ table[PageOf(Wrap(x))] = Pte(x)
           /\ CellAt(Wrap(x)) = IF Pte(x).present THEN mem[FrameAt(x)][x % PageSize] ELSE 0
<1>1. /\ Wrap(x) \in VAddr /\ PageOf(Wrap(x)) \in VPage /\ Wrap(x) % PageSize = x % PageSize
      /\ Wrap(Wrap(x)) = Wrap(x)
  <2>1. /\ Wrap(x) \in VAddr /\ PageOf(Wrap(x)) \in VPage /\ Wrap(x) % PageSize = x % PageSize
    BY Wrapped
  <2>2. \A y \in VAddr : Wrap(y) = y
    BY Sizes0 DEF Wrap, VAddr
  <2> QED
    BY <2>1, <2>2
<1>2. Pte(Wrap(x)) = Pte(x)
  BY <1>1 DEF Pte
<1>3. CellAt(Wrap(x)) = IF Pte(x).present THEN mem[FrameAt(x)][x % PageSize] ELSE 0
  BY <1>1, <1>2 DEF CellAt, FrameAt
<1>4. table[PageOf(Wrap(x))] = Pte(x)
  BY DEF Pte
<1> QED
  BY <1>1, <1>2, <1>3, <1>4


\* The state of FlatMemory, as ImplementsFlatMemory reads it off the tables.
Mapped == {p \in VPage : table[p].present}
Prot == [p \in VPage |-> table[p].rwx]
Cell == [a \in VAddr |-> IF Pte(a).present THEN mem[FrameAt(a)][a % PageSize] ELSE 0]

LEMMA FlatNames ==
    /\ Flat!TotalBytes = TotalBytes /\ Flat!VAddr = VAddr /\ Flat!VPage = VPage
    /\ \A a, k : Flat!At(a, k) = Wrap(a + k)
    /\ \A a, b : Flat!Dist(a, b) = Distance(a, b)
    /\ \A x : Flat!PageOf(x) = PageOf(x)
BY DEF Flat!TotalBytes, Flat!VAddr, Flat!VPage, Flat!At, Flat!Dist, Flat!PageOf,
       TotalBytes, VAddr, VPage, Wrap, Distance, PageOf

LEMMA Cells == Cell = [b \in VAddr |-> CellAt(b)]
BY DEF Cell, CellAt

LEMMA FlatAllowed ==
    ASSUME NEW a \in VAddr, NEW T \in {1, 2, 4, 8}, NEW perm
    PROVE  Flat!Allowed(a, T, perm) <=> Access(a, T, perm)
<1>1. ASSUME NEW k \in 0 .. T - 1
      PROVE  (PageOf(Wrap(a + k)) \in Mapped /\ perm \in Prot[PageOf(Wrap(a + k))])
               <=> (Pte(a + k).present /\ perm \in Pte(a + k).rwx)
  <2>1. PageOf(Wrap(a + k)) \in VPage /\ table[PageOf(Wrap(a + k))] = Pte(a + k)
    BY Extent, Flattened
  <2> QED
    BY <2>1 DEF Mapped, Prot
<1>2. Flat!Allowed(a, T, perm)
        <=> \A k \in 0 .. T - 1 : PageOf(Wrap(a + k)) \in Mapped
                                   /\ perm \in Prot[PageOf(Wrap(a + k))]
  BY FlatNames DEF Flat!Allowed, Mapped, Prot
<1> QED
  BY <1>1, <1>2, AccessIsAllowed

LEMMA FlatInit == Init => Flat!Init
<1> SUFFICES ASSUME Init PROVE Flat!Init
  OBVIOUS
<1>1. \A p \in VPage : table[p] = NoEntry
  BY DEF Init
<1>2. \A b \in VAddr : ~Pte(b).present
  <2>1. \A b \in VAddr : Pte(b) = NoEntry
    BY <1>1, Wrapped, Sizes0 DEF Pte, VAddr
  <2> QED
    BY <2>1 DEF NoEntry
<1>3. Cell = [b \in VAddr |-> 0]
  BY <1>2 DEF Cell
<1>4. Mapped = {} /\ Prot = [p \in VPage |-> {}]
  BY <1>1 DEF Mapped, Prot, NoEntry
<1> QED
  BY <1>3, <1>4, FlatNames DEF Flat!Init, Init, Mapped, Prot, Cell

LEMMA FlatMap ==
    ASSUME MmuInv, NEW p \in VPage, NEW f \in Frame, NEW perms \in PermChoices,
           MapPage(p, f, perms)
    PROVE  Flat!Map
<1>1. TypeOK /\ FramesApart
  BY DEF MmuInv
<1>2. /\ table'[p].present /\ table'[p].rwx = perms /\ table'[p].page_addr = f
      /\ \A q \in VPage \ {p} : table'[q] = table[q]
      /\ ~table[p].present /\ \A q \in VPage : table[q].present => table[q].page_addr # f
      /\ mem' = [mem EXCEPT ![f] = [o \in Offset |-> 0]]
  BY <1>1 DEF MapPage, TypeOK, PresentEntry
<1>3. p \in VPage \ Mapped /\ Mapped' = Mapped \cup {p}
  BY <1>2 DEF Mapped
<1>4. Prot' = [Prot EXCEPT ![p] = perms]
  <2>1. Prot' = [q \in VPage |-> table'[q].rwx]
    BY DEF Prot
  <2>2. \A q \in VPage : table'[q].rwx = [Prot EXCEPT ![p] = perms][q]
    BY <1>2 DEF Prot
  <2>3. [Prot EXCEPT ![p] = perms] = [q \in VPage |-> [Prot EXCEPT ![p] = perms][q]]
    BY DEF Prot
  <2> QED
    BY <2>1, <2>2, <2>3
<1>5. ASSUME NEW b \in VAddr
      PROVE  CellAt(b)' = CellAt(b)
  <2>1. /\ b \in Nat /\ Wrap(b) = b /\ PageOf(b) \in VPage /\ b % PageSize \in Offset
        /\ b < TotalBytes + TotalBytes
    <3>1. b \in Nat /\ b < TotalBytes /\ TotalBytes \in Nat /\ b < TotalBytes + TotalBytes
      BY Sizes0 DEF VAddr
    <3>2. Wrap(b) = b /\ PageOf(b) \in VPage
      BY <3>1, Wrapped
    <3>3. b % PageSize \in Nat /\ b % PageSize < PageSize
      BY <3>1, Parts
    <3> QED
      BY <3>1, <3>2, <3>3, Sizes0 DEF Offset
  <2>2. PICK q \in VPage : q = PageOf(b)
    BY <2>1
  <2>3. PICK o \in Offset : o = b % PageSize
    BY <2>1
  <2>4. CellAt(b) = IF table[q].present THEN mem[table[q].page_addr][o] ELSE 0
    BY <2>1, <2>2, <2>3 DEF CellAt, FrameAt, Pte
  <2>5. CellAt(b)' = IF table'[q].present THEN mem'[table'[q].page_addr][o] ELSE 0
    BY <2>1, <2>2, <2>3 DEF CellAt, FrameAt, Pte
  <2>6. CASE q = p
    <3>1. mem'[f][o] = 0
      BY <1>1, <1>2 DEF TypeOK
    <3> QED
      BY <1>2, <2>4, <2>5, <2>6, <3>1
  <2>7. CASE q # p
    <3>1. table'[q] = table[q]
      BY <1>2, <2>7
    <3>2. table[q].present => mem'[table[q].page_addr] = mem[table[q].page_addr]
      BY <1>1, <1>2 DEF TypeOK, FramesApart
    <3> QED
      BY <2>4, <2>5, <3>1, <3>2
  <2> QED
    BY <2>6, <2>7
<1>6. Cell' = Cell
  BY <1>5 DEF Cell, CellAt
<1>7. result'.op = "map"
  BY DEF MapPage
<1> QED
  BY <1>3, <1>4, <1>6, <1>7, FlatNames DEF Flat!Map, Mapped, Prot, Cell

LEMMA FlatRead ==
    ASSUME MmuInv, NEW a \in Addrs, NEW T \in ReadSizes, T # 2, Read(a, T)
    PROVE  Flat!Read
<1>1. TypeOK /\ FramesApart /\ a \in VAddr /\ T \in {1, 2, 4, 8}
  BY SizesAssumption DEF MmuInv
<1>2. /\ result'.op = "read" /\ result'.addr = a /\ result'.size = T
      /\ result'.ok = Access(a, T, "r")
      /\ Access(a, T, "r") => result'.val = ReadValue(a, T)
  BY DEF Read
<1>3. Access(a, T, "r") => ReadValue(a, T) = [k \in 0 .. T - 1 |-> Cell[Wrap(a + k)]]
  <2> SUFFICES ASSUME Access(a, T, "r")
               PROVE  ReadValue(a, T) = [k \in 0 .. T - 1 |-> Cell[Wrap(a + k)]]
    OBVIOUS
  <2>1. Bytes(a, T) \in Word(T) /\ ReadValue(a, T) = Bytes(a, T)
    BY <1>1, ReadInMemory, ReadTypes
  <2>2. ASSUME NEW k \in 0 .. T - 1
        PROVE  Bytes(a, T)[k] = Cell[Wrap(a + k)]
    <3>1. Pte(a + k).present
      BY <1>1, AccessIsAllowed
    <3>2. Wrap(a + k) \in VAddr /\ CellAt(Wrap(a + k)) = mem[FrameAt(a + k)][(a + k) % PageSize]
      BY <1>1, <3>1, Extent, Flattened
    <3> QED
      BY <1>1, <3>2, ReadInMemory, Cells
  <2> QED
    BY <2>1, <2>2 DEF Word
<1>4. UNCHANGED <<Mapped, Prot, Cell>>
  BY DEF Read, Mapped, Prot, Cell, CellAt, FrameAt, Pte
<1>5. Flat!Allowed(a, T, "r") <=> Access(a, T, "r")
  BY <1>1, FlatAllowed
<1>6. result'.ok => result'.val = [k \in 0 .. result'.size - 1 |-> Cell[Flat!At(result'.addr, k)]]
  BY <1>2, <1>3, FlatNames
<1>7. result'.ok <=> Flat!Allowed(result'.addr, result'.size, "r")
  BY <1>2, <1>5
<1> QED
  BY <1>2, <1>4, <1>6, <1>7 DEF Flat!Read, Mapped, Prot, Cell


\* An address and where it lies in its page.
LEMMA InPage ==
    ASSUME NEW b \in VAddr
    PROVE  /\ b \in Nat /\ b < TotalBytes + TotalBytes
           /\ Wrap(b) = b /\ PageOf(b) \in VPage /\ b % PageSize \in Offset
<1>1. b \in Nat /\ b < TotalBytes /\ TotalBytes \in Nat /\ b < TotalBytes + TotalBytes
  BY Sizes0 DEF VAddr
<1>2. Wrap(b) = b /\ PageOf(b) \in VPage
  BY <1>1, Wrapped
<1>3. b % PageSize \in Nat /\ b % PageSize < PageSize
  BY <1>1, Parts
<1> QED
  BY <1>1, <1>2, <1>3, Sizes0 DEF Offset

\* An address k bytes on is b exactly when it has b's frame and offset.
LEMMA Reaches ==
    ASSUME FramesApart, NEW a \in VAddr, NEW b \in VAddr, Pte(b).present,
           NEW k \in Nat, k < TotalBytes, Pte(a + k).present
    PROVE  (FrameAt(a + k) = FrameAt(b) /\ (a + k) % PageSize = b % PageSize)
             <=> k = Distance(a, b)
<1>1. a + k \in Nat /\ a + k < TotalBytes + TotalBytes
  BY Sizes0 DEF VAddr
<1>2. b \in Nat /\ b < TotalBytes + TotalBytes /\ Wrap(b) = b
  BY InPage
<1>3. ASSUME FrameAt(a + k) = FrameAt(b), (a + k) % PageSize = b % PageSize
      PROVE  k = Distance(a, b)
  <2>1. Wrap(a + k) = b
    BY <1>1, <1>2, <1>3, SameByte
  <2> QED
    BY <2>1, OneWay
<1>4. ASSUME k = Distance(a, b)
      PROVE  FrameAt(a + k) = FrameAt(b) /\ (a + k) % PageSize = b % PageSize
  <2>1. Wrap(a + k) = b
    BY <1>4, OneWay
  <2>2. Pte(b) = Pte(a + k)
    BY <1>1, <2>1, Flattened
  <2>3. b % PageSize = (a + k) % PageSize
    BY <1>1, <2>1, Wrapped
  <2> QED
    BY <2>2, <2>3 DEF FrameAt
<1> QED
  BY <1>3, <1>4

\* What is not there is not reached.
LEMMA ReachedPage ==
    ASSUME NEW a \in VAddr, NEW b \in VAddr
    PROVE  Pte(a + Distance(a, b)) = Pte(b)
<1>1. Distance(a, b) \in Nat /\ Distance(a, b) < TotalBytes /\ Wrap(a + Distance(a, b)) = b
  BY OneWay
<1>2. PICK x \in Nat : x = a + Distance(a, b)
  BY <1>1 DEF VAddr
<1>3. x < TotalBytes + TotalBytes
  BY <1>1, <1>2, Sizes0 DEF VAddr
<1>4. Pte(Wrap(x)) = Pte(x)
  BY <1>3, Flattened
<1> QED
  BY <1>1, <1>2, <1>4

LEMMA FlatWrite ==
    ASSUME MmuInv, NEW a \in Addrs, NEW T \in WriteSizes, NEW val \in Words(T),
           Write(a, T, val)
    PROVE  Flat!Write
<1>1. TypeOK /\ FramesApart /\ a \in VAddr /\ T \in {1, 2, 4, 8} /\ T <= TotalBytes
  BY SizesAssumption, Sizes0 DEF MmuInv
<1>2. /\ result'.op = "write" /\ result'.addr = a /\ result'.size = T
      /\ result'.ok = Access(a, T, "w") /\ result'.val = val
      /\ table' = table
  BY DEF Write
<1>3. UNCHANGED <<Mapped, Prot>>
  BY <1>2 DEF Mapped, Prot
<1>4. ASSUME NEW b \in VAddr
      PROVE  CellAt(b)' = IF Access(a, T, "w") /\ Distance(a, b) < T
                          THEN val[Distance(a, b)] ELSE CellAt(b)
  <2>1. PICK o \in Offset : o = b % PageSize
    BY InPage
  <2>2. CellAt(b)' = IF Pte(b).present THEN mem'[FrameAt(b)][o] ELSE 0
    BY <1>2, <2>1 DEF CellAt, FrameAt, Pte
  <2>3. CellAt(b) = IF Pte(b).present THEN mem[FrameAt(b)][o] ELSE 0
    BY <2>1 DEF CellAt
  <2>4. CASE ~Access(a, T, "w")
    <3>1. mem' = mem
      BY <2>4 DEF Write
    <3> QED
      BY <2>2, <2>3, <2>4, <3>1
  <2>5. CASE Access(a, T, "w") /\ ~Pte(b).present
    <3>1. ~(Distance(a, b) < T)
      <4>1. Distance(a, b) < T => Distance(a, b) \in 0 .. T - 1
        BY <1>1, OneWay
      <4>2. Distance(a, b) \in 0 .. T - 1 => Pte(a + Distance(a, b)).present
        BY <1>1, <2>5, AccessIsAllowed
      <4> QED
        BY <1>1, <2>5, <4>1, <4>2, ReachedPage
    <3> QED
      BY <2>2, <2>3, <2>5, <3>1
  <2>6. CASE Access(a, T, "w") /\ Pte(b).present
    <3>1. PICK f \in Frame : f = FrameAt(b)
      BY <1>1, <2>6, InPage, PteTypes
    <3> DEFINE Hit(k) == FrameOf(a, T, k) = f /\ OffsetOf(a, T, k) = o
    <3>2. ASSUME NEW k \in 0 .. T - 1
          PROVE  Hit(k) <=> k = Distance(a, b)
      <4>1. Pte(a + k).present /\ k \in Nat /\ k < TotalBytes
        BY <1>1, <2>6, AccessIsAllowed, Extent
      <4>2. FrameOf(a, T, k) = FrameAt(a + k) /\ OffsetOf(a, T, k) = (a + k) % PageSize
        BY <1>1, ByteHome
      <4> QED
        BY <1>1, <2>1, <2>6, <3>1, <4>1, <4>2, Reaches
    <3>3. mem'[f][o] = IF \E k \in 0 .. T - 1 : Hit(k)
                       THEN val[CHOOSE k \in 0 .. T - 1 : Hit(k)] ELSE mem[f][o]
      BY <2>6 DEF Write
    <3> HIDE DEF Hit
    <3>4. CASE Distance(a, b) < T
      <4>1. Distance(a, b) \in 0 .. T - 1
        BY <1>1, <3>4, OneWay
      <4>2. (CHOOSE k \in 0 .. T - 1 : Hit(k)) = Distance(a, b)
        BY <3>2, <4>1
      <4> QED
        BY <2>2, <2>6, <3>1, <3>2, <3>3, <3>4, <4>1, <4>2
    <3>5. CASE ~(Distance(a, b) < T)
      <4>1. Distance(a, b) \notin 0 .. T - 1
        BY <1>1, <3>5, OneWay
      <4>2. ~\E k \in 0 .. T - 1 : Hit(k)
        BY <3>2, <4>1
      <4> QED
        BY <2>2, <2>3, <2>6, <3>1, <3>3, <3>5, <4>2
    <3> QED
      BY <3>4, <3>5
  <2> QED
    BY <2>4, <2>5, <2>6
<1>5. Cell' = IF result'.ok
              THEN [b \in VAddr |-> IF Distance(a, b) < T THEN val[Distance(a, b)] ELSE Cell[b]]
              ELSE Cell
  <2>1. Cell' = [b \in VAddr |-> CellAt(b)']
    BY DEF Cell, CellAt
  <2>2. \A b \in VAddr : Cell[b] = CellAt(b)
    BY Cells
  <2>3. CASE Access(a, T, "w")
    BY <1>2, <1>4, <2>1, <2>2, <2>3
  <2>4. CASE ~Access(a, T, "w")
    BY <1>2, <1>4, <2>1, <2>4, Cells
  <2> QED
    BY <2>3, <2>4
<1>6. Cell' = IF result'.ok
              THEN [b \in Flat!VAddr |-> IF Flat!Dist(result'.addr, b) < result'.size
                                         THEN result'.val[Flat!Dist(result'.addr, b)] ELSE Cell[b]]
              ELSE Cell
  BY <1>2, <1>5, FlatNames
<1>7. result'.ok <=> Flat!Allowed(result'.addr, result'.size, "w")
  BY <1>1, <1>2, FlatAllowed
<1> QED
  BY <1>2, <1>3, <1>6, <1>7 DEF Flat!Write, Mapped, Prot, Cell


\* The chunks of n bytes are those that start before the end of them.
LEMMA Chunks ==
    ASSUME NEW n \in Nat, NEW c \in Nat
    PROVE  c \in 0 .. (n - 1) \div PageSize <=> c * PageSize < n
<1>1. PageSize \in Nat /\ PageSize > 0 /\ c * PageSize \in Nat
  BY Sizes0
<1>2. CASE n = 0
  <2>1. (n - 1) \div PageSize = -1
    BY <1>1, <1>2
  <2> QED
    BY <1>1, <1>2, <2>1
<1>3. CASE n > 0
  <2>1. PICK x \in Nat : x = n - 1
    BY <1>3
  <2>2. /\ PageOf(x) \in Nat /\ x % PageSize \in Nat /\ x % PageSize < PageSize
        /\ PageOf(x) * PageSize \in Nat /\ x = PageOf(x) * PageSize + (x % PageSize)
    BY Parts
  <2>3. c \in 0 .. (n - 1) \div PageSize <=> c <= PageOf(x)
    BY <2>1, <2>2 DEF PageOf
  <2>4. CASE c <= PageOf(x)
    <3>1. c * PageSize <= PageOf(x) * PageSize
      <4>1. CASE c = PageOf(x)
        BY <1>1, <4>1
      <4>2. CASE c < PageOf(x)
        BY <1>1, <2>2, <4>2, PagesApart
      <4> QED
        BY <2>2, <2>4, <4>1, <4>2
    <3> QED
      BY <1>1, <2>1, <2>2, <2>3, <2>4, <3>1
  <2>5. CASE ~(c <= PageOf(x))
    <3>1. PageOf(x) * PageSize + PageSize <= c * PageSize
      BY <2>2, <2>5, PagesApart
    <3> QED
      BY <1>1, <2>1, <2>2, <2>3, <2>5, <3>1
  <2> QED
    BY <2>4, <2>5
<1> QED
  BY <1>2, <1>3

\* Byte o of the page c pages after an aligned address.
LEMMA ChunkByte ==
    ASSUME NEW a \in VAddr, a % PageSize = 0, NEW c \in Nat, NEW o \in Offset,
           c * PageSize + o < TotalBytes
    PROVE  /\ Pte(a + (c * PageSize + o)) = Pte(a + c * PageSize)
           /\ (a + (c * PageSize + o)) % PageSize = o
<1>1. /\ a \in Nat /\ a < TotalBytes /\ o \in Nat /\ o < PageSize /\ PageSize \in Nat
      /\ c * PageSize \in Nat /\ TotalBytes \in Nat
  BY Sizes0 DEF VAddr, Offset
<1>2. PICK q \in Nat : q * PageSize \in Nat /\ a = q * PageSize
  <2>1. /\ PageOf(a) \in Nat /\ PageOf(a) * PageSize \in Nat
        /\ a = PageOf(a) * PageSize + (a % PageSize)
    BY <1>1, Parts
  <2>2. PICK b \in Nat : b = PageOf(a) * PageSize
    BY <2>1
  <2>3. a = b
    BY <1>1, <2>1, <2>2
  <2> QED
    BY <2>1, <2>2, <2>3
<1>3. (q + c) * PageSize = q * PageSize + c * PageSize /\ q + c \in Nat
  BY <1>1
<1>4. PICK e \in Nat : e = (q + c) * PageSize
  BY <1>1, <1>2, <1>3
<1>5. PICK d \in Nat : d = c * PageSize
  BY <1>1
<1>6. a + d = e
  BY <1>2, <1>3, <1>4, <1>5
<1>7. PICK x \in Nat : x = a + (c * PageSize + o) /\ x = e + o /\ x < TotalBytes + TotalBytes
  BY <1>1, <1>5, <1>6
<1>8. PageOf(x) = q + c /\ x % PageSize = o
  BY <1>1, <1>3, <1>4, <1>7, PartsUnique
<1>9. PICK y \in Nat : y = a + c * PageSize /\ y = e + 0 /\ y < TotalBytes + TotalBytes
  BY <1>1, <1>5, <1>6
<1>10. PageOf(y) = q + c
  <2>1. 0 \in Nat /\ 0 < PageSize
    BY Sizes0
  <2> QED
    BY <1>3, <1>4, <1>9, <2>1, PartsUnique
<1>11. Pte(x) = Pte(y)
  BY <1>7, <1>8, <1>9, <1>10, SamePte
<1> QED
  BY <1>7, <1>8, <1>9, <1>11

ReachedTo(a, k) == \A m \in 0 .. k : Pte(a + m).present

\* The copy gets to a chunk when every byte up to it has a page.
LEMMA CopiedIsReached ==
    ASSUME NEW a \in VAddr, a % PageSize = 0, NEW c \in Nat, NEW o \in Offset,
           c * PageSize + o < TotalBytes
    PROVE  (\A d \in 0 .. c : Pte(a + d * PageSize).present)
             <=> ReachedTo(a, c * PageSize + o)
<1>1. o \in Nat /\ o < PageSize /\ PageSize \in Nat /\ c * PageSize \in Nat /\ TotalBytes \in Nat
  BY Sizes0 DEF Offset
<1>2. ASSUME ReachedTo(a, c * PageSize + o), NEW d \in 0 .. c
      PROVE  Pte(a + d * PageSize).present
  <2>1. d * PageSize \in Nat /\ d * PageSize <= c * PageSize
    <3>1. CASE d = c
      BY <1>1, <3>1
    <3>2. CASE d < c
      <4>1. d \in Nat
        OBVIOUS
      <4>2. d * PageSize + PageSize <= c * PageSize /\ d * PageSize \in Nat
        BY <3>2, <4>1, PagesApart
      <4> QED
        BY <1>1, <4>2
    <3> QED
      BY <3>1, <3>2
  <2>2. PICK e \in Nat : e = d * PageSize
    BY <2>1
  <2>3. PICK g \in Nat : g = c * PageSize
    BY <1>1
  <2>4. e \in 0 .. g + o
    BY <1>1, <2>1, <2>2, <2>3
  <2> QED
    BY <1>2, <2>2, <2>3, <2>4 DEF ReachedTo
<1>3. ASSUME \A d \in 0 .. c : Pte(a + d * PageSize).present, NEW m \in 0 .. c * PageSize + o
      PROVE  Pte(a + m).present
  <2>1. /\ m \in Nat /\ m <= c * PageSize + o /\ PageOf(m) \in Nat
        /\ m % PageSize \in Nat /\ m % PageSize < PageSize
        /\ PageOf(m) * PageSize \in Nat /\ m = PageOf(m) * PageSize + (m % PageSize)
    <3>1. PICK g \in Nat : g = c * PageSize
      BY <1>1
    <3>2. m \in Nat /\ m <= g + o
      BY <1>1, <3>1
    <3> QED
      BY <3>1, <3>2, Parts
  <2>2. PICK d \in Nat : d = PageOf(m)
    BY <2>1
  <2>3. d <= c
    <3>1. c < d => c * PageSize + PageSize <= d * PageSize
      BY PagesApart
    <3>2. ~(c < d)
      BY <1>1, <2>1, <2>2, <3>1
    <3> QED
      BY <3>2
  <2>4. PICK r \in Offset : r = m % PageSize
    BY <1>1, <2>1 DEF Offset
  <2>5. m = d * PageSize + r /\ d * PageSize + r < TotalBytes
    BY <1>1, <2>1, <2>2, <2>4
  <2>6. Pte(a + m) = Pte(a + d * PageSize)
    BY <2>5, ChunkByte
  <2> QED
    BY <1>3, <2>3, <2>6
<1> QED
  BY <1>2, <1>3 DEF ReachedTo


\* A number of a byte is a chunk and an offset in it.
LEMMA ChunkAndOffset ==
    ASSUME NEW k \in Nat
    PROVE  \E c \in Nat, o \in Offset :
              k = c * PageSize + o /\ c * PageSize <= k /\ c * PageSize \in Nat
<1>1. /\ PageOf(k) \in Nat /\ k % PageSize \in Nat /\ k % PageSize < PageSize
      /\ PageOf(k) * PageSize \in Nat /\ k = PageOf(k) * PageSize + (k % PageSize)
  BY Parts
<1>2. k % PageSize \in Offset
  BY <1>1, Sizes0 DEF Offset
<1>3. PageOf(k) * PageSize <= k
  <2>1. PICK b \in Nat : b = PageOf(k) * PageSize
    BY <1>1
  <2> QED
    BY <1>1, <2>1
<1> QED
  BY <1>1, <1>2, <1>3

LEMMA FlatLoad ==
    ASSUME MmuInv, NEW start \in LoadStarts, NEW data \in Images, WriteMany(start, data)
    PROVE  Flat!Load
<1>1. TypeOK /\ FramesApart /\ start \in VAddr
  BY SizesAssumption DEF MmuInv
<1>2. PICK n \in 0 .. TotalBytes - 1 : /\ DOMAIN data = 0 .. n - 1
                                       /\ Cardinality(DOMAIN data) = n
  BY ImageBytes
<1>3. n \in Nat /\ n < TotalBytes /\ TotalBytes \in Nat
  BY <1>2, Sizes0
<1> DEFINE chunks == 0 .. (n - 1) \div PageSize
           copied == {c \in chunks : \A d \in 0 .. c : Pte(start + d * PageSize).present}
           aligned == start % PageSize = 0
           Source(f, o) == {c * PageSize + o : c \in
                              {c \in copied : Pte(start + c * PageSize).page_addr = f}}
                           \cap DOMAIN data
<1>4. /\ result' = [op |-> "load", addr |-> start, size |-> n,
                    ok |-> aligned /\ copied = chunks, val |-> data]
      /\ aligned => \A f \in Frame, o \in Offset :
            mem'[f][o] = IF Source(f, o) = {} THEN mem[f][o]
                         ELSE data[CHOOSE k \in Source(f, o) : TRUE]
      /\ ~aligned => mem' = mem
      /\ table' = table
  <2> DEFINE num == Cardinality(DOMAIN data)
             Chunk(m) == 0 .. (m - 1) \div PageSize
             Copied(m) == {c \in Chunk(m) : \A d \in 0 .. c : Pte(start + d * PageSize).present}
             From(m, f, o) == {c * PageSize + o : c \in
                                {c \in Copied(m) : Pte(start + c * PageSize).page_addr = f}}
                              \cap DOMAIN data
             Filled(m, f, o) == IF From(m, f, o) = {} THEN mem[f][o]
                                ELSE data[CHOOSE k \in From(m, f, o) : TRUE]
  <2>1. mem' = IF aligned THEN [f \in Frame |-> [o \in Offset |-> Filled(num, f, o)]] ELSE mem
    BY DEF WriteMany
  <2>2. result' = [op |-> "load", addr |-> start, size |-> num,
                   ok |-> aligned /\ Copied(num) = Chunk(num), val |-> data]
    BY DEF WriteMany
  <2>3. table' = table
    BY DEF WriteMany
  <2>4. \A f, o : Filled(n, f, o) = IF Source(f, o) = {} THEN mem[f][o]
                                   ELSE data[CHOOSE k \in Source(f, o) : TRUE]
    OBVIOUS
  <2>5. Copied(n) = copied /\ Chunk(n) = chunks
    OBVIOUS
  <2> HIDE DEF Source, copied, chunks, aligned, Filled, Copied, Chunk
  <2>6. aligned => \A f \in Frame, o \in Offset : mem'[f][o] = Filled(num, f, o)
    BY <2>1
  <2> QED
    BY <1>2, <2>1, <2>2, <2>3, <2>4, <2>5, <2>6
<1>5. UNCHANGED <<Mapped, Prot>>
  BY <1>4 DEF Mapped, Prot
<1>6. ASSUME NEW c, c \in chunks
      PROVE  c \in Nat /\ c * PageSize < n /\ c * PageSize \in Nat
  <2>1. c \in Nat
    BY <1>6
  <2> QED
    BY <1>3, <1>6, <2>1, Chunks, Sizes0
<1>7. ASSUME aligned, NEW c \in Nat, NEW o \in Offset, c * PageSize + o < n
      PROVE  c \in copied <=> ReachedTo(start, c * PageSize + o)
  <2>1. c * PageSize \in Nat /\ o \in Nat
    BY Sizes0 DEF Offset
  <2>2. PICK b \in Nat : b = c * PageSize
    BY <2>1
  <2>3. c * PageSize < n /\ c * PageSize + o < TotalBytes
    BY <1>3, <1>7, <2>1, <2>2
  <2>4. c \in chunks
    BY <1>3, <2>3, Chunks
  <2>5. c \in copied <=> \A d \in 0 .. c : Pte(start + d * PageSize).present
    BY <2>4
  <2> QED
    BY <1>1, <1>7, <2>3, <2>5, CopiedIsReached
<1>8. ASSUME aligned
      PROVE  copied = chunks <=> \A k \in 0 .. n - 1 : ReachedTo(start, k)
  <2>1. ASSUME copied = chunks, NEW k \in 0 .. n - 1
        PROVE  ReachedTo(start, k)
    <3>1. k \in Nat /\ k < n
      BY <1>3
    <3>2. PICK c \in Nat, o \in Offset :
            k = c * PageSize + o /\ c * PageSize <= k /\ c * PageSize \in Nat
      BY <3>1, ChunkAndOffset
    <3>3. c * PageSize < n
      BY <1>3, <3>1, <3>2
    <3>4. c \in chunks
      BY <1>3, <3>3, Chunks
    <3>5. c \in copied /\ c * PageSize + o < n
      BY <2>1, <3>1, <3>2, <3>4
    <3> QED
      BY <1>7, <1>8, <3>2, <3>5
  <2>2. ASSUME \A k \in 0 .. n - 1 : ReachedTo(start, k), NEW c \in chunks
        PROVE  c \in copied
    <3>1. c \in Nat /\ c * PageSize < n /\ c * PageSize \in Nat
      BY <1>6
    <3>2. PICK b \in Nat : b = c * PageSize
      BY <3>1
    <3>3. 0 \in Offset
      BY Sizes0 DEF Offset
    <3>4. c * PageSize + 0 = b /\ b \in 0 .. n - 1
      BY <1>3, <3>1, <3>2
    <3>5. ReachedTo(start, c * PageSize + 0)
      BY <2>2, <3>4
    <3>6. c * PageSize + 0 < n
      BY <3>1, <3>2, <3>4
    <3> HIDE DEF copied
    <3> QED
      BY <1>7, <1>8, <3>1, <3>3, <3>5, <3>6
  <2>3. copied \subseteq chunks
    OBVIOUS
  <2> HIDE DEF copied, chunks
  <2> QED
    BY <2>1, <2>2, <2>3
<1>9. ASSUME aligned, NEW b \in VAddr, Pte(b).present, NEW o \in Offset, o = b % PageSize,
             NEW k
      PROVE  k \in Source(FrameAt(b), o)
               <=> k = Distance(start, b) /\ k < n /\ ReachedTo(start, k)
  <2>1. ASSUME k \in Source(FrameAt(b), o)
        PROVE  k = Distance(start, b) /\ k < n /\ ReachedTo(start, k)
    <3>1. k \in 0 .. n - 1
      BY <1>2, <2>1
    <3>2. PICK c \in copied : /\ Pte(start + c * PageSize).page_addr = FrameAt(b)
                              /\ k = c * PageSize + o
      BY <2>1
    <3>3. c \in Nat
      BY <3>2, <1>6
    <3>4. k \in Nat /\ k < n /\ k < TotalBytes
      BY <1>3, <3>1
    <3>5. ReachedTo(start, k)
      BY <1>7, <1>9, <3>2, <3>3, <3>4
    <3>6. Pte(start + k).present
      BY <3>4, <3>5 DEF ReachedTo
    <3>7. FrameAt(start + k) = FrameAt(b) /\ (start + k) % PageSize = o
      BY <1>1, <1>9, <3>2, <3>3, <3>4, ChunkByte DEF FrameAt
    <3> QED
      BY <1>1, <1>9, <3>4, <3>5, <3>6, <3>7, Reaches
  <2>2. ASSUME k = Distance(start, b), k < n, ReachedTo(start, k)
        PROVE  k \in Source(FrameAt(b), o)
    <3>1. k \in Nat /\ k < TotalBytes
      BY <1>1, <2>2, OneWay
    <3>2. PICK c \in Nat, r \in Offset :
            k = c * PageSize + r /\ c * PageSize <= k /\ c * PageSize \in Nat
      BY <3>1, ChunkAndOffset
    <3>3. c \in copied
      BY <1>7, <1>9, <2>2, <3>2
    <3>4. Pte(start + k).present
      BY <2>2, <3>1 DEF ReachedTo
    <3>5. FrameAt(start + k) = FrameAt(b) /\ (start + k) % PageSize = o
      BY <1>1, <1>9, <2>2, <3>1, <3>4, Reaches
    <3>6. Pte(start + k) = Pte(start + c * PageSize) /\ (start + k) % PageSize = r
      BY <1>1, <1>9, <3>1, <3>2, ChunkByte
    <3>7. Pte(start + c * PageSize).page_addr = FrameAt(b) /\ k = c * PageSize + o
      BY <3>2, <3>5, <3>6 DEF FrameAt
    <3>8. k \in DOMAIN data
      BY <1>2, <1>3, <2>2, <3>1
    <3> QED
      BY <3>3, <3>7, <3>8
  <2> QED
    BY <2>1, <2>2
<1> DEFINE new(b) == aligned /\ Distance(start, b) < n /\ ReachedTo(start, Distance(start, b))
<1>10. ASSUME NEW b \in VAddr
       PROVE  CellAt(b)' = IF new(b) THEN data[Distance(start, b)] ELSE CellAt(b)
  <2>1. PICK o \in Offset : o = b % PageSize
    BY InPage
  <2>2. CellAt(b)' = IF Pte(b).present THEN mem'[FrameAt(b)][o] ELSE 0
    BY <1>4, <2>1 DEF CellAt, FrameAt, Pte
  <2>3. CellAt(b) = IF Pte(b).present THEN mem[FrameAt(b)][o] ELSE 0
    BY <2>1 DEF CellAt
  <2>4. CASE ~aligned
    <3>1. mem' = mem
      BY <1>4, <2>4
    <3> QED
      BY <2>2, <2>3, <2>4, <3>1
  <2>5. CASE aligned /\ ~Pte(b).present
    <3>1. ~ReachedTo(start, Distance(start, b))
      <4>1. Distance(start, b) \in Nat /\ ~Pte(start + Distance(start, b)).present
        BY <1>1, <2>5, OneWay, ReachedPage
      <4>2. Distance(start, b) \in 0 .. Distance(start, b)
        BY <4>1
      <4> QED
        BY <4>1, <4>2 DEF ReachedTo
    <3> QED
      BY <2>2, <2>3, <2>5, <3>1
  <2>6. CASE aligned /\ Pte(b).present
    <3>1. PICK f \in Frame : f = FrameAt(b)
      BY <1>1, <2>6, InPage, PteTypes
    <3>2. mem'[f][o] = IF Source(f, o) = {} THEN mem[f][o]
                       ELSE data[CHOOSE k \in Source(f, o) : TRUE]
      BY <1>4, <2>6
    <3>3. \A k : k \in Source(f, o)
                   <=> k = Distance(start, b) /\ k < n /\ ReachedTo(start, k)
      BY <1>9, <2>1, <2>6, <3>1
    <3> DEFINE S == Source(f, o)
    <3>4. S = IF new(b) THEN {Distance(start, b)} ELSE {}
      BY <2>6, <3>3
    <3>5. mem'[f][o] = IF S = {} THEN mem[f][o] ELSE data[CHOOSE k \in S : TRUE]
      BY <3>2
    <3> HIDE DEF S, new
    <3> QED
      BY <2>2, <2>3, <2>6, <3>1, <3>4, <3>5
  <2> QED
    BY <2>4, <2>5, <2>6
<1>11. Cell' = [b \in VAddr |-> IF new(b) THEN data[Distance(start, b)] ELSE Cell[b]]
  <2>1. Cell' = [b \in VAddr |-> CellAt(b)']
    BY DEF Cell, CellAt
  <2>2. \A b \in VAddr : Cell[b] = CellAt(b)
    BY Cells
  <2> HIDE DEF new
  <2> QED
    BY <1>10, <2>1, <2>2
<1> DEFINE Reached(k) == \A m \in 0 .. k : Flat!PageOf(Flat!At(result'.addr, m)) \in Mapped
<1>12. /\ result'.op = "load" /\ result'.addr = start /\ result'.size = n /\ result'.val = data
       /\ result'.ok <=> aligned /\ copied = chunks
  BY <1>4
<1> HIDE DEF copied, chunks, Source
<1>13. ASSUME NEW k \in Nat, k < TotalBytes
       PROVE  Reached(k) <=> ReachedTo(start, k)
  <2>1. ASSUME NEW m \in 0 .. k
        PROVE  Flat!PageOf(Flat!At(result'.addr, m)) \in Mapped <=> Pte(start + m).present
    <3>1. start + m \in Nat /\ start + m < TotalBytes + TotalBytes
      BY <1>1, <1>3, <1>13 DEF VAddr
    <3>2. PageOf(Wrap(start + m)) \in VPage /\ table[PageOf(Wrap(start + m))] = Pte(start + m)
      BY <3>1, Flattened
    <3>3. Flat!PageOf(Flat!At(result'.addr, m)) = PageOf(Wrap(start + m))
      BY <1>12, FlatNames
    <3> QED
      BY <3>2, <3>3 DEF Mapped
  <2> QED
    BY <2>1 DEF ReachedTo
<1>14. result'.ok <=> (result'.addr % PageSize = 0 /\ \A k \in 0 .. result'.size - 1 : Reached(k))
  <2>1. \A k \in 0 .. n - 1 : Reached(k) <=> ReachedTo(start, k)
    BY <1>3, <1>13
  <2> HIDE DEF Reached
  <2> QED
    BY <1>8, <1>12, <2>1
<1>15. ASSUME NEW b \in VAddr
       PROVE  new(b) <=> (/\ result'.addr % PageSize = 0
                          /\ Flat!Dist(result'.addr, b) < result'.size
                          /\ Reached(Flat!Dist(result'.addr, b)))
  <2>1. Flat!Dist(result'.addr, b) = Distance(start, b)
    BY <1>12, FlatNames
  <2>2. Reached(Distance(start, b)) <=> ReachedTo(start, Distance(start, b))
    BY <1>1, <1>13, OneWay
  <2> HIDE DEF Reached
  <2> QED
    BY <1>12, <2>1, <2>2
<1>16. Cell' = [b \in Flat!VAddr |->
                  IF result'.addr % PageSize = 0 /\ Flat!Dist(result'.addr, b) < result'.size
                     /\ Reached(Flat!Dist(result'.addr, b))
                  THEN result'.val[Flat!Dist(result'.addr, b)] ELSE Cell[b]]
  <2>1. Flat!VAddr = VAddr /\ \A b : Flat!Dist(result'.addr, b) = Distance(start, b)
    BY <1>12, FlatNames
  <2> HIDE DEF new, Reached
  <2> QED
    BY <1>11, <1>12, <1>15, <2>1
<1> QED
  BY <1>5, <1>12, <1>14, <1>16 DEF Flat!Load, Mapped, Prot, Cell

\* The pages, wherever they are and however an access falls on them, are one
\* array with one permission check per byte.  Two-byte loads are excepted:
\* RTI is the one instruction that makes them, and over a page boundary it
\* does not get the bytes that are there (FlipEndianness).
THEOREM MmuImplementsFlatMemory ==
    ASSUME 2 \notin ReadSizes
    PROVE  Spec => ImplementsFlatMemory
<1>1. MmuInv /\ [Next]_vars => [Flat!Next]_<<Mapped, Prot, Cell, result>>
  <2> SUFFICES ASSUME MmuInv, [Next]_vars
               PROVE  [Flat!Next]_<<Mapped, Prot, Cell, result>>
    OBVIOUS
  <2>1. ASSUME NEW p \in VPage, NEW f \in Frame, NEW perms \in PermChoices,
               MapPage(p, f, perms)
        PROVE  Flat!Next
    BY <2>1, FlatMap DEF Flat!Next
  <2>2. ASSUME NEW a \in Addrs, NEW T \in ReadSizes, Read(a, T) PROVE Flat!Next
    BY <2>2, FlatRead DEF Flat!Next
  <2>3. ASSUME NEW a \in Addrs, NEW T \in WriteSizes, NEW val \in Words(T), Write(a, T, val)
        PROVE  Flat!Next
    BY <2>3, FlatWrite DEF Flat!Next
  <2>4. ASSUME NEW start \in LoadStarts, NEW data \in Images, WriteMany(start, data)
        PROVE  Flat!Next
    BY <2>4, FlatLoad DEF Flat!Next
  <2>5. UNCHANGED vars => UNCHANGED <<Mapped, Prot, Cell, result>>
    BY DEF vars, Mapped, Prot, Cell, FrameAt, Pte
  <2> QED
    BY <2>1, <2>2, <2>3, <2>4, <2>5 DEF Next
<1> QED
  BY <1>1, FlatInit, MmuInvariant, PTL
     DEF Spec, ImplementsFlatMemory, Flat!Spec, Mapped, Prot, Cell

===============================================================================
