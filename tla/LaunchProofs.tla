----------------------------- MODULE LaunchProofs -----------------------------
(***************************************************************************)
(* Theorems about Launch: what the loader puts into memory, for every      *)
(* program and address space, and that the loop entered on it decodes the  *)
(* bytes of the file.                                                      *)
(***************************************************************************)
EXTENDS Launch, FetchLoopProofs, SequenceTheorems

-----------------------------------------------------------------------------
(* Addresses of a range that may wrap.                                     *)

LEMMA WrapSum ==
    ASSUME NEW a \in VAddr, NEW n \in Nat, n <= TotalBytes
    PROVE  Add(a, n) = IF a + n < TotalBytes THEN a + n ELSE (a + n) - TotalBytes
<1>1. a \in Nat /\ a < TotalBytes /\ TotalBytes \in Nat \ {0}
  BY Address, Sizes0
<1> QED
  BY <1>1 DEF Add

LEMMA AddTwice ==
    ASSUME NEW a \in VAddr, NEW m \in Nat, NEW n \in Nat, m + n <= TotalBytes
    PROVE  Add(Add(a, m), n) = Add(a, m + n)
<1>1. a \in Nat /\ a < TotalBytes /\ TotalBytes \in Nat \ {0}
  BY Address, Sizes0
<1>2. Add(a, m) = IF a + m < TotalBytes THEN a + m ELSE a + m - TotalBytes
  BY <1>1, WrapSum
<1>3. Add(a, m + n) = IF a + m + n < TotalBytes THEN a + m + n ELSE a + m + n - TotalBytes
  BY <1>1, WrapSum
<1>4. PICK b \in VAddr : b = Add(a, m)
  BY <1>1, <1>2 DEF VAddr
<1>5. Add(b, n) = IF b + n < TotalBytes THEN b + n ELSE (b + n) - TotalBytes
  BY <1>1, WrapSum
<1> QED
  BY <1>1, <1>2, <1>3, <1>4, <1>5

LEMMA Drop ==
    ASSUME NEW x \in Int, NEW y \in Int, NEW z \in Int
    PROVE  ((x + y) + z) - x = y + z
OBVIOUS

LEMMA Cancel ==
    ASSUME NEW x \in Int, NEW y \in Int, NEW z \in Int, x + y = x + z
    PROVE  y = z
OBVIOUS

\* Page and offset are told from the address.
LEMMA PartsUnique ==
    ASSUME NEW q \in VPage, NEW o \in 0 .. PageSize - 1
    PROVE  LET a == q * PageSize + o
           IN  a \in VAddr /\ PageOf(a) = q /\ Offset(a) = o
<1> DEFINE a == q * PageSize + o
<1>1. q \in Nat /\ q < NumVPages /\ q * PageSize \in Nat /\ o \in Nat /\ o < PageSize
      /\ PageSize \in Nat \ {0} /\ NumVPages \in Nat \ {0}
  BY Sizes0 DEF VPage
<1>2. q * PageSize + PageSize <= TotalBytes
  BY <1>1, PagesApart, Sizes0
<1>3. a \in VAddr
  BY <1>1, <1>2, Sizes0 DEF VAddr
<1>4. /\ PageOf(a) \in Nat /\ Offset(a) \in Nat /\ Offset(a) < PageSize
      /\ a = PageOf(a) * PageSize + Offset(a) /\ PageOf(a) * PageSize \in Nat
  BY <1>1, <1>3, AddressParts DEF VPage
<1> HIDE DEF a
<1>5. a = q * PageSize + o
  BY DEF a
<1>6. ~(PageOf(a) < q)
  <2>1. PageOf(a) < q => PageOf(a) * PageSize + PageSize <= q * PageSize
    BY <1>1, <1>4, PagesApart
  <2> QED
    BY <1>1, <1>4, <1>5, <2>1
<1>7. ~(q < PageOf(a))
  <2>1. q < PageOf(a) => q * PageSize + PageSize <= PageOf(a) * PageSize
    BY <1>1, <1>4, PagesApart
  <2> QED
    BY <1>1, <1>4, <1>5, <2>1
<1>8. PageOf(a) = q
  BY <1>1, <1>4, <1>6, <1>7
<1>9. Offset(a) = o
  <2>1. q * PageSize + Offset(a) = q * PageSize + o
    BY <1>4, <1>5, <1>8, Zenon
  <2> QED
    BY <1>1, <1>4, <2>1, Cancel
<1> QED
  BY <1>3, <1>8, <1>9 DEF a

\* The pages of a range that starts at the beginning of one.
LEMMA RangePage ==
    ASSUME NEW s \in VAddr, Offset(s) = 0, NEW j \in 0 .. NumVPages - 1,
           NEW o \in 0 .. PageSize - 1
    PROVE  LET q == PageOf(s) + j
               p == PageOf(Add(s, j * PageSize))
               a == Add(s, j * PageSize + o)
           IN  /\ p = IF q < NumVPages THEN q ELSE q - NumVPages
               /\ p \in VPage
               /\ a = p * PageSize + o
               /\ a \in VAddr /\ PageOf(a) = p /\ Offset(a) = o
<1> DEFINE q == PageOf(s) + j
           p == IF q < NumVPages THEN q ELSE q - NumVPages
<1>1. /\ PageOf(s) \in Nat /\ PageOf(s) < NumVPages /\ j \in Nat /\ j < NumVPages
      /\ o \in Nat /\ o < PageSize /\ PageSize \in Nat \ {0} /\ NumVPages \in Nat \ {0}
      /\ s = PageOf(s) * PageSize
  BY Sizes0, AddressParts DEF VPage
<1>2. p \in VPage /\ p \in Nat /\ q \in Nat
  BY <1>1 DEF VPage
<1>3. ASSUME NEW x \in 0 .. PageSize - 1
      PROVE  Add(s, j * PageSize + x) = p * PageSize + x
  <2>1. /\ j * PageSize \in Nat /\ x \in Nat /\ x < PageSize
        /\ s + j * PageSize = q * PageSize /\ q * PageSize \in Nat
    BY <1>1, <1>3
  <2>2. j * PageSize + x <= TotalBytes
    <3>1. j * PageSize + PageSize <= TotalBytes
      BY <1>1, PagesApart, Sizes0
    <3> QED
      BY <2>1, <3>1, <1>1, Sizes0
  <2>3. Add(s, j * PageSize + x) = IF s + (j * PageSize + x) < TotalBytes THEN s + (j * PageSize + x)
                                   ELSE (s + (j * PageSize + x)) - TotalBytes
    BY <2>1, <2>2, WrapSum
  <2>4. s \in Nat /\ s + (j * PageSize + x) = q * PageSize + x
    BY <1>1, <2>1, Address
  <2>5. CASE q < NumVPages
    <3>1. q * PageSize + PageSize <= TotalBytes
      BY <1>1, <1>2, <2>5, PagesApart, Sizes0
    <3>2. q * PageSize + x < TotalBytes
      BY <1>1, <2>1, <3>1, Sizes0
    <3> QED
      BY <2>3, <2>4, <2>5, <3>2
  <2>6. CASE ~(q < NumVPages)
    <3>1. p = q - NumVPages
      BY <2>6
    <3>2. q * PageSize = TotalBytes + p * PageSize /\ p * PageSize \in Nat
      BY <1>1, <1>2, <3>1, Sizes0
    <3>3. ~(q * PageSize + x < TotalBytes)
      BY <2>1, <3>2, Sizes0
    <3> HIDE DEF q, p
    <3>4. Add(s, j * PageSize + x) = (q * PageSize + x) - TotalBytes
      <4>1. ~(s + (j * PageSize + x) < TotalBytes)
        BY <2>4, <3>3
      <4> QED
        BY <2>3, <2>4, <4>1
    <3>5. ((TotalBytes + p * PageSize) + x) - TotalBytes = p * PageSize + x
      <4>1. TotalBytes \in Int /\ p * PageSize \in Int /\ x \in Int
        BY <2>1, <3>2, Sizes0
      <4> QED
        BY <4>1, Drop
    <3> QED
      BY <3>2, <3>4, <3>5
  <2> QED
    BY <2>5, <2>6
<1>4. Add(s, j * PageSize + o) = p * PageSize + o
  BY <1>3
<1>5. Add(s, j * PageSize) = p * PageSize
  <2>1. 0 \in 0 .. PageSize - 1
    BY <1>1
  <2>2. Add(s, j * PageSize + 0) = p * PageSize + 0
    BY <1>3, <2>1
  <2>3. j * PageSize + 0 = j * PageSize /\ p * PageSize + 0 = p * PageSize
    BY <1>1, <1>2
  <2> QED
    BY <2>2, <2>3
<1>6. PageOf(p * PageSize) = p
  <2>1. 0 \in 0 .. PageSize - 1 /\ p * PageSize + 0 = p * PageSize
    BY <1>1, <1>2
  <2> QED
    BY <1>2, <2>1, PartsUnique
<1>7. p * PageSize + o \in VAddr /\ PageOf(p * PageSize + o) = p /\ Offset(p * PageSize + o) = o
  BY <1>2, PartsUnique
<1> HIDE DEF p
<1>8. p = IF q < NumVPages THEN q ELSE q - NumVPages
  BY DEF p
<1> QED
  BY <1>2, <1>4, <1>5, <1>6, <1>7, <1>8

\* Every byte of a range of pages is at an offset of one of them.
LEMMA ByteOfRange ==
    ASSUME NEW n \in Nat, NEW k \in 0 .. n * PageSize - 1
    PROVE  \E j \in 0 .. n - 1, o \in 0 .. PageSize - 1 : k = j * PageSize + o
<1>1. PageSize \in Nat \ {0} /\ k \in Nat /\ n * PageSize \in Nat /\ k < n * PageSize
  BY Sizes0
<1> DEFINE j == k \div PageSize
           o == k % PageSize
<1>2. j \in Nat /\ o \in 0 .. PageSize - 1 /\ k = j * PageSize + o /\ j * PageSize \in Nat
  BY <1>1
<1>3. ~(n < j) /\ j # n
  <2>1. n < j => n * PageSize + PageSize <= j * PageSize
    BY <1>2, PagesApart
  <2> HIDE DEF j, o
  <2>2. j = n => FALSE
    BY <1>1, <1>2
  <2> QED
    BY <1>1, <1>2, <2>1, <2>2
<1> QED
  BY <1>2, <1>3
-----------------------------------------------------------------------------
(* The image.                                                              *)

\* Byte k of the image, counted from 0, and zeros behind it.
ImageByte(k) == IF k < Len(insns) THEN insns[k + 1] ELSE 0

LEMMA FunctionIsSeq ==
    ASSUME NEW S, NEW n \in Nat, NEW f \in [1 .. n -> S]
    PROVE  f \in Seq(S) /\ Len(f) = n
<1>1. f \in Seq(S)
  BY SeqDef
<1>2. Len(f) \in Nat /\ 1 .. Len(f) = 1 .. n
  BY <1>1, LenProperties
<1> QED
  BY <1>1, <1>2

LEMMA ProgramFacts ==
    ASSUME prog \in Programs
    PROVE  /\ prog.file \in Nat /\ prog.off \in Nat /\ prog.sep \in Nat
           /\ prog.start \in VAddr /\ prog.entry \in VAddr /\ prog.perms \in SUBSET PermBits
           /\ prog.sep <= prog.file
           /\ prog.off < prog.file => prog.sep <= prog.file - prog.off
           /\ prog.file + npad < TotalBytes - NumDataPages * PageSize
           /\ npad \in Nat /\ NumDataPages \in Nat \ {0}
  BY ProgramsAssumption DEF Program

LEMMA ReadFileBytes ==
    ASSUME NEW size \in Nat, NEW off \in Nat
    PROVE  LET from == IF off < size THEN off ELSE 0
               bytes == ReadFile(size, off)
           IN  /\ bytes \in Seq(Nat) /\ from \in Nat /\ from <= size
               /\ Len(bytes) = size - from
               /\ \A k \in 1 .. size - from : bytes[k] = from + k
<1> DEFINE from == IF off < size THEN off ELSE 0
           bytes == [k \in 1 .. size - from |-> from + k]
<1>1. from \in Nat /\ from <= size /\ size - from \in Nat
  OBVIOUS
<1>2. bytes \in [1 .. size - from -> Nat]
  BY <1>1
<1>3. bytes \in Seq(Nat) /\ Len(bytes) = size - from
  BY <1>1, <1>2, FunctionIsSeq
<1>4. ReadFile(size, off) = bytes
  BY DEF ReadFile
<1> QED
  BY <1>1, <1>3, <1>4

\* The image with the padding put in, byte by byte.
LEMMA PaddedBytes ==
    ASSUME NEW bytes \in Seq(Nat), NEW sep \in Nat \ {0}, sep <= Len(bytes), npad \in Nat
    PROVE  LET out == Padded(bytes, sep)
           IN  /\ out \in Seq(Nat)
               /\ Len(out) = Len(bytes) + npad
               /\ \A k \in 1 .. Len(bytes) + npad :
                     out[k] = IF k <= sep THEN bytes[k]
                              ELSE IF k <= sep + npad THEN 0 ELSE bytes[k - npad]
<1> DEFINE n == Len(bytes)
<1>1. n \in Nat /\ \A k \in 1 .. n : bytes[k] \in Nat
  BY LenProperties, ElementOfSeq
<1>2. PICK a \in Seq(Nat) : /\ a = SubSeq(bytes, 1, sep)
                            /\ Len(a) = sep
                            /\ \A k \in 1 .. sep : a[k] = bytes[k]
  <2>1. \A k \in 1 .. sep : bytes[k] \in Nat
    BY <1>1
  <2>2. /\ SubSeq(bytes, 1, sep) \in Seq(Nat)
        /\ Len(SubSeq(bytes, 1, sep)) = IF 1 <= sep THEN sep - 1 + 1 ELSE 0
        /\ \A k \in 1 .. sep - 1 + 1 : SubSeq(bytes, 1, sep)[k] = bytes[1 + k - 1]
    BY <2>1, SubSeqProperties
  <2>3. Len(SubSeq(bytes, 1, sep)) = sep /\ \A k \in 1 .. sep : SubSeq(bytes, 1, sep)[k] = bytes[k]
    BY <2>2
  <2> QED
    BY <2>2, <2>3, Zenon
<1>3. PICK z \in Seq(Nat) : /\ z = [k \in 1 .. npad |-> 0]
                            /\ Len(z) = npad
                            /\ \A k \in 1 .. npad : z[k] = 0
  <2>1. [k \in 1 .. npad |-> 0] \in [1 .. npad -> Nat]
    OBVIOUS
  <2>2. [k \in 1 .. npad |-> 0] \in Seq(Nat) /\ Len([k \in 1 .. npad |-> 0]) = npad
    BY <2>1, FunctionIsSeq, Zenon
  <2> QED
    BY <2>2, Zenon
<1>4. PICK b \in Seq(Nat) : /\ b = SubSeq(bytes, sep + 1, n)
                            /\ Len(b) = n - sep
                            /\ \A k \in 1 .. n - sep : b[k] = bytes[sep + k]
  <2>1. \A k \in sep + 1 .. n : bytes[k] \in Nat
    BY <1>1
  <2>2. /\ SubSeq(bytes, sep + 1, n) \in Seq(Nat)
        /\ Len(SubSeq(bytes, sep + 1, n)) = IF sep + 1 <= n THEN n - (sep + 1) + 1 ELSE 0
        /\ \A k \in 1 .. n - (sep + 1) + 1 :
              SubSeq(bytes, sep + 1, n)[k] = bytes[sep + 1 + k - 1]
    BY <1>1, <2>1, SubSeqProperties
  <2>3. /\ Len(SubSeq(bytes, sep + 1, n)) = n - sep
        /\ \A k \in 1 .. n - sep : SubSeq(bytes, sep + 1, n)[k] = bytes[sep + k]
    BY <1>1, <2>2
  <2> QED
    BY <2>2, <2>3, Zenon
<1>5. PICK az \in Seq(Nat) :
           /\ az = a \o z /\ Len(az) = sep + npad
           /\ \A k \in 1 .. sep + npad : az[k] = IF k <= sep THEN a[k] ELSE z[k - sep]
  <2>1. /\ a \o z \in Seq(Nat) /\ Len(a \o z) = Len(a) + Len(z)
        /\ \A k \in 1 .. Len(a) + Len(z) :
              (a \o z)[k] = IF k <= Len(a) THEN a[k] ELSE z[k - Len(a)]
    BY ConcatProperties, Zenon
  <2>2. Len(a) = sep /\ Len(z) = npad
    BY <1>2, <1>3
  <2> QED
    BY <2>1, <2>2, Zenon
<1>6. PICK out \in Seq(Nat) :
           /\ out = az \o b /\ Len(out) = n + npad
           /\ \A k \in 1 .. n + npad :
                 out[k] = IF k <= sep + npad THEN az[k] ELSE b[k - (sep + npad)]
  <2>1. /\ az \o b \in Seq(Nat) /\ Len(az \o b) = Len(az) + Len(b)
        /\ \A k \in 1 .. Len(az) + Len(b) :
              (az \o b)[k] = IF k <= Len(az) THEN az[k] ELSE b[k - Len(az)]
    BY ConcatProperties, Zenon
  <2>2. Len(az) + Len(b) = n + npad /\ Len(az) = sep + npad
    <3>1. sep + npad + (n - sep) = n + npad
      BY <1>1
    <3> QED
      BY <1>4, <1>5, <3>1, Zenon
  <2> QED
    BY <2>1, <2>2, Zenon
<1>7. Padded(bytes, sep) = out
  BY <1>2, <1>3, <1>4, <1>5, <1>6 DEF Padded
<1>8. ASSUME NEW k \in 1 .. n + npad
      PROVE  out[k] = IF k <= sep THEN bytes[k]
                      ELSE IF k <= sep + npad THEN 0 ELSE bytes[k - npad]
  <2>1. k \in Nat /\ 1 <= k /\ k <= n + npad
    BY <1>1
  <2>2. CASE k <= sep
    <3>1. k \in 1 .. sep /\ k \in 1 .. sep + npad /\ k <= sep + npad
      BY <2>1, <2>2
    <3>2. out[k] = az[k] /\ az[k] = a[k] /\ a[k] = bytes[k]
      BY <1>2, <1>5, <1>6, <2>2, <3>1
    <3> QED
      BY <2>2, <3>2
  <2>3. CASE sep < k /\ k <= sep + npad
    <3>1. k - sep \in 1 .. npad /\ k \in 1 .. sep + npad /\ ~(k <= sep)
      BY <2>1, <2>3
    <3>2. out[k] = az[k] /\ az[k] = z[k - sep] /\ z[k - sep] = 0
      BY <1>3, <1>5, <1>6, <2>3, <3>1
    <3> QED
      BY <2>3, <3>1, <3>2
  <2>4. CASE sep + npad < k
    <3>1. /\ k - (sep + npad) \in 1 .. n - sep /\ sep + (k - (sep + npad)) = k - npad
          /\ ~(k <= sep) /\ ~(k <= sep + npad)
      BY <1>1, <2>1, <2>4
    <3>2. out[k] = b[k - (sep + npad)] /\ b[k - (sep + npad)] = bytes[sep + (k - (sep + npad))]
      BY <1>4, <1>6, <3>1
    <3> QED
      BY <3>1, <3>2
  <2> QED
    BY <2>1, <2>2, <2>3, <2>4
<1> QED
  BY <1>6, <1>7, <1>8

\* The image is what the arguments ask for, and its pages and those for the
\* data fit into the address space.
LEMMA Image ==
    ASSUME prog \in Programs
    PROVE  /\ Len(insns) \in Nat
           /\ Len(insns) <= prog.file + npad
           /\ \A k \in Nat : Wanted(k) = ImageByte(k) /\ ImageByte(k) \in Nat
<1> DEFINE file == prog.file
           sep == prog.sep
           from == IF prog.off < prog.file THEN prog.off ELSE 0
           bytes == ReadFile(prog.file, prog.off)
<1>1. /\ file \in Nat /\ prog.off \in Nat /\ sep \in Nat /\ npad \in Nat
      /\ sep <= file /\ (prog.off < file => sep <= file - prog.off)
  BY ProgramFacts
<1>2. /\ bytes \in Seq(Nat) /\ from \in Nat /\ from <= file
      /\ Len(bytes) = file - from
      /\ \A k \in 1 .. file - from : bytes[k] = from + k
  BY <1>1, ReadFileBytes
<1>3. sep <= file - from
  BY <1>1
<1> HIDE DEF file, sep, from, bytes
<1>4. CASE sep = 0
  <2>1. insns = bytes
    BY <1>4 DEF insns, Padded, bytes, sep
  <2>2. \A k \in Nat : Wanted(k) = IF from + k < file THEN from + k + 1 ELSE 0
    BY <1>1, <1>2, <1>4 DEF Wanted, from, file, sep
  <2>3. \A k \in Nat : ImageByte(k) = IF k < file - from THEN from + (k + 1) ELSE 0
    <3> TAKE k \in Nat
    <3>1. ImageByte(k) = IF k < file - from THEN bytes[k + 1] ELSE 0
      BY <1>2, <2>1 DEF ImageByte
    <3>2. k < file - from => bytes[k + 1] = from + (k + 1)
      BY <1>1, <1>2
    <3> QED
      BY <3>1, <3>2
  <2>4. Len(insns) \in Nat /\ Len(insns) <= file + npad
    BY <1>1, <1>2, <2>1
  <2>5. ASSUME NEW k \in Nat
        PROVE  Wanted(k) = ImageByte(k) /\ ImageByte(k) \in Nat
    <3>1. k < file - from <=> from + k < file
      BY <1>1, <1>2
    <3>2. from + (k + 1) = from + k + 1 /\ from + k + 1 \in Nat
      BY <1>2
    <3> QED
      BY <2>2, <2>3, <3>1, <3>2
  <2> QED
    BY <2>4, <2>5 DEF file
<1>5. CASE sep # 0
  <2>1. insns = Padded(bytes, sep)
    BY DEF insns, bytes, sep
  <2>2. sep \in Nat \ {0} /\ sep <= Len(bytes)
    BY <1>1, <1>2, <1>3, <1>5
  <2>3. /\ Len(insns) = Len(bytes) + npad
        /\ \A k \in 1 .. Len(bytes) + npad :
              insns[k] = IF k <= sep THEN bytes[k]
                         ELSE IF k <= sep + npad THEN 0 ELSE bytes[k - npad]
    BY <1>1, <1>2, <2>1, <2>2, PaddedBytes, Zenon
  <2>4. \A k \in Nat : Wanted(k) = IF k < sep THEN from + k + 1
                                   ELSE IF k < sep + npad THEN 0
                                   ELSE IF from + (k - npad) < file THEN from + (k - npad) + 1 ELSE 0
    BY <1>1, <1>2, <1>3, <1>5 DEF Wanted, file, from, sep
  <2>5. \A k \in Nat : ImageByte(k) = IF k < sep THEN from + k + 1
                                      ELSE IF k < sep + npad THEN 0
                                      ELSE IF from + (k - npad) < file THEN from + (k - npad) + 1
                                      ELSE 0
    <3> TAKE k \in Nat
    <3>1. /\ ImageByte(k) = IF k < Len(insns) THEN insns[k + 1] ELSE 0
          /\ Len(insns) = (file - from) + npad
      BY <1>2, <2>3 DEF ImageByte
    <3>2. CASE k < sep
      <4>1. k + 1 \in 1 .. Len(bytes) + npad /\ k + 1 <= sep /\ k < Len(insns)
            /\ k + 1 \in 1 .. file - from
        BY <1>1, <1>2, <1>3, <3>1, <3>2
      <4>2. insns[k + 1] = bytes[k + 1] /\ bytes[k + 1] = from + (k + 1)
        BY <1>2, <2>3, <4>1
      <4> QED
        BY <1>1, <1>2, <3>1, <3>2, <4>1, <4>2
    <3>3. CASE sep <= k /\ k < sep + npad
      <4>1. k + 1 \in 1 .. Len(bytes) + npad /\ ~(k + 1 <= sep) /\ k + 1 <= sep + npad
            /\ k < Len(insns)
        BY <1>1, <1>2, <1>3, <3>1, <3>3
      <4>2. insns[k + 1] = 0
        BY <2>3, <4>1
      <4> QED
        BY <1>1, <3>1, <3>3, <4>1, <4>2
    <3>4. CASE sep + npad <= k
      <4>1. ~(k < sep) /\ ~(k < sep + npad)
            /\ (k < Len(insns) <=> from + (k - npad) < file)
        BY <1>1, <1>2, <3>1, <3>4
      <4>2. ASSUME k < Len(insns)
            PROVE  insns[k + 1] = from + (k - npad) + 1
        <5>1. k + 1 \in 1 .. Len(bytes) + npad /\ ~(k + 1 <= sep) /\ ~(k + 1 <= sep + npad)
              /\ (k + 1) - npad \in 1 .. file - from
          BY <1>1, <1>2, <1>3, <3>1, <3>4, <4>2
        <5>2. insns[k + 1] = bytes[(k + 1) - npad]
          BY <2>3, <5>1
        <5>3. bytes[(k + 1) - npad] = from + ((k + 1) - npad)
          BY <1>2, <5>1
        <5> QED
          BY <1>1, <1>2, <5>2, <5>3
      <4> QED
        BY <3>1, <4>1, <4>2
    <3> QED
      BY <1>1, <3>2, <3>3, <3>4
  <2>6. Len(insns) \in Nat /\ Len(insns) <= file + npad
    BY <1>1, <1>2, <2>3
  <2>7. ASSUME NEW k \in Nat
        PROVE  Wanted(k) = ImageByte(k) /\ ImageByte(k) \in Nat
    <3>1. Wanted(k) = ImageByte(k)
      BY <2>4, <2>5
    <3>2. ~(k < sep + npad) => from + (k - npad) + 1 \in Nat
      BY <1>1, <1>2
    <3>3. from + k + 1 \in Nat
      BY <1>2
    <3> QED
      BY <2>5, <3>1, <3>2, <3>3
  <2> QED
    BY <2>6, <2>7 DEF file
<1> QED
  BY <1>4, <1>5
LEMMA PageCount ==
    ASSUME prog \in Programs
    PROVE  /\ n_pages \in Nat \ {0} /\ NumDataPages \in Nat \ {0}
           /\ n_pages + NumDataPages <= NumVPages
           /\ Len(insns) \in Nat
           /\ Len(insns) < n_pages * PageSize
           /\ \A j \in Nat : j * PageSize < Len(insns) => j < n_pages
<1> DEFINE len == Len(insns)
           d == len \div PageSize
           room == NumVPages - NumDataPages
<1>1. /\ len \in Nat /\ len < TotalBytes - NumDataPages * PageSize
      /\ NumDataPages \in Nat \ {0} /\ PageSize \in Nat \ {0} /\ NumVPages \in Nat \ {0}
      /\ TotalBytes = NumVPages * PageSize
  <2>1. /\ prog.file \in Nat /\ npad \in Nat /\ NumDataPages \in Nat \ {0}
        /\ prog.file + npad < TotalBytes - NumDataPages * PageSize
    BY ProgramFacts
  <2>2. len \in Nat /\ len <= prog.file + npad
    BY Image
  <2>3. NumDataPages * PageSize \in Nat
    BY <2>1, Sizes0
  <2> QED
    BY <2>1, <2>2, <2>3, Sizes0
<1>2. n_pages = d + 1
  BY DEF n_pages
<1> HIDE DEF len
<1>3. d \in Nat /\ d * PageSize \in Nat /\ d * PageSize <= len /\ len < d * PageSize + PageSize
  BY <1>1
<1> HIDE DEF d
<1>4. room \in Int /\ len < room * PageSize
  BY <1>1
<1>5. room \in Nat
  BY <1>1, <1>4
<1> HIDE DEF room
<1>6. d < room
  <2>1. room < d => room * PageSize + PageSize <= d * PageSize
    BY <1>3, <1>5, PagesApart
  <2>2. room * PageSize \in Nat
    BY <1>1, <1>5
  <2>3. ~(room < d)
    BY <1>1, <1>3, <1>4, <2>1, <2>2
  <2>4. d # room
    BY <1>1, <1>3, <1>4, <2>2
  <2> QED
    BY <1>3, <1>5, <2>3, <2>4
<1>7. n_pages + NumDataPages <= NumVPages
  BY <1>1, <1>2, <1>3, <1>6 DEF room
<1>8. len < n_pages * PageSize
  BY <1>1, <1>2, <1>3
<1>9. ASSUME NEW j \in Nat, j * PageSize < len
      PROVE  j < n_pages
  <2>1. d < j => d * PageSize + PageSize <= j * PageSize
    BY <1>3, PagesApart
  <2>2. j * PageSize \in Nat
    BY <1>1
  <2> QED
    BY <1>1, <1>2, <1>3, <1>9, <2>1, <2>2
<1> QED
  BY <1>1, <1>2, <1>3, <1>7, <1>8, <1>9 DEF len

-----------------------------------------------------------------------------
(* The invariant of the loader.                                            *)

\* The j-th page from the start of the program.
Pg(j) == PageOf(Add(prog.start, j * PageSize))

\* Pages mapped so far, those of the program and of the data behind it.
Reached ==
    IF stage = "map_text" THEN i
    ELSE IF stage = "load" THEN n_pages
    ELSE IF stage = "map_data" THEN n_pages + i
    ELSE n_pages + NumDataPages

\* The image has been copied to page j, so far as it goes.
Copied(j) == stage \in {"map_data", "start", "loop"} \/ (stage = "load" /\ j < i)

PageIn(j) ==
    /\ table[Pg(j)].page_addr \in Frame
    /\ table[Pg(j)] = PresentEntry(table[Pg(j)].page_addr,
                                   IF j < n_pages THEN PermBits ELSE prog.perms)
    /\ \A o \in 0 .. PageSize - 1 :
          mem[table[Pg(j)].page_addr][o] = IF Copied(j) THEN ImageByte(j * PageSize + o) ELSE 0

\* Exactly the pages reached are mapped, each on a frame of its own, and hold
\* what has been copied to them and zeros.
ImageInv ==
    /\ Reached > 0 => Offset(prog.start) = 0
    /\ \A p \in VPage : table[p].present => \E j \in 0 .. Reached - 1 : p = Pg(j)
    /\ \A j \in 0 .. Reached - 1 : PageIn(j)
    /\ \A j, k \in 0 .. Reached - 1 :
          table[Pg(j)].page_addr = table[Pg(k)].page_addr => j = k

Counts ==
    /\ i \in Nat /\ i <= NumVPages
    /\ stage = "map_text" => i <= n_pages
    /\ stage = "load" => i <= n_pages
    /\ stage = "map_data" => i <= NumDataPages

Memory == [Frame -> [0 .. PageSize - 1 -> Nat]]
Stages == {"map_text", "load", "map_data", "start", "loop", "ended"}

LoaderInv ==
    /\ prog \in Programs
    /\ stage \in Stages
    /\ failure \in {"none", "range", "mapped", "memory"}
    /\ (failure # "none") = (stage = "ended")
    /\ table \in [VPage -> Entry]
    /\ mem \in Memory
    /\ Counts
    /\ stage # "loop" => Called(prog.entry)
    /\ stage # "ended" => ImageInv

\* The pages of a program and its data do not meet, wherever they wrap.
LEMMA ImagePages ==
    ASSUME prog \in Programs, Offset(prog.start) = 0
    PROVE  /\ \A j \in 0 .. n_pages + NumDataPages - 1 : Pg(j) \in VPage
           /\ \A j, k \in 0 .. n_pages + NumDataPages - 1 : Pg(j) = Pg(k) => j = k
<1>1. /\ prog.start \in VAddr /\ PageOf(prog.start) \in Nat /\ PageOf(prog.start) < NumVPages
      /\ NumVPages \in Nat \ {0} /\ PageSize \in Nat \ {0}
      /\ 0 \in 0 .. PageSize - 1
  BY ProgramFacts, Address, Sizes0 DEF VPage
<1>2. n_pages \in Nat /\ NumDataPages \in Nat /\ n_pages + NumDataPages <= NumVPages
  BY PageCount
<1>3. ASSUME NEW j \in 0 .. n_pages + NumDataPages - 1
      PROVE  /\ j \in 0 .. NumVPages - 1
             /\ Pg(j) \in VPage
             /\ Pg(j) = IF PageOf(prog.start) + j < NumVPages THEN PageOf(prog.start) + j
                        ELSE (PageOf(prog.start) + j) - NumVPages
  <2>1. j \in 0 .. NumVPages - 1
    BY <1>1, <1>2
  <2> QED
    BY <1>1, <2>1, RangePage DEF Pg
<1>4. ASSUME NEW j \in 0 .. n_pages + NumDataPages - 1,
             NEW k \in 0 .. n_pages + NumDataPages - 1, Pg(j) = Pg(k)
      PROVE  j = k
  BY <1>1, <1>3, <1>4
<1> QED
  BY <1>3, <1>4

LEMMA ReachedRange ==
    ASSUME LoaderInv, stage # "ended"
    PROVE  Reached \in Nat /\ Reached <= n_pages + NumDataPages
BY PageCount DEF LoaderInv, Counts, Reached

LEMMA LoaderInit ==
    ASSUME LaunchInit
    PROVE  LoaderInv
<1>1. table \in [VPage -> Entry] /\ \A p \in VPage : ~table[p].present
  BY DEF LaunchInit, NoEntry, Entry
<1>2. mem \in Memory
  BY HostMemoryAssumption DEF LaunchInit, Memory
<1>3. Reached = 0
  BY DEF LaunchInit, Reached
<1>4. ImageInv
  BY <1>1, <1>3 DEF ImageInv
<1>5. Counts
  BY PageCount, Sizes0 DEF LaunchInit, Counts
<1> QED
  BY <1>1, <1>2, <1>4, <1>5 DEF LaunchInit, LoaderInv, Stages

\* The page map_range is at.
LEMMA RangeFacts ==
    ASSUME LoaderInv, Mapping, i < RangeSize, RangeAccepted
    PROVE  /\ Offset(prog.start) = 0
           /\ PageOf(CurAddr) = Pg(Reached)
           /\ Reached \in Nat /\ Reached < n_pages + NumDataPages
           /\ RangePerms = IF Reached < n_pages THEN PermBits ELSE prog.perms
           /\ stage = "map_data" => Reached >= n_pages
<1>1. /\ prog \in Programs /\ i \in Nat /\ n_pages \in Nat \ {0} /\ NumDataPages \in Nat \ {0}
      /\ n_pages + NumDataPages <= NumVPages /\ NumVPages \in Nat \ {0}
      /\ PageSize \in Nat \ {0} /\ TotalBytes = NumVPages * PageSize
      /\ prog.start \in VAddr
  BY PageCount, ProgramFacts, Sizes0 DEF LoaderInv, Counts
<1>2. CASE stage = "map_text"
  <2>1. RangeStart = prog.start /\ RangeSize = n_pages /\ Reached = i /\ RangePerms = PermBits
    BY <1>2 DEF RangeStart, RangeSize, RangePerms, Reached
  <2>2. Offset(prog.start) = 0
    BY <2>1 DEF RangeAccepted
  <2> QED
    BY <1>1, <1>2, <2>1, <2>2 DEF CurAddr, Pg
<1>3. CASE stage = "map_data"
  <2>1. /\ RangeStart = Add(prog.start, n_pages * PageSize) /\ RangeSize = NumDataPages
        /\ Reached = n_pages + i /\ RangePerms = prog.perms
    BY <1>3 DEF RangeStart, RangeSize, RangePerms, Reached
  <2>2. Offset(prog.start) = 0
    BY <1>1, <1>3, <2>1 DEF LoaderInv, ImageInv
  <2>3. Add(Add(prog.start, n_pages * PageSize), i * PageSize) = Add(prog.start, Reached * PageSize)
    <3>1. n_pages * PageSize \in Nat /\ i * PageSize \in Nat
      BY <1>1
    <3>2. n_pages * PageSize + i * PageSize = Reached * PageSize
      BY <1>1, <2>1
    <3>3. Reached \in Nat /\ Reached < NumVPages
      BY <1>1, <2>1
    <3>4. Reached * PageSize <= TotalBytes
      BY <1>1, <3>3, PagesApart
    <3>5. n_pages * PageSize + i * PageSize <= TotalBytes
      BY <3>2, <3>4
    <3>6. Add(Add(prog.start, n_pages * PageSize), i * PageSize)
            = Add(prog.start, n_pages * PageSize + i * PageSize)
      BY <1>1, <3>1, <3>5, AddTwice
    <3> QED
      BY <3>2, <3>6
  <2> QED
    BY <1>1, <1>3, <2>1, <2>2, <2>3 DEF CurAddr, Pg
<1> QED
  BY <1>2, <1>3 DEF Mapping

\* The page that add_page maps is the next of the image, on a frame no page of
\* it has.
LEMMA MapPageStep ==
    ASSUME LoaderInv, MapPage
    PROVE  LoaderInv'
<1>0. PICK R \in Nat, perms \in SUBSET PermBits :
          R = Reached /\ perms = IF R < n_pages THEN PermBits ELSE prog.perms
  <2>1. stage # "ended"
    BY DEF MapPage, Mapping
  <2>2. Reached \in Nat
    BY <2>1, ReachedRange
  <2>3. (IF Reached < n_pages THEN PermBits ELSE prog.perms) \in SUBSET PermBits
    BY ProgramFacts DEF LoaderInv
  <2> QED
    BY <2>2, <2>3, Zenon
<1>1. /\ Mapping /\ i < RangeSize /\ RangeAccepted /\ stage # "ended" /\ stage # "loop"
      /\ prog \in Programs /\ ImageInv
      /\ table \in [VPage -> Entry] /\ mem \in Memory
  BY DEF MapPage, Mapping, LoaderInv
<1>2. /\ Offset(prog.start) = 0 /\ PageOf(CurAddr) = Pg(R)
      /\ R < n_pages + NumDataPages
      /\ RangePerms = perms
      /\ stage = "map_data" => R >= n_pages
  BY <1>0, <1>1, RangeFacts
<1>3. /\ n_pages \in Nat \ {0} /\ NumDataPages \in Nat \ {0}
      /\ PageSize \in Nat \ {0} /\ i \in Nat
  BY <1>1, PageCount, Sizes0 DEF LoaderInv, Counts
<1>4. /\ \A j \in 0 .. R : Pg(j) \in VPage
      /\ \A j, k \in 0 .. R : Pg(j) = Pg(k) => j = k
  <2>1. 0 .. R \subseteq 0 .. n_pages + NumDataPages - 1
    BY <1>2, <1>3
  <2> QED
    BY <1>1, <1>2, <2>1, ImagePages
<1>5. PICK f \in Alloc(UsedFrames) : /\ table' = [table EXCEPT ![Pg(R)] = PresentEntry(f, perms)]
                                     /\ mem' = [mem EXCEPT ![f] = NewPage]
  BY <1>2 DEF MapPage, MemoryOf
<1>6. /\ i' = i + 1 /\ prog' = prog /\ stage' = stage /\ failure' = failure
      /\ UNCHANGED <<phase, PC, pc, curr, cached, cached_next, cached_next_prev, real_ins, spill,
                     bad_next, due>>
  BY DEF MapPage, copies
<1>7. /\ insns' = insns /\ n_pages' = n_pages
      /\ \A j \in Nat : Pg(j)' = Pg(j)
      /\ \A k : ImageByte(k)' = ImageByte(k)
  BY <1>6 DEF insns, n_pages, Pg, ImageByte
<1>8. \A j \in 0 .. R - 1 : table[Pg(j)].page_addr \in UsedFrames /\ PageIn(j)
  BY <1>0, <1>1, <1>2, <1>4 DEF ImageInv, PageIn, UsedFrames, Mapped, PresentEntry
<1>9. f \in Frame /\ f \notin UsedFrames
  <2>1. UsedFrames \subseteq Frame
    <3> SUFFICES ASSUME NEW p \in VPage, table[p].present
                 PROVE  table[p].page_addr \in Frame
      BY DEF UsedFrames, Mapped
    <3>1. PICK j \in 0 .. R - 1 : p = Pg(j)
      BY <1>0, <1>1 DEF ImageInv
    <3> QED
      BY <1>8, <3>1 DEF PageIn
  <2> QED
    BY <2>1, AllocAssumption
<1>10. /\ \A p \in VPage : table'[p] = IF p = Pg(R) THEN PresentEntry(f, perms) ELSE table[p]
       /\ \A g \in Frame : mem'[g] = IF g = f THEN NewPage ELSE mem[g]
       /\ table' \in [VPage -> Entry] /\ mem' \in Memory
  <2>1. PresentEntry(f, perms) \in Entry
    BY <1>2, <1>9 DEF PresentEntry, Entry
  <2>2. NewPage \in [0 .. PageSize - 1 -> Nat]
    BY DEF NewPage
  <2> QED
    BY <1>1, <1>5, <1>9, <2>1, <2>2 DEF Memory
<1>11. Reached' = R + 1
  BY <1>0, <1>1, <1>3, <1>6, <1>7 DEF Reached, Mapping
<1>12. \A j \in 0 .. R : Copied(j)' = Copied(j)
  BY <1>1, <1>6 DEF Copied, Mapping
<1>13. ASSUME NEW j \in 0 .. R - 1
       PROVE  table'[Pg(j)] = table[Pg(j)] /\ PageIn(j)'
  <2>1. j \in 0 .. R /\ j \in Nat /\ R \in 0 .. R /\ j # R
    BY <1>2
  <2>2. Pg(j) \in VPage /\ Pg(j) # Pg(R) /\ Pg(j)' = Pg(j)
    BY <1>4, <1>7, <2>1
  <2>3. table'[Pg(j)] = table[Pg(j)]
    BY <1>10, <2>2
  <2>4. mem'[table[Pg(j)].page_addr] = mem[table[Pg(j)].page_addr]
    BY <1>8, <1>9, <1>10 DEF PageIn
  <2>5. Copied(j)' = Copied(j)
    BY <1>12, <2>1
  <2> QED
    BY <1>6, <1>7, <1>8, <2>2, <2>3, <2>4, <2>5 DEF PageIn
<1>14. table'[Pg(R)] = PresentEntry(f, perms) /\ PageIn(R)'
  <2>1. R \in 0 .. R /\ Pg(R) \in VPage /\ Pg(R)' = Pg(R)
    BY <1>2, <1>4, <1>7
  <2>2. table'[Pg(R)] = PresentEntry(f, perms) /\ table'[Pg(R)].page_addr = f
    BY <1>10, <2>1 DEF PresentEntry
  <2>3. ASSUME NEW o \in 0 .. PageSize - 1
        PROVE  mem'[f][o] = IF Copied(R) THEN ImageByte(R * PageSize + o) ELSE 0
    <3>1. mem'[f][o] = 0
      BY <1>9, <1>10 DEF NewPage
    <3>2. CASE Copied(R)
      <4>1. R >= n_pages
        BY <1>1, <1>2, <3>2 DEF Copied, Mapping
      <4>2. n_pages * PageSize <= R * PageSize /\ R * PageSize \in Nat /\ n_pages * PageSize \in Nat
        <5>1. R * PageSize \in Nat /\ n_pages * PageSize \in Nat
          BY <1>2, <1>3
        <5>2. n_pages < R => n_pages * PageSize + PageSize <= R * PageSize
          BY <1>2, <1>3, PagesApart
        <5>3. n_pages = R => n_pages * PageSize = R * PageSize
          OBVIOUS
        <5> QED
          BY <1>2, <1>3, <4>1, <5>1, <5>2, <5>3
      <4>3. Len(insns) \in Nat /\ Len(insns) < n_pages * PageSize
        BY <1>1, PageCount
      <4>4. ~(R * PageSize + o < Len(insns))
        BY <1>3, <4>2, <4>3
      <4> QED
        BY <3>1, <3>2, <4>4 DEF ImageByte
    <3> QED
      BY <3>1, <3>2
  <2>4. Copied(R)' = Copied(R)
    BY <1>12, <2>1
  <2> QED
    BY <1>0, <1>6, <1>7, <1>9, <2>1, <2>2, <2>3, <2>4 DEF PageIn
<1>15. ImageInv'
  <2>1. Offset(prog.start)' = 0
    BY <1>2, <1>6 DEF Offset
  <2>2. ASSUME NEW p \in VPage, table'[p].present
        PROVE  \E j \in 0 .. R : p = Pg(j)'
    <3>1. CASE p = Pg(R)
      BY <1>2, <1>7, <3>1
    <3>2. CASE p # Pg(R)
      <4>1. table[p].present
        BY <1>10, <2>2, <3>2
      <4>2. PICK j \in 0 .. R - 1 : p = Pg(j)
        BY <1>0, <1>1, <4>1 DEF ImageInv
      <4> QED
        BY <1>2, <1>7, <4>2
    <3> QED
      BY <3>1, <3>2
  <2>3. \A j \in 0 .. R : PageIn(j)'
    BY <1>2, <1>13, <1>14
  <2>4. ASSUME NEW j \in 0 .. R, NEW k \in 0 .. R,
               table'[Pg(j)'].page_addr = table'[Pg(k)'].page_addr
        PROVE  j = k
    <3>1. j \in Nat /\ k \in Nat /\ Pg(j)' = Pg(j) /\ Pg(k)' = Pg(k)
      BY <1>2, <1>7
    <3>2. CASE j = R /\ k # R
      <4>1. k \in 0 .. R - 1
        BY <1>2, <3>2
      <4> QED
        BY <1>8, <1>9, <1>13, <1>14, <2>4, <3>1, <3>2, <4>1 DEF PresentEntry
    <3>3. CASE k = R /\ j # R
      <4>1. j \in 0 .. R - 1
        BY <1>2, <3>3
      <4> QED
        BY <1>8, <1>9, <1>13, <1>14, <2>4, <3>1, <3>3, <4>1 DEF PresentEntry
    <3>4. CASE j # R /\ k # R
      <4>1. j \in 0 .. R - 1 /\ k \in 0 .. R - 1
        BY <1>2, <3>4
      <4> QED
        BY <1>0, <1>1, <1>13, <2>4, <3>1, <4>1 DEF ImageInv
    <3> QED
      BY <3>2, <3>3, <3>4
  <2>5. Reached' - 1 = R
    BY <1>2, <1>11
  <2> QED
    BY <1>2, <2>1, <2>2, <2>3, <2>4, <2>5 DEF ImageInv
<1>16. Counts'
  <2>1. n_pages + NumDataPages <= NumVPages /\ NumVPages \in Nat
    BY <1>1, PageCount, Sizes0
  <2>2. stage = "map_text" => i' <= n_pages
    BY <1>1, <1>3, <1>6 DEF RangeSize
  <2>3. stage = "map_data" => i' <= NumDataPages
    BY <1>1, <1>3, <1>6 DEF RangeSize
  <2>4. i' \in Nat /\ i' <= NumVPages
    BY <1>1, <1>3, <1>6, <2>1, <2>2, <2>3 DEF Mapping
  <2> QED
    BY <1>1, <1>6, <1>7, <2>2, <2>3, <2>4 DEF Counts, Mapping
<1>17. Called(prog.entry)'
  BY <1>1, <1>6 DEF LoaderInv, Called
<1> QED
  BY <1>6, <1>10, <1>15, <1>16, <1>17 DEF LoaderInv

LEMMA LoadPageStep ==
    ASSUME LoaderInv, LoadPage
    PROVE  LoaderInv'
<1>1. /\ stage = "load" /\ prog \in Programs /\ ImageInv /\ Reached = n_pages
      /\ table \in [VPage -> Entry] /\ mem \in Memory
      /\ i' = i + 1 /\ UNCHANGED <<prog, stage, failure, vars>>
      /\ i * PageSize < Len(insns)
  BY DEF LoadPage, LoaderInv, Reached
<1>2. /\ n_pages \in Nat \ {0} /\ NumDataPages \in Nat \ {0} /\ PageSize \in Nat \ {0} /\ i \in Nat
      /\ n_pages + NumDataPages <= NumVPages /\ NumVPages \in Nat
      /\ i < n_pages
  BY <1>1, PageCount, Sizes0 DEF LoaderInv, Counts
<1>3. /\ table' = table /\ prog' = prog /\ stage' = stage
      /\ insns' = insns /\ n_pages' = n_pages /\ Reached' = Reached
      /\ \A j \in Nat : Pg(j)' = Pg(j)
      /\ \A k : ImageByte(k)' = ImageByte(k)
  BY <1>1 DEF vars, insns, n_pages, Pg, ImageByte, Reached
<1>4. PICK f \in Frame : f = table[Pg(i)].page_addr /\ i \in 0 .. Reached - 1 /\ PageIn(i)
  <2>1. i \in 0 .. Reached - 1
    BY <1>1, <1>2
  <2> QED
    BY <1>1, <2>1 DEF ImageInv, PageIn
<1> DEFINE LoadedByte(o) ==
              IF i * PageSize + o < Len(insns) THEN insns[i * PageSize + o + 1] ELSE mem[f][o]
<1>5. mem' = [mem EXCEPT ![f] = [o \in 0 .. PageSize - 1 |-> LoadedByte(o)]]
  BY <1>4 DEF LoadPage, Pte, Pg
<1> HIDE DEF LoadedByte
<1>6. ASSUME NEW o \in 0 .. PageSize - 1
      PROVE  LoadedByte(o) = ImageByte(i * PageSize + o) /\ LoadedByte(o) \in Nat
  <2>1. i * PageSize + o \in Nat
    BY <1>2
  <2>2. mem[f][o] = 0
    BY <1>1, <1>2, <1>4 DEF PageIn, Copied
  <2>3. LoadedByte(o) = IF i * PageSize + o < Len(insns) THEN insns[i * PageSize + o + 1] ELSE mem[f][o]
    BY DEF LoadedByte
  <2>4. LoadedByte(o) = ImageByte(i * PageSize + o)
    BY <2>2, <2>3 DEF ImageByte
  <2> QED
    BY <1>1, <2>1, <2>4, Image
<1>7. /\ mem' \in Memory
      /\ \A g \in Frame \ {f} : mem'[g] = mem[g]
      /\ \A o \in 0 .. PageSize - 1 : mem'[f][o] = ImageByte(i * PageSize + o)
  <2>1. [o \in 0 .. PageSize - 1 |-> LoadedByte(o)] \in [0 .. PageSize - 1 -> Nat]
    BY <1>6
  <2> QED
    BY <1>1, <1>5, <1>6, <2>1 DEF Memory
<1>8. ASSUME NEW j \in 0 .. Reached - 1
      PROVE  PageIn(j)'
  <2>1. j \in Nat /\ PageIn(j) /\ Pg(j)' = Pg(j)
    BY <1>1, <1>2, <1>3 DEF ImageInv
  <2>2. CASE j = i
    <3>1. Copied(j)'
      BY <1>1, <1>2, <1>3, <2>2 DEF Copied
    <3>2. \A o \in 0 .. PageSize - 1 : mem'[f][o] = ImageByte(j * PageSize + o)
      BY <1>7, <2>2
    <3>3. table'[Pg(j)'] = table[Pg(j)] /\ table[Pg(j)].page_addr = f
      BY <1>3, <1>4, <2>1, <2>2
    <3> QED
      BY <1>3, <2>1, <3>1, <3>2, <3>3 DEF PageIn
  <2>3. CASE j # i
    <3>1. Copied(j)' = Copied(j)
      BY <1>1, <1>2, <1>3, <2>1, <2>3 DEF Copied
    <3>2. table[Pg(j)].page_addr # f
      BY <1>1, <1>4, <2>3 DEF ImageInv
    <3>3. mem'[table[Pg(j)].page_addr] = mem[table[Pg(j)].page_addr]
      BY <1>7, <2>1, <3>2 DEF PageIn
    <3> QED
      BY <1>3, <2>1, <3>1, <3>3 DEF PageIn
  <2> QED
    BY <2>2, <2>3
<1>9. ImageInv'
  <2>1. \A j \in 0 .. Reached - 1 : j \in Nat
    BY <1>1, <1>2
  <2>2. Offset(prog.start)' = Offset(prog.start)
    BY <1>3 DEF Offset
  <2> QED
    BY <1>1, <1>3, <1>8, <2>1, <2>2 DEF ImageInv
<1>10. Counts'
  BY <1>1, <1>2, <1>3 DEF Counts
<1>11. Called(prog.entry)'
  BY <1>1 DEF LoaderInv, Called, vars, copies
<1> QED
  BY <1>1, <1>3, <1>7, <1>9, <1>10, <1>11 DEF LoaderInv

\* Where map_range or write_many is through with its range.
LEMMA ReturnsStep ==
    ASSUME LoaderInv, MapReturns \/ LoadReturns
    PROVE  LoaderInv'
<1>1. /\ stage \in {"map_text", "load", "map_data"}
      /\ stage' = IF stage = "map_text" THEN "load"
                  ELSE IF stage = "load" THEN "map_data" ELSE "start"
      /\ i' = 0 /\ UNCHANGED <<prog, mem, failure, vars>>
      /\ stage = "map_text" => i = n_pages
      /\ stage = "map_data" => i = NumDataPages
      /\ stage = "load" => i * PageSize >= Len(insns)
      /\ prog \in Programs /\ ImageInv
  BY DEF MapReturns, LoadReturns, Mapping, RangeSize, LoaderInv
<1>2. /\ n_pages \in Nat \ {0} /\ NumDataPages \in Nat \ {0} /\ PageSize \in Nat \ {0} /\ i \in Nat
      /\ Len(insns) \in Nat /\ NumVPages \in Nat
  BY <1>1, PageCount, Sizes0 DEF LoaderInv, Counts
<1>3. /\ table' = table /\ mem' = mem /\ prog' = prog
      /\ insns' = insns /\ n_pages' = n_pages
      /\ \A j \in Nat : Pg(j)' = Pg(j)
      /\ \A k : ImageByte(k)' = ImageByte(k)
  BY <1>1 DEF vars, insns, n_pages, Pg, ImageByte
<1>4. Reached' = Reached /\ Reached \in Nat
  BY <1>1, <1>2, <1>3 DEF Reached
<1>5. ASSUME NEW j \in 0 .. Reached - 1
      PROVE  PageIn(j)'
  <2>1. j \in Nat /\ PageIn(j) /\ Pg(j)' = Pg(j)
    BY <1>1, <1>3, <1>4 DEF ImageInv
  <2>2. CASE stage # "load"
    <3>1. Copied(j)' = Copied(j)
      BY <1>1, <2>1, <2>2 DEF Copied
    <3> QED
      BY <1>3, <2>1, <3>1 DEF PageIn
  <2>3. CASE stage = "load"
    <3>1. Copied(j)' /\ (~Copied(j) => i <= j)
      BY <1>1, <1>2, <2>1, <2>3 DEF Copied
    <3>2. ASSUME NEW o \in 0 .. PageSize - 1, ~Copied(j)
          PROVE  ImageByte(j * PageSize + o) = 0
      <4>1. i * PageSize \in Nat /\ j * PageSize \in Nat /\ o \in Nat
        BY <1>2, <2>1
      <4>2. i * PageSize <= j * PageSize
        <5>1. i < j => i * PageSize + PageSize <= j * PageSize
          BY <1>2, <2>1, PagesApart
        <5>2. i = j => i * PageSize = j * PageSize
          OBVIOUS
        <5> QED
          BY <1>2, <2>1, <3>1, <3>2, <4>1, <5>1, <5>2
      <4>3. ~(j * PageSize + o < Len(insns))
        BY <1>1, <1>2, <2>3, <4>1, <4>2
      <4> QED
        BY <4>3 DEF ImageByte
    <3> QED
      BY <1>3, <2>1, <3>1, <3>2 DEF PageIn
  <2> QED
    BY <2>2, <2>3
<1>6. ImageInv'
  <2>1. \A j \in 0 .. Reached - 1 : j \in Nat
    BY <1>4
  <2>2. Offset(prog.start)' = Offset(prog.start)
    BY <1>3 DEF Offset
  <2> QED
    BY <1>1, <1>3, <1>4, <1>5, <2>1, <2>2 DEF ImageInv
<1>7. Counts'
  BY <1>1, <1>2, <1>3 DEF Counts
<1>8. Called(prog.entry)'
  BY <1>1 DEF LoaderInv, Called, vars, copies
<1> QED
  BY <1>1, <1>3, <1>6, <1>7, <1>8 DEF LoaderInv, Stages

\* The loop, and the way into it, change nothing the loader made.
LEMMA LoopKeepsImage ==
    ASSUME LoaderInv, StartLoop \/ (stage = "loop" /\ LoopStep /\ UNCHANGED main)
    PROVE  LoaderInv'
<1>1. /\ stage \in {"start", "loop"} /\ stage' = "loop"
      /\ UNCHANGED <<prog, i, mem, failure>> /\ table' = table
  BY DEF StartLoop, Enter, main, LoopStep, FetchSamePage, FetchNewPage, FetchFaults, Stop,
         Sequential, Jump, Execute
<1>2. /\ insns' = insns /\ n_pages' = n_pages /\ Reached' = Reached
      /\ \A j : Pg(j)' = Pg(j)
      /\ \A k : ImageByte(k)' = ImageByte(k)
      /\ \A j : Copied(j)' = Copied(j)
      /\ Offset(prog.start)' = Offset(prog.start)
  BY <1>1 DEF insns, n_pages, Pg, ImageByte, Reached, Copied, Offset
<1>3. \A j : PageIn(j)' = PageIn(j)
  BY <1>1, <1>2 DEF PageIn
<1>4. ImageInv'
  BY <1>1, <1>2, <1>3 DEF LoaderInv, ImageInv
<1>5. Counts'
  BY <1>1, <1>2 DEF LoaderInv, Counts
<1> QED
  BY <1>1, <1>4, <1>5 DEF LoaderInv, Stages

LEMMA MapThrowsStep ==
    ASSUME LoaderInv, MapThrows
    PROVE  LoaderInv'
<1>1. /\ stage' = "ended" /\ failure' \in {"range", "mapped", "memory"}
      /\ UNCHANGED <<prog, i, mem, vars>> /\ stage # "loop"
  BY DEF MapThrows, Mapping, MapExceptions
<1>2. Counts'
  BY <1>1 DEF LoaderInv, Counts
<1>3. Called(prog.entry)'
  BY <1>1 DEF LoaderInv, Called, vars, copies
<1> QED
  BY <1>1, <1>2, <1>3 DEF LoaderInv, Stages, vars

LEMMA LoaderNext ==
    ASSUME LoaderInv, [LaunchNext]_allVars
    PROVE  LoaderInv'
<1>1. CASE UNCHANGED allVars
  <2>1. /\ UNCHANGED <<prog, stage, i, mem, failure, table>>
        /\ Called(prog.entry)' = Called(prog.entry)
    BY <1>1 DEF allVars, main, vars, copies, Called
  <2>2. ImageInv' = ImageInv /\ Counts' = Counts
    BY <2>1 DEF ImageInv, Counts, Reached, n_pages, insns, Pg, PageIn, Copied, ImageByte, Offset
  <2> QED
    BY <2>1, <2>2 DEF LoaderInv
<1>2. CASE LaunchNext
  <2>1. ASSUME stage = "loop" /\ LoopStep /\ UNCHANGED main
        PROVE  LoaderInv'
    BY <2>1, LoopKeepsImage
  <2> QED
    BY <1>2, <2>1, MapPageStep, MapThrowsStep, LoadPageStep, ReturnsStep, LoopKeepsImage
       DEF LaunchNext, InLoop, LoopStep
<1> QED
  BY <1>1, <1>2

-----------------------------------------------------------------------------
(* What the loader leaves.                                                 *)

\* A byte of the image or of the data, by its distance from the start.
LEMMA ByteFacts ==
    ASSUME LoaderInv, stage \in {"start", "loop"},
           NEW k \in 0 .. (n_pages + NumDataPages) * PageSize - 1
    PROVE  /\ Pte(Add(prog.start, k)).present
           /\ ByteAt(Add(prog.start, k)) = Wanted(k)
<1>1. /\ prog \in Programs /\ ImageInv /\ Reached = n_pages + NumDataPages
  BY DEF LoaderInv, Reached
<1>2. /\ n_pages \in Nat \ {0} /\ NumDataPages \in Nat \ {0}
      /\ n_pages + NumDataPages <= NumVPages /\ prog.start \in VAddr
      /\ PageSize \in Nat \ {0} /\ NumVPages \in Nat \ {0}
  BY <1>1, PageCount, ProgramFacts, Sizes0
<1>3. PICK j \in 0 .. (n_pages + NumDataPages) - 1, o \in 0 .. PageSize - 1 : k = j * PageSize + o
  <2>1. n_pages + NumDataPages \in Nat
    BY <1>2
  <2> QED
    BY <2>1, ByteOfRange
<1>4. Offset(prog.start) = 0
  BY <1>1, <1>2 DEF ImageInv
<1>5. PageOf(Add(prog.start, k)) = Pg(j) /\ Offset(Add(prog.start, k)) = o
  <2>1. j \in 0 .. NumVPages - 1 /\ prog.start \in VAddr
    BY <1>2
  <2>2. LET p == PageOf(Add(prog.start, j * PageSize))
        IN  /\ PageOf(Add(prog.start, j * PageSize + o)) = p
            /\ Offset(Add(prog.start, j * PageSize + o)) = o
    BY <1>4, <2>1, RangePage
  <2> QED
    BY <1>3, <2>2 DEF Pg
<1>6. PageIn(j) /\ Copied(j) /\ j * PageSize + o \in Nat
  BY <1>1, <1>2 DEF ImageInv, Copied
<1>7. Wanted(k) = ImageByte(k)
  BY <1>1, <1>3, <1>6, Image
<1> QED
  BY <1>3, <1>5, <1>6, <1>7 DEF PageIn, Pte, ByteAt, PresentEntry

\* Only those addresses are mapped.
LEMMA MappedByte ==
    ASSUME LoaderInv, stage \in {"start", "loop"}, NEW a \in VAddr, Pte(a).present
    PROVE  /\ (a - prog.start) % TotalBytes \in 0 .. (n_pages + NumDataPages) * PageSize - 1
           /\ Add(prog.start, (a - prog.start) % TotalBytes) = a
<1>1. /\ prog \in Programs /\ ImageInv /\ Reached = n_pages + NumDataPages
  BY DEF LoaderInv, Reached
<1>2. /\ n_pages \in Nat \ {0} /\ NumDataPages \in Nat \ {0}
      /\ n_pages + NumDataPages <= NumVPages /\ prog.start \in VAddr
      /\ PageSize \in Nat \ {0} /\ NumVPages \in Nat \ {0}
      /\ TotalBytes \in Nat \ {0} /\ TotalBytes = NumVPages * PageSize
  BY <1>1, PageCount, ProgramFacts, Sizes0
<1>3. PICK j \in 0 .. (n_pages + NumDataPages) - 1 : PageOf(a) = Pg(j)
  BY <1>1, Address DEF ImageInv, Pte
<1>4. Offset(prog.start) = 0
  BY <1>1, <1>2 DEF ImageInv
<1>5. PICK o \in 0 .. PageSize - 1 : o = Offset(a)
  BY AddressParts
<1>6. PICK k \in Nat : k = j * PageSize + o
  BY <1>2
<1>7. a = Add(prog.start, k)
  <2>1. j \in 0 .. NumVPages - 1 /\ prog.start \in VAddr
    BY <1>2
  <2>2. Add(prog.start, j * PageSize + o) = PageOf(Add(prog.start, j * PageSize)) * PageSize + o
    BY <1>4, <2>1, RangePage
  <2>3. a = PageOf(a) * PageSize + o
    BY <1>5, AddressParts
  <2> QED
    BY <1>3, <1>6, <2>2, <2>3 DEF Pg
<1>8. k < (n_pages + NumDataPages) * PageSize /\ (n_pages + NumDataPages) * PageSize <= TotalBytes
  <2>1. PICK m \in Nat : m = n_pages + NumDataPages
    BY <1>2
  <2>2. j \in Nat /\ j < m /\ m <= NumVPages
    BY <1>2, <2>1
  <2>3. j * PageSize + PageSize <= m * PageSize
    BY <2>1, <2>2, PagesApart
  <2>4. m < NumVPages => m * PageSize + PageSize <= NumVPages * PageSize
    BY <1>2, <2>1, PagesApart
  <2>5. m = NumVPages => m * PageSize = NumVPages * PageSize
    OBVIOUS
  <2>6. j * PageSize \in Nat /\ m * PageSize \in Nat
    BY <1>2, <2>1, <2>2
  <2> QED
    BY <1>2, <1>6, <2>1, <2>2, <2>3, <2>4, <2>5, <2>6
<1>9. (a - prog.start) % TotalBytes = k
  <2>1. prog.start \in Nat /\ prog.start < TotalBytes /\ k < TotalBytes /\ a \in Nat /\ a < TotalBytes
    <3>1. prog.start \in Nat /\ prog.start < TotalBytes /\ a \in Nat /\ a < TotalBytes
      BY <1>2, Address
    <3>2. k < TotalBytes
      <4>1. PICK m \in Int : m = (n_pages + NumDataPages) * PageSize
        BY <1>2
      <4>2. k < m /\ m <= TotalBytes
        BY <1>8, <4>1
      <4> QED
        BY <1>2, <4>2
    <3> QED
      BY <3>1, <3>2
  <2>2. a = IF prog.start + k < TotalBytes THEN prog.start + k ELSE (prog.start + k) - TotalBytes
    BY <1>2, <1>7, <2>1, WrapSum
  <2>3. a - prog.start = IF prog.start + k < TotalBytes THEN k ELSE k - TotalBytes
    BY <1>2, <2>1, <2>2
  <2>4. k % TotalBytes = k /\ (k - TotalBytes) % TotalBytes = k
    BY <1>2, <2>1
  <2> QED
    BY <2>3, <2>4
<1> QED
  BY <1>2, <1>7, <1>8, <1>9

\* From the first page of the range to the last, however allocations end and
\* whatever the frames held before: what the image needs is there.
THEOREM LoaderInvariant == LaunchSpec => []LoaderInv
<1>1. LaunchInit => LoaderInv
  BY LoaderInit
<1>2. LoaderInv /\ [LaunchNext]_allVars => LoaderInv'
  BY LoaderNext
<1> QED
  BY <1>1, <1>2, PTL DEF LaunchSpec

\* Every program that gets as far as emu_loop finds its image, and zeros behind
\* it, from its start to the end of its data: at any alignment of its end, with
\* padding or without, and where the range wraps.
THEOREM LoaderIsCorrect == LaunchSpec => []ImageLoaded
<1>1. LoaderInv => ImageLoaded
  BY ByteFacts DEF ImageLoaded
<1> QED
  BY <1>1, LoaderInvariant, PTL

-----------------------------------------------------------------------------
(* The launches that go through.                                           *)

LEMMA LoadableRoom ==
    ASSUME prog \in Programs, Loadable
    PROVE  /\ n_pages + NumDataPages <= NumVPages - 1
           /\ n_pages + NumDataPages <= (TotalBytes - 1) \div PageSize
<1>1. /\ n_pages \in Nat /\ NumDataPages \in Nat /\ PageSize \in Nat \ {0} /\ NumVPages \in Nat \ {0}
      /\ prog.start \in Nat /\ TotalBytes = NumVPages * PageSize /\ TotalBytes \in Nat
  BY PageCount, ProgramFacts, Address, Sizes0
<1>2. PICK m \in Nat : m = n_pages + NumDataPages
  BY <1>1
<1>3. m * PageSize \in Nat /\ m * PageSize < TotalBytes
  BY <1>1, <1>2 DEF Loadable
<1>4. m < NumVPages
  <2>1. NumVPages < m => NumVPages * PageSize + PageSize <= m * PageSize
    BY <1>1, PagesApart
  <2>2. NumVPages = m => NumVPages * PageSize = m * PageSize
    OBVIOUS
  <2> QED
    BY <1>1, <1>3, <2>1, <2>2
<1>5. m <= (TotalBytes - 1) \div PageSize
  <2>1. PICK t \in Nat : t = TotalBytes - 1
    BY <1>1, <1>3
  <2>2. PICK q \in Nat : q = t \div PageSize /\ t < q * PageSize + PageSize
    BY <1>1, <2>1
  <2>3. q < m => q * PageSize + PageSize <= m * PageSize
    BY <1>1, PagesApart
  <2>4. m * PageSize <= t /\ q * PageSize \in Nat
    BY <1>1, <1>3, <2>1, <2>2
  <2> QED
    BY <1>1, <1>3, <2>1, <2>2, <2>3, <2>4
<1> QED
  BY <1>1, <1>2, <1>4, <1>5

\* Both ranges begin at a page and are accepted.
LEMMA LoadableAccepted ==
    ASSUME LoaderInv, Loadable, Mapping
    PROVE  RangeAccepted
<1>1. /\ prog \in Programs /\ prog.start \in VAddr /\ Offset(prog.start) = 0
      /\ n_pages \in Nat \ {0} /\ NumDataPages \in Nat \ {0}
      /\ n_pages + NumDataPages <= NumVPages - 1
      /\ n_pages + NumDataPages <= (TotalBytes - 1) \div PageSize
      /\ PageSize \in Nat \ {0} /\ NumVPages \in Nat \ {0} /\ TotalBytes \in Nat \ {0}
  BY PageCount, LoadableRoom, ProgramFacts, Sizes0 DEF LoaderInv, Loadable
<1>2. (TotalBytes - 1) \div PageSize \in Int
  BY <1>1
<1>3. RangeSize \in Nat /\ RangeSize <= n_pages + NumDataPages
  BY <1>1 DEF RangeSize, Mapping
<1>4. RangeStart \in VAddr /\ Offset(RangeStart) = 0
  <2>1. CASE stage = "map_text"
    BY <1>1, <2>1 DEF RangeStart
  <2>2. CASE stage = "map_data"
    <3>1. n_pages \in 0 .. NumVPages - 1 /\ prog.start \in VAddr /\ Offset(prog.start) = 0
      BY <1>1
    <3>2. PICK o \in 0 .. PageSize - 1 : o = 0
      BY <1>1
    <3>3. LET a == Add(prog.start, n_pages * PageSize + o)
          IN  a \in VAddr /\ Offset(a) = o
      BY <3>1, RangePage
    <3>4. n_pages * PageSize + o = n_pages * PageSize
      BY <1>1, <3>2
    <3> QED
      BY <2>2, <3>2, <3>3, <3>4 DEF RangeStart
  <2> QED
    BY <2>1, <2>2 DEF Mapping
<1>5. Add(RangeStart, RangeSize * PageSize) <= TotalBytes - 1
  <2>1. PICK s \in Nat : s = RangeStart
    BY <1>4, Address
  <2>2. PICK n \in Nat : n = RangeSize * PageSize
    BY <1>1, <1>3
  <2>3. (s + n) % TotalBytes < TotalBytes /\ (s + n) % TotalBytes \in Int
    BY <1>1
  <2> QED
    BY <1>1, <2>1, <2>2, <2>3 DEF Add
<1>6. RangeSize <= (TotalBytes - 1) \div PageSize
  BY <1>1, <1>2, <1>3
<1> QED
  BY <1>4, <1>5, <1>6 DEF RangeAccepted

\* The next page of a range is not mapped yet.
LEMMA NextPageIsFree ==
    ASSUME LoaderInv, Mapping, i < RangeSize, RangeAccepted
    PROVE  ~Pte(CurAddr).present /\ PageOf(CurAddr) \in VPage
<1>1. PICK r \in Nat : /\ r = Reached /\ r < n_pages + NumDataPages
                       /\ PageOf(CurAddr) = Pg(r) /\ Offset(prog.start) = 0
  BY RangeFacts
<1>2. /\ prog \in Programs /\ ImageInv
      /\ n_pages \in Nat /\ NumDataPages \in Nat
  BY PageCount DEF LoaderInv, Mapping
<1>3. r \in 0 .. n_pages + NumDataPages - 1
  BY <1>1, <1>2
<1>4. Pg(r) \in VPage
  BY <1>1, <1>2, <1>3, ImagePages
<1>5. ASSUME table[Pg(r)].present
      PROVE  FALSE
  <2>1. PICK j \in 0 .. r - 1 : Pg(r) = Pg(j)
    BY <1>1, <1>2, <1>4, <1>5 DEF ImageInv
  <2>2. j \in 0 .. n_pages + NumDataPages - 1 /\ j # r
    BY <1>2, <1>3
  <2> QED
    BY <1>1, <1>2, <1>3, <2>1, <2>2, ImagePages
<1> QED
  BY <1>1, <1>4, <1>5 DEF Pte

\* The entry lies on a page of the program.
LEMMA LoadableEntry ==
    ASSUME LoaderInv, Loadable, stage \in {"start", "loop"}
    PROVE  IsRX(Pte(prog.entry))
<1>1. /\ prog \in Programs /\ ImageInv /\ Reached = n_pages + NumDataPages
      /\ Offset(prog.start) = 0 /\ prog.start \in VAddr /\ prog.entry \in VAddr
      /\ prog.start \in Nat /\ prog.entry \in Nat /\ prog.entry < TotalBytes
      /\ prog.entry >= prog.start
      /\ prog.entry < prog.start + n_pages * PageSize
  BY ProgramFacts, Address DEF LoaderInv, Reached, Loadable
<1>2. /\ n_pages \in Nat \ {0} /\ NumDataPages \in Nat \ {0} /\ n_pages + NumDataPages <= NumVPages
      /\ PageSize \in Nat \ {0} /\ NumVPages \in Nat \ {0} /\ TotalBytes \in Nat \ {0}
  BY <1>1, PageCount, Sizes0
<1>3. PICK k \in 0 .. n_pages * PageSize - 1 : prog.entry = prog.start + k
  <2>1. PICK b \in Nat : b = n_pages * PageSize
    BY <1>2
  <2>2. prog.entry - prog.start \in 0 .. b - 1
    BY <1>1, <2>1
  <2> QED
    BY <1>1, <2>1, <2>2
<1>4. PICK j \in 0 .. n_pages - 1, o \in 0 .. PageSize - 1 : k = j * PageSize + o
  BY <1>2, ByteOfRange
<1>5. prog.entry = Add(prog.start, j * PageSize + o)
  <2>1. k \in Nat /\ k <= TotalBytes
    BY <1>1, <1>2, <1>3
  <2>2. Add(prog.start, k) = prog.entry
    BY <1>1, <1>3, <2>1, WrapSum
  <2> QED
    BY <1>4, <2>2
<1>6. PageOf(prog.entry) = Pg(j)
  <2>1. j \in 0 .. NumVPages - 1
    BY <1>2
  <2> QED
    BY <1>1, <1>5, <2>1, RangePage DEF Pg
<1>7. PageIn(j) /\ j < n_pages
  BY <1>1, <1>2 DEF ImageInv
<1> QED
  BY <1>6, <1>7 DEF PageIn, Pte, PresentEntry, IsRX, PermBits

\* A start aligned to a page with room behind it, and an entry within the
\* program, are all a launch needs: main's exceptions are then only those of a
\* host without memory, and emu_loop is entered on an executable page.
THEOREM LoadableLaunches == LaunchSpec => []LoadableIsLaunched
<1> DEFINE Served == Loadable => failure \in {"none", "memory"}
<1>1. LaunchInit => Served
  BY DEF LaunchInit
<1>2. LoaderInv /\ Served /\ [LaunchNext]_allVars => Served'
  <2> SUFFICES ASSUME LoaderInv, Served, [LaunchNext]_allVars
               PROVE  Served'
    OBVIOUS
  <2>1. prog' = prog
    BY DEF LaunchNext, MapPage, MapThrows, MapReturns, LoadPage, LoadReturns, StartLoop,
           InLoop, main, allVars
  <2>2. Loadable' = Loadable
    BY <2>1 DEF Loadable, n_pages, insns, Offset
  <2>3. CASE MapThrows
    <3>1. ASSUME Loadable
          PROVE  MapExceptions = {"memory"}
      <4>1. RangeAccepted /\ ~Pte(CurAddr).present
        BY <2>3, <3>1, LoadableAccepted, NextPageIsFree DEF MapThrows
      <4> QED
        BY <4>1 DEF MapExceptions
    <3> QED
      BY <2>2, <2>3, <3>1 DEF MapThrows
  <2>4. CASE ~MapThrows
    <3>1. failure' = failure
      BY <2>4 DEF LaunchNext, MapPage, MapReturns, LoadPage, LoadReturns, StartLoop, InLoop,
                 main, allVars
    <3> QED
      BY <2>2, <3>1
  <2> QED
    BY <2>3, <2>4
<1>3. LoaderInv /\ Served => LoadableIsLaunched
  BY LoadableEntry DEF LoadableIsLaunched
<1> HIDE DEF Served
<1> QED
  BY <1>1, <1>2, <1>3, LoaderInvariant, PTL DEF LaunchSpec

-----------------------------------------------------------------------------
(* The loop on what the loader left.                                       *)

\* The arguments the loop is right for: the entry is the first byte of a page
\* of the text, not page 0, and the range ends below the last page; or nothing
\* is entered, the start being refused or nothing mapped at the entry.
RightArguments ==
    \/ Loadable /\ Offset(prog.entry) = 0 /\ PageOf(prog.entry) # 0
    \/ Offset(prog.start) # 0
    \/ \A j \in 0 .. n_pages + NumDataPages - 1 : Pg(j) # PageOf(prog.entry)

LaunchInv == LoaderInv /\ LoopInv /\ RightArguments

\* The loader prepares what SafeLaunch asks for.
LEMMA EnteredSafely ==
    ASSUME LoaderInv, RightArguments, stage = "start"
    PROVE  SafeLaunch(table, prog.entry) \/ ~Pte(prog.entry).present
<1>1. /\ prog \in Programs /\ ImageInv /\ Reached = n_pages + NumDataPages
  BY DEF LoaderInv, Reached
<1>2. /\ n_pages \in Nat \ {0} /\ NumDataPages \in Nat \ {0}
      /\ n_pages + NumDataPages <= NumVPages /\ prog.start \in VAddr /\ prog.entry \in VAddr
      /\ PageSize \in Nat \ {0} /\ NumVPages \in Nat \ {0}
      /\ TotalBytes \in Nat \ {0} /\ TotalBytes = NumVPages * PageSize
  BY <1>1, PageCount, ProgramFacts, Sizes0
<1>3. Offset(prog.start) = 0
  BY <1>1, <1>2 DEF ImageInv
<1>4. CASE \A j \in 0 .. n_pages + NumDataPages - 1 : Pg(j) # PageOf(prog.entry)
  <2>1. \A j \in 0 .. Reached - 1 : Pg(j) # PageOf(prog.entry)
    BY <1>1, <1>2, <1>4
  <2>2. PageOf(prog.entry) \in VPage
    BY <1>2, Address
  <2> QED
    BY <1>1, <2>1, <2>2 DEF ImageInv, Pte
<1>5. CASE Loadable /\ Offset(prog.entry) = 0 /\ PageOf(prog.entry) # 0
  <2> DEFINE s == PageOf(prog.start)
             e == PageOf(prog.entry)
  <2>1. /\ s \in Nat /\ e \in Nat /\ s < NumVPages /\ e < NumVPages
        /\ prog.start = s * PageSize /\ prog.entry = e * PageSize
        /\ e \in VPage
    BY <1>2, <1>3, <1>5, AddressParts DEF VPage
  <2>2. /\ s * PageSize + (n_pages + NumDataPages) * PageSize < NumVPages * PageSize
        /\ e * PageSize >= s * PageSize
        /\ e * PageSize < s * PageSize + n_pages * PageSize
    BY <1>2, <1>5, <2>1 DEF Loadable
  <2> HIDE DEF s, e
  <2>3. s + n_pages + NumDataPages < NumVPages
    <3>1. PICK m \in Nat : m = s + (n_pages + NumDataPages)
      BY <1>2, <2>1
    <3>2. m * PageSize = s * PageSize + (n_pages + NumDataPages) * PageSize
      BY <1>2, <2>1, <3>1
    <3>3. m * PageSize \in Nat /\ NumVPages * PageSize \in Nat /\ m * PageSize < NumVPages * PageSize
      BY <1>2, <2>2, <3>1, <3>2
    <3>4. NumVPages < m => NumVPages * PageSize + PageSize <= m * PageSize
      BY <1>2, <3>1, PagesApart
    <3>5. m = NumVPages => m * PageSize = NumVPages * PageSize
      OBVIOUS
    <3> QED
      BY <1>2, <2>1, <3>1, <3>3, <3>4, <3>5
  <2>4. s <= e /\ e < s + n_pages
    <3>1. PICK m \in Nat : m = s + n_pages
      BY <1>2, <2>1
    <3>2. m * PageSize = s * PageSize + n_pages * PageSize
      BY <1>2, <2>1, <3>1
    <3>3. s * PageSize \in Nat /\ e * PageSize \in Nat /\ m * PageSize \in Nat
          /\ e * PageSize < m * PageSize
      BY <1>2, <2>1, <2>2, <3>1, <3>2
    <3>4. m < e => m * PageSize + PageSize <= e * PageSize
      BY <2>1, <3>1, PagesApart
    <3>5. m = e => m * PageSize = e * PageSize
      OBVIOUS
    <3>6. e < s => e * PageSize + PageSize <= s * PageSize
      BY <2>1, PagesApart
    <3> QED
      BY <1>2, <2>1, <2>2, <3>1, <3>3, <3>4, <3>5, <3>6
  <2>5. ASSUME NEW j \in 0 .. (n_pages + NumDataPages) - 1
        PROVE  Pg(j) = s + j
    <3>1. j \in 0 .. NumVPages - 1 /\ s + j < NumVPages
      BY <1>2, <2>1, <2>3
    <3>2. 0 \in 0 .. PageSize - 1
      BY <1>2
    <3> QED
      BY <1>2, <1>3, <3>1, <3>2, RangePage DEF Pg, s
  <2>6. IsRX(table[e])
    <3>1. PICK j \in 0 .. (n_pages + NumDataPages) - 1 : j = e - s /\ j < n_pages
      BY <1>2, <2>1, <2>4
    <3>2. Pg(j) = e
      BY <2>1, <2>5, <3>1
    <3>3. PageIn(j)
      BY <1>1 DEF ImageInv
    <3> QED
      BY <3>1, <3>2, <3>3 DEF PageIn, PresentEntry, IsRX, PermBits
  <2>7. ~IsRX(table[NumVPages - 1])
    <3>1. NumVPages - 1 \in VPage
      BY <1>2 DEF VPage
    <3>2. \A j \in 0 .. (n_pages + NumDataPages) - 1 : Pg(j) # NumVPages - 1
      BY <1>2, <2>1, <2>3, <2>5
    <3> QED
      BY <1>1, <3>1, <3>2 DEF ImageInv, IsRX
  <2> QED
    BY <1>5, <2>6, <2>7 DEF SafeLaunch, e
<1> QED
  BY <1>3, <1>4, <1>5 DEF RightArguments

LEMMA LaunchInitInv ==
    ASSUME LaunchInit, RightArguments
    PROVE  LaunchInv
<1>1. LoaderInv
  BY LoaderInit
<1>2. Called(prog.entry) /\ prog.entry \in VAddr /\ table \in [VPage -> Entry]
  BY <1>1, ProgramFacts DEF LaunchInit, LoaderInv
<1>3. TypeOK
  <2>1. NoEntry \in Entry
    BY DEF NoEntry, Entry
  <2>2. real_ins \in Pointer /\ real_ins.off < PageSize
    BY <1>2, Sizes0 DEF Called, Pointer
  <2> QED
    BY <1>2, <2>1, <2>2, Sizes0 DEF TypeOK, Called
<1> QED
  BY <1>1, <1>2, <1>3 DEF LaunchInv, LoopInv, Called

LEMMA LaunchNextInv ==
    ASSUME SafeJumps, LaunchInv, [LaunchNext]_allVars
    PROVE  LaunchInv'
<1>1. LoaderInv /\ LoopInv /\ RightArguments
  BY DEF LaunchInv
<1>2. LoaderInv'
  BY <1>1, LoaderNext
<1>3. prog' = prog
  BY DEF LaunchNext, MapPage, MapThrows, MapReturns, LoadPage, LoadReturns, StartLoop, InLoop,
         main, allVars
<1>4. RightArguments'
  BY <1>1, <1>3 DEF RightArguments, Loadable, n_pages, insns, Pg, Offset, PageOf
<1>5. LoopInv'
  <2>1. CASE MapPage
    <3>1. UNCHANGED <<phase, PC, pc, curr, copies, real_ins, spill, bad_next, due>> /\ phase = "call"
      BY <1>1, <2>1 DEF MapPage, Mapping, LoaderInv, Called
    <3> QED
      BY <1>1, <1>2, <3>1 DEF LoopInv, TypeOK, LoaderInv, copies
  <2>2. CASE MapThrows \/ MapReturns \/ LoadPage \/ LoadReturns \/ UNCHANGED allVars
    <3>1. UNCHANGED vars
      BY <2>2 DEF MapThrows, MapReturns, LoadPage, LoadReturns, allVars
    <3> QED
      BY <1>1, <3>1 DEF vars, copies, LoopInv, TypeOK, Entering, Running, GoesOn, HasJumped,
                        Decoding, KnowsNext, Home, Pte
  <2>3. CASE StartLoop
    <3>1. stage = "start" /\ Enter /\ due = prog.entry
      BY <1>1, <2>3 DEF StartLoop, LoaderInv, Called
    <3>2. Admitted
      BY <1>1, <3>1, EnteredSafely DEF Admitted
    <3> QED
      BY <1>1, <3>1, <3>2, EnterStep
  <2>4. CASE LoopStep
    BY <1>1, <2>4, LoopStepInv
  <2> QED
    BY <2>1, <2>2, <2>3, <2>4 DEF LaunchNext, InLoop, LoopStep
<1> QED
  BY <1>2, <1>4, <1>5 DEF LaunchInv

\* main and the loop it calls, as one system.
THEOREM LaunchInvariant ==
    ASSUME SafeJumps
    PROVE  LaunchSpec /\ RightArguments => []LaunchInv
<1>1. LaunchInit /\ RightArguments => LaunchInv
  BY LaunchInitInv
<1>2. LaunchInv /\ [LaunchNext]_allVars => LaunchInv'
  BY LaunchNextInv
<1> QED
  BY <1>1, <1>2, PTL DEF LaunchSpec

\* The state of main, of its memory and of the loop keep their types, main ends
\* early exactly where it caught an exception, and emu_loop is entered where it
\* is right or at once refused.
THEOREM LaunchTypeCorrect ==
    ASSUME SafeJumps
    PROVE  LaunchSpec /\ RightArguments => []LaunchTypeOK
<1>1. LaunchInv => LaunchTypeOK
  <2> SUFFICES ASSUME LaunchInv PROVE LaunchTypeOK
    OBVIOUS
  <2>1. LoaderInv /\ LoopInv /\ RightArguments /\ NumVPages \in Nat
    BY Sizes0 DEF LaunchInv
  <2>2. i \in 0 .. NumVPages
    BY <2>1 DEF LoaderInv, Counts
  <2>3. \A f \in Frame : DOMAIN mem[f] = 0 .. PageSize - 1
    BY <2>1 DEF LoaderInv, Memory
  <2>4. stage = "start" => SafeLaunch(table, prog.entry) \/ ~Pte(prog.entry).present
    BY <2>1, EnteredSafely
  <2> QED
    BY <2>1, <2>2, <2>3, <2>4 DEF LaunchTypeOK, LoaderInv, LoopInv, Stages
<1> QED
  BY <1>1, LaunchInvariant, PTL

\* Launched with such arguments, decode_inst is given the bytes at the pc.
THEOREM LaunchedFetchIsCorrect ==
    ASSUME SafeJumps
    PROVE  LaunchSpec /\ RightArguments => [](FetchesAtPC /\ NeverDegrades)
<1>1. LaunchInv => FetchesAtPC /\ NeverDegrades
  BY FetchedAtPC DEF LaunchInv, FetchesAtPC, LoopInv, NeverDegrades, TypeOK
<1> QED
  BY <1>1, LaunchInvariant, PTL

\* Loader and loop agree on where the program lies: the bytes the decoder is
\* given are those the arguments put at the distance of the pc from the start.
THEOREM DecodesWhatWasLoaded ==
    ASSUME SafeJumps
    PROVE  LaunchSpec /\ RightArguments => []DecodesImage
<1>1. LaunchInv => DecodesImage
  <2> SUFFICES ASSUME LaunchInv, stage = "loop", phase = "decode", NEW k \in 0 .. max_ins - 1
               PROVE  mem[Fetched(k).frame][Fetched(k).off]
                        = Wanted((pc + k - prog.start) % TotalBytes)
    BY DEF DecodesImage
  <2>1. /\ LoaderInv /\ LoopInv /\ pc \in VAddr /\ prog.start \in VAddr
        /\ IsRX(Pte(Add(pc, k))) /\ Fetched(k) = Home(Add(pc, k))
    BY FetchedAtPC, ProgramFacts DEF LaunchInv, LoopInv, TypeOK, LoaderInv
  <2>2. PICK a \in VAddr : a = Add(pc, k)
    <3>1. k \in Nat /\ k <= PageSize
      BY Sizes0
    <3> QED
      BY <2>1, <3>1, Sums
  <2>3. mem[Fetched(k).frame][Fetched(k).off] = ByteAt(a)
    BY <2>1, <2>2 DEF Home, ByteAt
  <2>4. PICK d \in 0 .. (n_pages + NumDataPages) * PageSize - 1 :
             d = (a - prog.start) % TotalBytes /\ Add(prog.start, d) = a
    BY <2>1, <2>2, MappedByte DEF IsRX
  <2>5. ByteAt(a) = Wanted(d)
    BY <2>1, <2>4, ByteFacts
  <2>6. d = (pc + k - prog.start) % TotalBytes
    <3>1. /\ pc \in Nat /\ pc < TotalBytes /\ prog.start \in Nat /\ prog.start < TotalBytes
          /\ k \in Nat /\ k <= TotalBytes /\ TotalBytes \in Nat \ {0}
      <4>1. PageSize <= TotalBytes
        BY <2>1, Address, Sizes0
      <4>2. k \in Nat /\ k <= PageSize /\ PageSize \in Nat /\ TotalBytes \in Nat \ {0}
        BY Sizes0
      <4>3. k <= TotalBytes
        BY <4>1, <4>2
      <4> QED
        BY <2>1, <4>2, <4>3, Address
    <3>2. a = IF pc + k < TotalBytes THEN pc + k ELSE (pc + k) - TotalBytes
      BY <2>1, <2>2, <3>1, WrapSum
    <3>3. PICK x \in Int : x = a - prog.start /\ -TotalBytes < x /\ x < TotalBytes
      BY <3>1, <3>2
    <3>4. pc + k - prog.start = x \/ pc + k - prog.start = x + TotalBytes
      BY <3>1, <3>2, <3>3
    <3>5. (x + TotalBytes) % TotalBytes = x % TotalBytes
      <4>1. CASE x >= 0
        BY <3>1, <3>3, <4>1
      <4>2. CASE x < 0
        <5>1. (x + TotalBytes) % TotalBytes = x + TotalBytes
          BY <3>1, <3>3, <4>2
        <5>2. x % TotalBytes = x + TotalBytes
          BY <3>1, <3>3, <4>2
        <5> QED
          BY <5>1, <5>2
      <4> QED
        BY <3>3, <4>1, <4>2
    <3> QED
      BY <2>4, <3>3, <3>4, <3>5
  <2> QED
    BY <2>3, <2>5, <2>6
<1> QED
  BY <1>1, LaunchInvariant, PTL

===============================================================================
