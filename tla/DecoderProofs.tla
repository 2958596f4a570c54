---------------------------- MODULE DecoderProofs ----------------------------
(***************************************************************************)
(* Theorems about the decoder, for any operand bytes: types and the        *)
(* direction of moves for a window of any length, the finding of operands  *)
(* for every window the longest instruction fits into.                     *)
(***************************************************************************)
EXTENDS Decoder, SequenceTheorems, TLAPS

-----------------------------------------------------------------------------
(* The layouts of data operands the tables have.                           *)

Reversed == {"CALL", "RET", "RETF"}

\* The bytes the operand at a position takes.
Size(f, k) == get_arg_sz(Kind(f.kinds, k))

NoData(f) ==
    /\ f.op \notin Reversed /\ f.num = 0 /\ f.arg_sz = 0
    /\ Size(f, 1) = 0 /\ Size(f, 2) = 0 /\ Size(f, 3) = 0

OneDatum(f) ==
    /\ f.op \notin Reversed /\ f.num = 0 /\ f.arg_sz > 0
    /\ \/ Size(f, 1) = f.arg_sz /\ Size(f, 2) = 0 /\ Size(f, 3) = 0
       \/ Size(f, 1) = 0 /\ Size(f, 2) = f.arg_sz /\ Size(f, 3) = 0
       \/ Size(f, 1) = 0 /\ Size(f, 2) = 0 /\ Size(f, 3) = f.arg_sz

CallForm(f) ==
    /\ f.op = "CALL" /\ f.num = 3
    /\ \E d \in {"d16", "d32"} :
          f.kinds = <<d, "regs", "imm8">> /\ f.arg_sz = get_arg_sz(d) + 2

RetForm(f) ==
    /\ f.op \in {"RET", "RETF"} /\ f.num = 2 /\ f.arg_sz = 2
    /\ f.kinds = <<"regs", "imm8">>

BitForm(f) ==
    /\ f.op \in Bits /\ f.num = 2
    /\ \/ f.kinds = <<"imm8", "d8", "A">> /\ f.arg_sz = 2
       \/ f.kinds = <<"imm8", "abs16">> /\ f.arg_sz = 3
       \/ f.kinds = <<"imm8", "abs32">> /\ f.arg_sz = 5

Layout(f) ==
    /\ NoData(f) \/ OneDatum(f) \/ CallForm(f) \/ RetForm(f) \/ BitForm(f)
    /\ Len(f.kinds) \in 0 .. 3
    /\ f.op \notin {"NONE", "BREAK"}
    /\ f.sz = f.oplen + f.arg_sz /\ f.sz \in 1 .. 7 /\ f.oplen \in {1, 2}

\* The operands of moves, with the positions the mnemonic makes memory.
MoveForm(f) ==
    \/ f.mem = {} /\ \E r \in {"D", "A", "SP", "MDR", "PSW"},
                        k \in {"D", "A", "SP", "MDR", "PSW", "imm8", "imm16", "imm32"} :
                        f.kinds = <<k, r>>
    \/ \E r \in {"D", "A", "SP", "regs"}, a \in {"MA", "abs16", "abs32", "SP"} :
         /\ a = "SP" <=> r = "regs"
         /\ \/ f.mem = {1} /\ f.kinds = <<a, r>>
            \/ f.mem = {2} /\ f.kinds = <<r, a>>
    \/ \E r \in {"D", "A", "SP"}, a \in {"D", "d8", "d16", "d32"}, b \in {"A", "SP"} :
         /\ a = "D" => b = "A"
         /\ \/ f.mem = {1, 2} /\ f.kinds = <<a, b, r>>
            \/ f.mem = {2, 3} /\ f.kinds = <<r, a, b>>

Shape(f) == Layout(f) /\ (f.op \in Moves \cup {"MOVM"} => MoveForm(f))

\* The kinds of lists of any length.
LEMMA KindsOf ==
    /\ Len(<<>>) = 0 /\ \A k \in 1 .. 3 : Kind(<<>>, k) = "none"
    /\ \A a : /\ Len(<<a>>) = 1 /\ Kind(<<a>>, 1) = a
              /\ Kind(<<a>>, 2) = "none" /\ Kind(<<a>>, 3) = "none"
    /\ \A a, b : /\ Len(<<a, b>>) = 2 /\ Kind(<<a, b>>, 1) = a /\ Kind(<<a, b>>, 2) = b
                 /\ Kind(<<a, b>>, 3) = "none"
    /\ \A a, b, c : /\ Len(<<a, b, c>>) = 3 /\ Kind(<<a, b, c>>, 1) = a
                    /\ Kind(<<a, b, c>>, 2) = b /\ Kind(<<a, b, c>>, 3) = c
BY DEF Kind

\* The sizes of the kinds.
LEMMA SizesOf ==
    /\ \A k \in {"imm8", "d8", "regs"} : get_arg_sz(k) = 1
    /\ \A k \in {"imm16", "d16", "abs16"} : get_arg_sz(k) = 2
    /\ \A k \in {"imm32", "d32", "abs32"} : get_arg_sz(k) = 4
    /\ \A k \in {"none", "D", "A", "MA", "SP", "PC", "MDR", "PSW"} : get_arg_sz(k) = 0
BY DEF get_arg_sz

\* The cases of the decoder's switches, table by table.
LEMMA OneByteForms ==
    \A f \in Sn0to5 \cup Sn6toBandE \cup SnC \cup SnD : Shape(f)
<1> USE KindsOf, SizesOf DEF S, Form, Shape, Layout, MoveForm, NoData, OneDatum, CallForm, RetForm, BitForm, Reversed,
            Size, Moves, Bits, Bcc, Lcc, Reg
<1>1. \A f \in Sn0to5 : Shape(f)
  BY SMTT(60) DEF Sn0to5
<1>2. \A f \in Sn6toBandE : Shape(f)
  BY SMTT(60) DEF Sn6toBandE
<1>3. \A f \in SnC : Shape(f)
  BY SMTT(60) DEF SnC
<1>4. \A f \in SnD : Shape(f)
  BY SMTT(60) DEF SnD
<1> HIDE DEF Shape
<1> QED
  BY <1>1, <1>2, <1>3, <1>4

LEMMA TwoByteForms ==
    \A f \in DnF0 \cup DnF1 \cup DnF2 \cup DnF3F4 \cup DnF8 \cup DnFA \cup DnFC \cup DnFE : Shape(f)
<1> USE KindsOf, SizesOf DEF D, Form, Shape, Layout, MoveForm, NoData, OneDatum, CallForm, RetForm, BitForm, Reversed,
            Size, Moves, Bits, Reg
<1>1. \A f \in DnF0 : Shape(f)
  BY SMTT(60) DEF DnF0
<1>2. \A f \in DnF1 : Shape(f)
  BY SMTT(60) DEF DnF1
<1>3. \A f \in DnF2 : Shape(f)
  BY SMTT(60) DEF DnF2
<1>4. \A f \in DnF3F4 : Shape(f)
  BY SMTT(60) DEF DnF3F4
<1>5. \A f \in DnF8 : Shape(f)
  <2>1. \A f \in DnF8 : Layout(f)
    BY SMTT(60) DEF DnF8
  <2>2. \A f \in DnF8 : f.op \in Moves \cup {"MOVM"} => MoveForm(f)
    BY SMTT(60) DEF DnF8
  <2> HIDE DEF Layout, MoveForm
  <2> QED
    BY <2>1, <2>2
<1>6. \A f \in DnFA : Shape(f)
  <2>1. \A f \in DnFA : f.op \in Moves => Layout(f)
    BY SMTT(60) DEF DnFA
  <2>2. \A f \in DnFA : f.op \notin Moves => Layout(f)
    BY SMTT(60) DEF DnFA
  <2>3. \A f \in DnFA : f.op \in Moves \cup {"MOVM"} => MoveForm(f)
    BY SMTT(60) DEF DnFA
  <2> HIDE DEF Layout, MoveForm
  <2> QED
    BY <2>1, <2>2, <2>3
<1>7. \A f \in DnFC : Shape(f)
  BY SMTT(60) DEF DnFC
<1>8. \A f \in DnFE : Shape(f)
  BY SMTT(60) DEF DnFE
<1> HIDE DEF Shape
<1> QED
  BY <1>1, <1>2, <1>3, <1>4, <1>5, <1>6, <1>7, <1>8

LEMMA DisplacedForms ==
    ASSUME NEW d, NEW sz, NEW n,
           \/ d = "d8" /\ sz = 3 /\ n = 1
           \/ d = "d16" /\ sz = 4 /\ n = 2
           \/ d = "d32" /\ sz = 6 /\ n = 4,
           NEW f \in Displaced(d, sz, n)
    PROVE  Shape(f)
BY KindsOf, SizesOf, SMTT(60) DEF Displaced, D, Form, Shape, Layout, MoveForm, NoData, OneDatum, Reversed,
                Size, Moves, Reg

Blank(f) ==
    /\ f.op = "NONE" /\ f.kinds = <<>> /\ f.num = 0
    /\ f.oplen = 2 /\ f.arg_sz \in 0 .. 2

\* Every form of the tables has one of the layouts, or is no instruction.
LEMMA AllForms ==
    ASSUME NEW f \in Forms
    PROVE  Shape(f) \/ Blank(f)
<1>1. CASE f \in Sn0to5 \cup Sn6toBandE \cup SnC \cup SnD
  BY <1>1, OneByteForms
<1>2. CASE f \in DnF0 \cup DnF1 \cup DnF2 \cup DnF3F4 \cup DnF8 \cup DnFA \cup DnFC \cup DnFE
  BY <1>2, TwoByteForms
<1>3. CASE f \in Displaced("d8", 3, 1) \cup Displaced("d16", 4, 2) \cup Displaced("d32", 6, 4)
  BY <1>3, DisplacedForms
<1>4. CASE f \in Unencoded
  BY <1>4 DEF Unencoded, Form, Blank
<1> QED
  BY <1>1, <1>2, <1>3, <1>4 DEF Forms

-----------------------------------------------------------------------------
(* Sizes.                                                                  *)

LEMMA Sizes ==
    /\ \A kind : get_arg_sz(kind) \in {0, 1, 2, 4}
    /\ \A kinds, positions : SizeAt(kinds, positions) \in Nat
<1>1. \A kind : get_arg_sz(kind) \in {0, 1, 2, 4}
  BY DEF get_arg_sz
<1> QED
  BY <1>1 DEF SizeAt

\* The bytes announced are those of the kinds.
LEMMA LayoutSizes ==
    ASSUME NEW f, Layout(f)
    PROVE  DataSize(f.kinds) = f.arg_sz /\ f.arg_sz \in 0 .. 6 /\ f.num \in 0 .. 3
<1>1. f.arg_sz \in 0 .. 6
  <2>1. Size(f, 1) \in 0 .. 4 /\ Size(f, 2) \in 0 .. 4 /\ Size(f, 3) \in 0 .. 4
    BY Sizes DEF Size
  <2>2. CASE CallForm(f)
    BY <2>2, SizesOf DEF CallForm
  <2> QED
    BY <2>1, <2>2 DEF Layout, NoData, OneDatum, RetForm, BitForm
<1>2. CASE NoData(f)
  BY <1>1, <1>2 DEF NoData, Size, DataSize, SizeAt
<1>3. CASE OneDatum(f)
  BY <1>1, <1>3 DEF OneDatum, Size, DataSize, SizeAt
<1>4. CASE CallForm(f)
  BY <1>1, <1>4 DEF CallForm, DataSize, SizeAt, Kind, get_arg_sz
<1>5. CASE RetForm(f)
  BY <1>1, <1>5 DEF RetForm, DataSize, SizeAt, Kind, get_arg_sz
<1>6. CASE BitForm(f)
  <2>1. \/ f.kinds = <<"imm8", "d8", "A">> /\ f.arg_sz = 2
        \/ f.kinds = <<"imm8", "abs16">> /\ f.arg_sz = 3
        \/ f.kinds = <<"imm8", "abs32">> /\ f.arg_sz = 5
    BY <1>6 DEF BitForm
  <2>2. DataSize(f.kinds) = f.arg_sz
    <3>1. CASE f.kinds = <<"imm8", "d8", "A">> /\ f.arg_sz = 2
      BY <3>1 DEF DataSize, SizeAt, Kind, get_arg_sz
    <3>2. CASE f.kinds = <<"imm8", "abs16">> /\ f.arg_sz = 3
      BY <3>2 DEF DataSize, SizeAt, Kind, get_arg_sz
    <3>3. CASE f.kinds = <<"imm8", "abs32">> /\ f.arg_sz = 5
      BY <3>3 DEF DataSize, SizeAt, Kind, get_arg_sz
    <3> QED
      BY <2>1, <3>1, <3>2, <3>3
  <2> QED
    BY <1>1, <1>6, <2>2 DEF BitForm
<1> QED
  BY <1>2, <1>3, <1>4, <1>5, <1>6 DEF Layout

\* copy_data_args takes all operand bytes, or none where the instruction was
\* truncated: what an earlier instruction left in num_args does not matter.
LEMMA CopiedAll ==
    ASSUME NEW kinds
    PROVE  Copied(kinds, DataSize(kinds)) = DataSize(kinds) /\ Copied(kinds, 0) = 0
<1> DEFINE totals == {SizeAt(kinds, k .. 3) : k \in 1 .. 4}
<1>1. SizeAt(kinds, 1 .. 3) \in totals /\ SizeAt(kinds, 4 .. 3) \in totals
  OBVIOUS
<1>2. SizeAt(kinds, 4 .. 3) = 0
  BY DEF SizeAt
<1>3. totals \subseteq Nat
  BY Sizes
<1>4. \A t \in totals : t <= DataSize(kinds)
  <2> SUFFICES ASSUME NEW k \in 1 .. 4 PROVE SizeAt(kinds, k .. 3) <= SizeAt(kinds, 1 .. 3)
    BY DEF DataSize
  <2> DEFINE size(j) == get_arg_sz(Kind(kinds, j))
  <2>1. \A j : size(j) \in Nat
    BY Sizes
  <2>2. SizeAt(kinds, 1 .. 3) = size(1) + size(2) + size(3)
    BY DEF SizeAt
  <2>3. SizeAt(kinds, k .. 3) = (IF k <= 1 THEN size(1) ELSE 0) + (IF k <= 2 THEN size(2) ELSE 0)
                                  + (IF k <= 3 THEN size(3) ELSE 0)
    BY DEF SizeAt
  <2> HIDE DEF size
  <2> QED
    BY <2>1, <2>2, <2>3
<1> HIDE DEF totals
<1>5. ASSUME NEW n \in Nat, n \in totals, \A u \in totals : u <= n => u <= n
      PROVE  (CHOOSE t \in totals : t <= n /\ \A u \in totals : u <= n => u <= t) = n
  BY <1>3, <1>5
<1>6. DataSize(kinds) \in Nat /\ DataSize(kinds) \in totals
  BY <1>1, <1>3 DEF DataSize
<1>7. (CHOOSE t \in totals : t <= 0 /\ \A u \in totals : u <= 0 => u <= t) = 0
  BY <1>1, <1>2, <1>5
<1> USE DEF totals
<1> QED
  BY <1>5, <1>6, <1>7 DEF Copied

-----------------------------------------------------------------------------
(* Sequences of operand bytes.                                             *)

LEMMA BytesAreSequence ==
    ASSUME NEW n \in Nat, NEW bytes \in [1 .. n -> Byte]
    PROVE  bytes \in Seq(Byte) /\ Len(bytes) = n
BY LenProperties DEF Byte

LEMMA ReverseBytes ==
    ASSUME NEW n \in Nat, NEW bytes \in [1 .. n -> Byte]
    PROVE  /\ Reverse(bytes) = [p \in 1 .. n |-> bytes[n + 1 - p]]
           /\ Reverse(bytes) \in [1 .. n -> Byte]
           /\ Reverse(bytes) \in Seq(Byte) /\ Len(Reverse(bytes)) = n
<1> DEFINE back == [p \in 1 .. n |-> bytes[n + 1 - p]]
<1>1. Reverse(bytes) = back
  BY BytesAreSequence DEF Reverse
<1>2. back \in [1 .. n -> Byte]
  OBVIOUS
<1> HIDE DEF back
<1>3. back \in Seq(Byte) /\ Len(back) = n
  BY <1>2, BytesAreSequence
<1> QED
  BY <1>1, <1>2, <1>3 DEF back

\* The bytes of CALL after both reversals.
LEMMA CallBytes ==
    ASSUME NEW f, f.op = "CALL", f.arg_sz \in 2 .. 6, NEW bytes \in [1 .. f.arg_sz -> Byte]
    PROVE  /\ Rearranged(f, bytes) \in [1 .. f.arg_sz -> Byte]
           /\ Rearranged(f, bytes)[1] = bytes[f.arg_sz]
           /\ Rearranged(f, bytes)[2] = bytes[f.arg_sz - 1]
           /\ \A p \in 1 .. f.arg_sz - 2 : Rearranged(f, bytes)[p + 2] = bytes[p]
<1> DEFINE n == f.arg_sz
           back == Reverse(bytes)
           head == [p \in 1 .. 2 |-> bytes[n + 1 - p]]
           tail == [p \in 1 .. n - 2 |-> bytes[n + 1 - (p + 2)]]
           text == [p \in 1 .. n - 2 |-> bytes[p]]
<1>0. n \in 2 .. 6 /\ n \in Nat /\ bytes \in [1 .. n -> Byte]
  OBVIOUS
<1> HIDE DEF n
<1>1. /\ back = [p \in 1 .. n |-> bytes[n + 1 - p]]
      /\ back \in [1 .. n -> Byte] /\ back \in Seq(Byte) /\ Len(back) = n
  BY <1>0, ReverseBytes
<1> HIDE DEF back
<1>2. SubSeq(back, 1, 2) = head
  BY <1>0, <1>1, SubSeqProperties
<1>3. SubSeq(back, 3, Len(back)) = tail
  BY <1>0, <1>1
<1>4. head \in [1 .. 2 -> Byte] /\ tail \in [1 .. n - 2 -> Byte] /\ text \in [1 .. n - 2 -> Byte]
  BY <1>0
<1>5. 2 \in Nat /\ n - 2 \in Nat
  BY <1>0
<1>6. Reverse(tail) = text
  <2>1. Reverse(tail) = [p \in 1 .. n - 2 |-> tail[n - 2 + 1 - p]]
    <3> HIDE DEF tail
    <3> QED
      BY <1>4, <1>5, ReverseBytes, Zenon
  <2>2. \A p \in 1 .. n - 2 : tail[n - 2 + 1 - p] = bytes[p]
    BY <1>0
  <2> QED
    BY <2>1, <2>2
<1>7. head[1] = bytes[n] /\ head[2] = bytes[n - 1] /\ \A p \in 1 .. n - 2 : text[p] = bytes[p]
  BY <1>0
<1> HIDE DEF head, tail, text
<1>8. head \in Seq(Byte) /\ Len(head) = 2 /\ text \in Seq(Byte) /\ Len(text) = n - 2
  BY <1>4, <1>5, BytesAreSequence, Zenon
<1>9. Rearranged(f, bytes) = head \o text
  BY <1>2, <1>3, <1>6 DEF Rearranged, back
<1>10. /\ head \o text \in Seq(Byte) /\ Len(head \o text) = n
       /\ \A i \in 1 .. n : (head \o text)[i] = IF i <= 2 THEN head[i] ELSE text[i - 2]
  <2>1. /\ head \o text \in Seq(Byte)
        /\ Len(head \o text) = Len(head) + Len(text)
        /\ \A i \in 1 .. Len(head) + Len(text) :
              (head \o text)[i] = IF i <= Len(head) THEN head[i] ELSE text[i - Len(head)]
    BY <1>8, ConcatProperties, Zenon
  <2>2. Len(head) + Len(text) = n
    BY <1>0, <1>8
  <2> QED
    BY <1>8, <2>1, <2>2
<1>11. head \o text \in [1 .. n -> Byte]
  BY <1>10, LenProperties, Zenon
<1>12. \A p \in 1 .. n - 2 : (head \o text)[p + 2] = text[p]
  BY <1>0, <1>10
<1>13. (head \o text)[1] = bytes[n] /\ (head \o text)[2] = bytes[n - 1]
  BY <1>0, <1>7, <1>10
<1>14. \A p \in 1 .. n - 2 : (head \o text)[p + 2] = bytes[p]
  BY <1>7, <1>12
<1> QED
  BY <1>9, <1>11, <1>13, <1>14 DEF n

\* The bytes of RET and RETF after theirs.
LEMMA RetBytes ==
    ASSUME NEW f, f.op \in {"RET", "RETF"}, NEW bytes \in [1 .. 2 -> Byte]
    PROVE  /\ Rearranged(f, bytes) \in [1 .. 2 -> Byte]
           /\ Rearranged(f, bytes)[1] = bytes[2] /\ Rearranged(f, bytes)[2] = bytes[1]
<1>1. Rearranged(f, bytes) = Reverse(bytes)
  BY DEF Rearranged
<1>2. Reverse(bytes) = [p \in 1 .. 2 |-> bytes[2 + 1 - p]] /\ Reverse(bytes) \in [1 .. 2 -> Byte]
  BY ReverseBytes
<1> QED
  BY <1>1, <1>2

-----------------------------------------------------------------------------
(* What an instruction is when the decoder returns.                        *)

\* As before the first instruction.
AtStart ==
    ins = [Cleared EXCEPT !.sz = 1] /\ form = Nop /\ code = <<>>

\* As after bytes that end the loop without being decoded further.
Ended ==
    /\ \E op \in {"NONE", "BREAK"}, sz \in {0, 1} : ins = [Cleared EXCEPT !.op = op, !.sz = sz]
    /\ code = <<>>

\* Made from a form and its bytes, of which all were stored or none.
Taken(f) == IF Truncated(f) THEN 0 ELSE f.arg_sz

Made ==
    /\ code \in [1 .. form.arg_sz -> Byte]
    /\ ins = [op |-> form.op, kinds |-> form.kinds, sz |-> IF Truncated(form) THEN 0 ELSE form.sz,
              args |-> [k \in 1 .. 6 |-> IF k <= Taken(form) THEN Rearranged(form, code)[k] ELSE 0],
              curr |-> Taken(form)]

DecoderInv ==
    /\ num_args \in 0 .. 3
    /\ form \in Forms
    /\ AtStart \/ Ended \/ Made

LEMMA NopForm ==
    Nop \in SnC /\ Nop \in Forms /\ Nop.op = "NOP" /\ Nop.kinds = <<>> /\ Nop.oplen = 1 /\ Nop.mem = {}
<1>1. S("NOP", <<>>, {}, 1, 0) \in SnC /\ S("NOP", <<>>, {}, 1, 0).op = "NOP"
  BY DEF SnC, S, Form
<1>2. \E f \in SnC : f.op = "NOP"
  BY <1>1, Zenon
<1>3. Nop \in SnC /\ Nop.op = "NOP"
  BY <1>2, Zenon DEF Nop
<1>4. \A f \in SnC : f.op = "NOP" => f.kinds = <<>> /\ f.oplen = 1 /\ f.mem = {}
  BY DEF SnC, S, Form, Bcc
<1> QED
  BY <1>3, <1>4, Zenon DEF Forms

LEMMA InitialDecoder ==
    Init => DecoderInv
BY NopForm DEF Init, DecoderInv, AtStart

\* What is announced is all there, whatever the encoding.
LEMMA FormSizes ==
    ASSUME NEW f \in Forms
    PROVE  /\ f.arg_sz \in 0 .. 6 /\ f.num \in 0 .. 3
           /\ f.op \in Reversed => f.arg_sz \in 2 .. 6
           /\ NumArgs(f) > 1 => DataSize(f.kinds) = f.arg_sz \/ (f.num = 0 /\ f.oplen = 2)
<1>1. CASE Blank(f)
  BY <1>1 DEF Blank, Reversed
<1>2. CASE Shape(f)
  <2>1. f.op \in Reversed => f.arg_sz \in 2 .. 6
    BY <1>2 DEF Shape, Layout, NoData, OneDatum, CallForm, RetForm, BitForm, Reversed, Bits, get_arg_sz
  <2>2. DataSize(f.kinds) = f.arg_sz /\ f.arg_sz \in 0 .. 6 /\ f.num \in 0 .. 3
    BY <1>2, LayoutSizes, Zenon DEF Shape
  <2> QED
    BY <2>1, <2>2, Zenon
<1> QED
  BY <1>1, <1>2, AllForms

\* decode_inst: copy_data_args and arg_add store the same bytes.
LEMMA DecodeMakes ==
    ASSUME NEW f \in Forms, NEW bytes \in [1 .. f.arg_sz -> Byte], num_args \in 0 .. 3,
           Decode(f, bytes)
    PROVE  Made' /\ num_args' \in 0 .. 3 /\ form' \in Forms
<1>1. f.arg_sz \in 0 .. 6 /\ f.num \in 0 .. 3
  BY FormSizes
<1>2. num_args' \in 0 .. 3 /\ form' = f /\ code' = bytes
  BY <1>1 DEF Decode, NumArgs
<1>3. (IF NumArgs(f) > 1 THEN Copied(f.kinds, Taken(f)) ELSE Taken(f)) = Taken(f)
  <2>1. CASE NumArgs(f) > 1
    <3>1. DataSize(f.kinds) = f.arg_sz
      BY <2>1, FormSizes DEF NumArgs
    <3>2. Taken(f) \in {0, DataSize(f.kinds)}
      BY <3>1 DEF Taken
    <3> QED
      BY <3>2, CopiedAll
  <2> QED
    BY <2>1
<1>4. ins' = [op |-> f.op, kinds |-> f.kinds, sz |-> IF Truncated(f) THEN 0 ELSE f.sz,
              args |-> Stored(Rearranged(f, bytes), Taken(f)).args,
              curr |-> Stored(Rearranged(f, bytes), Taken(f)).curr]
  BY <1>3 DEF Decode, Taken
<1>5. Stored(Rearranged(f, bytes), Taken(f)).args
        = [k \in 1 .. 6 |-> IF k <= Taken(f) THEN Rearranged(f, bytes)[k] ELSE 0]
      /\ Stored(Rearranged(f, bytes), Taken(f)).curr = Taken(f)
  BY DEF Stored
<1> QED
  BY <1>2, <1>4, <1>5 DEF Made

LEMMA DecoderStep ==
    DecoderInv /\ [Next]_vars => DecoderInv'
<1> SUFFICES ASSUME DecoderInv, [Next]_vars PROVE DecoderInv'
  OBVIOUS
<1>1. ASSUME NEW f \in Forms, NEW bytes \in OperandBytes(f.arg_sz), Decode(f, bytes)
      PROVE  DecoderInv'
  <2>1. bytes \in [1 .. f.arg_sz -> Byte]
    BY FormSizes, TextAssumption
  <2> QED
    BY <1>1, <2>1, DecodeMakes DEF DecoderInv
<1>2. ASSUME NEW op \in {"NONE", "BREAK"}, NoInstruction(op)
      PROVE  DecoderInv'
  <2>1. Ended'
    BY <1>2 DEF NoInstruction, Ended
  <2> QED
    BY <1>2, <2>1 DEF NoInstruction, DecoderInv
<1>3. CASE UNCHANGED vars
  BY <1>3 DEF vars, DecoderInv, AtStart, Ended, Made
<1> QED
  BY <1>1, <1>2, <1>3 DEF Next

\* decode_inst, for any window and whatever num_args an earlier instruction
\* left: an instruction has the form's operation, kinds and size, and all of
\* its operand bytes in the order of the table or, where truncated, none.
THEOREM DecoderInvariant ==
    Spec => []DecoderInv
<1>1. Init => DecoderInv
  BY InitialDecoder
<1>2. DecoderInv /\ [Next]_vars => DecoderInv'
  BY DecoderStep
<1> QED
  BY <1>1, <1>2, PTL DEF Spec

LEMMA BytesStored ==
    ASSUME DecoderInv, Made
    PROVE  ins.args \in [1 .. 6 -> Byte] /\ ins.curr \in 0 .. 6 /\ Len(code) <= 6
<1>1. form.arg_sz \in 0 .. 6 /\ (form.op \in Reversed => form.arg_sz \in 2 .. 6)
  BY FormSizes DEF DecoderInv
<1>2. Rearranged(form, code) \in [1 .. form.arg_sz -> Byte]
  <2>1. CASE form.op = "CALL"
    BY <1>1, <2>1, CallBytes DEF Made, Reversed
  <2>2. CASE form.op \in {"RET", "RETF"}
    <3>1. Shape(form) \/ Blank(form)
      BY AllForms DEF DecoderInv
    <3>2. form.arg_sz = 2
      BY <2>2, <3>1 DEF Shape, Layout, Blank, NoData, OneDatum, CallForm, RetForm, BitForm, Bits, Reversed
    <3> QED
      BY <2>2, <3>2, RetBytes DEF Made
  <2>3. CASE form.op \notin Reversed
    BY <2>3 DEF Rearranged, Reversed, Made
  <2> QED
    BY <2>1, <2>2, <2>3 DEF Reversed
<1>3. Len(code) <= 6
  BY <1>1, BytesAreSequence DEF Made
<1>4. Taken(form) \in 0 .. 6 /\ Taken(form) <= form.arg_sz
  BY <1>1 DEF Taken
<1>5. ins.curr = Taken(form)
      /\ ins.args = [k \in 1 .. 6 |-> IF k <= Taken(form) THEN Rearranged(form, code)[k] ELSE 0]
  BY DEF Made
<1>6. \A k \in 1 .. 6 : k <= Taken(form) => Rearranged(form, code)[k] \in Byte
  BY <1>1, <1>2, <1>4
<1>7. ins.args \in [1 .. 6 -> Byte]
  BY <1>5, <1>6 DEF Byte
<1> QED
  BY <1>3, <1>4, <1>5, <1>7

\* The buffers of the decoder are never overrun, for any window, and num_args
\* stays a number of operands.
THEOREM DecoderTypeCorrect ==
    Spec => []TypeOK
<1>1. DecoderInv => TypeOK
  <2> SUFFICES ASSUME DecoderInv PROVE TypeOK
    OBVIOUS
  <2>1. CASE Made
    BY <2>1, BytesStored DEF DecoderInv, TypeOK
  <2>2. CASE AtStart \/ Ended
    <3>1. ins.curr = 0 /\ ins.args = NoArgs /\ code = <<>>
      BY <2>2 DEF AtStart, Ended, Cleared
    <3>2. NoArgs \in [1 .. 6 -> Byte] /\ Len(code) = 0
      BY <3>1 DEF NoArgs, Byte
    <3> QED
      BY <3>1, <3>2 DEF DecoderInv, TypeOK
  <2> QED
    BY <2>1, <2>2 DEF DecoderInv
<1> QED
  BY <1>1, DecoderInvariant, PTL

\* get_val_mem and handle_mov: the direction and the operands of the address,
\* for a load, a store and a move without memory.
LEMMA LoadMoves ==
    ASSUME NEW kinds, OpLoc(kinds) = 1, ~RegisterMove(kinds)
    PROVE  Source(kinds) = AddressOperands(kinds) /\ Destination(kinds) = {Len(kinds)}
BY DEF Source, Destination

LEMMA StoreMoves ==
    ASSUME NEW kinds, OpLoc(kinds) = 2, ~RegisterMove(kinds)
    PROVE  Source(kinds) = {1} /\ Destination(kinds) = AddressOperands(kinds)
BY DEF Source, Destination

LEMMA MoveFormMoves ==
    ASSUME NEW f, MoveForm(f)
    PROVE  LET all == 1 .. Len(f.kinds)
               src == Source(f.kinds)
               dst == Destination(f.kinds)
           IN  CASE f.mem = {} -> src = {1} /\ dst = {2}
                 [] 1 \in f.mem -> src = f.mem /\ dst = all \ f.mem
                 [] OTHER -> src = all \ f.mem /\ dst = f.mem
<1> DEFINE Right == LET all == 1 .. Len(f.kinds)
                        src == Source(f.kinds)
                        dst == Destination(f.kinds)
                    IN  CASE f.mem = {} -> src = {1} /\ dst = {2}
                          [] 1 \in f.mem -> src = f.mem /\ dst = all \ f.mem
                          [] OTHER -> src = all \ f.mem /\ dst = f.mem
<1> USE KindsOf
<1>1. ASSUME NEW r \in {"D", "A", "SP", "MDR", "PSW"},
             NEW k \in {"D", "A", "SP", "MDR", "PSW", "imm8", "imm16", "imm32"},
             f.mem = {}, f.kinds = <<k, r>>
      PROVE  Right
  <2>1. RegisterMove(f.kinds)
    BY <1>1 DEF RegisterMove, is_reg, is_imm
  <2> QED
    BY <1>1, <2>1 DEF Source, Destination
<1>2. ASSUME NEW a \in {"MA", "abs16", "abs32", "SP"}, NEW r \in {"D", "A", "SP", "regs"},
             a = "SP" <=> r = "regs",
             f.mem = {1}, f.kinds = <<a, r>>
      PROVE  Right
  <2>1. OpLoc(f.kinds) = 1 /\ ~RegisterMove(f.kinds)
    BY <1>2 DEF OpLoc, RegisterMove, is_abs, is_disp, is_reg, is_imm
  <2>2. AddressOperands(f.kinds) = {1}
    BY <1>2, <2>1 DEF AddressOperands, is_abs
  <2>3. Source(f.kinds) = {1} /\ Destination(f.kinds) = {2}
    BY <1>2, <2>1, <2>2, LoadMoves
  <2> QED
    BY <1>2, <2>3
<1>3. ASSUME NEW a \in {"MA", "abs16", "abs32", "SP"}, NEW r \in {"D", "A", "SP", "regs"},
             a = "SP" <=> r = "regs",
             f.mem = {2}, f.kinds = <<r, a>>
      PROVE  Right
  <2>1. OpLoc(f.kinds) = 2 /\ ~RegisterMove(f.kinds)
    BY <1>3 DEF OpLoc, RegisterMove, is_abs, is_disp, is_reg, is_imm
  <2>2. AddressOperands(f.kinds) = {2}
    BY <1>3, <2>1 DEF AddressOperands, is_abs
  <2>3. Source(f.kinds) = {1} /\ Destination(f.kinds) = {2}
    BY <1>3, <2>1, <2>2, StoreMoves
  <2> QED
    BY <1>3, <2>3
<1>4. ASSUME NEW r \in {"D", "A", "SP"}, NEW a \in {"D", "d8", "d16", "d32"}, NEW b \in {"A", "SP"},
             a = "D" => b = "A",
             f.mem = {1, 2}, f.kinds = <<a, b, r>>
      PROVE  Right
  <2>1. OpLoc(f.kinds) = 1 /\ ~RegisterMove(f.kinds)
    BY <1>4 DEF OpLoc, RegisterMove, is_abs, is_disp, is_reg, is_imm
  <2>2. AddressOperands(f.kinds) = {1, 2}
    BY <1>4, <2>1 DEF AddressOperands, is_abs, is_disp
  <2>3. Source(f.kinds) = {1, 2} /\ Destination(f.kinds) = {3}
    BY <1>4, <2>1, <2>2, LoadMoves
  <2> QED
    BY <1>4, <2>3
<1>5. ASSUME NEW r \in {"D", "A", "SP"}, NEW a \in {"D", "d8", "d16", "d32"}, NEW b \in {"A", "SP"},
             a = "D" => b = "A",
             f.mem = {2, 3}, f.kinds = <<r, a, b>>
      PROVE  Right
  <2>1. OpLoc(f.kinds) = 2 /\ ~RegisterMove(f.kinds)
    BY <1>5 DEF OpLoc, RegisterMove, is_abs, is_disp, is_reg, is_imm
  <2>2. AddressOperands(f.kinds) = {2, 3}
    BY <1>5, <2>1 DEF AddressOperands, is_abs, is_disp
  <2>3. Source(f.kinds) = {1} /\ Destination(f.kinds) = {2, 3}
    BY <1>5, <2>1, <2>2, StoreMoves
  <2> QED
    BY <1>5, <2>3
<1> SUFFICES Right
  OBVIOUS
<1> HIDE KindsOf DEF Right
<1>6. CASE f.mem = {} /\ \E r \in {"D", "A", "SP", "MDR", "PSW"},
                          k \in {"D", "A", "SP", "MDR", "PSW", "imm8", "imm16", "imm32"} :
                          f.kinds = <<k, r>>
  BY <1>1, <1>6
<1>7. CASE \E r \in {"D", "A", "SP", "regs"}, a \in {"MA", "abs16", "abs32", "SP"} :
             /\ a = "SP" <=> r = "regs"
             /\ \/ f.mem = {1} /\ f.kinds = <<a, r>>
                \/ f.mem = {2} /\ f.kinds = <<r, a>>
  <2>1. PICK r \in {"D", "A", "SP", "regs"}, a \in {"MA", "abs16", "abs32", "SP"} :
           /\ a = "SP" <=> r = "regs"
           /\ \/ f.mem = {1} /\ f.kinds = <<a, r>>
              \/ f.mem = {2} /\ f.kinds = <<r, a>>
    BY <1>7
  <2> QED
    BY <1>2, <1>3, <2>1
<1>8. CASE \E r \in {"D", "A", "SP"}, a \in {"D", "d8", "d16", "d32"}, b \in {"A", "SP"} :
             /\ a = "D" => b = "A"
             /\ \/ f.mem = {1, 2} /\ f.kinds = <<a, b, r>>
                \/ f.mem = {2, 3} /\ f.kinds = <<r, a, b>>
  <2>1. PICK r \in {"D", "A", "SP"}, a \in {"D", "d8", "d16", "d32"}, b \in {"A", "SP"} :
           /\ a = "D" => b = "A"
           /\ \/ f.mem = {1, 2} /\ f.kinds = <<a, b, r>>
              \/ f.mem = {2, 3} /\ f.kinds = <<r, a, b>>
    BY <1>8
  <2> QED
    BY <1>4, <1>5, <2>1
<1> QED
  BY <1>6, <1>7, <1>8 DEF MoveForm

\* get_val_mem infers direction and address of every move as the mnemonic has
\* them.
THEOREM MovesGoAsWritten ==
    Spec => []MovesAsWritten
<1>1. DecoderInv => MovesAsWritten
  <2> SUFFICES ASSUME DecoderInv, ins.op \in Moves \cup {"MOVM"} PROVE MovesAsWritten
    BY DEF MovesAsWritten
  <2>1. Made
    BY DEF DecoderInv, AtStart, Ended, Cleared, Moves
  <2>2. ins.kinds = form.kinds /\ ins.op = form.op
    BY <2>1 DEF Made
  <2>3. MoveForm(form)
    <3>1. Shape(form) \/ Blank(form)
      BY AllForms DEF DecoderInv
    <3> QED
      BY <2>2, <3>1 DEF Shape, Blank, Moves
  <2> QED
    BY <2>2, <2>3, MoveFormMoves DEF MovesAsWritten
<1> QED
  BY <1>1, DecoderInvariant, PTL

-----------------------------------------------------------------------------
(* Windows the longest instruction fits into.                              *)

\* Nothing is truncated then.
LEMMA NothingTruncated ==
    ASSUME max_ins >= 7, NEW f \in Forms
    PROVE  ~Truncated(f) /\ Taken(f) = f.arg_sz
<1>1. f.oplen \in Nat /\ f.oplen + f.arg_sz <= 7
  <2>1. CASE Shape(f)
    BY <2>1, FormSizes DEF Shape, Layout
  <2>2. CASE Blank(f)
    BY <2>2 DEF Blank
  <2> QED
    BY <2>1, <2>2, AllForms
<1>2. f.oplen + f.arg_sz <= max_ins
  BY <1>1, FormSizes, WindowAssumption
<1>3. ~Truncated(f)
  BY <1>1, <1>2, FormSizes, WindowAssumption DEF Truncated
<1> QED
  BY <1>3 DEF Taken

\* Only what was made from a form of the tables has operands.
LEMMA OnlyMadeHasOperands ==
    ASSUME DecoderInv
    PROVE  \/ AtStart /\ ins.kinds = <<>>
           \/ Made /\ Shape(form)
           \/ ~Running /\ ins.kinds = <<>>
<1>1. CASE AtStart
  BY <1>1 DEF AtStart, Cleared
<1>2. CASE Ended
  BY <1>2 DEF Ended, Cleared, Running
<1>3. CASE Made /\ Blank(form)
  BY <1>3 DEF Made, Blank, Running
<1> QED
  BY <1>1, <1>2, <1>3, AllForms DEF DecoderInv

\* The size decode_inst sets, the bytes it takes and the kinds of the operands
\* agree in every case of the tables, and seven bytes are enough.
THEOREM SizesAgree ==
    ASSUME max_ins >= 7
    PROVE  Spec => []SizeCoversOperands
<1>1. DecoderInv => SizeCoversOperands
  <2> SUFFICES ASSUME DecoderInv, Running PROVE SizeCoversOperands
    BY DEF SizeCoversOperands
  <2>1. CASE AtStart
    <3>1. ins.kinds = <<>> /\ ins.sz = 1 /\ form.oplen = 1
      BY <2>1, NopForm DEF AtStart, Cleared
    <3>2. DataSize(<<>>) = 0
      BY DEF DataSize, SizeAt, Kind, get_arg_sz
    <3> QED
      BY <3>1, <3>2, WindowAssumption DEF SizeCoversOperands
  <2>2. CASE Made /\ Shape(form)
    <3>1. ins.kinds = form.kinds /\ ins.sz = form.sz
      <4>1. ~Truncated(form)
        BY NothingTruncated DEF DecoderInv
      <4> QED
        BY <2>2, <4>1 DEF Made
    <3>2. DataSize(form.kinds) = form.arg_sz /\ form.sz = form.oplen + form.arg_sz /\ form.sz \in 1 .. 7
      BY <2>2, LayoutSizes DEF Shape, Layout
    <3>3. ins.sz = form.oplen + DataSize(ins.kinds) /\ ins.sz <= max_ins
      BY <3>1, <3>2, WindowAssumption
    <3> QED
      BY <3>3 DEF SizeCoversOperands
  <2> QED
    BY <2>1, <2>2, OnlyMadeHasOperands
<1> QED
  BY <1>1, DecoderInvariant, PTL

LEMMA SizeOf ==
    /\ \A a, b, P : SizeAt(<<a, b>>, P) = (IF 1 \in P THEN get_arg_sz(a) ELSE 0)
                                            + (IF 2 \in P THEN get_arg_sz(b) ELSE 0)
    /\ \A a, b, c, P : SizeAt(<<a, b, c>>, P) = (IF 1 \in P THEN get_arg_sz(a) ELSE 0)
                                                  + (IF 2 \in P THEN get_arg_sz(b) ELSE 0)
                                                  + (IF 3 \in P THEN get_arg_sz(c) ELSE 0)
<1>1. get_arg_sz("none") = 0 /\ \A a : get_arg_sz(a) \in Nat
  BY Sizes DEF get_arg_sz
<1>2. ASSUME NEW a, NEW b, NEW P
      PROVE  SizeAt(<<a, b>>, P) = (IF 1 \in P THEN get_arg_sz(a) ELSE 0)
                                     + (IF 2 \in P THEN get_arg_sz(b) ELSE 0)
  BY <1>1, KindsOf DEF SizeAt
<1>3. ASSUME NEW a, NEW b, NEW c, NEW P
      PROVE  SizeAt(<<a, b, c>>, P) = (IF 1 \in P THEN get_arg_sz(a) ELSE 0)
                                        + (IF 2 \in P THEN get_arg_sz(b) ELSE 0)
                                        + (IF 3 \in P THEN get_arg_sz(c) ELSE 0)
  BY <1>1, KindsOf DEF SizeAt
<1> QED
  BY <1>2, <1>3

\* get_arg and the text agree where their bytes do.
LEMMA FoundWhereWritten ==
    ASSUME NEW k,
           ins.curr >= Before(k),
           \A j \in 1 .. get_arg_sz(ins.kinds[k]) :
               ins.args[ins.curr - Before(k) + j]
                 = code[SizeAt(ins.kinds, {i \in DataOperands : Rank(i) < Rank(k)}) + j]
    PROVE  Held(k) /\ get_arg(k) = Written(k)
<1> DEFINE n == get_arg_sz(ins.kinds[k])
           first == SizeAt(ins.kinds, {i \in DataOperands : Rank(i) < Rank(k)})
<1>1. [j \in 1 .. n |-> ins.args[ins.curr - Before(k) + j]] = [j \in 1 .. n |-> code[first + j]]
  OBVIOUS
<1> QED
  BY <1>1 DEF get_arg, Written, Held

\* What was stored of an instruction made from form.
LEMMA StoredBytes ==
    ASSUME max_ins >= 7, DecoderInv, Made, Shape(form)
    PROVE  /\ ins.kinds = form.kinds /\ ins.curr = form.arg_sz /\ form.arg_sz \in 0 .. 6
           /\ code \in [1 .. form.arg_sz -> Byte]
           /\ \A p \in 1 .. 6 : ins.args[p] = IF p <= form.arg_sz THEN Rearranged(form, code)[p] ELSE 0
<1>1. Taken(form) = form.arg_sz /\ form.arg_sz \in 0 .. 6
  BY NothingTruncated, FormSizes DEF DecoderInv
<1> QED
  BY <1>1 DEF Made

\* The only data operand has all the bytes.
LEMMA OneDatumStored ==
    ASSUME max_ins >= 7, DecoderInv, Made, Shape(form), OneDatum(form), NEW k \in DataOperands
    PROVE  /\ get_arg_sz(ins.kinds[k]) = form.arg_sz
           /\ form.arg_sz \in {1, 2, 4}
           /\ ins.curr = form.arg_sz /\ Before(k) = form.arg_sz
           /\ SizeAt(ins.kinds, {j \in DataOperands : Rank(j) < Rank(k)}) = 0
           /\ \A p \in 1 .. 6 : ins.args[p] = IF p <= form.arg_sz THEN code[p] ELSE 0
<1>1. /\ ins.kinds = form.kinds /\ ins.curr = form.arg_sz /\ form.arg_sz \in 0 .. 6
      /\ \A p \in 1 .. 6 : ins.args[p] = IF p <= form.arg_sz THEN code[p] ELSE 0
  BY StoredBytes DEF Rearranged, OneDatum, Reversed
<1>2. PICK i \in 1 .. 3 :
         Size(form, i) = form.arg_sz /\ \A j \in 1 .. 3 : j # i => Size(form, j) = 0
  BY DEF OneDatum
<1>3. Len(form.kinds) \in 0 .. 3
  BY DEF Shape, Layout
<1>4. k \in 1 .. 3 /\ k <= Len(form.kinds) /\ is_data(form.kinds[k])
  BY <1>1, <1>3 DEF DataOperands
<1>5. Size(form, k) = get_arg_sz(form.kinds[k]) /\ Size(form, k) > 0
  BY <1>4 DEF Size, Kind, is_data
<1>6. k = i
  BY <1>2, <1>4, <1>5
<1>7. get_arg_sz(ins.kinds[k]) = form.arg_sz /\ form.arg_sz \in {1, 2, 4}
  BY <1>1, <1>2, <1>5, <1>6, Sizes DEF Size
<1>8. \A j \in 1 .. 3 : get_arg_sz(Kind(form.kinds, j)) = IF j = k THEN form.arg_sz ELSE 0
  BY <1>2, <1>6 DEF Size
<1>9. Before(k) = form.arg_sz
  BY <1>1, <1>4, <1>7, <1>8 DEF Before, SizeAt
<1>10. {j \in DataOperands : Rank(j) < Rank(k)} \cap (1 .. 3) \subseteq {j \in 1 .. 3 : j # k}
  BY DEF Rank
<1>11. SizeAt(ins.kinds, {j \in DataOperands : Rank(j) < Rank(k)}) = 0
  BY <1>1, <1>8, <1>10 DEF SizeAt
<1> QED
  BY <1>1, <1>7, <1>9, <1>11

\* The operands of an instruction in the order of its kinds found from the
\* end of args, and in the text by their ranks: two data operands, the first
\* written last or first, or the three of CALL.
LEMMA CallFound ==
    ASSUME max_ins >= 7, DecoderInv, Made, Shape(form), CallForm(form), NEW k \in DataOperands
    PROVE  Held(k) /\ get_arg(k) = Written(k)
<1> DEFINE n == form.arg_sz
           d == IF form.arg_sz = 4 THEN 2 ELSE 4
<1>1. /\ ins.kinds = form.kinds /\ ins.curr = n /\ n \in 0 .. 6
      /\ code \in [1 .. n -> Byte]
      /\ \A p \in 1 .. 6 : ins.args[p] = IF p <= n THEN Rearranged(form, code)[p] ELSE 0
  BY StoredBytes
<1>2. PICK disp \in {"d16", "d32"} :
         form.kinds = <<disp, "regs", "imm8">> /\ n = get_arg_sz(disp) + 2 /\ get_arg_sz(disp) = d
  BY DEF CallForm, get_arg_sz
<1>3. n = d + 2 /\ d \in {2, 4}
  BY <1>2
<1>4. /\ ins.args[1] = code[n] /\ ins.args[2] = code[n - 1]
      /\ \A p \in 1 .. d : ins.args[p + 2] = code[p]
  <2>1. /\ Rearranged(form, code)[1] = code[n]
        /\ Rearranged(form, code)[2] = code[n - 1]
        /\ \A p \in 1 .. n - 2 : Rearranged(form, code)[p + 2] = code[p]
    <3>1. form.op = "CALL" /\ form.arg_sz \in 2 .. 6
      BY <1>3 DEF CallForm
    <3>2. code \in [1 .. form.arg_sz -> Byte]
      BY <1>1
    <3>3. /\ Rearranged(form, code)[1] = code[form.arg_sz]
          /\ Rearranged(form, code)[2] = code[form.arg_sz - 1]
          /\ \A p \in 1 .. form.arg_sz - 2 : Rearranged(form, code)[p + 2] = code[p]
      <4> HIDE DEF n, d
      <4> QED
        BY <3>1, <3>2, CallBytes, SMTT(20)
    <3> QED
      BY <3>3
  <2> HIDE DEF n, d
  <2> QED
    BY <1>1, <1>3, <2>1
<1>5. /\ ins.kinds = <<disp, "regs", "imm8">> /\ DataOperands = {1, 2, 3}
      /\ get_arg_sz(disp) = d /\ get_arg_sz("regs") = 1 /\ get_arg_sz("imm8") = 1
  <2>1. 1 .. Len(<<disp, "regs", "imm8">>) = {1, 2, 3}
    BY KindsOf
  <2> QED
    BY <1>1, <1>2, <2>1 DEF DataOperands, is_data, get_arg_sz
<1>6. Rank(1) = 1 /\ Rank(2) = 2 /\ Rank(3) = 3
  BY <1>5 DEF Rank, is_disp, is_abs
<1> HIDE DEF n, d
<1>7. CASE k = 1
  <2>1. Before(1) = d
    BY <1>3, <1>5, SizeOf DEF Before
  <2>2. SizeAt(ins.kinds, {j \in DataOperands : Rank(j) < Rank(1)}) = 0
    BY <1>5, <1>6, SizeOf
  <2>3. ins.kinds[1] = disp
    BY <1>5
  <2> QED
    <3>1. \A j \in 1 .. d : ins.args[n - d + j] = code[0 + j]
      BY <1>3, <1>4
    <3>2. n >= d
      BY <1>3
    <3>3. /\ get_arg_sz(ins.kinds[1]) = d /\ Before(1) = d /\ ins.curr = n
          /\ SizeAt(ins.kinds, {j \in DataOperands : Rank(j) < Rank(1)}) = 0
      BY <1>1, <1>5, <2>1, <2>2, <2>3
    <3>4. ins.curr >= Before(1)
      BY <3>1, <3>2, <3>3
    <3>5. \A j \in 1 .. get_arg_sz(ins.kinds[1]) :
             ins.args[ins.curr - Before(1) + j]
               = code[SizeAt(ins.kinds, {i \in DataOperands : Rank(i) < Rank(1)}) + j]
      BY <3>1, <3>2, <3>3
    <3> QED
      BY <1>7, <3>4, <3>5, FoundWhereWritten
<1>8. CASE k = 2
  <2>1. Before(2) = d + 1
    BY <1>3, <1>5, SizeOf DEF Before
  <2>2. SizeAt(ins.kinds, {j \in DataOperands : Rank(j) < Rank(2)}) = d
    BY <1>3, <1>5, <1>6, SizeOf
  <2>3. ins.kinds[2] = "regs"
    BY <1>5
  <2> QED
    <3>1. \A j \in 1 .. 1 : ins.args[n - (d + 1) + j] = code[d + j]
      BY <1>3, <1>4
    <3>2. n >= d + 1
      BY <1>3
    <3>3. /\ get_arg_sz(ins.kinds[2]) = 1 /\ Before(2) = d + 1 /\ ins.curr = n
          /\ SizeAt(ins.kinds, {j \in DataOperands : Rank(j) < Rank(2)}) = d
      BY <1>1, <1>5, <2>1, <2>2, <2>3
    <3>4. ins.curr >= Before(2)
      BY <3>1, <3>2, <3>3
    <3>5. \A j \in 1 .. get_arg_sz(ins.kinds[2]) :
             ins.args[ins.curr - Before(2) + j]
               = code[SizeAt(ins.kinds, {i \in DataOperands : Rank(i) < Rank(2)}) + j]
      BY <3>1, <3>2, <3>3
    <3> QED
      BY <1>8, <3>4, <3>5, FoundWhereWritten
<1>9. CASE k = 3
  <2>1. Before(3) = d + 2
    BY <1>3, <1>5, SizeOf DEF Before
  <2>2. SizeAt(ins.kinds, {j \in DataOperands : Rank(j) < Rank(3)}) = d + 1
    BY <1>3, <1>5, <1>6, SizeOf
  <2>3. ins.kinds[3] = "imm8"
    BY <1>5
  <2> QED
    <3>1. \A j \in 1 .. 1 : ins.args[n - (d + 2) + j] = code[(d + 1) + j]
      BY <1>3, <1>4
    <3>2. n >= d + 2
      BY <1>3
    <3>3. /\ get_arg_sz(ins.kinds[3]) = 1 /\ Before(3) = d + 2 /\ ins.curr = n
          /\ SizeAt(ins.kinds, {j \in DataOperands : Rank(j) < Rank(3)}) = d + 1
      BY <1>1, <1>5, <2>1, <2>2, <2>3
    <3>4. ins.curr >= Before(3)
      BY <3>1, <3>2, <3>3
    <3>5. \A j \in 1 .. get_arg_sz(ins.kinds[3]) :
             ins.args[ins.curr - Before(3) + j]
               = code[SizeAt(ins.kinds, {i \in DataOperands : Rank(i) < Rank(3)}) + j]
      BY <3>1, <3>2, <3>3
    <3> QED
      BY <1>9, <3>4, <3>5, FoundWhereWritten
<1> QED
  BY <1>5, <1>7, <1>8, <1>9

LEMMA RetFound ==
    ASSUME max_ins >= 7, DecoderInv, Made, Shape(form), RetForm(form), NEW k \in DataOperands
    PROVE  Held(k) /\ get_arg(k) = Written(k)
<1>1. /\ ins.kinds = <<"regs", "imm8">> /\ ins.curr = 2
      /\ code \in [1 .. 2 -> Byte]
      /\ \A p \in 1 .. 2 : ins.args[p] = Rearranged(form, code)[p]
  BY StoredBytes DEF RetForm
<1>2. ins.args[1] = code[2] /\ ins.args[2] = code[1]
  <2>1. Rearranged(form, code)[1] = code[2] /\ Rearranged(form, code)[2] = code[1]
    BY <1>1, RetBytes DEF RetForm
  <2> QED
    BY <1>1, <2>1
<1>3. DataOperands = {1, 2} /\ get_arg_sz("regs") = 1 /\ get_arg_sz("imm8") = 1
  <2>1. 1 .. Len(<<"regs", "imm8">>) = {1, 2}
    BY KindsOf
  <2> QED
    BY <1>1, <2>1 DEF DataOperands, is_data, get_arg_sz
<1>4. Rank(1) = 2 /\ Rank(2) = 3
  BY <1>1 DEF Rank, is_disp, is_abs
<1>5. Before(1) = 1 /\ Before(2) = 2
  BY <1>1, <1>3, SizeOf DEF Before
<1>6. CASE k = 1
  <2>1. SizeAt(ins.kinds, {j \in DataOperands : Rank(j) < Rank(1)}) = 0
    BY <1>1, <1>3, <1>4, SizeOf
  <2> QED
    <3>1. ins.kinds[1] = "regs" /\ 2 >= 1
          /\ \A j \in 1 .. 1 : ins.args[2 - 1 + j] = code[0 + j]
      BY <1>1, <1>2
    <3>3. /\ get_arg_sz(ins.kinds[1]) = 1 /\ Before(1) = 1 /\ ins.curr = 2
          /\ SizeAt(ins.kinds, {j \in DataOperands : Rank(j) < Rank(1)}) = 0
      BY <1>1, <1>3, <1>5, <2>1, <3>1
    <3>4. ins.curr >= Before(1)
      BY <3>1, <3>3
    <3>5. \A j \in 1 .. get_arg_sz(ins.kinds[1]) :
             ins.args[ins.curr - Before(1) + j]
               = code[SizeAt(ins.kinds, {i \in DataOperands : Rank(i) < Rank(1)}) + j]
      BY <3>1, <3>3
    <3> QED
      BY <1>6, <3>4, <3>5, FoundWhereWritten
<1>7. CASE k = 2
  <2>1. SizeAt(ins.kinds, {j \in DataOperands : Rank(j) < Rank(2)}) = 1
    BY <1>1, <1>3, <1>4, SizeOf
  <2> QED
    <3>1. ins.kinds[2] = "imm8" /\ 2 >= 2
          /\ \A j \in 1 .. 1 : ins.args[2 - 2 + j] = code[1 + j]
      BY <1>1, <1>2
    <3>3. /\ get_arg_sz(ins.kinds[2]) = 1 /\ Before(2) = 2 /\ ins.curr = 2
          /\ SizeAt(ins.kinds, {j \in DataOperands : Rank(j) < Rank(2)}) = 1
      BY <1>1, <1>3, <1>5, <2>1, <3>1
    <3>4. ins.curr >= Before(2)
      BY <3>1, <3>3
    <3>5. \A j \in 1 .. get_arg_sz(ins.kinds[2]) :
             ins.args[ins.curr - Before(2) + j]
               = code[SizeAt(ins.kinds, {i \in DataOperands : Rank(i) < Rank(2)}) + j]
      BY <3>1, <3>3
    <3> QED
      BY <1>7, <3>4, <3>5, FoundWhereWritten
<1> QED
  BY <1>3, <1>6, <1>7

LEMMA BitFound ==
    ASSUME max_ins >= 7, DecoderInv, Made, Shape(form), BitForm(form), NEW k \in DataOperands
    PROVE  Held(k) /\ get_arg(k) = Written(k)
<1> DEFINE n == form.arg_sz
<1>1. PICK kind \in {"d8", "abs16", "abs32"} :
         /\ ins.kinds = <<"imm8", kind, "A">> \/ (kind # "d8" /\ ins.kinds = <<"imm8", kind>>)
         /\ n = get_arg_sz(kind) + 1 /\ get_arg_sz(kind) \in {1, 2, 4}
  BY StoredBytes DEF BitForm, get_arg_sz
<1>2. /\ ins.curr = n /\ n \in 0 .. 6 /\ code \in [1 .. n -> Byte]
      /\ \A p \in 1 .. n : ins.args[p] = code[p]
  BY StoredBytes DEF BitForm, Bits, Rearranged
<1>3. ins.kinds[1] = "imm8" /\ ins.kinds[2] = kind
  BY <1>1
<1>4. DataOperands = {1, 2} /\ get_arg_sz("imm8") = 1 /\ get_arg_sz("A") = 0
  <2>1. CASE ins.kinds = <<"imm8", kind, "A">>
    <3>1. 1 .. Len(ins.kinds) = {1, 2, 3}
      BY <2>1, KindsOf
    <3> QED
      BY <2>1, <3>1 DEF DataOperands, is_data, get_arg_sz
  <2>2. CASE ins.kinds = <<"imm8", kind>>
    <3>1. 1 .. Len(ins.kinds) = {1, 2}
      BY <2>2, KindsOf
    <3> QED
      BY <2>2, <3>1 DEF DataOperands, is_data, get_arg_sz
  <2> QED
    BY <1>1, <2>1, <2>2
<1>5. Rank(1) = 3 /\ Rank(2) = 1
  BY <1>3 DEF Rank, is_disp, is_abs
<1>6. \A P : SizeAt(ins.kinds, P) = (IF 1 \in P THEN 1 ELSE 0) + (IF 2 \in P THEN n - 1 ELSE 0)
  <2>1. get_arg_sz(kind) = n - 1
    BY <1>1
  <2> HIDE DEF n
  <2>2. ASSUME NEW P
        PROVE  SizeAt(ins.kinds, P) = (IF 1 \in P THEN 1 ELSE 0) + (IF 2 \in P THEN n - 1 ELSE 0)
    <3>1. CASE ins.kinds = <<"imm8", kind, "A">>
      BY <1>2, <1>4, <2>1, <3>1, SizeOf
    <3>2. CASE ins.kinds = <<"imm8", kind>>
      BY <1>2, <1>4, <2>1, <3>2, SizeOf
    <3> QED
      BY <1>1, <3>1, <3>2
  <2> QED
    BY <2>2
<1>7. Before(1) = 1 /\ Before(2) = n
  BY <1>2, <1>6 DEF Before
<1> HIDE DEF n
<1>8. CASE k = 1
  <2>1. SizeAt(ins.kinds, {j \in DataOperands : Rank(j) < Rank(1)}) = n - 1
    BY <1>2, <1>4, <1>5, <1>6
  <2> QED
    <3>1. n >= 1 /\ \A j \in 1 .. 1 : ins.args[n - 1 + j] = code[(n - 1) + j]
      <4>1. n \in 1 .. 6
        BY <1>1, <1>2
      <4> QED
        BY <1>2, <4>1
    <3>3. /\ get_arg_sz(ins.kinds[1]) = 1 /\ Before(1) = 1 /\ ins.curr = n
          /\ SizeAt(ins.kinds, {j \in DataOperands : Rank(j) < Rank(1)}) = n - 1
      BY <1>2, <1>3, <1>4, <1>7, <2>1
    <3>4. ins.curr >= Before(1)
      BY <3>1, <3>3
    <3>5. \A j \in 1 .. get_arg_sz(ins.kinds[1]) :
             ins.args[ins.curr - Before(1) + j]
               = code[SizeAt(ins.kinds, {i \in DataOperands : Rank(i) < Rank(1)}) + j]
      BY <3>1, <3>3
    <3> QED
      BY <1>8, <3>4, <3>5, FoundWhereWritten
<1>9. CASE k = 2
  <2>1. SizeAt(ins.kinds, {j \in DataOperands : Rank(j) < Rank(2)}) = 0
    BY <1>4, <1>5, <1>6
  <2> QED
    <3>1. n >= n /\ get_arg_sz(ins.kinds[2]) = n - 1
          /\ \A j \in 1 .. n - 1 : ins.args[n - n + j] = code[0 + j]
      BY <1>1, <1>2, <1>3
    <3>3. /\ get_arg_sz(ins.kinds[2]) = n - 1 /\ Before(2) = n /\ ins.curr = n
          /\ SizeAt(ins.kinds, {j \in DataOperands : Rank(j) < Rank(2)}) = 0
      BY <1>2, <1>7, <2>1, <3>1
    <3>4. ins.curr >= Before(2)
      BY <3>1, <3>3
    <3>5. \A j \in 1 .. get_arg_sz(ins.kinds[2]) :
             ins.args[ins.curr - Before(2) + j]
               = code[SizeAt(ins.kinds, {i \in DataOperands : Rank(i) < Rank(2)}) + j]
      BY <3>1, <3>3
    <3> QED
      BY <1>9, <3>4, <3>5, FoundWhereWritten
<1> QED
  BY <1>4, <1>8, <1>9

LEMMA OneDatumFound ==
    ASSUME max_ins >= 7, DecoderInv, Made, Shape(form), OneDatum(form), NEW k \in DataOperands
    PROVE  Held(k) /\ get_arg(k) = Written(k)
<1>1. /\ get_arg_sz(ins.kinds[k]) = form.arg_sz
      /\ form.arg_sz \in {1, 2, 4}
      /\ ins.curr = form.arg_sz /\ Before(k) = form.arg_sz
      /\ SizeAt(ins.kinds, {j \in DataOperands : Rank(j) < Rank(k)}) = 0
      /\ \A p \in 1 .. 6 : ins.args[p] = IF p <= form.arg_sz THEN code[p] ELSE 0
  BY OneDatumStored
<1>2. ins.curr >= Before(k)
  BY <1>1
<1>3. \A j \in 1 .. form.arg_sz : ins.args[form.arg_sz - form.arg_sz + j] = code[0 + j]
  BY <1>1
<1> QED
  BY <1>1, <1>2, <1>3, FoundWhereWritten

LEMMA NoDataFound ==
    ASSUME Made, Shape(form), NoData(form)
    PROVE  DataOperands = {}
<1>1. ins.kinds = form.kinds /\ Len(form.kinds) \in 0 .. 3
  BY DEF Made, Shape, Layout
<1>2. \A k \in 1 .. 3 : k <= Len(form.kinds) => ~is_data(form.kinds[k])
  BY DEF NoData, Size, Kind, is_data
<1> QED
  BY <1>1, <1>2 DEF DataOperands

\* get_arg finds every data operand of every instruction where the text has
\* it: the reversals for CALL and RET, the order of copy_data_args and the
\* search from the end undo one another, with any bytes and any num_args left
\* by what was decoded before.
THEOREM OperandsAreFound ==
    ASSUME max_ins >= 7
    PROVE  Spec => []OperandsFound
<1>1. DecoderInv => OperandsFound
  <2> SUFFICES ASSUME DecoderInv, Running, NEW k \in DataOperands
               PROVE  Held(k) /\ get_arg(k) = Written(k)
    BY DEF OperandsFound
  <2>1. Made /\ Shape(form)
    BY OnlyMadeHasOperands DEF DataOperands
  <2> QED
    BY <2>1, CallFound, RetFound, BitFound, OneDatumFound, NoDataFound DEF Shape, Layout
<1> QED
  BY <1>1, DecoderInvariant, PTL

\* get_val gives a handler that takes its only datum by the kind that datum
\* from the text, extended by its sign, and nothing of earlier instructions.
THEOREM OperandsFoundByKind ==
    ASSUME max_ins >= 7
    PROVE  Spec => []OperandsByKind
<1>1. DecoderInv => OperandsByKind
  <2> SUFFICES ASSUME DecoderInv, NEW k \in DataOperands, DataOperands = {k}
               PROVE  get_val(ins.kinds[k]) = s_ext(Written(k), get_arg_sz(ins.kinds[k]))
    BY DEF OperandsByKind
  <2>1. Made /\ Shape(form)
    BY OnlyMadeHasOperands DEF DataOperands
  <2>2. ~CallForm(form) /\ ~RetForm(form) /\ ~BitForm(form)
    <3>1. ins.kinds = form.kinds
      BY <2>1 DEF Made
    <3>2. CASE CallForm(form)
      <4>1. 1 \in DataOperands /\ 2 \in DataOperands
        BY <3>1, <3>2, KindsOf DEF CallForm, DataOperands, is_data, get_arg_sz
      <4> QED
        BY <4>1
    <3>3. CASE RetForm(form)
      <4>1. 1 \in DataOperands /\ 2 \in DataOperands
        BY <3>1, <3>3, KindsOf DEF RetForm, DataOperands, is_data, get_arg_sz
      <4> QED
        BY <4>1
    <3>4. CASE BitForm(form)
      <4>1. PICK kind \in {"d8", "abs16", "abs32"} :
               ins.kinds = <<"imm8", kind, "A">> \/ ins.kinds = <<"imm8", kind>>
        BY <3>1, <3>4 DEF BitForm
      <4>2. Len(ins.kinds) \in {2, 3} /\ ins.kinds[1] = "imm8" /\ ins.kinds[2] = kind
        <5>1. CASE ins.kinds = <<"imm8", kind, "A">>
          BY <5>1, KindsOf
        <5>2. CASE ins.kinds = <<"imm8", kind>>
          BY <5>2, KindsOf
        <5> QED
          BY <4>1, <5>1, <5>2
      <4>3. 1 \in DataOperands /\ 2 \in DataOperands
        BY <4>2 DEF DataOperands, is_data, get_arg_sz
      <4> QED
        BY <4>3
    <3> QED
      BY <3>2, <3>3, <3>4
  <2>3. OneDatum(form)
    BY <2>1, <2>2, NoDataFound DEF Shape, Layout
  <2> DEFINE n == form.arg_sz
  <2>4. /\ get_arg_sz(ins.kinds[k]) = n /\ n \in {1, 2, 4}
        /\ SizeAt(ins.kinds, {j \in DataOperands : Rank(j) < Rank(k)}) = 0
        /\ \A p \in 1 .. 6 : ins.args[p] = IF p <= n THEN code[p] ELSE 0
    BY <2>1, <2>3, OneDatumStored
  <2> HIDE DEF n
  <2>5. Written(k) = Value([j \in 1 .. n |-> code[0 + j]], n)
    BY <2>4 DEF Written
  <2>6. Value([j \in 1 .. n |-> code[0 + j]], n) = [p \in 1 .. 4 |-> IF p <= n THEN code[p] ELSE 0]
    BY <2>4 DEF Value
  <2>7. Value(ins.args, 4) = [p \in 1 .. 4 |-> IF p <= n THEN code[p] ELSE 0]
    BY <2>4 DEF Value
  <2>8. Value(ins.args, 4) = Written(k)
    BY <2>5, <2>6, <2>7
  <2> QED
    BY <2>8 DEF get_val
<1> QED
  BY <1>1, DecoderInvariant, PTL
==============================================================================
