--------------------------- MODULE StackFramesProofs ---------------------------
(***************************************************************************)
(* Theorems about StackFrames: return addresses and saved registers, kept  *)
(* in guest memory, behave as a stack of activations nobody can tamper     *)
(* with, however deep calls are nested and however large frames are.       *)
(***************************************************************************)
EXTENDS StackFrames, SequenceTheorems, TLAPS

-----------------------------------------------------------------------------
(* How far below the beginning of the stack a word is.                     *)

Depth(b, w) == (b - w) % NumWords

LEMMA Modulo ==
    ASSUME NEW i \in Int, -NumWords <= i, i < NumWords + NumWords
    PROVE  /\ i % NumWords \in WordAddr
           /\ i % NumWords = IF i < 0 THEN i + NumWords
                             ELSE IF i < NumWords THEN i ELSE i - NumWords
<1>1. PICK n \in Nat : n = NumWords /\ n > 0
  BY SizesAssumption
<1>2. i % n = IF i < 0 THEN i + n ELSE IF i < n THEN i ELSE i - n
  <2>1. CASE i < 0
    BY <1>1, <2>1, SMTT(30)
  <2>2. CASE i >= 0 /\ i < n
    BY <1>1, <2>2, SMTT(30)
  <2>3. CASE i >= n
    BY <1>1, <2>3, SMTT(30)
  <2> QED
    BY <1>1, <2>1, <2>2, <2>3
<1> QED
  BY <1>1, <1>2 DEF WordAddr

LEMMA DepthRange ==
    ASSUME NEW b \in WordAddr, NEW w \in WordAddr
    PROVE  /\ Depth(b, w) \in Nat /\ Depth(b, w) < NumWords
           /\ Depth(b, w) = IF w <= b THEN b - w ELSE (b - w) + NumWords
<1>1. /\ NumWords \in Nat /\ b \in Nat /\ b < NumWords /\ w \in Nat /\ w < NumWords
  BY SizesAssumption DEF WordAddr
<1>2. b - w \in Int /\ -NumWords <= b - w /\ b - w < NumWords + NumWords
  BY <1>1
<1> QED
  BY <1>1, <1>2, Modulo DEF Depth

LEMMA DepthUnique ==
    ASSUME NEW b \in WordAddr, NEW u \in WordAddr, NEW v \in WordAddr, Depth(b, u) = Depth(b, v)
    PROVE  u = v
<1>1. /\ NumWords \in Nat /\ b \in Nat /\ b < NumWords
      /\ u \in Nat /\ u < NumWords /\ v \in Nat /\ v < NumWords
  BY SizesAssumption DEF WordAddr
<1> QED
  BY <1>1, DepthRange

LEMMA Down ==
    ASSUME NEW b \in WordAddr, NEW w \in WordAddr, NEW j \in Nat, Depth(b, w) + j < NumWords
    PROVE  Wrap(w - j) \in WordAddr /\ Depth(b, Wrap(w - j)) = Depth(b, w) + j
<1>1. /\ NumWords \in Nat /\ b \in Nat /\ b < NumWords /\ w \in Nat /\ w < NumWords
  BY SizesAssumption DEF WordAddr
<1>2. Depth(b, w) \in Nat /\ Depth(b, w) = IF w <= b THEN b - w ELSE (b - w) + NumWords
  BY DepthRange
<1>3. w - j \in Int /\ -NumWords <= w - j /\ w - j < NumWords + NumWords
  BY <1>1, <1>2
<1>4. PICK x \in WordAddr : x = Wrap(w - j) /\ x = IF w - j < 0 THEN (w - j) + NumWords ELSE w - j
  <2>1. PICK i \in Int : i = w - j
    BY <1>3
  <2>2. i % NumWords \in WordAddr /\ -NumWords <= i /\ i < NumWords + NumWords
    BY <1>3, <2>1, Modulo
  <2>3. i % NumWords = IF i < 0 THEN i + NumWords
                        ELSE IF i < NumWords THEN i ELSE i - NumWords
    BY <2>2, Modulo
  <2> QED
    BY <1>1, <1>2, <2>1, <2>2, <2>3 DEF Wrap
<1>5. Depth(b, x) = IF x <= b THEN b - x ELSE (b - x) + NumWords
  BY DepthRange
<1>6. x \in Nat /\ x < NumWords
  BY <1>1 DEF WordAddr
<1>7. Depth(b, x) = Depth(b, w) + j
  BY <1>1, <1>2, <1>4, <1>5, <1>6
<1> QED
  BY <1>4, <1>7

LEMMA Up ==
    ASSUME NEW b \in WordAddr, NEW w \in WordAddr, NEW j \in Nat, j <= Depth(b, w)
    PROVE  Wrap(w + j) \in WordAddr /\ Depth(b, Wrap(w + j)) = Depth(b, w) - j
<1>1. /\ NumWords \in Nat /\ b \in Nat /\ b < NumWords /\ w \in Nat /\ w < NumWords
  BY SizesAssumption DEF WordAddr
<1>2. Depth(b, w) \in Nat /\ Depth(b, w) = IF w <= b THEN b - w ELSE (b - w) + NumWords
  BY DepthRange
<1>3. w + j \in Int /\ -NumWords <= w + j /\ w + j < NumWords + NumWords
  BY <1>1, <1>2
<1>4. PICK x \in WordAddr : x = Wrap(w + j) /\ x = IF w + j < NumWords THEN w + j ELSE (w + j) - NumWords
  <2>1. PICK i \in Int : i = w + j
    BY <1>3
  <2>2. i % NumWords \in WordAddr /\ -NumWords <= i /\ i < NumWords + NumWords
    BY <1>3, <2>1, Modulo
  <2>3. i % NumWords = IF i < 0 THEN i + NumWords
                        ELSE IF i < NumWords THEN i ELSE i - NumWords
    BY <2>2, Modulo
  <2> QED
    BY <1>1, <1>2, <2>1, <2>2, <2>3 DEF Wrap
<1>5. Depth(b, x) = IF x <= b THEN b - x ELSE (b - x) + NumWords
  BY DepthRange
<1>6. x \in Nat /\ x < NumWords
  BY <1>1 DEF WordAddr
<1>7. Depth(b, x) = Depth(b, w) - j
  BY <1>1, <1>2, <1>4, <1>5, <1>6
<1> QED
  BY <1>4, <1>7

-----------------------------------------------------------------------------
(* Register lists.                                                         *)

HasMDR(list) == \E k \in 1 .. Len(list) : list[k] = "MDR"

LEMMA BitAdds ==
    ASSUME NEW mask, NEW list \in Seq(RegName), NEW r \in Named
    PROVE  /\ list \o Bit(mask, r) \in Seq(RegName)
           /\ Len(list \o Bit(mask, r)) <= Len(list) + 1
           /\ Len(list) <= Len(list \o Bit(mask, r))
           /\ HasMDR(list \o Bit(mask, r)) <=> HasMDR(list)
<1>1. r \in RegName /\ r # "MDR"
  BY DEF RegName, Named
<1>2. CASE r \notin mask
  <2>1. list \o Bit(mask, r) = list
    BY <1>2 DEF Bit
  <2> QED
    BY <2>1
<1>3. CASE r \in mask
  <2>1. Bit(mask, r) = <<r>>
    BY <1>3 DEF Bit
  <2>2. /\ Append(list, r) = list \o <<r>>
        /\ Append(list, r) \in Seq(RegName) /\ Len(Append(list, r)) = Len(list) + 1
        /\ \A k \in 1 .. Len(list) : Append(list, r)[k] = list[k]
        /\ Append(list, r)[Len(list) + 1] = r
    BY <1>1
  <2>3. PICK new \in Seq(RegName) : new = Append(list, r)
    BY <2>2
  <2>4. Len(list) \in Nat /\ Len(new) = Len(list) + 1
    BY <2>2, <2>3
  <2>5. HasMDR(new) <=> HasMDR(list)
    <3>1. \A k \in 1 .. Len(new) : new[k] = IF k <= Len(list) THEN list[k] ELSE r
      BY <2>2, <2>3, <2>4
    <3> QED
      BY <1>1, <2>4, <3>1 DEF HasMDR
  <2> QED
    BY <2>1, <2>2, <2>3, <2>4, <2>5
<1> QED
  BY <1>2, <1>3

LEMMA FunctionIsSeq ==
    ASSUME NEW S, NEW n \in Nat, NEW f \in [1 .. n -> S]
    PROVE  f \in Seq(S) /\ Len(f) = n
<1>1. f \in Seq(S)
  BY SeqDef
<1>2. Len(f) \in Nat /\ 1 .. Len(f) = 1 .. n
  BY <1>1, LenProperties
<1> QED
  BY <1>1, <1>2

LEMMA SevenInSeq ==
    ASSUME NEW S, NEW a \in S, NEW b \in S, NEW c \in S, NEW d \in S, NEW e \in S, NEW f \in S, NEW g \in S
    PROVE  <<a, b, c, d, e, f, g>> \in Seq(S)
OBVIOUS

LEMMA SevenNames ==
    /\ "LAR" \in RegName /\ "LIR" \in RegName /\ "MDR" \in RegName /\ "A1" \in RegName
    /\ "A0" \in RegName /\ "D1" \in RegName /\ "D0" \in RegName
<1>1. Len(Others) = 7
  BY DEF Others
<1>2. /\ Others[1] = "LAR" /\ Others[2] = "LIR" /\ Others[3] = "MDR" /\ Others[4] = "A1"
      /\ Others[5] = "A0" /\ Others[6] = "D1" /\ Others[7] = "D0"
  BY DEF Others
<1>3. \A k \in 1 .. 7 : Others[k] \in RegName
  BY <1>1 DEF RegName
<1> QED
  BY <1>2, <1>3

LEMMA Lists ==
    ASSUME NEW mask
    PROVE  /\ MovmList(mask) \in Seq(RegName)
           /\ Len(MovmList(mask)) <= 11
           /\ HasMDR(MovmList(mask)) <=> "other" \in mask
           /\ MovmSize(mask) \in Nat /\ MovmSize(mask) <= 12 /\ Len(MovmList(mask)) <= MovmSize(mask)
<1> DEFINE l0 == IF "other" \in mask THEN Others ELSE <<>>
           l1 == l0 \o Bit(mask, "A3")
           l2 == l1 \o Bit(mask, "A2")
           l3 == l2 \o Bit(mask, "D3")
           l4 == l3 \o Bit(mask, "D2")
<1>0. "A3" \in Named /\ "A2" \in Named /\ "D3" \in Named /\ "D2" \in Named
  BY DEF Named
<1>1. l0 \in Seq(RegName) /\ Len(l0) <= 7 /\ (HasMDR(l0) <=> "other" \in mask)
  <2>1. Len(Others) = 7 /\ Others[3] = "MDR"
    BY DEF Others
  <2>2. Others \in Seq(RegName)
    BY SevenNames, SevenInSeq DEF Others
  <2>3. CASE "other" \in mask
    <3>1. l0 = Others
      BY <2>3
    <3> QED
      <4>1. 3 \in 1 .. Len(Others)
        BY <2>1
      <4>2. HasMDR(Others)
        BY <2>1, <4>1 DEF HasMDR
      <4> HIDE DEF l0
      <4>3. Len(Others) <= 7
        BY <2>1
      <4> QED
        BY <2>2, <2>3, <3>1, <4>2, <4>3, Zenon
  <2>4. CASE "other" \notin mask
    <3>1. l0 = <<>>
      BY <2>4
    <3> QED
      BY <2>4, <3>1 DEF HasMDR
  <2> QED
    BY <2>3, <2>4
<1>2. l1 \in Seq(RegName) /\ Len(l1) <= 8 /\ (HasMDR(l1) <=> HasMDR(l0))
  <2> HIDE DEF l0
  <2>1. /\ l1 \in Seq(RegName) /\ Len(l1) <= Len(l0) + 1
        /\ HasMDR(l1) <=> HasMDR(l0)
    BY <1>0, <1>1, BitAdds
  <2>2. Len(l0) \in Nat /\ Len(l1) \in Nat
    BY <1>1, <2>1
  <2> HIDE DEF l1
  <2> QED
    BY <1>1, <2>1, <2>2
<1>3. l2 \in Seq(RegName) /\ Len(l2) <= 9 /\ (HasMDR(l2) <=> HasMDR(l1))
  <2> HIDE DEF l1
  <2>1. /\ l2 \in Seq(RegName) /\ Len(l2) <= Len(l1) + 1
        /\ HasMDR(l2) <=> HasMDR(l1)
    BY <1>0, <1>2, BitAdds
  <2>2. Len(l1) \in Nat /\ Len(l2) \in Nat
    BY <1>2, <2>1
  <2> HIDE DEF l2
  <2> QED
    BY <1>2, <2>1, <2>2
<1>4. l3 \in Seq(RegName) /\ Len(l3) <= 10 /\ (HasMDR(l3) <=> HasMDR(l2))
  <2> HIDE DEF l2
  <2>1. /\ l3 \in Seq(RegName) /\ Len(l3) <= Len(l2) + 1
        /\ HasMDR(l3) <=> HasMDR(l2)
    BY <1>0, <1>3, BitAdds
  <2>2. Len(l2) \in Nat /\ Len(l3) \in Nat
    BY <1>3, <2>1
  <2> HIDE DEF l3
  <2> QED
    BY <1>3, <2>1, <2>2
<1>5. l4 \in Seq(RegName) /\ Len(l4) <= 11 /\ (HasMDR(l4) <=> HasMDR(l3))
  <2> HIDE DEF l3
  <2>1. /\ l4 \in Seq(RegName) /\ Len(l4) <= Len(l3) + 1
        /\ HasMDR(l4) <=> HasMDR(l3)
    BY <1>0, <1>4, BitAdds
  <2>2. Len(l3) \in Nat /\ Len(l4) \in Nat
    BY <1>4, <2>1
  <2> HIDE DEF l4
  <2> QED
    BY <1>4, <2>1, <2>2
<1>6. MovmList(mask) = l4
  BY DEF MovmList
<1> HIDE DEF l0, l1, l2, l3, l4
<1>7. Len(MovmList(mask)) \in Nat
  BY <1>5, <1>6
<1> QED
  BY <1>1, <1>2, <1>3, <1>4, <1>5, <1>6, <1>7 DEF MovmSize

-----------------------------------------------------------------------------
(* What an activation keeps in memory.                                     *)

Kinds == {"call", "calls", "trap", "movm", "local"}
Returning == {"call", "calls", "trap"}

ActType == [kind : Kinds, list : Seq(RegName), size : Nat, at : WordAddr, linked : BOOLEAN]

\* An activation and what memory m holds for it.
View(m, act) ==
    [kind  |-> act.kind,
     ret   |-> IF act.kind \in Returning THEN m[act.at] ELSE <<"none", 0>>,
     saved |-> [r \in {act.list[k] : k \in 1 .. Len(act.list)} |->
                  m[Slot(act.at, act.list,
                         CHOOSE k \in 1 .. Len(act.list) : act.list[k] = r)]],
     size  |-> act.size]

Views(m, st) == [i \in 1 .. Len(st) |-> View(m, st[i])]

\* The deepest word the activation has a value in.
Reach(b, act) == Depth(b, act.at) + Len(act.list)

\* The activations have their values in words no deeper than d ...
Live(b, st, d) == \A i \in 1 .. Len(st) : Reach(b, st[i]) <= d

\* ... and in those two memories are the same.
Agree(b, m, m2, d) == \A v \in WordAddr : Depth(b, v) <= d => m2[v] = m[v]

LEMMA SlotDepth ==
    ASSUME NEW b \in WordAddr, NEW w \in WordAddr, NEW list \in Seq(RegName),
           Depth(b, w) + Len(list) < NumWords, NEW k \in 1 .. Len(list)
    PROVE  Slot(w, list, k) \in WordAddr /\ Depth(b, Slot(w, list, k)) = Depth(b, w) + ((Len(list) - k) + 1)
<1>1. Depth(b, w) \in Nat /\ Len(list) \in Nat /\ NumWords \in Nat
  BY DepthRange, SizesAssumption
<1>2. PICK n \in Nat : n = Len(list) /\ Depth(b, w) + n < NumWords
  BY <1>1
<1>3. (n - k) + 1 \in Nat /\ (n - k) + 1 <= n
  <2>1. k \in Nat /\ 1 <= k /\ k <= n
    BY <1>2
  <2> QED
    BY <2>1
<1>4. PICK j \in Nat : j = (n - k) + 1 /\ j <= n
  BY <1>3
<1>5. Depth(b, w) + j < NumWords
  BY <1>1, <1>2, <1>4
<1>6. Slot(w, list, k) = Wrap(w - j)
  BY <1>2, <1>4 DEF Slot
<1> QED
  BY <1>2, <1>4, <1>5, <1>6, Down

LEMMA ViewKept ==
    ASSUME NEW b \in WordAddr, NEW act \in ActType, NEW m, NEW m2, NEW d \in Int,
           d < NumWords, Reach(b, act) <= d, Agree(b, m, m2, d)
    PROVE  /\ View(m2, act) = View(m, act)
           /\ m2[act.at] = m[act.at]
           /\ \A k \in 1 .. Len(act.list) :
                 m2[Slot(act.at, act.list, k)] = m[Slot(act.at, act.list, k)]
<1>1. act.at \in WordAddr /\ act.list \in Seq(RegName) /\ Len(act.list) \in Nat /\ NumWords \in Nat
  BY SizesAssumption DEF ActType
<1>2. Depth(b, act.at) \in Nat /\ Depth(b, act.at) + Len(act.list) <= d
  BY <1>1, DepthRange DEF Reach
<1>3. m2[act.at] = m[act.at]
  BY <1>1, <1>2 DEF Agree
<1>4. ASSUME NEW k \in 1 .. Len(act.list)
      PROVE  m2[Slot(act.at, act.list, k)] = m[Slot(act.at, act.list, k)]
  <2>1. Depth(b, act.at) + Len(act.list) < NumWords
    BY <1>1, <1>2
  <2>2. Slot(act.at, act.list, k) \in WordAddr
        /\ Depth(b, Slot(act.at, act.list, k)) = Depth(b, act.at) + ((Len(act.list) - k) + 1)
    BY <1>1, <2>1, SlotDepth
  <2>3. Depth(b, Slot(act.at, act.list, k)) <= d
    BY <1>1, <1>2, <2>2
  <2> QED
    BY <2>2, <2>3 DEF Agree
<1>5. ASSUME NEW r \in {act.list[k] : k \in 1 .. Len(act.list)}
      PROVE  (CHOOSE k \in 1 .. Len(act.list) : act.list[k] = r) \in 1 .. Len(act.list)
  BY <1>5
<1>6. [r \in {act.list[k] : k \in 1 .. Len(act.list)} |->
         m2[Slot(act.at, act.list, CHOOSE k \in 1 .. Len(act.list) : act.list[k] = r)]]
      = [r \in {act.list[k] : k \in 1 .. Len(act.list)} |->
           m[Slot(act.at, act.list, CHOOSE k \in 1 .. Len(act.list) : act.list[k] = r)]]
  BY <1>4, <1>5
<1>7. View(m2, act) = View(m, act)
  BY <1>3, <1>6 DEF View
<1> QED
  BY <1>3, <1>4, <1>7

LEMMA ViewsAppend ==
    ASSUME NEW st \in Seq(ActType), NEW act \in ActType, NEW m
    PROVE  /\ Views(m, Append(st, act)) = Append(Views(m, st), View(m, act))
           /\ Len(Views(m, st)) = Len(st)
           /\ Len(Views(m, Append(st, act))) = Len(st) + 1
           /\ Views(m, Append(st, act))[Len(st) + 1] = View(m, act)
<1>1. PICK n \in Nat : n = Len(st)
  OBVIOUS
<1>2. /\ Len(Append(st, act)) = n + 1
      /\ \A i \in 1 .. n : Append(st, act)[i] = st[i]
      /\ Append(st, act)[n + 1] = act
  BY <1>1
<1>3. Views(m, st) = [i \in 1 .. n |-> View(m, st[i])]
  BY <1>1 DEF Views
<1>4. Views(m, Append(st, act)) = [i \in 1 .. n + 1 |-> IF i <= n THEN View(m, st[i]) ELSE View(m, act)]
  BY <1>2 DEF Views
<1> DEFINE Any1 == {View(m, st[i]) : i \in 1 .. n} \cup {View(m, act)}
<1>5. PICK vs \in Seq(Any1) : vs = Views(m, st) /\ Len(vs) = n /\ \A i \in 1 .. n : vs[i] = View(m, st[i])
  <2>1. [i \in 1 .. n |-> View(m, st[i])] \in [1 .. n -> Any1]
    OBVIOUS
  <2>2. Views(m, st) \in Seq(Any1) /\ Len(Views(m, st)) = n
    <3> HIDE DEF Any1
    <3> QED
      BY <1>3, <2>1, FunctionIsSeq
  <2> QED
    BY <1>3, <2>2
<1>6. PICK ws \in Seq(Any1) : ws = Append(vs, View(m, act)) /\ Len(ws) = n + 1
                               /\ (\A i \in 1 .. n : ws[i] = View(m, st[i]))
                               /\ ws[n + 1] = View(m, act)
  <2> HIDE DEF Any1
  <2>1. View(m, act) \in Any1
    BY DEF Any1
  <2>2. /\ Append(vs, View(m, act)) \in Seq(Any1) /\ Len(Append(vs, View(m, act))) = n + 1
        /\ \A i \in 1 .. n : Append(vs, View(m, act))[i] = vs[i]
        /\ Append(vs, View(m, act))[n + 1] = View(m, act)
    BY <1>5, <2>1
  <2> QED
    BY <1>5, <2>2
<1>7. ws = [i \in 1 .. n + 1 |-> IF i <= n THEN View(m, st[i]) ELSE View(m, act)]
  <2> HIDE DEF Any1
  <2>1. ws = [i \in 1 .. n + 1 |-> ws[i]]
    BY <1>6, LenProperties
  <2>2. \A i \in 1 .. n + 1 : ws[i] = IF i <= n THEN View(m, st[i]) ELSE View(m, act)
    BY <1>6
  <2> QED
    BY <2>1, <2>2
<1> QED
  BY <1>1, <1>4, <1>5, <1>6, <1>7

-----------------------------------------------------------------------------
(* The invariant.                                                          *)

\* What a handler makes of an activation.
Shape(act) ==
    /\ Len(act.list) <= act.size /\ act.size <= Room
    /\ act.kind \in {"call", "local"} => Len(act.list) < act.size
    /\ act.kind \in {"calls", "trap", "local"} => act.list = <<>>
    /\ act.kind \in {"calls", "trap"} => act.size = 0
    /\ act.kind = "movm" => \E mask \in Masks : act.list = MovmList(mask) /\ act.size = MovmSize(mask)

\* Where the activation after the i-th, or the free part of the stack, begins.
End(st, sp, i) == IF i = Len(st) THEN sp ELSE st[i + 1].at

\* Frames lie one below the other and the stack does not get around memory.
Fits(b, st, sp) ==
    /\ Depth(b, sp) <= Len(st) * Room
    /\ \A i \in 1 .. Len(st) : Shape(st[i])
    /\ \A i \in 1 .. Len(st) : Depth(b, st[i].at) + st[i].size = Depth(b, End(st, sp, i))
    /\ \A i \in 1 .. Len(st) : Depth(b, st[i].at) <= (i - 1) * Room
    /\ \A i, j \in 1 .. Len(st) : i < j => Depth(b, st[i].at) + st[i].size <= Depth(b, st[j].at)

\* What lies where a return address was stored is one.
ReturnsStand(m, st) == \A i \in 1 .. Len(st) : st[i].kind \in Returning => m[st[i].at][1] = "code"

\* v is the return address of the innermost CALL among the first n activations.
LinksTo(m, st, n, v) ==
    \A i \in 1 .. n : (st[i].kind = "call" /\ \A j \in i + 1 .. n : st[j].kind # "call")
                         => v = m[st[i].at]

\* MDR, where an activation saved it while it was the link to its caller.
SavedLinks(m, st) ==
    \A i \in 1 .. Len(st) : st[i].linked =>
        \A k \in 1 .. Len(st[i].list) : st[i].list[k] = "MDR" =>
            LinksTo(m, st, i - 1, m[Slot(st[i].at, st[i].list, k)])

Word == Value \X Nat

Typed ==
    /\ mem \in [WordAddr -> Word]
    /\ regs \in [RegName -> Word]
    /\ PC \in {"code"} \X Nat
    /\ SP \in WordAddr /\ base \in WordAddr
    /\ acts \in Seq(ActType) /\ Len(acts) <= MaxDepth
    /\ linked \in BOOLEAN /\ halted \in BOOLEAN

StackInv ==
    /\ Typed
    /\ Fits(base, acts, SP)
    /\ ReturnsStand(mem, acts)
    /\ SavedLinks(mem, acts)
    /\ linked => LinksTo(mem, acts, Len(acts), regs["MDR"])

-----------------------------------------------------------------------------
(* Activations whose words are left alone.                                 *)

LEMMA LinksKept ==
    ASSUME NEW m, NEW m2, NEW st, NEW st2, NEW n \in Nat, NEW v,
           \A i \in 1 .. n : st2[i] = st[i] /\ m2[st[i].at] = m[st[i].at],
           LinksTo(m, st, n, v)
    PROVE  LinksTo(m2, st2, n, v)
<1>1. \A i \in 1 .. n : \A j \in i + 1 .. n : j \in 1 .. n
  OBVIOUS
<1> QED
  BY <1>1 DEF LinksTo

LEMMA StackKept ==
    ASSUME NEW b \in WordAddr, NEW st \in Seq(ActType), NEW m, NEW m2, NEW d \in Int,
           d < NumWords, Live(b, st, d), Agree(b, m, m2, d)
    PROVE  /\ Views(m2, st) = Views(m, st)
           /\ ReturnsStand(m, st) => ReturnsStand(m2, st)
           /\ SavedLinks(m, st) => SavedLinks(m2, st)
           /\ \A v : LinksTo(m, st, Len(st), v) => LinksTo(m2, st, Len(st), v)
<1>0. Len(st) \in Nat
  OBVIOUS
<1>1. ASSUME NEW i \in 1 .. Len(st)
      PROVE  /\ View(m2, st[i]) = View(m, st[i])
             /\ m2[st[i].at] = m[st[i].at]
             /\ \A k \in 1 .. Len(st[i].list) :
                   m2[Slot(st[i].at, st[i].list, k)] = m[Slot(st[i].at, st[i].list, k)]
  <2>1. st[i] \in ActType /\ Reach(b, st[i]) <= d
    BY DEF Live
  <2> QED
    BY <2>1, ViewKept
<1>2. Views(m2, st) = Views(m, st)
  BY <1>1 DEF Views
<1>3. ReturnsStand(m, st) => ReturnsStand(m2, st)
  BY <1>1 DEF ReturnsStand
<1>4. ASSUME NEW v, NEW n \in Nat, n <= Len(st), LinksTo(m, st, n, v)
      PROVE  LinksTo(m2, st, n, v)
  <2>1. \A i \in 1 .. n : i \in 1 .. Len(st)
    BY <1>0, <1>4
  <2>2. \A i \in 1 .. n : st[i] = st[i] /\ m2[st[i].at] = m[st[i].at]
    BY <1>1, <2>1
  <2> QED
    BY <1>4, <2>2, LinksKept
<1>5. ASSUME SavedLinks(m, st)
      PROVE  SavedLinks(m2, st)
  <2> SUFFICES ASSUME NEW i \in 1 .. Len(st), st[i].linked,
                      NEW k \in 1 .. Len(st[i].list), st[i].list[k] = "MDR"
               PROVE  LinksTo(m2, st, i - 1, m2[Slot(st[i].at, st[i].list, k)])
    BY DEF SavedLinks
  <2>1. LinksTo(m, st, i - 1, m[Slot(st[i].at, st[i].list, k)])
    BY <1>5 DEF SavedLinks
  <2>2. i - 1 \in Nat /\ i - 1 <= Len(st)
    BY <1>0
  <2> QED
    BY <1>1, <1>4, <2>1, <2>2
<1> QED
  BY <1>0, <1>2, <1>3, <1>4, <1>5

-----------------------------------------------------------------------------
(* Entering an activation.                                                 *)

LEMMA Pushed ==
    ASSUME NEW S, NEW st \in Seq(S), NEW act \in S
    PROVE  /\ Append(st, act) \in Seq(S)
           /\ Len(st) \in Nat /\ Len(Append(st, act)) = Len(st) + 1
           /\ \A i \in 1 .. Len(st) : Append(st, act)[i] = st[i]
           /\ Append(st, act)[Len(st) + 1] = act
OBVIOUS

LEMMA Extended ==
    ASSUME NEW st \in Seq(ActType), NEW act \in ActType
    PROVE  \E n \in Nat, st2 \in Seq(ActType) :
              /\ n = Len(st) /\ st2 = Append(st, act)
              /\ Len(st2) = n + 1 /\ (\A i \in 1 .. n : st2[i] = st[i]) /\ st2[n + 1] = act
<1> DEFINE Ext(n, st2) ==
              /\ n = Len(st) /\ st2 = Append(st, act)
              /\ Len(st2) = n + 1 /\ (\A i \in 1 .. n : st2[i] = st[i]) /\ st2[n + 1] = act
<1>1. Ext(Len(st), Append(st, act)) /\ Len(st) \in Nat /\ Append(st, act) \in Seq(ActType)
  BY Pushed
<1> HIDE DEF Ext
<1>2. \E n \in Nat, st2 \in Seq(ActType) : Ext(n, st2)
  BY <1>1, Zenon
<1> QED
  BY <1>2 DEF Ext

LEMMA RoomLeft ==
    ASSUME NEW n \in Nat, n <= MaxDepth
    PROVE  /\ n * Room \in Nat /\ n * Room < NumWords
           /\ (n + 1) * Room = n * Room + Room
           /\ n < MaxDepth => n * Room + Room < NumWords
<1>1. PICK r \in Nat : r = Room
  BY StackAssumption
<1>2. PICK d \in Nat : d = MaxDepth
  BY SizesAssumption
<1>3. n * r \in Nat /\ (n + 1) * r = n * r + r
  BY SMTT(30)
<1>4. \A k \in Nat : k <= d => k * r <= d * r
  BY SMTT(30)
<1>5. n * r <= d * r /\ (n + 1 <= d => (n + 1) * r <= d * r)
  BY <1>2, <1>4
<1>6. d * r < NumWords /\ NumWords \in Nat /\ d * r \in Nat
  BY <1>1, <1>2, StackAssumption, SizesAssumption
<1>7. PICK x \in Nat : x = n * r
  BY <1>3
<1>8. PICK y \in Nat : y = d * r
  BY <1>6
<1> QED
  BY <1>1, <1>2, <1>3, <1>5, <1>6, <1>7, <1>8

LEMMA FitsPush ==
    ASSUME NEW b \in WordAddr, NEW st \in Seq(ActType), NEW sp \in WordAddr, Fits(b, st, sp),
           Len(st) < MaxDepth, NEW act \in ActType, Shape(act), act.at = sp,
           NEW sp2 \in WordAddr, Depth(b, sp2) = Depth(b, sp) + act.size
    PROVE  Fits(b, Append(st, act), sp2)
<1>1. PICK n \in Nat, st2 \in Seq(ActType) :
               /\ n = Len(st) /\ st2 = Append(st, act)
               /\ Len(st2) = n + 1 /\ (\A i \in 1 .. n : st2[i] = st[i]) /\ st2[n + 1] = act
  BY Extended, Zenon
<1>2. Len(st2) = n + 1 /\ (\A i \in 1 .. n : st2[i] = st[i]) /\ st2[n + 1] = act
  BY <1>1, Zenon
<1>3. act.size \in Nat /\ act.size <= Room /\ Room \in Nat
  BY StackAssumption DEF ActType, Shape
<1>4. n < MaxDepth /\ n <= MaxDepth /\ MaxDepth \in Nat
  BY <1>1, SizesAssumption
<1>5. PICK x \in Nat : x = n * Room /\ (n + 1) * Room = x + Room
  BY <1>4, RoomLeft
<1>6. Depth(b, sp) \in Nat /\ Depth(b, sp) <= x
  BY <1>1, <1>5, DepthRange DEF Fits
<1>7. Depth(b, sp2) <= (n + 1) * Room
  BY <1>3, <1>5, <1>6
<1>8. \A i \in 1 .. n + 1 : Shape(st2[i])
  BY <1>1, <1>2 DEF Fits
<1>9. ASSUME NEW i \in 1 .. n + 1
      PROVE  Depth(b, st2[i].at) + st2[i].size = Depth(b, End(st2, sp2, i))
  <2>1. CASE i = n + 1
    BY <1>2, <2>1 DEF End
  <2>2. CASE i = n
    <3>1. i \in 1 .. n /\ i # n + 1 /\ st2[i] = st[i] /\ st2[i + 1] = act
      BY <1>2, <2>2
    <3>2. End(st2, sp2, i) = sp /\ End(st, sp, i) = sp
      BY <1>1, <1>2, <2>2, <3>1 DEF End
    <3> QED
      BY <1>1, <3>1, <3>2 DEF Fits
  <2>3. CASE i < n
    <3>1. i \in 1 .. n /\ i + 1 \in 1 .. n /\ i # n + 1 /\ i # n
      BY <2>3
    <3>2. st2[i] = st[i] /\ st2[i + 1] = st[i + 1]
      BY <1>2, <3>1
    <3>3. End(st2, sp2, i) = End(st, sp, i)
      BY <1>1, <1>2, <3>1, <3>2 DEF End
    <3> QED
      BY <1>1, <3>1, <3>2, <3>3 DEF Fits
  <2> QED
    BY <2>1, <2>2, <2>3
<1>10. ASSUME NEW i \in 1 .. n + 1
       PROVE  Depth(b, st2[i].at) <= (i - 1) * Room
  <2>1. CASE i = n + 1
    <3>1. i - 1 = n /\ st2[i].at = sp
      BY <1>2, <2>1
    <3> QED
      BY <1>5, <1>6, <3>1
  <2>2. CASE i \in 1 .. n
    BY <1>1, <1>2, <2>2 DEF Fits
  <2> QED
    BY <2>1, <2>2
<1>11. ASSUME NEW i \in 1 .. n
       PROVE  Depth(b, st[i].at) + st[i].size <= Depth(b, sp)
  <2>1. /\ st[i] \in ActType /\ st[n] \in ActType
        /\ Depth(b, st[i].at) + st[i].size = Depth(b, End(st, sp, i))
        /\ Depth(b, st[n].at) + st[n].size = Depth(b, End(st, sp, n))
    BY <1>1 DEF Fits
  <2>2. st[n].size \in Nat /\ Depth(b, st[n].at) \in Nat /\ End(st, sp, n) = sp
    BY <1>1, <2>1, DepthRange DEF ActType, End
  <2>3. CASE i = n
    BY <1>6, <2>1, <2>2, <2>3
  <2>4. CASE i < n
    <3>1. Depth(b, st[i].at) + st[i].size <= Depth(b, st[n].at)
      BY <1>1, <2>4 DEF Fits
    <3>2. Depth(b, st[i].at) \in Nat /\ st[i].size \in Nat
      BY <2>1, DepthRange DEF ActType
    <3>3. Depth(b, st[n].at) <= Depth(b, sp)
      BY <1>6, <2>1, <2>2
    <3> QED
      BY <1>6, <2>2, <3>1, <3>2, <3>3
  <2> QED
    BY <2>3, <2>4
<1>12. ASSUME NEW i \in 1 .. n + 1, NEW j \in 1 .. n + 1, i < j
       PROVE  Depth(b, st2[i].at) + st2[i].size <= Depth(b, st2[j].at)
  <2>1. i \in 1 .. n /\ st2[i] = st[i]
    BY <1>2, <1>12
  <2>2. CASE j = n + 1
    BY <1>2, <1>11, <2>1, <2>2
  <2>3. CASE j \in 1 .. n
    BY <1>1, <1>2, <1>12, <2>1, <2>3 DEF Fits
  <2> QED
    BY <2>2, <2>3
<1>13. Fits(b, st2, sp2)
  BY <1>2, <1>7, <1>8, <1>9, <1>10, <1>12 DEF Fits
<1> QED
  BY <1>1, <1>13, Zenon

\* The words of the activations are above SP, or above the word SP points to.
LEMMA LiveBelow ==
    ASSUME NEW b \in WordAddr, NEW st \in Seq(ActType), NEW sp \in WordAddr, Fits(b, st, sp)
    PROVE  /\ Live(b, st, Depth(b, sp))
           /\ (st # <<>> => Len(st[Len(st)].list) < st[Len(st)].size) => Live(b, st, Depth(b, sp) - 1)
<1>1. PICK n \in Nat : n = Len(st)
  BY Pushed
<1>2. Depth(b, sp) \in Nat
  BY DepthRange
<1>3. ASSUME NEW i \in 1 .. n
      PROVE  /\ Reach(b, st[i]) <= Depth(b, sp)
             /\ Len(st[n].list) < st[n].size => Reach(b, st[i]) <= Depth(b, sp) - 1
  <2>1. /\ n \in 1 .. n /\ st[i] \in ActType /\ st[n] \in ActType
        /\ Shape(st[i]) /\ Shape(st[n])
        /\ Depth(b, st[n].at) + st[n].size = Depth(b, sp)
    BY <1>1 DEF Fits, End
  <2>2. ASSUME NEW act \in ActType, Shape(act)
        PROVE  /\ act.size \in Nat /\ Depth(b, act.at) \in Nat
               /\ Len(act.list) \in Nat /\ Len(act.list) <= act.size
    <3>1. act.size \in Nat /\ act.at \in WordAddr /\ act.list \in Seq(RegName)
      BY DEF ActType
    <3> QED
      BY <2>2, <3>1, DepthRange DEF Shape
  <2>3. /\ st[n].size \in Nat /\ Depth(b, st[n].at) \in Nat
        /\ Len(st[n].list) \in Nat /\ Len(st[n].list) <= st[n].size
    BY <2>1, <2>2
  <2>4. /\ st[i].size \in Nat /\ Depth(b, st[i].at) \in Nat
        /\ Len(st[i].list) \in Nat /\ Len(st[i].list) <= st[i].size
    BY <2>1, <2>2
  <2>5. CASE i = n
    BY <1>2, <2>1, <2>3, <2>5 DEF Reach
  <2>6. CASE i < n
    <3>1. Depth(b, st[i].at) + st[i].size <= Depth(b, st[n].at)
      BY <1>1, <2>6 DEF Fits
    <3>2. PICK x \in Nat, y \in Nat, z \in Nat :
             x = Depth(b, st[n].at) /\ y = st[n].size /\ z = Len(st[n].list)
      BY <2>3, Zenon
    <3>3. Reach(b, st[i]) <= x /\ Reach(b, st[i]) \in Nat
      <4>1. PICK u \in Nat, v \in Nat, l \in Nat :
               u = Depth(b, st[i].at) /\ v = st[i].size /\ l = Len(st[i].list)
        BY <2>4, Zenon
      <4>2. u + v <= x /\ l <= v
        BY <2>4, <3>1, <3>2, <4>1, Zenon
      <4>3. Reach(b, st[i]) = u + l
        BY <4>1, Zenon DEF Reach
      <4> QED
        BY <4>2, <4>3
    <3>4. Depth(b, sp) = x + y
      BY <2>1, <3>2, Zenon
    <3> QED
      BY <3>2, <3>3, <3>4
  <2>7. i = n \/ i < n
    OBVIOUS
  <2> QED
    BY <2>5, <2>6, <2>7, Zenon
<1>4. Live(b, st, Depth(b, sp))
  BY <1>1, <1>3 DEF Live
<1>5. ASSUME st # <<>> => Len(st[Len(st)].list) < st[Len(st)].size
      PROVE  Live(b, st, Depth(b, sp) - 1)
  <2>1. CASE n = 0
    BY <1>1, <2>1 DEF Live
  <2>2. CASE n > 0
    <3>1. st # <<>>
      BY <1>1, <2>2
    <3> QED
      BY <1>1, <1>3, <1>5, <3>1 DEF Live
  <2> QED
    BY <2>1, <2>2
<1> QED
  BY <1>4, <1>5

LEMMA LinksPush ==
    ASSUME NEW m, NEW st \in Seq(ActType), NEW act \in ActType, NEW v
    PROVE  /\ act.kind # "call" =>
                (LinksTo(m, st, Len(st), v) => LinksTo(m, Append(st, act), Len(st) + 1, v))
           /\ act.kind = "call" => (v = m[act.at] => LinksTo(m, Append(st, act), Len(st) + 1, v))
<1>1. PICK n \in Nat, st2 \in Seq(ActType) :
               /\ n = Len(st) /\ st2 = Append(st, act)
               /\ Len(st2) = n + 1 /\ (\A i \in 1 .. n : st2[i] = st[i]) /\ st2[n + 1] = act
  BY Extended, Zenon
<1>2. Len(st2) = n + 1 /\ (\A i \in 1 .. n : st2[i] = st[i]) /\ st2[n + 1] = act
  BY <1>1, Zenon
<1>3. ASSUME act.kind # "call", LinksTo(m, st, n, v)
      PROVE  LinksTo(m, st2, n + 1, v)
  <2> SUFFICES ASSUME NEW i \in 1 .. n + 1, st2[i].kind = "call",
                      \A j \in i + 1 .. n + 1 : st2[j].kind # "call"
               PROVE  v = m[st2[i].at]
    BY DEF LinksTo
  <2>1. i # n + 1
    BY <1>2, <1>3
  <2>2. i \in 1 .. n /\ st2[i] = st[i]
    BY <1>2, <2>1
  <2>3. \A j \in i + 1 .. n : st[j].kind # "call"
    <3> SUFFICES ASSUME NEW j \in i + 1 .. n
                 PROVE  st[j].kind # "call"
      OBVIOUS
    <3>1. j \in 1 .. n /\ j \in i + 1 .. n + 1
      BY <2>2
    <3> QED
      BY <1>2, <3>1
  <2> QED
    BY <1>3, <2>2, <2>3 DEF LinksTo
<1>4. ASSUME act.kind = "call", v = m[act.at]
      PROVE  LinksTo(m, st2, n + 1, v)
  <2> SUFFICES ASSUME NEW i \in 1 .. n + 1, st2[i].kind = "call",
                      \A j \in i + 1 .. n + 1 : st2[j].kind # "call"
               PROVE  v = m[st2[i].at]
    BY DEF LinksTo
  <2>1. i = n + 1
    <3> SUFFICES ASSUME i # n + 1
                 PROVE  FALSE
      OBVIOUS
    <3>1. n + 1 \in i + 1 .. n + 1
      OBVIOUS
    <3> QED
      BY <1>2, <1>4, <3>1
  <2> QED
    BY <1>2, <1>4, <2>1
<1> QED
  BY <1>1, <1>2, <1>3, <1>4

LEMMA SavedLinksPush ==
    ASSUME NEW m, NEW st \in Seq(ActType), NEW act \in ActType, SavedLinks(m, st),
           act.linked => \A k \in 1 .. Len(act.list) : act.list[k] = "MDR" =>
                            LinksTo(m, st, Len(st), m[Slot(act.at, act.list, k)])
    PROVE  SavedLinks(m, Append(st, act))
<1>1. PICK n \in Nat, st2 \in Seq(ActType) :
               /\ n = Len(st) /\ st2 = Append(st, act)
               /\ Len(st2) = n + 1 /\ (\A i \in 1 .. n : st2[i] = st[i]) /\ st2[n + 1] = act
  BY Extended, Zenon
<1>2. Len(st2) = n + 1 /\ (\A i \in 1 .. n : st2[i] = st[i]) /\ st2[n + 1] = act
  BY <1>1, Zenon
<1>3. ASSUME NEW i \in 0 .. n, NEW v, LinksTo(m, st, i, v)
      PROVE  LinksTo(m, st2, i, v)
  <2>1. i \in Nat /\ \A j \in 1 .. i : st2[j] = st[j] /\ m[st[j].at] = m[st[j].at]
    BY <1>2
  <2> QED
    BY <1>3, <2>1, LinksKept
<1>4. ASSUME NEW i \in 1 .. n + 1, st2[i].linked,
             NEW k \in 1 .. Len(st2[i].list), st2[i].list[k] = "MDR"
      PROVE  LinksTo(m, st2, i - 1, m[Slot(st2[i].at, st2[i].list, k)])
  <2>1. CASE i = n + 1
    <3>1. st2[i] = act /\ i - 1 = n /\ n \in 0 .. n
      BY <1>2, <2>1
    <3>2. LinksTo(m, st, n, m[Slot(act.at, act.list, k)])
      BY <1>1, <1>4, <3>1
    <3> QED
      BY <1>3, <3>1, <3>2
  <2>2. CASE i \in 1 .. n
    <3>1. st2[i] = st[i] /\ i - 1 \in 0 .. n
      BY <1>2, <2>2
    <3>2. LinksTo(m, st, i - 1, m[Slot(st[i].at, st[i].list, k)])
      BY <1>1, <1>4, <2>2, <3>1 DEF SavedLinks
    <3> QED
      BY <1>3, <3>1, <3>2
  <2> QED
    BY <2>1, <2>2
<1>5. SavedLinks(m, st2)
  BY <1>2, <1>4 DEF SavedLinks
<1> QED
  BY <1>1, <1>5, Zenon

LEMMA ReturnsPush ==
    ASSUME NEW m, NEW st \in Seq(ActType), NEW act \in ActType, ReturnsStand(m, st),
           act.kind \in Returning => m[act.at][1] = "code"
    PROVE  ReturnsStand(m, Append(st, act))
<1>1. PICK n \in Nat, st2 \in Seq(ActType) :
               /\ n = Len(st) /\ st2 = Append(st, act)
               /\ Len(st2) = n + 1 /\ (\A i \in 1 .. n : st2[i] = st[i]) /\ st2[n + 1] = act
  BY Extended, Zenon
<1>2. Len(st2) = n + 1 /\ (\A i \in 1 .. n : st2[i] = st[i]) /\ st2[n + 1] = act
  BY <1>1, Zenon
<1>3. \A i \in 1 .. n + 1 : st2[i].kind \in Returning => m[st2[i].at][1] = "code"
  BY <1>1, <1>2 DEF ReturnsStand
<1>4. ReturnsStand(m, st2)
  BY <1>2, <1>3 DEF ReturnsStand
<1> QED
  BY <1>1, <1>4, Zenon

-----------------------------------------------------------------------------
(* Leaving an activation.                                                  *)

\* st is low with top on top of it.
Tops(low, top, n, st) ==
    /\ Len(st) = n + 1 /\ Len(low) = n
    /\ \A i \in 1 .. n : low[i] = st[i]
    /\ st[n + 1] = top
    /\ st = Append(low, top)

LEMMA Popped ==
    ASSUME NEW st \in Seq(ActType), st # <<>>
    PROVE  \E low \in Seq(ActType), top \in ActType, n \in Nat :
              /\ Tops(low, top, n, st)
              /\ low = SubSeq(st, 1, Len(st) - 1)
              /\ top = st[Len(st)]
<1>1. PICK n \in Nat : Len(st) = n + 1
  <2>1. Len(st) \in Nat /\ Len(st) # 0
    BY EmptySeq
  <2>2. Len(st) - 1 \in Nat /\ Len(st) = (Len(st) - 1) + 1
    BY <2>1
  <2> QED
    BY <2>2
<1>2. PICK low : low = SubSeq(st, 1, n)
  OBVIOUS
<1>3. /\ low \in Seq(ActType) /\ Len(low) = n
      /\ \A i \in 1 .. n : low[i] = st[i]
  BY <1>1, <1>2, SubSeqProperties
<1>4. PICK top \in ActType : top = st[n + 1]
  BY <1>1
<1>5. st = Append(low, top)
  <2>1. PICK st2 \in Seq(ActType) :
           /\ st2 = Append(low, top)
           /\ Len(st2) = n + 1 /\ (\A i \in 1 .. n : st2[i] = low[i]) /\ st2[n + 1] = top
    <3>1. PICK k \in Nat, st2 \in Seq(ActType) :
             /\ k = Len(low) /\ st2 = Append(low, top)
             /\ Len(st2) = k + 1 /\ (\A i \in 1 .. k : st2[i] = low[i]) /\ st2[k + 1] = top
      BY <1>3, Extended, Zenon
    <3> QED
      BY <1>3, <3>1, Zenon
  <2>2. \A i \in 1 .. n + 1 : st2[i] = st[i]
    BY <1>3, <1>4, <2>1
  <2>3. Len(st2) = Len(st) /\ \A i \in 1 .. Len(st) : st2[i] = st[i]
    BY <1>1, <2>1, <2>2
  <2>4. st2 = st
    BY <2>3, SeqEqual
  <2> QED
    BY <2>1, <2>4, Zenon
<1>6. Len(st) - 1 = n
  BY <1>1
<1>7. Tops(low, top, n, st)
  BY <1>1, <1>3, <1>4, <1>5, Zenon DEF Tops
<1> QED
  BY <1>1, <1>2, <1>3, <1>4, <1>6, <1>7, Zenon

LEMMA FitsPop ==
    ASSUME NEW b \in WordAddr, NEW st \in Seq(ActType), NEW sp \in WordAddr, Fits(b, st, sp),
           NEW low \in Seq(ActType), NEW top \in ActType, NEW n \in Nat, Tops(low, top, n, st)
    PROVE  /\ Fits(b, low, top.at) /\ Shape(top)
           /\ Depth(b, top.at) + top.size = Depth(b, sp)
<1>1. Len(st) = n + 1 /\ Len(low) = n /\ (\A i \in 1 .. n : low[i] = st[i]) /\ st[n + 1] = top
  BY DEF Tops
<1>2. n + 1 \in 1 .. n + 1 /\ (n + 1) - 1 = n
  OBVIOUS
<1>3. Shape(top) /\ Depth(b, top.at) <= n * Room
  BY <1>1, <1>2 DEF Fits
<1>4. Depth(b, top.at) + top.size = Depth(b, sp)
  BY <1>1, <1>2 DEF Fits, End
<1>5. ASSUME NEW i \in 1 .. n
      PROVE  Depth(b, low[i].at) + low[i].size = Depth(b, End(low, top.at, i))
  <2>1. i \in 1 .. n + 1 /\ i # n + 1 /\ low[i] = st[i]
    BY <1>1
  <2>2. Depth(b, st[i].at) + st[i].size = Depth(b, st[i + 1].at)
    BY <1>1, <2>1 DEF Fits, End
  <2>3. CASE i = n
    BY <1>1, <2>1, <2>2, <2>3 DEF End
  <2>4. CASE i # n
    <3>1. i + 1 \in 1 .. n
      BY <2>4
    <3> QED
      BY <1>1, <2>1, <2>2, <2>4, <3>1 DEF End
  <2> QED
    BY <2>3, <2>4
<1>6. \A i \in 1 .. n : i \in 1 .. n + 1
  OBVIOUS
<1>7. \A i \in 1 .. n : Shape(low[i]) /\ Depth(b, low[i].at) <= (i - 1) * Room
  BY <1>1, <1>6 DEF Fits
<1>8. \A i, j \in 1 .. n : i < j => Depth(b, low[i].at) + low[i].size <= Depth(b, low[j].at)
  BY <1>1, <1>6 DEF Fits
<1>9. Fits(b, low, top.at)
  BY <1>1, <1>3, <1>5, <1>7, <1>8 DEF Fits
<1> QED
  BY <1>3, <1>4, <1>9

\* The innermost activation, if a CALL entered it, has the address linked to.
LEMMA LinksTop ==
    ASSUME NEW m, NEW st, NEW n \in Nat, NEW v, LinksTo(m, st, n + 1, v),
           st[n + 1].kind = "call"
    PROVE  v = m[st[n + 1].at]
<1>1. n + 1 \in 1 .. n + 1 /\ \A j \in (n + 1) + 1 .. n + 1 : FALSE
  OBVIOUS
<1> QED
  BY <1>1 DEF LinksTo

LEMMA LinksPop ==
    ASSUME NEW m, NEW low, NEW top, NEW n \in Nat, NEW st, Tops(low, top, n, st), NEW v,
           LinksTo(m, st, n + 1, v)
    PROVE  /\ top.kind # "call" => LinksTo(m, low, n, v)
           /\ top.kind = "call" => v = m[top.at]
<1>1. (\A i \in 1 .. n : low[i] = st[i]) /\ st[n + 1] = top
  BY DEF Tops
<1>2. ASSUME top.kind # "call"
      PROVE  LinksTo(m, low, n, v)
  <2> SUFFICES ASSUME NEW i \in 1 .. n, low[i].kind = "call",
                      \A j \in i + 1 .. n : low[j].kind # "call"
               PROVE  v = m[low[i].at]
    BY DEF LinksTo
  <2>1. \A j \in i + 1 .. n + 1 : st[j].kind # "call"
    <3> SUFFICES ASSUME NEW j \in i + 1 .. n + 1
                 PROVE  st[j].kind # "call"
      OBVIOUS
    <3>1. CASE j = n + 1
      BY <1>1, <1>2, <3>1
    <3>2. CASE j # n + 1
      <4>1. j \in i + 1 .. n /\ j \in 1 .. n
        BY <3>2
      <4> QED
        BY <1>1, <4>1
    <3> QED
      BY <3>1, <3>2
  <2>2. i \in 1 .. n + 1 /\ low[i] = st[i]
    BY <1>1
  <2> QED
    BY <2>1, <2>2 DEF LinksTo
<1>3. ASSUME top.kind = "call"
      PROVE  v = m[top.at]
  BY <1>1, <1>3, LinksTop
<1> QED
  BY <1>2, <1>3

LEMMA SavedLinksPop ==
    ASSUME NEW m, NEW low, NEW top, NEW n \in Nat, NEW st, Tops(low, top, n, st),
           SavedLinks(m, st)
    PROVE  /\ SavedLinks(m, low)
           /\ top.linked => \A k \in 1 .. Len(top.list) : top.list[k] = "MDR" =>
                               LinksTo(m, low, n, m[Slot(top.at, top.list, k)])
<1>1. Len(st) = n + 1 /\ Len(low) = n /\ (\A i \in 1 .. n : low[i] = st[i]) /\ st[n + 1] = top
  BY DEF Tops
<1>2. ASSUME NEW i \in 0 .. n, NEW v, LinksTo(m, st, i, v)
      PROVE  LinksTo(m, low, i, v)
  <2>1. i \in Nat /\ \A j \in 1 .. i : low[j] = st[j] /\ m[st[j].at] = m[st[j].at]
    BY <1>1
  <2> QED
    BY <1>2, <2>1, LinksKept
<1>3. ASSUME NEW i \in 1 .. n, low[i].linked,
             NEW k \in 1 .. Len(low[i].list), low[i].list[k] = "MDR"
      PROVE  LinksTo(m, low, i - 1, m[Slot(low[i].at, low[i].list, k)])
  <2>1. i \in 1 .. n + 1 /\ i - 1 \in 0 .. n /\ low[i] = st[i]
    BY <1>1
  <2>2. LinksTo(m, st, i - 1, m[Slot(st[i].at, st[i].list, k)])
    BY <1>1, <1>3, <2>1 DEF SavedLinks
  <2> QED
    BY <1>2, <2>1, <2>2
<1>4. ASSUME top.linked, NEW k \in 1 .. Len(top.list), top.list[k] = "MDR"
      PROVE  LinksTo(m, low, n, m[Slot(top.at, top.list, k)])
  <2>1. n + 1 \in 1 .. n + 1 /\ (n + 1) - 1 = n /\ n \in 0 .. n
    OBVIOUS
  <2>2. LinksTo(m, st, n, m[Slot(top.at, top.list, k)])
    BY <1>1, <1>4, <2>1 DEF SavedLinks
  <2> QED
    BY <1>2, <2>1, <2>2
<1> QED
  BY <1>1, <1>3, <1>4 DEF SavedLinks

LEMMA ReturnsPop ==
    ASSUME NEW m, NEW low, NEW top, NEW n \in Nat, NEW st, Tops(low, top, n, st),
           ReturnsStand(m, st)
    PROVE  /\ ReturnsStand(m, low)
           /\ top.kind \in Returning => m[top.at][1] = "code"
<1>1. Len(st) = n + 1 /\ Len(low) = n /\ (\A i \in 1 .. n : low[i] = st[i]) /\ st[n + 1] = top
  BY DEF Tops
<1>2. n + 1 \in 1 .. n + 1 /\ \A i \in 1 .. n : i \in 1 .. n + 1
  OBVIOUS
<1> QED
  BY <1>1, <1>2 DEF ReturnsStand

-----------------------------------------------------------------------------
(* Saving and loading registers.                                           *)

LEMMA StoredSaved ==
    ASSUME Typed, NEW list \in Seq(RegName), Depth(base, SP) + Len(list) < NumWords
    PROVE  /\ Stored(Saved(SP, list)) \in [WordAddr -> Word]
           /\ \A k \in 1 .. Len(list) :
                 /\ Slot(SP, list, k) \in WordAddr /\ Slot(SP, list, k) # SP
                 /\ Stored(Saved(SP, list))[Slot(SP, list, k)] = regs[list[k]]
           /\ Agree(base, mem, Stored(Saved(SP, list)), Depth(base, SP))
<1>1. /\ SP \in WordAddr /\ base \in WordAddr /\ Len(list) \in Nat
      /\ mem \in [WordAddr -> Word] /\ regs \in [RegName -> Word]
  BY DEF Typed
<1>2. Depth(base, SP) \in Nat
  BY <1>1, DepthRange
<1>3. ASSUME NEW k \in 1 .. Len(list)
      PROVE  /\ Slot(SP, list, k) \in WordAddr
             /\ Depth(base, Slot(SP, list, k)) = Depth(base, SP) + ((Len(list) - k) + 1)
             /\ list[k] \in RegName
  BY <1>1, SlotDepth
<1>4. ASSUME NEW j \in 1 .. Len(list), NEW k \in 1 .. Len(list), Slot(SP, list, j) = Slot(SP, list, k)
      PROVE  j = k
  <2>1. Depth(base, SP) + ((Len(list) - j) + 1) = Depth(base, SP) + ((Len(list) - k) + 1)
    BY <1>3, <1>4
  <2> QED
    BY <1>1, <1>2, <2>1
<1>5. DOMAIN Saved(SP, list) = Slots(SP, list)
  BY DEF Saved
<1>6. ASSUME NEW k \in 1 .. Len(list)
      PROVE  Saved(SP, list)[Slot(SP, list, k)] = regs[list[k]]
  <2>1. Slot(SP, list, k) \in Slots(SP, list)
    BY DEF Slots
  <2>2. (CHOOSE j \in 1 .. Len(list) : Slot(SP, list, j) = Slot(SP, list, k)) = k
    BY <1>4
  <2> QED
    BY <2>1, <2>2, Zenon DEF Saved
<1>7. ASSUME NEW v \in Slots(SP, list)
      PROVE  /\ Saved(SP, list)[v] \in Word
             /\ Depth(base, v) > Depth(base, SP)
  <2>1. PICK k \in 1 .. Len(list) : v = Slot(SP, list, k)
    BY DEF Slots
  <2>2. Saved(SP, list)[v] \in Word
    BY <1>1, <1>3, <1>6, <2>1
  <2>3. Depth(base, v) > Depth(base, SP)
    BY <1>1, <1>2, <1>3, <2>1
  <2> QED
    BY <2>2, <2>3
<1>8. \A v \in WordAddr : Stored(Saved(SP, list))[v] =
         IF v \in Slots(SP, list) THEN Saved(SP, list)[v] ELSE mem[v]
  BY <1>5 DEF Stored
<1>9. Stored(Saved(SP, list)) \in [WordAddr -> Word]
  BY <1>1, <1>5, <1>7 DEF Stored
<1>10. ASSUME NEW k \in 1 .. Len(list)
       PROVE  /\ Slot(SP, list, k) \in WordAddr /\ Slot(SP, list, k) # SP
              /\ Stored(Saved(SP, list))[Slot(SP, list, k)] = regs[list[k]]
  <2>1. Slot(SP, list, k) \in Slots(SP, list)
    BY DEF Slots
  <2>2. Slot(SP, list, k) # SP
    BY <1>2, <1>7, <2>1
  <2> QED
    BY <1>3, <1>6, <1>8, <2>1, <2>2
<1>11. Agree(base, mem, Stored(Saved(SP, list)), Depth(base, SP))
  <2> SUFFICES ASSUME NEW v \in WordAddr, Depth(base, v) <= Depth(base, SP)
               PROVE  Stored(Saved(SP, list))[v] = mem[v]
    BY DEF Agree
  <2>1. Depth(base, v) \in Nat
    BY <1>1, DepthRange
  <2>2. v \notin Slots(SP, list)
    BY <1>2, <1>7, <2>1
  <2> QED
    BY <1>8, <2>2
<1> QED
  BY <1>9, <1>10, <1>11

LEMMA FreedKeeps ==
    ASSUME Typed, NEW sp \in WordAddr
    PROVE  /\ Freed(sp) \in [WordAddr -> Word]
           /\ Agree(base, mem, Freed(sp), Depth(base, sp))
<1>1. mem \in [WordAddr -> Word] /\ Any \in Word
  BY DEF Typed, Any, Word, Value
<1>2. Freed(sp) \in [WordAddr -> Word]
  BY <1>1 DEF Freed
<1>3. Agree(base, mem, Freed(sp), Depth(base, sp))
  BY DEF Freed, Agree, Depth
<1> QED
  BY <1>2, <1>3

LEMMA LoadedBack ==
    ASSUME Typed, NEW act \in ActType, Depth(base, act.at) + Len(act.list) < NumWords
    PROVE  /\ Loaded(act.at, act.list) \in [RegName -> Word]
           /\ Loaded(act.at, act.list) =
                 [r \in RegName |-> IF r \in DOMAIN View(mem, act).saved
                                    THEN View(mem, act).saved[r] ELSE regs[r]]
           /\ ~HasMDR(act.list) => Loaded(act.at, act.list)["MDR"] = regs["MDR"]
           /\ HasMDR(act.list) => \E k \in 1 .. Len(act.list) :
                 act.list[k] = "MDR" /\ Loaded(act.at, act.list)["MDR"] = mem[Slot(act.at, act.list, k)]
<1> DEFINE at == act.at
           list == act.list
           Where(r) == CHOOSE k \in 1 .. Len(list) : list[k] = r
<1>1. at \in WordAddr /\ list \in Seq(RegName) /\ base \in WordAddr
      /\ mem \in [WordAddr -> Word] /\ regs \in [RegName -> Word]
  BY DEF ActType, Typed
<1>2. ASSUME NEW r, \E k \in 1 .. Len(list) : list[k] = r
      PROVE  Where(r) \in 1 .. Len(list) /\ list[Where(r)] = r
  BY <1>2
<1>3. \A k \in 1 .. Len(list) : Slot(at, list, k) \in WordAddr
  BY <1>1, SlotDepth
<1>4. \A r \in RegName : Loaded(at, list)[r] =
         IF \E k \in 1 .. Len(list) : list[k] = r THEN mem[Slot(at, list, Where(r))] ELSE regs[r]
  BY DEF Loaded
<1>5. Loaded(at, list) \in [RegName -> Word]
  <2>1. ASSUME NEW r \in RegName
        PROVE  Loaded(at, list)[r] \in Word
    <3>1. CASE \E k \in 1 .. Len(list) : list[k] = r
      <4>1. Slot(at, list, Where(r)) \in WordAddr
        BY <1>2, <1>3, <3>1
      <4>2. Loaded(at, list)[r] = mem[Slot(at, list, Where(r))]
        BY <1>4, <3>1
      <4> QED
        BY <1>1, <4>1, <4>2
    <3>2. CASE ~ \E k \in 1 .. Len(list) : list[k] = r
      BY <1>1, <1>4, <3>2
    <3> QED
      BY <3>1, <3>2
  <2>2. Loaded(at, list) = [r \in RegName |-> Loaded(at, list)[r]]
    BY DEF Loaded
  <2> QED
    BY <2>1, <2>2
<1>6. /\ DOMAIN View(mem, act).saved = {list[k] : k \in 1 .. Len(list)}
      /\ \A r \in {list[k] : k \in 1 .. Len(list)} :
            View(mem, act).saved[r] = mem[Slot(at, list, Where(r))]
  BY DEF View
<1>7. \A r : (\E k \in 1 .. Len(list) : list[k] = r) <=> r \in {list[k] : k \in 1 .. Len(list)}
  OBVIOUS
<1>8. Loaded(at, list) =
         [r \in RegName |-> IF r \in DOMAIN View(mem, act).saved
                            THEN View(mem, act).saved[r] ELSE regs[r]]
  <2>1. \A r \in RegName : Loaded(at, list)[r] = IF r \in DOMAIN View(mem, act).saved
                                                 THEN View(mem, act).saved[r] ELSE regs[r]
    <3> HIDE DEF at, list, Where
    <3> QED
      BY <1>4, <1>6, <1>7
  <2>2. Loaded(at, list) = [r \in RegName |-> Loaded(at, list)[r]]
    BY DEF Loaded
  <2> QED
    BY <2>1, <2>2
<1>9. "MDR" \in RegName
  BY SevenNames
<1>10. ~HasMDR(list) => Loaded(at, list)["MDR"] = regs["MDR"]
  BY <1>4, <1>9 DEF HasMDR
<1>11. HasMDR(list) => \E k \in 1 .. Len(list) :
          list[k] = "MDR" /\ Loaded(at, list)["MDR"] = mem[Slot(at, list, k)]
  BY <1>2, <1>4, <1>9 DEF HasMDR
<1> QED
  BY <1>5, <1>8, <1>10, <1>11

-----------------------------------------------------------------------------
(* Steps of the abstract stack.                                            *)

LEMMA ActivationsAreViews ==
    Activations = Views(mem, acts) /\ Activations' = Views(mem', acts')
  BY DEF Activations, Views, View, Returning

LEMMA AbstractEnter ==
    ASSUME Typed, NEW act \in ActType, acts' = Append(acts, act),
           Views(mem', acts) = Views(mem, acts),
           \A k \in 1 .. Len(act.list) : mem'[Slot(act.at, act.list, k)] = regs[act.list[k]],
           act.kind \in Returning => mem'[act.at] = After(PC, InsSize[act.kind]),
           act.kind \notin Returning => UNCHANGED <<regs, PC>>,
           SP' = Wrap(SP - act.size),
           \A r \in RegName \ {"MDR"} : regs'[r] = regs[r]
    PROVE  Abstract!Next
<1>1. acts \in Seq(ActType) /\ DOMAIN regs = RegName
  BY DEF Typed
<1>2. PICK v : v = View(mem', act)
  OBVIOUS
<1>3. /\ Activations' = Append(Activations, v)
      /\ Len(Activations) = Len(acts) /\ Len(Activations') = Len(acts) + 1
      /\ Activations'[Len(acts) + 1] = v
  <2>1. PICK st, m, m2 : st = acts /\ m = mem /\ m2 = mem' /\ st \in Seq(ActType)
    BY <1>1
  <2>2. /\ Views(m2, Append(st, act)) = Append(Views(m2, st), View(m2, act))
        /\ Len(Views(m2, st)) = Len(st)
        /\ Len(Views(m2, Append(st, act))) = Len(st) + 1
        /\ Views(m2, Append(st, act))[Len(st) + 1] = View(m2, act)
    BY <2>1, ViewsAppend
  <2>3. Activations = Views(m2, st) /\ Activations' = Views(m2, Append(st, act))
    BY <2>1, ActivationsAreViews
  <2> QED
    BY <1>2, <2>1, <2>2, <2>3
<1>4. v.saved = [r \in DOMAIN v.saved |-> regs[r]]
  <2>1. \A r \in {act.list[k] : k \in 1 .. Len(act.list)} :
           LET k == CHOOSE k \in 1 .. Len(act.list) : act.list[k] = r
           IN  k \in 1 .. Len(act.list) /\ act.list[k] = r
    OBVIOUS
  <2>2. \A r \in {act.list[k] : k \in 1 .. Len(act.list)} :
           mem'[Slot(act.at, act.list, CHOOSE k \in 1 .. Len(act.list) : act.list[k] = r)] = regs[r]
    BY <2>1
  <2> QED
    BY <1>2, <2>2 DEF View
<1>5. /\ v.kind = act.kind /\ v.size = act.size
      /\ act.kind \in Returning => v.ret = mem'[act.at]
  BY <1>2 DEF View
<1>6. Len(acts) \in Nat
  BY <1>1
<1>7. Activations'[Len(Activations')] = v /\ Len(Activations') > Len(Activations)
  BY <1>3, <1>6
<1>8. Abstract!Enter
  BY <1>1, <1>3, <1>4, <1>5, <1>7
     DEF Abstract!Enter, Abstract!Returning, Abstract!After, Returning, After, Wrap
<1> QED
  BY <1>7, <1>8 DEF Abstract!Next

LEMMA AbstractLeave ==
    ASSUME Typed, NEW low \in Seq(ActType), NEW top \in ActType, NEW n \in Nat,
           Tops(low, top, n, acts), acts' = low, Views(mem', low) = Views(mem, low),
           regs' = [r \in RegName |-> IF r \in DOMAIN View(mem, top).saved
                                      THEN View(mem, top).saved[r] ELSE regs[r]],
           SP' = Wrap(SP + top.size),
           PC' = IF top.kind \in Returning THEN mem[top.at] ELSE PC
    PROVE  Abstract!Next
<1>1. acts = Append(low, top) /\ DOMAIN regs = RegName
  BY DEF Typed, Tops
<1>2. PICK v : v = View(mem, top)
  OBVIOUS
<1>3. /\ Activations = Append(Activations', v)
      /\ Len(Activations') = Len(low) /\ Len(Activations) = Len(low) + 1
      /\ Activations[Len(low) + 1] = v
  <2>1. PICK m : m = mem
    OBVIOUS
  <2>2. /\ Views(m, Append(low, top)) = Append(Views(m, low), View(m, top))
        /\ Len(Views(m, low)) = Len(low)
        /\ Len(Views(m, Append(low, top))) = Len(low) + 1
        /\ Views(m, Append(low, top))[Len(low) + 1] = View(m, top)
    BY ViewsAppend
  <2>3. Activations' = Views(m, low) /\ Activations = Views(m, Append(low, top))
    BY <1>1, <2>1, ActivationsAreViews
  <2> QED
    BY <1>2, <2>1, <2>2, <2>3
<1>4. /\ v.kind = top.kind /\ v.size = top.size
      /\ top.kind \in Returning => v.ret = mem[top.at]
  BY <1>2 DEF View
<1>5. Len(low) \in Nat
  OBVIOUS
<1>6. Activations[Len(Activations)] = v /\ Len(Activations') < Len(Activations)
  BY <1>3, <1>5
<1>7. Abstract!Leave
  BY <1>1, <1>2, <1>3, <1>4, <1>6
     DEF Abstract!Leave, Abstract!Restored, Abstract!Returning, Returning, Wrap
<1> QED
  BY <1>6, <1>7 DEF Abstract!Next

LEMMA AbstractWork ==
    ASSUME Views(mem', acts) = Views(mem, acts), UNCHANGED <<SP, acts>>
    PROVE  Abstract!Next
<1>1. Activations' = Activations
  BY ActivationsAreViews
<1> QED
  BY <1>1 DEF Abstract!Next, Abstract!Work

-----------------------------------------------------------------------------
(* Steps of the invariant.                                                 *)

\* Any instruction that enters an activation.
LEMMA EnterStep ==
    ASSUME StackInv, Len(acts) < MaxDepth,
           NEW act \in ActType, Shape(act), act.at = SP, act.linked = linked,
           acts' = Append(acts, act), SP' = Wrap(SP - act.size),
           base' = base, halted' = halted,
           mem' \in [WordAddr -> Word], regs' \in [RegName -> Word],
           PC' \in {"code"} \X Nat, linked' \in BOOLEAN,
           NEW d \in Int, d < NumWords, Live(base, acts, d), Agree(base, mem, mem', d),
           \A k \in 1 .. Len(act.list) : mem'[Slot(act.at, act.list, k)] = regs[act.list[k]],
           act.kind \in Returning => mem'[act.at] = After(PC, InsSize[act.kind]),
           act.kind \notin Returning => UNCHANGED <<regs, PC>>,
           \A r \in RegName \ {"MDR"} : regs'[r] = regs[r],
           linked' => \/ act.kind = "call" /\ regs'["MDR"] = mem'[act.at]
                      \/ act.kind # "call" /\ linked /\ regs'["MDR"] = regs["MDR"]
    PROVE  StackInv' /\ Abstract!Next
<1>0. PICK n \in Nat : n = Len(acts)
  BY DEF StackInv, Typed
<1>1. PICK b \in WordAddr, st \in Seq(ActType), sp \in WordAddr :
         b = base /\ st = acts /\ sp = SP
  BY DEF StackInv, Typed
<1>m. PICK m, m2 : m = mem /\ m2 = mem'
  OBVIOUS
<1>2. act.size \in Nat /\ act.list \in Seq(RegName) /\ Len(act.list) \in Nat /\ act.size <= Room
  BY DEF ActType, Shape
<1>3. Fits(b, st, sp) /\ ReturnsStand(m, st) /\ SavedLinks(m, st) /\ Len(st) < MaxDepth
      /\ Len(st) = n /\ Live(b, st, d) /\ Agree(b, m, m2, d) /\ act.at = sp
  BY <1>0, <1>1, <1>m, Zenon DEF StackInv
<1>4. PICK sp2 \in WordAddr : sp2 = SP' /\ Depth(b, sp2) = Depth(b, sp) + act.size
  <2>1. Depth(b, sp) <= n * Room
    BY <1>3 DEF Fits
  <2>2. n <= MaxDepth /\ n < MaxDepth
    BY <1>3, SizesAssumption
  <2>3. PICK x \in Nat : x = n * Room /\ x + Room < NumWords
    BY <2>2, RoomLeft
  <2>4. Depth(b, sp) \in Nat /\ Room \in Nat /\ NumWords \in Nat
    BY DepthRange, StackAssumption, SizesAssumption
  <2>5. Depth(b, sp) + act.size < NumWords
    BY <1>2, <2>1, <2>3, <2>4
  <2>6. Wrap(sp - act.size) \in WordAddr /\ Depth(b, Wrap(sp - act.size)) = Depth(b, sp) + act.size
    BY <1>2, <2>5, Down
  <2> QED
    BY <1>1, <1>m, <2>6
<1>5. PICK st2 \in Seq(ActType) : st2 = Append(st, act) /\ st2 = acts' /\ Len(st2) = n + 1
  <2>1. Append(st, act) \in Seq(ActType) /\ Len(Append(st, act)) = Len(st) + 1
    BY Pushed
  <2> QED
    BY <1>1, <1>m, <1>3, <2>1, Zenon
<1>6. Typed'
  <2>1. n + 1 <= MaxDepth
    BY <1>3, SizesAssumption
  <2> QED
    BY <1>1, <1>m, <1>4, <1>5, <2>1 DEF StackInv, Typed
<1>7. Fits(b, st2, sp2)
  <2>1. Fits(b, Append(st, act), sp2)
    BY <1>3, <1>4, FitsPush
  <2> QED
    BY <1>5, <2>1, Zenon
<1>8. /\ Views(m2, st) = Views(m, st)
      /\ ReturnsStand(m2, st) /\ SavedLinks(m2, st)
      /\ \A v : LinksTo(m, st, n, v) => LinksTo(m2, st, n, v)
  BY <1>3, StackKept
<1>9. ReturnsStand(m2, st2)
  <2>1. act.kind \in Returning => m2[act.at][1] = "code"
    BY <1>1, <1>m DEF StackInv, Typed, After
  <2> QED
    BY <1>5, <1>8, <2>1, ReturnsPush
<1>10. linked => LinksTo(m2, st, n, regs["MDR"])
  BY <1>0, <1>1, <1>m, <1>8 DEF StackInv
<1>11. SavedLinks(m2, st2)
  <2>1. PICK l, x : l = linked /\ x = regs["MDR"]
    OBVIOUS
  <2>2. \A k \in 1 .. Len(act.list) : act.list[k] = "MDR" => m2[Slot(act.at, act.list, k)] = x
    BY <1>1, <1>m, <2>1
  <2>3. act.linked => LinksTo(m2, st, Len(st), x)
    BY <1>3, <1>10, <2>1
  <2> QED
    BY <1>5, <1>8, <2>2, <2>3, SavedLinksPush
<1>12. linked' => LinksTo(m2, st2, n + 1, regs'["MDR"])
  <2> SUFFICES ASSUME linked'
               PROVE  LinksTo(m2, st2, n + 1, regs'["MDR"])
    OBVIOUS
  <2>1. PICK x : x = regs'["MDR"]
    OBVIOUS
  <2>2. CASE act.kind = "call"
    <3>1. x = m2[act.at]
      BY <1>1, <1>m, <2>1, <2>2
    <3>2. LinksTo(m2, st2, n + 1, x)
      BY <1>3, <1>5, <2>2, <3>1, LinksPush
    <3> QED
      BY <2>1, <3>2
  <2>3. CASE act.kind # "call"
    <3>1. linked /\ x = regs["MDR"]
      BY <2>1, <2>3
    <3>2. LinksTo(m2, st, Len(st), x)
      BY <1>3, <1>10, <3>1
    <3>3. LinksTo(m2, Append(st, act), Len(st) + 1, x)
      BY <2>3, <3>2, LinksPush
    <3>4. LinksTo(m2, st2, n + 1, x)
      BY <1>3, <1>5, <3>3
    <3> QED
      BY <2>1, <3>4
  <2> QED
    BY <2>2, <2>3
<1>13. StackInv'
  <2>1. base' = b /\ acts' = st2 /\ SP' = sp2 /\ mem' = m2 /\ Len(acts') = n + 1
    BY <1>0, <1>1, <1>m, <1>3, <1>4, <1>5
  <2> QED
    BY <1>6, <1>7, <1>9, <1>11, <1>12, <2>1, Zenon DEF StackInv
<1>14. Abstract!Next
  <2>1. Typed /\ Views(mem', acts) = Views(mem, acts)
    BY <1>1, <1>m, <1>8 DEF StackInv
  <2> QED
    BY <2>1, AbstractEnter
<1> QED
  BY <1>13, <1>14

\* Any instruction that leaves one.
LEMMA LeaveStep ==
    ASSUME StackInv, NEW low \in Seq(ActType), NEW top \in ActType, NEW n \in Nat,
           Tops(low, top, n, acts), acts' = low, SP' = Wrap(SP + top.size),
           base' = base, halted' = halted,
           mem' \in [WordAddr -> Word], Agree(base, mem, mem', Depth(base, top.at)),
           regs' = Loaded(top.at, top.list),
           PC' = IF top.kind \in Returning THEN mem[top.at] ELSE PC,
           linked' \in BOOLEAN,
           linked' => \/ top.linked /\ HasMDR(top.list)
                      \/ linked /\ ~HasMDR(top.list) /\ top.kind # "call"
    PROVE  StackInv' /\ Abstract!Next
<1>1. PICK b \in WordAddr, st \in Seq(ActType), sp \in WordAddr :
         b = base /\ st = acts /\ sp = SP
  BY DEF StackInv, Typed
<1>m. PICK m, m2 : m = mem /\ m2 = mem'
  OBVIOUS
<1>2. /\ Fits(b, st, sp) /\ ReturnsStand(m, st) /\ SavedLinks(m, st)
      /\ Tops(low, top, n, st) /\ Agree(b, m, m2, Depth(b, top.at))
  BY <1>1, <1>m, Zenon DEF StackInv
<1>3. Fits(b, low, top.at) /\ Shape(top) /\ Depth(b, top.at) + top.size = Depth(b, sp)
  BY <1>2, FitsPop
<1>4. /\ top.at \in WordAddr /\ top.size \in Nat /\ top.list \in Seq(RegName)
      /\ Len(top.list) \in Nat /\ Len(top.list) <= top.size
      /\ Depth(b, top.at) \in Nat /\ Depth(b, sp) \in Nat /\ Depth(b, sp) < NumWords
      /\ NumWords \in Nat
  BY <1>3, DepthRange, SizesAssumption DEF ActType, Shape
<1>5. Wrap(sp + top.size) = top.at
  <2>1. Wrap(sp + top.size) \in WordAddr /\ Depth(b, Wrap(sp + top.size)) = Depth(b, sp) - top.size
    BY <1>3, <1>4, Up
  <2>2. Depth(b, Wrap(sp + top.size)) = Depth(b, top.at)
    BY <1>3, <1>4, <2>1
  <2> QED
    BY <1>4, <2>1, <2>2, DepthUnique
<1>6. Len(low) = n /\ Len(st) = n + 1
  BY <1>2 DEF Tops
<1>7. /\ Loaded(top.at, top.list) \in [RegName -> Word]
      /\ Loaded(top.at, top.list) =
            [r \in RegName |-> IF r \in DOMAIN View(mem, top).saved
                               THEN View(mem, top).saved[r] ELSE regs[r]]
      /\ ~HasMDR(top.list) => Loaded(top.at, top.list)["MDR"] = regs["MDR"]
      /\ HasMDR(top.list) => \E k \in 1 .. Len(top.list) :
            top.list[k] = "MDR" /\ Loaded(top.at, top.list)["MDR"] = mem[Slot(top.at, top.list, k)]
  <2>1. Depth(b, top.at) + Len(top.list) < NumWords
    BY <1>3, <1>4
  <2>2. Typed /\ Depth(base, top.at) + Len(top.list) < NumWords
    BY <1>1, <1>m, <2>1 DEF StackInv
  <2> QED
    BY <2>2, LoadedBack
<1>8. /\ ReturnsStand(m, low) /\ SavedLinks(m, low)
      /\ top.kind \in Returning => m[top.at][1] = "code"
      /\ top.linked => \A k \in 1 .. Len(top.list) : top.list[k] = "MDR" =>
                          LinksTo(m, low, n, m[Slot(top.at, top.list, k)])
  BY <1>2, ReturnsPop, SavedLinksPop
<1>9. /\ Views(m2, low) = Views(m, low)
      /\ ReturnsStand(m2, low) /\ SavedLinks(m2, low)
      /\ \A v : LinksTo(m, low, n, v) => LinksTo(m2, low, n, v)
  <2>1. PICK d \in Nat : d = Depth(b, top.at) /\ d < NumWords
    BY <1>3, <1>4
  <2>2. Live(b, low, d)
    BY <1>3, <1>4, <2>1, LiveBelow
  <2>3. d \in Int /\ Agree(b, m, m2, d)
    BY <1>2, <2>1
  <2> QED
    BY <1>6, <1>8, <2>1, <2>2, <2>3, StackKept
<1>10. PC' \in {"code"} \X Nat
  <2>1. CASE top.kind \in Returning
    <3>1. mem[top.at] \in Word /\ mem[top.at][1] = "code"
      BY <1>1, <1>m, <1>4, <1>8, <2>1 DEF StackInv, Typed
    <3>2. PC' = mem[top.at]
      BY <2>1
    <3> QED
      BY <3>1, <3>2 DEF Word
  <2>2. CASE top.kind \notin Returning
    BY <2>2 DEF StackInv, Typed
  <2> QED
    BY <2>1, <2>2
<1>11. Typed'
  <2>1. n <= MaxDepth
    BY <1>1, <1>m, <1>6, SizesAssumption DEF StackInv, Typed
  <2> QED
    BY <1>1, <1>m, <1>4, <1>5, <1>6, <1>7, <1>10, <2>1 DEF StackInv, Typed
<1>12. linked' => LinksTo(m2, low, n, regs'["MDR"])
  <2> SUFFICES ASSUME linked'
               PROVE  LinksTo(m2, low, n, regs'["MDR"])
    OBVIOUS
  <2>1. CASE top.linked /\ HasMDR(top.list)
    <3>1. PICK k \in 1 .. Len(top.list) :
             top.list[k] = "MDR" /\ regs'["MDR"] = m[Slot(top.at, top.list, k)]
      BY <1>1, <1>m, <1>7, <2>1
    <3>2. PICK x : x = m[Slot(top.at, top.list, k)]
      OBVIOUS
    <3>3. LinksTo(m, low, n, x)
      BY <1>8, <2>1, <3>1, <3>2
    <3>4. LinksTo(m2, low, n, x)
      BY <1>9, <3>3
    <3> QED
      BY <3>1, <3>2, <3>4
  <2>2. CASE linked /\ ~HasMDR(top.list) /\ top.kind # "call"
    <3>1. PICK x : x = regs["MDR"] /\ x = regs'["MDR"]
      BY <1>7, <2>2
    <3>2. LinksTo(m, st, n + 1, x)
      BY <1>1, <1>m, <1>6, <2>2, <3>1 DEF StackInv
    <3>3. LinksTo(m, low, n, x)
      BY <1>2, <2>2, <3>2, LinksPop
    <3>4. LinksTo(m2, low, n, x)
      BY <1>9, <3>3
    <3> QED
      BY <3>1, <3>4
  <2> QED
    BY <2>1, <2>2
<1>13. StackInv'
  <2>1. base' = b /\ acts' = low /\ SP' = top.at /\ mem' = m2 /\ Len(acts') = n
    BY <1>1, <1>m, <1>5, <1>6
  <2> QED
    BY <1>3, <1>9, <1>11, <1>12, <2>1, Zenon DEF StackInv
<1>14. Abstract!Next
  <2>1. Typed /\ Views(mem', low) = Views(mem, low)
    BY <1>1, <1>m, <1>9 DEF StackInv
  <2>2. regs' = [r \in RegName |-> IF r \in DOMAIN View(mem, top).saved
                                   THEN View(mem, top).saved[r] ELSE regs[r]]
    BY <1>7
  <2> QED
    BY <2>1, <2>2, AbstractLeave
<1> QED
  BY <1>13, <1>14

-----------------------------------------------------------------------------
(* The instructions that enter an activation.                              *)

LEMMA Codes ==
    ASSUME Typed
    PROVE  /\ \A k \in {"call", "calls", "trap"} :
                 After(PC, InsSize[k]) \in {"code"} \X Nat /\ After(PC, InsSize[k]) \in Word
           /\ Callee \in {"code"} \X Nat
           /\ TrapVector \in {"code"} \X Nat
           /\ Code(CodeSize * Len(acts)) \in {"code"} \X Nat
<1>1. PC \in {"code"} \X Nat /\ Len(acts) \in Nat
  BY DEF Typed
<1>2. ASSUME NEW k \in {"call", "calls", "trap"}
      PROVE  After(PC, InsSize[k]) \in {"code"} \X Nat /\ After(PC, InsSize[k]) \in Word
  <2>1. InsSize[k] \in Nat
    BY SizesAssumption
  <2> QED
    BY <1>1, <2>1 DEF After, Word, Value
<1>3. ASSUME NEW n \in Nat
      PROVE  CodeSize * n \in Nat
  <2>1. PICK c \in Nat : c = CodeSize
    BY SizesAssumption
  <2>2. c * n \in Nat
    OBVIOUS
  <2> QED
    BY <2>1, <2>2
<1>4. CodeSize * (Len(acts) + 1) \in Nat /\ CodeSize * (MaxDepth + 1) \in Nat
  BY <1>1, <1>3, SizesAssumption
<1>5. CodeSize * Len(acts) \in Nat
  BY <1>1, <1>3
<1> QED
  BY <1>2, <1>4, <1>5 DEF Callee, TrapVector, Code

\* Where there is a free word at SP nothing below the activations' words is used.
LEMMA FreeWord ==
    ASSUME StackInv
    PROVE  /\ Live(base, acts, Depth(base, SP))
           /\ CanCall => Live(base, acts, Depth(base, SP) - 1)
           /\ Depth(base, SP) \in Nat /\ Depth(base, SP) < NumWords
           /\ acts # <<>> => Top \in ActType /\ Shape(Top)
<1>1. /\ base \in WordAddr /\ SP \in WordAddr /\ acts \in Seq(ActType)
      /\ Fits(base, acts, SP)
  BY DEF StackInv, Typed
<1>2. ASSUME acts # <<>>
      PROVE  Top \in ActType /\ Shape(Top)
  <2>1. Len(acts) \in 1 .. Len(acts)
    BY <1>1, <1>2, EmptySeq
  <2> QED
    BY <1>1, <2>1 DEF Top, Fits
<1>3. ASSUME CanCall
      PROVE  acts # <<>> => Len(acts[Len(acts)].list) < acts[Len(acts)].size
  <2> SUFFICES ASSUME acts # <<>>
               PROVE  Len(Top.list) < Top.size
    BY DEF Top
  <2>1. CASE Top.kind \in {"call", "local"}
    BY <1>2, <2>1 DEF Shape
  <2>2. CASE Top.kind = "movm" /\ Top.size > Len(Top.list)
    <3>1. Top.size \in Nat /\ Len(Top.list) \in Nat
      BY <1>2 DEF ActType
    <3> QED
      BY <2>2, <3>1
  <2> QED
    BY <1>3, <2>1, <2>2 DEF CanCall
<1>4. PICK b \in WordAddr, st \in Seq(ActType), sp \in WordAddr : b = base /\ st = acts /\ sp = SP
  BY <1>1
<1>5. /\ Live(b, st, Depth(b, sp))
      /\ (st # <<>> => Len(st[Len(st)].list) < st[Len(st)].size) => Live(b, st, Depth(b, sp) - 1)
  BY <1>1, <1>4, LiveBelow
<1>6. Depth(b, sp) \in Nat /\ Depth(b, sp) < NumWords
  BY DepthRange
<1> QED
  BY <1>2, <1>3, <1>4, <1>5, <1>6

LEMMA RoomBelow ==
    ASSUME StackInv, Len(acts) < MaxDepth, NEW k \in Nat, k <= Room
    PROVE  Depth(base, SP) + k < NumWords
<1>1. Depth(base, SP) <= Len(acts) * Room /\ Len(acts) \in Nat /\ Depth(base, SP) \in Nat
  BY FreeWord DEF StackInv, Fits, Typed
<1>2. PICK x \in Nat : x = Len(acts) * Room /\ x + Room < NumWords
  <2>1. PICK n \in Nat : n = Len(acts) /\ n < MaxDepth
    BY <1>1
  <2>2. n <= MaxDepth
    BY <2>1, SizesAssumption
  <2>3. n * Room \in Nat /\ n * Room + Room < NumWords
    BY <2>1, <2>2, RoomLeft
  <2> QED
    BY <2>1, <2>3
<1> QED
  BY <1>1, <1>2, SizesAssumption, StackAssumption

LEMMA NewAct ==
    ASSUME Typed, NEW kind \in Kinds, NEW list \in Seq(RegName), NEW size \in Nat
    PROVE  /\ Act(kind, list, size) \in ActType
           /\ Act(kind, list, size).kind = kind /\ Act(kind, list, size).list = list
           /\ Act(kind, list, size).size = size /\ Act(kind, list, size).at = SP
           /\ Act(kind, list, size).linked = linked
<1>1. SP \in WordAddr /\ linked \in BOOLEAN
  BY DEF Typed
<1> QED
  BY <1>1 DEF Act, ActType

LEMMA HaltStep ==
    ASSUME StackInv, halted' = TRUE, UNCHANGED <<mem, regs, PC, SP, base, acts, linked>>
    PROVE  StackInv' /\ Abstract!Next
<1>1. Typed'
  BY DEF StackInv, Typed
<1>2. StackInv'
  BY <1>1 DEF StackInv
<1>3. Views(mem', acts) = Views(mem, acts)
  OBVIOUS
<1> QED
  BY <1>2, <1>3, AbstractWork

LEMMA CallStep ==
    ASSUME StackInv, NEW mask \in Masks, NEW spare \in Spare, Call(mask, spare)
    PROVE  StackInv' /\ Abstract!Next
<1>1. PICK list \in Seq(RegName) : list = MovmList(mask) /\ Len(list) \in Nat /\ Len(list) <= 11
  <2>1. MovmList(mask) \in Seq(RegName) /\ Len(MovmList(mask)) <= 11
    BY Lists
  <2> QED
    BY <2>1
<1>2. CASE {SP, CallLog} \cup Slots(SP, list) \subseteq Mapped
  <2>1. PICK ret : ret = After(PC, InsSize["call"])
    OBVIOUS
  <2>2. /\ CanCall
        /\ mem' = [Stored(Saved(SP, list)) EXCEPT ![SP] = ret]
        /\ regs' = [regs EXCEPT !["MDR"] = ret]
        /\ SP' = Wrap(SP - Len(list) - spare)
        /\ PC' = Callee
        /\ acts' = Append(acts, Act("call", list, Len(list) + spare))
        /\ linked' = TRUE
        /\ base' = base /\ halted' = halted
    BY <1>1, <1>2, <2>1 DEF Call, Accessing, Enter
  <2>3. /\ Typed /\ SP \in WordAddr /\ base \in WordAddr /\ linked \in BOOLEAN
        /\ regs \in [RegName -> Word]
    BY DEF StackInv, Typed
  <2>4. spare \in Nat /\ spare > 0 /\ spare + 12 <= Room /\ Room \in Nat
    BY SizesAssumption, StackAssumption
  <2>5. PICK act \in ActType :
           /\ act = Act("call", list, Len(list) + spare)
           /\ act.kind = "call" /\ act.list = list /\ act.size = Len(list) + spare
           /\ act.at = SP /\ act.linked = linked
    <3>1. PICK size \in Nat : size = Len(list) + spare
      BY <1>1, <2>4
    <3>2. "call" \in Kinds
      BY DEF Kinds
    <3>3. PICK act : act = Act("call", list, size)
      OBVIOUS
    <3>4. /\ act \in ActType /\ act.kind = "call" /\ act.list = list /\ act.size = size
          /\ act.at = SP /\ act.linked = linked
      BY <2>3, <3>2, <3>3, NewAct
    <3> QED
      BY <3>1, <3>3, <3>4, Zenon
  <2>6. Shape(act)
    BY <1>1, <2>4, <2>5 DEF Shape
  <2>7. /\ Len(acts) < MaxDepth
        /\ Live(base, acts, Depth(base, SP) - 1)
        /\ Depth(base, SP) \in Nat
    BY <2>2, FreeWord DEF CanCall, CanEnter
  <2>8. PICK d \in Int : d = Depth(base, SP) - 1 /\ d < NumWords
    BY FreeWord, SizesAssumption
  <2>9. Depth(base, SP) + Len(list) < NumWords
    BY <1>1, <2>4, <2>7, RoomBelow
  <2>10. /\ Stored(Saved(SP, list)) \in [WordAddr -> Word]
         /\ \A k \in 1 .. Len(list) :
               /\ Slot(SP, list, k) \in WordAddr /\ Slot(SP, list, k) # SP
               /\ Stored(Saved(SP, list))[Slot(SP, list, k)] = regs[list[k]]
         /\ Agree(base, mem, Stored(Saved(SP, list)), Depth(base, SP))
    BY <2>3, <2>9, StoredSaved
  <2>11. ret \in Word /\ PC' \in {"code"} \X Nat /\ "MDR" \in RegName
    BY <2>1, <2>2, <2>3, Codes, SevenNames
  <2>12. /\ mem' \in [WordAddr -> Word] /\ mem'[SP] = ret
         /\ \A v \in WordAddr : v # SP => mem'[v] = Stored(Saved(SP, list))[v]
    BY <2>2, <2>3, <2>10, <2>11
  <2>13. /\ regs' \in [RegName -> Word] /\ regs'["MDR"] = ret
         /\ \A r \in RegName \ {"MDR"} : regs'[r] = regs[r]
    BY <2>2, <2>3, <2>11
  <2>14. Agree(base, mem, mem', d)
    <3> SUFFICES ASSUME NEW v \in WordAddr, Depth(base, v) <= d
                 PROVE  mem'[v] = mem[v]
      BY DEF Agree
    <3>1. Depth(base, v) \in Nat
      BY <2>3, DepthRange
    <3>2. v # SP /\ Depth(base, v) <= Depth(base, SP)
      BY <2>7, <2>8, <3>1
    <3> QED
      BY <2>10, <2>12, <3>2 DEF Agree
  <2>15. \A k \in 1 .. Len(act.list) : mem'[Slot(act.at, act.list, k)] = regs[act.list[k]]
    BY <2>5, <2>10, <2>12
  <2>16. SP' = Wrap(SP - act.size)
    <3>1. (SP - Len(list)) - spare = SP - (Len(list) + spare)
      BY <1>1, <2>3, <2>4, SizesAssumption DEF WordAddr
    <3> QED
      BY <2>2, <2>5, <3>1
  <2>17. Live(base, acts, d)
    BY <2>7, <2>8
  <2>18. /\ acts' = Append(acts, act) /\ linked' \in BOOLEAN
         /\ act.kind \in Returning => mem'[act.at] = After(PC, InsSize[act.kind])
         /\ act.kind \notin Returning => UNCHANGED <<regs, PC>>
         /\ act.kind = "call" /\ regs'["MDR"] = mem'[act.at]
    BY <2>1, <2>2, <2>5, <2>12, <2>13 DEF Returning
  <2> QED
    BY <2>2, <2>5, <2>6, <2>7, <2>8, <2>11, <2>12, <2>13, <2>14, <2>15, <2>16, <2>17, <2>18,
       EnterStep, Zenon
<1>3. CASE ~({SP, CallLog} \cup Slots(SP, list) \subseteq Mapped)
  <2>1. halted' = TRUE /\ UNCHANGED <<mem, regs, PC, SP, base, acts, linked>>
    BY <1>1, <1>3 DEF Call, Accessing
  <2> QED
    BY <2>1, HaltStep
<1> QED
  BY <1>2, <1>3

LEMMA EmptyList == <<>> \in Seq(RegName) /\ Len(<<>>) = 0
OBVIOUS

LEMMA WrapStays ==
    ASSUME NEW w \in WordAddr
    PROVE  Wrap(w) = w /\ Wrap(w - 0) = w /\ Wrap(w + 0) = w
<1>1. w \in Int /\ 0 <= w /\ w < NumWords /\ NumWords \in Nat
  BY SizesAssumption DEF WordAddr
<1>2. w % NumWords = w
  BY <1>1, Modulo
<1>3. w - 0 = w /\ w + 0 = w
  BY <1>1
<1> QED
  BY <1>2, <1>3 DEF Wrap

\* CALLS and TRAP: a return address where SP points, and no more.
LEMMA PlainCall ==
    ASSUME StackInv, CanCall, NEW kind \in {"calls", "trap"},
           mem' = [mem EXCEPT ![SP] = After(PC, InsSize[kind])],
           PC' \in {"code"} \X Nat, regs' \in [RegName -> Word],
           \A r \in RegName \ {"MDR"} : regs'[r] = regs[r],
           acts' = Append(acts, Act(kind, <<>>, 0)),
           linked' \in BOOLEAN, linked' => linked /\ regs'["MDR"] = regs["MDR"],
           SP' = SP, base' = base, halted' = halted
    PROVE  StackInv' /\ Abstract!Next
<1>1. /\ Typed /\ SP \in WordAddr /\ base \in WordAddr /\ mem \in [WordAddr -> Word]
  BY DEF StackInv, Typed
<1>2. PICK list \in Seq(RegName) : list = <<>> /\ Len(list) = 0
  BY EmptyList, Zenon
<1>3. PICK size \in Nat : size = 0
  OBVIOUS
<1>4. PICK act \in ActType :
         /\ act = Act(kind, list, size)
         /\ act.kind = kind /\ act.list = list /\ act.size = size /\ act.at = SP /\ act.linked = linked
  <2>1. kind \in Kinds
    BY DEF Kinds
  <2>2. PICK act : act = Act(kind, list, size)
    OBVIOUS
  <2>3. /\ act \in ActType /\ act.kind = kind /\ act.list = list /\ act.size = size
        /\ act.at = SP /\ act.linked = linked
    BY <1>1, <2>1, <2>2, NewAct
  <2> QED
    BY <2>2, <2>3, Zenon
<1>5. Shape(act)
  BY <1>2, <1>3, <1>4, StackAssumption DEF Shape
<1>6. /\ Len(acts) < MaxDepth
      /\ Live(base, acts, Depth(base, SP) - 1)
      /\ Depth(base, SP) \in Nat
  BY FreeWord DEF CanCall, CanEnter
<1>7. PICK d \in Int : d = Depth(base, SP) - 1 /\ d < NumWords
  BY FreeWord, SizesAssumption
<1>8. PICK ret \in Word : ret = After(PC, InsSize[kind])
  BY <1>1, Codes
<1>9. /\ mem' \in [WordAddr -> Word] /\ mem'[SP] = ret
      /\ \A v \in WordAddr : v # SP => mem'[v] = mem[v]
  BY <1>1, <1>8
<1>10. Agree(base, mem, mem', d)
  <2> SUFFICES ASSUME NEW v \in WordAddr, Depth(base, v) <= d
               PROVE  mem'[v] = mem[v]
    BY DEF Agree
  <2>1. Depth(base, v) \in Nat
    BY <1>1, DepthRange
  <2>2. v # SP
    BY <1>6, <1>7, <2>1
  <2> QED
    BY <1>9, <2>2
<1>11. Live(base, acts, d)
  BY <1>6, <1>7
<1>12. \A k \in 1 .. Len(act.list) : mem'[Slot(act.at, act.list, k)] = regs[act.list[k]]
  BY <1>2, <1>4
<1>13. SP' = Wrap(SP - act.size)
  BY <1>1, <1>3, <1>4, WrapStays
<1>14. acts' = Append(acts, act)
  BY <1>2, <1>3, <1>4, Zenon
<1>15. /\ act.kind \in Returning => mem'[act.at] = After(PC, InsSize[act.kind])
       /\ act.kind \notin Returning => UNCHANGED <<regs, PC>>
       /\ linked' => act.kind # "call" /\ linked /\ regs'["MDR"] = regs["MDR"]
  BY <1>4, <1>8, <1>9 DEF Returning
<1> QED
  BY <1>4, <1>5, <1>6, <1>7, <1>9, <1>10, <1>11, <1>12, <1>13, <1>14, <1>15, EnterStep, Zenon

LEMMA CallsStep ==
    ASSUME StackInv, Calls
    PROVE  StackInv' /\ Abstract!Next
<1>1. CASE {SP} \subseteq Mapped
  <2>1. /\ CanCall
        /\ mem' = [mem EXCEPT ![SP] = After(PC, InsSize["calls"])]
        /\ regs' = [regs EXCEPT !["MDR"] = After(PC, InsSize["calls"])]
        /\ PC' = Callee
        /\ acts' = Append(acts, Act("calls", <<>>, 0))
        /\ linked' = FALSE
        /\ SP' = SP /\ base' = base /\ halted' = halted
    BY <1>1 DEF Calls, Accessing, Enter
  <2>2. Typed /\ regs \in [RegName -> Word]
    BY DEF StackInv, Typed
  <2>3. PICK ret \in Word : ret = After(PC, InsSize["calls"])
    BY <2>2, Codes
  <2>4. PC' \in {"code"} \X Nat
    BY <2>1, <2>2, Codes
  <2>5. /\ regs' \in [RegName -> Word]
        /\ \A r \in RegName \ {"MDR"} : regs'[r] = regs[r]
    BY <2>1, <2>2, <2>3
  <2> QED
    BY <2>1, <2>4, <2>5, PlainCall
<1>2. CASE ~({SP} \subseteq Mapped)
  <2>1. halted' = TRUE /\ UNCHANGED <<mem, regs, PC, SP, base, acts, linked>>
    BY <1>2 DEF Calls, Accessing
  <2> QED
    BY <2>1, HaltStep
<1> QED
  BY <1>1, <1>2

LEMMA TrapStep ==
    ASSUME StackInv, Trap
    PROVE  StackInv' /\ Abstract!Next
<1>1. CASE {SP} \subseteq Mapped
  <2>1. /\ CanCall
        /\ mem' = [mem EXCEPT ![SP] = After(PC, InsSize["trap"])]
        /\ PC' = TrapVector
        /\ acts' = Append(acts, Act("trap", <<>>, 0))
        /\ regs' = regs /\ linked' = linked
        /\ SP' = SP /\ base' = base /\ halted' = halted
    BY <1>1 DEF Trap, Accessing, Enter
  <2>2. Typed /\ regs \in [RegName -> Word] /\ linked \in BOOLEAN
    BY DEF StackInv, Typed
  <2>3. PC' \in {"code"} \X Nat
    BY <2>1, <2>2, Codes
  <2>4. /\ regs' \in [RegName -> Word] /\ linked' \in BOOLEAN
        /\ \A r \in RegName \ {"MDR"} : regs'[r] = regs[r]
        /\ linked' => linked /\ regs'["MDR"] = regs["MDR"]
    BY <2>1, <2>2
  <2> QED
    BY <2>1, <2>3, <2>4, PlainCall
<1>2. CASE ~({SP} \subseteq Mapped)
  <2>1. halted' = TRUE /\ UNCHANGED <<mem, regs, PC, SP, base, acts, linked>>
    BY <1>2 DEF Trap, Accessing
  <2> QED
    BY <2>1, HaltStep
<1> QED
  BY <1>1, <1>2

LEMMA MovmPushStep ==
    ASSUME StackInv, NEW mask \in Masks, MovmPush(mask)
    PROVE  StackInv' /\ Abstract!Next
<1>1. PICK list \in Seq(RegName), size \in Nat :
         /\ list = MovmList(mask) /\ size = MovmSize(mask)
         /\ Len(list) \in Nat /\ Len(list) <= size /\ size <= 12
  <2>1. /\ MovmList(mask) \in Seq(RegName) /\ MovmSize(mask) \in Nat
        /\ Len(MovmList(mask)) <= MovmSize(mask) /\ MovmSize(mask) <= 12
    BY Lists
  <2>2. Len(MovmList(mask)) \in Nat
    BY <2>1
  <2> QED
    BY <2>1, <2>2, Zenon
<1>2. CASE Slots(SP, list) \subseteq Mapped
  <2>1. /\ CanEnter
        /\ mem' = Stored(Saved(SP, list))
        /\ SP' = Wrap(SP - size)
        /\ acts' = Append(acts, Act("movm", list, size))
        /\ regs' = regs /\ PC' = PC /\ linked' = linked
        /\ base' = base /\ halted' = halted
    BY <1>1, <1>2 DEF MovmPush, Accessing, Enter
  <2>2. /\ Typed /\ SP \in WordAddr /\ base \in WordAddr /\ linked \in BOOLEAN
        /\ regs \in [RegName -> Word] /\ PC \in {"code"} \X Nat
    BY DEF StackInv, Typed
  <2>3. PICK act \in ActType :
           /\ act = Act("movm", list, size)
           /\ act.kind = "movm" /\ act.list = list /\ act.size = size
           /\ act.at = SP /\ act.linked = linked
    <3>1. "movm" \in Kinds
      BY DEF Kinds
    <3>2. PICK act : act = Act("movm", list, size)
      OBVIOUS
    <3>3. /\ act \in ActType /\ act.kind = "movm" /\ act.list = list /\ act.size = size
          /\ act.at = SP /\ act.linked = linked
      BY <2>2, <3>1, <3>2, NewAct
    <3> QED
      BY <3>2, <3>3, Zenon
  <2>4. Len(acts) < MaxDepth
    BY <2>1 DEF CanEnter
  <2>5. 12 <= Room /\ Room \in Nat
    BY StackAssumption
  <2>6. Shape(act)
    BY <1>1, <2>3, <2>5 DEF Shape
  <2>7. Depth(base, SP) + Len(list) < NumWords
    BY <1>1, <2>4, <2>5, RoomBelow
  <2>8. /\ Stored(Saved(SP, list)) \in [WordAddr -> Word]
        /\ \A k \in 1 .. Len(list) : Stored(Saved(SP, list))[Slot(SP, list, k)] = regs[list[k]]
        /\ Agree(base, mem, Stored(Saved(SP, list)), Depth(base, SP))
    BY <2>2, <2>7, StoredSaved
  <2>9. PICK d \in Int : d = Depth(base, SP) /\ d < NumWords /\ Live(base, acts, d)
    BY FreeWord
  <2>10. /\ mem' \in [WordAddr -> Word] /\ Agree(base, mem, mem', d)
         /\ \A k \in 1 .. Len(act.list) : mem'[Slot(act.at, act.list, k)] = regs[act.list[k]]
    BY <2>1, <2>3, <2>8, <2>9
  <2>11. /\ SP' = Wrap(SP - act.size) /\ acts' = Append(acts, act)
         /\ regs' \in [RegName -> Word] /\ PC' \in {"code"} \X Nat /\ linked' \in BOOLEAN
         /\ act.kind \notin Returning /\ UNCHANGED <<regs, PC>>
         /\ \A r \in RegName \ {"MDR"} : regs'[r] = regs[r]
         /\ linked' => act.kind # "call" /\ linked /\ regs'["MDR"] = regs["MDR"]
    BY <2>1, <2>2, <2>3 DEF Returning
  <2> QED
    BY <2>1, <2>3, <2>4, <2>6, <2>9, <2>10, <2>11, EnterStep, Zenon
<1>3. CASE ~(Slots(SP, list) \subseteq Mapped)
  <2>1. halted' = TRUE /\ UNCHANGED <<mem, regs, PC, SP, base, acts, linked>>
    BY <1>1, <1>3 DEF MovmPush, Accessing
  <2> QED
    BY <2>1, HaltStep
<1> QED
  BY <1>2, <1>3

LEMMA AddSPStep ==
    ASSUME StackInv, NEW size \in Spare, AddSP(size)
    PROVE  StackInv' /\ Abstract!Next
<1>1. /\ CanEnter
      /\ SP' = Wrap(SP - size)
      /\ acts' = Append(acts, Act("local", <<>>, size))
      /\ mem' = mem /\ regs' = regs /\ PC' = PC /\ linked' = linked
      /\ base' = base /\ halted' = halted
  BY DEF AddSP, Enter
<1>2. /\ Typed /\ SP \in WordAddr /\ linked \in BOOLEAN /\ mem \in [WordAddr -> Word]
      /\ regs \in [RegName -> Word] /\ PC \in {"code"} \X Nat
  BY DEF StackInv, Typed
<1>3. size \in Nat /\ size > 0 /\ size <= Room
  BY SizesAssumption, StackAssumption
<1>4. PICK list \in Seq(RegName) : list = <<>> /\ Len(list) = 0
  BY EmptyList, Zenon
<1>5. PICK act \in ActType :
         /\ act = Act("local", list, size)
         /\ act.kind = "local" /\ act.list = list /\ act.size = size
         /\ act.at = SP /\ act.linked = linked
  <2>1. "local" \in Kinds
    BY DEF Kinds
  <2>2. PICK act : act = Act("local", list, size)
    OBVIOUS
  <2>3. /\ act \in ActType /\ act.kind = "local" /\ act.list = list /\ act.size = size
        /\ act.at = SP /\ act.linked = linked
    BY <1>2, <1>3, <2>1, <2>2, NewAct
  <2> QED
    BY <2>2, <2>3, Zenon
<1>6. Len(acts) < MaxDepth
  BY <1>1 DEF CanEnter
<1>7. Shape(act)
  BY <1>3, <1>4, <1>5 DEF Shape
<1>8. PICK d \in Int : d = Depth(base, SP) /\ d < NumWords /\ Live(base, acts, d)
  BY FreeWord
<1>9. /\ mem' \in [WordAddr -> Word] /\ Agree(base, mem, mem', d)
      /\ \A k \in 1 .. Len(act.list) : mem'[Slot(act.at, act.list, k)] = regs[act.list[k]]
  BY <1>1, <1>2, <1>4, <1>5 DEF Agree
<1>10. /\ SP' = Wrap(SP - act.size) /\ acts' = Append(acts, act)
       /\ regs' \in [RegName -> Word] /\ PC' \in {"code"} \X Nat /\ linked' \in BOOLEAN
       /\ act.kind \notin Returning /\ UNCHANGED <<regs, PC>>
       /\ \A r \in RegName \ {"MDR"} : regs'[r] = regs[r]
       /\ linked' => act.kind # "call" /\ linked /\ regs'["MDR"] = regs["MDR"]
  BY <1>1, <1>2, <1>4, <1>5 DEF Returning
<1> QED
  BY <1>1, <1>5, <1>6, <1>7, <1>8, <1>9, <1>10, EnterStep, Zenon

-----------------------------------------------------------------------------
(* The instructions that leave one.                                        *)

LEMMA TopOfStack ==
    ASSUME StackInv, acts # <<>>
    PROVE  \E low \in Seq(ActType), top \in ActType, n \in Nat :
              /\ Tops(low, top, n, acts)
              /\ low = SubSeq(acts, 1, Len(acts) - 1) /\ top = Top
              /\ Shape(top) /\ Wrap(SP + top.size) = top.at
<1>1. PICK b \in WordAddr, st \in Seq(ActType), sp \in WordAddr : b = base /\ st = acts /\ sp = SP
  BY DEF StackInv, Typed
<1>2. Fits(b, st, sp) /\ st # <<>>
  BY <1>1, Zenon DEF StackInv
<1>3. PICK low \in Seq(ActType), top \in ActType, n \in Nat :
         Tops(low, top, n, st) /\ low = SubSeq(st, 1, Len(st) - 1) /\ top = st[Len(st)]
  BY <1>2, Popped
<1>4. Fits(b, low, top.at) /\ Shape(top) /\ Depth(b, top.at) + top.size = Depth(b, sp)
  <2>1. Fits(b, st, sp) /\ Tops(low, top, n, st)
    BY <1>2, <1>3, Zenon
  <2> QED
    BY <2>1, FitsPop
<1>5. /\ top.at \in WordAddr /\ top.size \in Nat
      /\ Depth(b, top.at) \in Nat /\ Depth(b, sp) \in Nat
  BY DepthRange DEF ActType
<1>6. Wrap(sp + top.size) = top.at
  <2>1. Wrap(sp + top.size) \in WordAddr /\ Depth(b, Wrap(sp + top.size)) = Depth(b, sp) - top.size
    BY <1>4, <1>5, Up
  <2>2. Depth(b, Wrap(sp + top.size)) = Depth(b, top.at)
    BY <1>4, <1>5, <2>1
  <2> QED
    BY <1>5, <2>1, <2>2, DepthUnique
<1>7. /\ Tops(low, top, n, acts)
      /\ low = SubSeq(acts, 1, Len(acts) - 1) /\ top = Top
      /\ Shape(top) /\ Wrap(SP + top.size) = top.at
  BY <1>1, <1>3, <1>4, <1>6, Zenon DEF Top
<1> QED
  BY <1>7, Zenon

LEMMA LoadedNone ==
    ASSUME Typed, NEW w, NEW list, list = <<>>
    PROVE  Loaded(w, list) = regs /\ ~HasMDR(list)
<1>1. regs = [r \in RegName |-> regs[r]]
  BY DEF Typed
<1>2. \A r : ~ \E k \in 1 .. Len(list) : list[k] = r
  OBVIOUS
<1>3. Loaded(w, list) = [r \in RegName |-> regs[r]]
  BY <1>2 DEF Loaded
<1> QED
  BY <1>1, <1>2, <1>3, Zenon DEF HasMDR

LEMMA ReturnStep ==
    ASSUME StackInv, NEW retf \in BOOLEAN, Return(retf), retf => linked
    PROVE  StackInv' /\ Abstract!Next
<1>1. acts # <<>> /\ Top.kind = "call"
  BY DEF Return
<1>2. PICK low \in Seq(ActType), top \in ActType, n \in Nat :
         /\ Tops(low, top, n, acts)
         /\ low = SubSeq(acts, 1, Len(acts) - 1) /\ top = Top
         /\ Shape(top) /\ Wrap(SP + top.size) = top.at
  BY <1>1, TopOfStack
<1>3. CASE halted' = TRUE /\ UNCHANGED <<mem, regs, PC, SP, base, acts, linked>>
  BY <1>3, HaltStep
<1>4. CASE /\ SP' = top.at
           /\ PC' = IF retf THEN regs["MDR"] ELSE mem[top.at]
           /\ regs' = Loaded(top.at, top.list)
           /\ acts' = low
           /\ linked' = (top.linked /\ HasMDR(top.list))
           /\ mem' = Freed(top.at)
           /\ base' = base /\ halted' = halted
  <2>1. Typed /\ top.at \in WordAddr
    BY DEF StackInv, ActType
  <2>2. mem' \in [WordAddr -> Word] /\ Agree(base, mem, mem', Depth(base, top.at))
    BY <1>4, <2>1, FreedKeeps
  <2>3. PC' = mem[top.at]
    <3>1. CASE retf
      <4>1. PICK m, st, x : m = mem /\ st = acts /\ x = regs["MDR"]
        OBVIOUS
      <4>2. Len(acts) = n + 1
        BY <1>2 DEF Tops
      <4>3. LinksTo(m, st, n + 1, x)
        BY <3>1, <4>1, <4>2 DEF StackInv
      <4>4. st[n + 1] = top /\ top.kind = "call"
        BY <1>1, <1>2, <4>1, Zenon DEF Tops
      <4>5. x = m[top.at]
        BY <4>3, <4>4, LinksTop
      <4> QED
        BY <1>4, <3>1, <4>1, <4>5
    <3>2. CASE ~retf
      BY <1>4, <3>2
    <3> QED
      BY <3>1, <3>2
  <2>4. PC' = IF top.kind \in Returning THEN mem[top.at] ELSE PC
    BY <1>1, <1>2, <2>3 DEF Returning
  <2>5. linked' \in BOOLEAN /\ (linked' => top.linked /\ HasMDR(top.list))
    BY <1>4, Zenon DEF HasMDR
  <2>6. SP' = Wrap(SP + top.size)
    BY <1>2, <1>4, Zenon
  <2> QED
    BY <1>2, <1>4, <2>2, <2>4, <2>5, <2>6, LeaveStep, Zenon
<1> QED
  BY <1>2, <1>3, <1>4 DEF Return, Accessing, Leave, HasMDR

LEMMA RetsStep ==
    ASSUME StackInv, Rets
    PROVE  StackInv' /\ Abstract!Next
<1>1. acts # <<>> /\ Top.kind \in {"calls", "trap"}
  BY DEF Rets
<1>2. PICK low \in Seq(ActType), top \in ActType, n \in Nat :
         /\ Tops(low, top, n, acts)
         /\ low = SubSeq(acts, 1, Len(acts) - 1) /\ top = Top
         /\ Shape(top) /\ Wrap(SP + top.size) = top.at
  BY <1>1, TopOfStack
<1>3. CASE halted' = TRUE /\ UNCHANGED <<mem, regs, PC, SP, base, acts, linked>>
  BY <1>3, HaltStep
<1>4. CASE /\ PC' = mem[SP]
           /\ acts' = low
           /\ mem' = mem /\ regs' = regs /\ SP' = SP /\ linked' = linked
           /\ base' = base /\ halted' = halted
  <2>1. Typed /\ SP \in WordAddr /\ mem \in [WordAddr -> Word] /\ linked \in BOOLEAN
    BY DEF StackInv, Typed
  <2>2. top.kind \in {"calls", "trap"} /\ top.list = <<>> /\ top.size = 0
    BY <1>1, <1>2 DEF Shape
  <2>3. SP = top.at /\ SP' = Wrap(SP + top.size)
    BY <1>2, <1>4, <2>1, <2>2, WrapStays
  <2>4. Loaded(top.at, top.list) = regs /\ ~HasMDR(top.list)
    BY <2>1, <2>2, LoadedNone
  <2>5. mem' \in [WordAddr -> Word] /\ Agree(base, mem, mem', Depth(base, top.at))
    BY <1>4, <2>1 DEF Agree
  <2>6. PC' = IF top.kind \in Returning THEN mem[top.at] ELSE PC
    BY <1>4, <2>2, <2>3 DEF Returning
  <2>7. /\ regs' = Loaded(top.at, top.list) /\ linked' \in BOOLEAN
        /\ linked' => linked /\ ~HasMDR(top.list) /\ top.kind # "call"
    BY <1>4, <2>1, <2>2, <2>4
  <2> QED
    BY <1>2, <1>4, <2>3, <2>5, <2>6, <2>7, LeaveStep, Zenon
<1> QED
  BY <1>2, <1>3, <1>4 DEF Rets, Accessing, Leave

LEMMA MovmPopStep ==
    ASSUME StackInv, NEW mask \in Masks, MovmPop(mask)
    PROVE  StackInv' /\ Abstract!Next
<1>1. acts # <<>> /\ Top.kind = "movm" /\ Top.list = MovmList(mask)
  BY DEF MovmPop
<1>2. PICK low \in Seq(ActType), top \in ActType, n \in Nat :
         /\ Tops(low, top, n, acts)
         /\ low = SubSeq(acts, 1, Len(acts) - 1) /\ top = Top
         /\ Shape(top) /\ Wrap(SP + top.size) = top.at
  BY <1>1, TopOfStack
<1>3. /\ top.list = MovmList(mask) /\ top.kind = "movm"
      /\ HasMDR(top.list) <=> "other" \in mask
      /\ top.size = Len(top.list) + (IF "other" \in mask THEN 1 ELSE 0)
      /\ Len(top.list) \in Nat
  <2>1. PICK pushed \in Masks : top.list = MovmList(pushed) /\ top.size = MovmSize(pushed)
    BY <1>1, <1>2 DEF Shape
  <2>2. HasMDR(top.list) <=> "other" \in pushed
    BY <2>1, Lists
  <2>3. HasMDR(top.list) <=> "other" \in mask
    BY <1>1, <1>2, Lists
  <2>4. Len(top.list) \in Nat
    BY DEF ActType
  <2> QED
    BY <1>1, <1>2, <2>1, <2>2, <2>3, <2>4 DEF MovmSize
<1>4. Wrap(MovmFirst(mask) + Len(MovmList(mask))) = top.at
  <2>1. SP \in Int
    BY SizesAssumption DEF StackInv, Typed, WordAddr
  <2>2. MovmFirst(mask) + Len(top.list) = SP + top.size
    BY <1>3, <2>1 DEF MovmFirst
  <2> QED
    BY <1>2, <1>3, <2>2
<1>5. CASE halted' = TRUE /\ UNCHANGED <<mem, regs, PC, SP, base, acts, linked>>
  BY <1>5, HaltStep
<1>6. CASE /\ regs' = Loaded(top.at, top.list)
           /\ SP' = top.at
           /\ acts' = low
           /\ linked' = IF "other" \in mask THEN top.linked ELSE linked
           /\ mem' = Freed(top.at)
           /\ PC' = PC /\ base' = base /\ halted' = halted
  <2>1. Typed /\ top.at \in WordAddr /\ linked \in BOOLEAN /\ top.linked \in BOOLEAN
    BY DEF StackInv, Typed, ActType
  <2>2. mem' \in [WordAddr -> Word] /\ Agree(base, mem, mem', Depth(base, top.at))
    BY <1>6, <2>1, FreedKeeps
  <2>3. PC' = IF top.kind \in Returning THEN mem[top.at] ELSE PC
    BY <1>3, <1>6 DEF Returning
  <2>4. /\ linked' \in BOOLEAN
        /\ linked' => \/ top.linked /\ HasMDR(top.list)
                      \/ linked /\ ~HasMDR(top.list) /\ top.kind # "call"
    BY <1>3, <1>6, <2>1
  <2>5. SP' = Wrap(SP + top.size)
    BY <1>2, <1>6, Zenon
  <2> QED
    BY <1>2, <1>6, <2>2, <2>3, <2>4, <2>5, LeaveStep, Zenon
<1> QED
  BY <1>1, <1>2, <1>3, <1>4, <1>5, <1>6 DEF MovmPop, Accessing, Leave

LEMMA SubSPStep ==
    ASSUME StackInv, SubSP
    PROVE  StackInv' /\ Abstract!Next
<1>1. acts # <<>> /\ Top.kind = "local"
  BY DEF SubSP
<1>2. PICK low \in Seq(ActType), top \in ActType, n \in Nat :
         /\ Tops(low, top, n, acts)
         /\ low = SubSeq(acts, 1, Len(acts) - 1) /\ top = Top
         /\ Shape(top) /\ Wrap(SP + top.size) = top.at
  BY <1>1, TopOfStack
<1>3. /\ SP' = Wrap(SP + top.size) /\ mem' = Freed(top.at) /\ acts' = low
      /\ regs' = regs /\ PC' = PC /\ base' = base /\ linked' = linked /\ halted' = halted
  BY <1>2 DEF SubSP, Leave
<1>4. Typed /\ top.at \in WordAddr /\ linked \in BOOLEAN
  BY DEF StackInv, Typed, ActType
<1>5. top.kind = "local" /\ top.list = <<>>
  BY <1>1, <1>2 DEF Shape
<1>6. mem' \in [WordAddr -> Word] /\ Agree(base, mem, mem', Depth(base, top.at))
  BY <1>3, <1>4, FreedKeeps
<1>7. Loaded(top.at, top.list) = regs /\ ~HasMDR(top.list)
  BY <1>4, <1>5, LoadedNone
<1>8. PC' = IF top.kind \in Returning THEN mem[top.at] ELSE PC
  BY <1>3, <1>5 DEF Returning
<1>9. /\ regs' = Loaded(top.at, top.list) /\ linked' \in BOOLEAN
      /\ linked' => linked /\ ~HasMDR(top.list) /\ top.kind # "call"
  BY <1>3, <1>4, <1>5, <1>7
<1> QED
  BY <1>2, <1>3, <1>6, <1>8, <1>9, LeaveStep, Zenon

-----------------------------------------------------------------------------
(* The running code.                                                       *)

\* Its own words lie below what its activation keeps.
LEMMA OwnIsBelow ==
    ASSUME StackInv, acts # <<>>, Top.kind \in {"call", "local"}
    PROVE  \E d \in Int : /\ d < NumWords /\ Live(base, acts, d)
                          /\ \A v \in Own : Depth(base, v) > d
<1>1. PICK low \in Seq(ActType), top \in ActType, n \in Nat :
         Tops(low, top, n, acts) /\ top = Top /\ Shape(top)
  BY TopOfStack
<1>2. PICK b \in WordAddr, st \in Seq(ActType), sp \in WordAddr : b = base /\ st = acts /\ sp = SP
  BY DEF StackInv, Typed
<1>3. Fits(b, st, sp) /\ Tops(low, top, n, st)
  BY <1>1, <1>2, Zenon DEF StackInv
<1>4. Fits(b, low, top.at) /\ Depth(b, top.at) + top.size = Depth(b, sp)
  BY <1>3, FitsPop
<1>5. /\ top.at \in WordAddr /\ top.size \in Nat /\ Len(top.list) \in Nat /\ Len(top.list) <= top.size
  BY <1>1 DEF ActType, Shape
<1>6. Depth(b, top.at) \in Nat /\ Depth(b, sp) \in Nat /\ Depth(b, sp) < NumWords /\ NumWords \in Nat
  BY <1>5, DepthRange, SizesAssumption
<1>7. PICK d \in Int : d = Depth(b, top.at) + Len(top.list)
  BY <1>5, <1>6
<1>8. d < NumWords /\ Depth(b, top.at) <= d
  BY <1>4, <1>5, <1>6, <1>7
<1>9. Live(b, st, d)
  <2>1. Live(b, low, Depth(b, top.at))
    BY <1>4, <1>5, LiveBelow
  <2>2. Len(st) = n + 1 /\ Len(low) = n /\ (\A i \in 1 .. n : low[i] = st[i]) /\ st[n + 1] = top
    BY <1>3 DEF Tops
  <2> SUFFICES ASSUME NEW i \in 1 .. n + 1
               PROVE  Reach(b, st[i]) <= d
    BY <2>2 DEF Live
  <2>3. CASE i = n + 1
    BY <1>7, <2>2, <2>3 DEF Reach
  <2>4. CASE i \in 1 .. n
    <3>1. low[i] \in ActType /\ low[i] = st[i] /\ Reach(b, low[i]) <= Depth(b, top.at)
      BY <2>1, <2>2, <2>4 DEF Live
    <3>2. Depth(b, low[i].at) \in Nat /\ Len(low[i].list) \in Nat
      <4>1. PICK w \in WordAddr, list \in Seq(RegName) : w = low[i].at /\ list = low[i].list
        BY <3>1 DEF ActType
      <4>2. Depth(b, w) \in Nat /\ Len(list) \in Nat
        BY DepthRange
      <4> QED
        BY <4>1, <4>2
    <3>3. Reach(b, low[i]) \in Nat
      BY <3>2 DEF Reach
    <3>4. Reach(b, low[i]) <= d
      BY <1>6, <1>8, <3>1, <3>3
    <3> QED
      BY <3>1, <3>4
  <2> QED
    BY <2>3, <2>4
<1>10. ASSUME NEW v \in Own
       PROVE  Depth(b, v) > d
  <2>1. PICK k \in 0 .. (top.size - Len(top.list)) - 1 : v = Wrap(sp + k)
    BY <1>1, <1>2 DEF Own
  <2>2. k \in Nat /\ k < top.size - Len(top.list)
    BY <1>5, <2>1
  <2>3. k <= Depth(b, sp)
    BY <1>4, <1>5, <1>6, <2>2
  <2>4. Depth(b, v) = Depth(b, sp) - k
    BY <2>1, <2>2, <2>3, Up
  <2>5. Depth(b, sp) - k > Depth(b, top.at) + Len(top.list)
    BY <1>4, <1>5, <1>6, <2>2
  <2> QED
    BY <1>7, <2>4, <2>5
<1>11. d < NumWords /\ Live(base, acts, d) /\ \A v \in Own : Depth(base, v) > d
  BY <1>2, <1>8, <1>9, <1>10, Zenon
<1> QED
  BY <1>11

LEMMA BodyStep ==
    ASSUME StackInv, NEW useMDR \in BOOLEAN, Body(useMDR)
    PROVE  StackInv' /\ Abstract!Next
<1>1. /\ regs' = [r \in RegName |-> IF r = "MDR" /\ ~useMDR THEN regs[r] ELSE <<r, Len(acts) % 2>>]
      /\ linked' = (linked /\ ~useMDR)
      /\ mem' = Stored([w \in Own \cap Mapped |-> Any])
      /\ PC' = Code(CodeSize * Len(acts))
      /\ SP' = SP /\ base' = base /\ acts' = acts /\ halted' = halted
  BY DEF Body
<1>2. /\ Typed /\ mem \in [WordAddr -> Word] /\ regs \in [RegName -> Word] /\ base \in WordAddr
      /\ linked \in BOOLEAN /\ Len(acts) \in Nat
  BY DEF StackInv, Typed
<1>3. \A v \in WordAddr : mem'[v] = IF v \in Own \cap Mapped THEN Any ELSE mem[v]
  BY <1>1 DEF Stored
<1>4. mem' \in [WordAddr -> Word]
  <2>1. Any \in Word
    BY DEF Any, Word, Value
  <2>2. mem' = [v \in WordAddr |-> mem'[v]]
    BY <1>1 DEF Stored
  <2>3. \A v \in WordAddr : mem'[v] \in Word
    BY <1>2, <1>3, <2>1
  <2> QED
    BY <2>2, <2>3
<1>5. PICK d \in Int : /\ d < NumWords /\ Live(base, acts, d)
                       /\ \A v \in Own : Depth(base, v) > d
  <2>1. CASE acts # <<>> /\ Top.kind \in {"call", "local"}
    BY <2>1, OwnIsBelow
  <2>2. CASE ~(acts # <<>> /\ Top.kind \in {"call", "local"})
    <3>1. Own = {}
      BY <2>2 DEF Own
    <3>2. PICK d \in Int : d < NumWords /\ Live(base, acts, d)
      <4>1. Depth(base, SP) \in Int /\ Depth(base, SP) < NumWords /\ Live(base, acts, Depth(base, SP))
        BY FreeWord
      <4> QED
        BY <4>1
    <3> QED
      BY <3>1, <3>2
  <2> QED
    BY <2>1, <2>2
<1>6. Agree(base, mem, mem', d)
  <2> SUFFICES ASSUME NEW v \in WordAddr, Depth(base, v) <= d
               PROVE  mem'[v] = mem[v]
    BY DEF Agree
  <2>1. Depth(base, v) \in Int
    BY <1>2, DepthRange
  <2>2. v \notin Own
    BY <1>5, <2>1
  <2> QED
    BY <1>3, <2>2
<1>7. PICK b \in WordAddr, st \in Seq(ActType) : b = base /\ st = acts
  BY DEF StackInv, Typed
<1>m. PICK m, m2 : m = mem /\ m2 = mem'
  OBVIOUS
<1>8. /\ Live(b, st, d) /\ Agree(b, m, m2, d)
      /\ ReturnsStand(m, st) /\ SavedLinks(m, st)
  BY <1>5, <1>6, <1>7, <1>m, Zenon DEF StackInv
<1>9. /\ Views(m2, st) = Views(m, st)
      /\ ReturnsStand(m2, st) /\ SavedLinks(m2, st)
      /\ \A v : LinksTo(m, st, Len(st), v) => LinksTo(m2, st, Len(st), v)
  BY <1>5, <1>8, StackKept
<1>10. regs' \in [RegName -> Word]
  <2>1. Len(acts) % 2 \in Nat
    BY <1>2
  <2>2. \A r \in RegName : <<r, Len(acts) % 2>> \in Word
    BY <2>1 DEF Word, Value
  <2> QED
    BY <1>1, <1>2, <2>2
<1>11. PC' \in {"code"} \X Nat
  BY <1>1, <1>2, Codes
<1>12. Typed'
  BY <1>1, <1>2, <1>4, <1>10, <1>11 DEF Typed
<1>13. linked' => LinksTo(m2, st, Len(st), regs'["MDR"])
  <2> SUFFICES ASSUME linked'
               PROVE  LinksTo(m2, st, Len(st), regs'["MDR"])
    OBVIOUS
  <2>1. linked /\ ~useMDR
    BY <1>1
  <2>2. PICK x : x = regs["MDR"] /\ x = regs'["MDR"]
    BY <1>1, <2>1, SevenNames
  <2>3. LinksTo(m, st, Len(st), x)
    BY <1>7, <1>m, <2>1, <2>2 DEF StackInv
  <2>4. LinksTo(m2, st, Len(st), x)
    BY <1>9, <2>3
  <2> QED
    BY <2>2, <2>4
<1>14. StackInv'
  <2>1. Fits(b, st, SP)
    BY <1>7, <1>m, Zenon DEF StackInv
  <2>2. base' = b /\ acts' = st /\ SP' = SP /\ mem' = m2
    BY <1>1, <1>7, <1>m
  <2> QED
    BY <1>9, <1>12, <1>13, <2>1, <2>2, Zenon DEF StackInv
<1>15. Abstract!Next
  BY <1>1, <1>7, <1>m, <1>9, AbstractWork
<1> QED
  BY <1>14, <1>15

-----------------------------------------------------------------------------
(* Theorems.                                                               *)

LEMMA StackStart == Init => StackInv /\ Abstract!Init
<1> SUFFICES ASSUME Init
             PROVE  StackInv /\ Abstract!Init
  OBVIOUS
<1>1. /\ mem = [w \in WordAddr |-> Any] /\ regs = [r \in RegName |-> <<r, 0>>]
      /\ PC = Code(0) /\ SP \in WordAddr /\ base = SP /\ acts = <<>>
      /\ linked = FALSE /\ halted = FALSE
  BY SizesAssumption DEF Init
<1>2. Len(acts) = 0 /\ acts \in Seq(ActType)
  BY <1>1
<1>3. Typed
  <2>1. Any \in Word /\ (\A r \in RegName : <<r, 0>> \in Word) /\ Code(0) \in {"code"} \X Nat
    BY DEF Any, Word, Value, Code
  <2>2. mem \in [WordAddr -> Word] /\ regs \in [RegName -> Word]
    BY <1>1, <2>1
  <2>3. Len(acts) <= MaxDepth
    BY <1>2, SizesAssumption
  <2> QED
    BY <1>1, <1>2, <2>1, <2>2, <2>3 DEF Typed
<1>4. Fits(base, acts, SP)
  <2>1. Depth(base, SP) = 0
    BY <1>1, DepthRange, SizesAssumption DEF WordAddr
  <2>2. 0 * Room = 0
    BY StackAssumption
  <2> QED
    BY <1>2, <2>1, <2>2 DEF Fits
<1>5. StackInv
  BY <1>1, <1>2, <1>3, <1>4 DEF StackInv, ReturnsStand, SavedLinks
<1>6. Abstract!Init
  BY <1>2 DEF Abstract!Init, Activations
<1> QED
  BY <1>5, <1>6

LEMMA StackStep ==
    ASSUME StackInv, Next
    PROVE  StackInv' /\ Abstract!Next
<1>1. ASSUME NEW mask \in Masks, NEW spare \in Spare, Call(mask, spare)
      PROVE  StackInv' /\ Abstract!Next
  BY <1>1, CallStep
<1>2. CASE Calls
  BY <1>2, CallsStep
<1>3. CASE Trap
  BY <1>3, TrapStep
<1>4. CASE Retf
  BY <1>4, ReturnStep DEF Retf
<1>5. CASE Ret
  BY <1>5, ReturnStep DEF Ret
<1>6. CASE Rets
  BY <1>6, RetsStep
<1>7. ASSUME NEW mask \in Masks, MovmPush(mask)
      PROVE  StackInv' /\ Abstract!Next
  BY <1>7, MovmPushStep
<1>8. ASSUME NEW mask \in Masks, MovmPop(mask)
      PROVE  StackInv' /\ Abstract!Next
  BY <1>8, MovmPopStep
<1>9. ASSUME NEW size \in Spare, AddSP(size)
      PROVE  StackInv' /\ Abstract!Next
  BY <1>9, AddSPStep
<1>10. CASE SubSP
  BY <1>10, SubSPStep
<1>11. ASSUME NEW useMDR \in BOOLEAN, Body(useMDR)
       PROVE  StackInv' /\ Abstract!Next
  BY <1>11, BodyStep
<1> QED
  BY <1>1, <1>2, <1>3, <1>4, <1>5, <1>6, <1>7, <1>8, <1>9, <1>10, <1>11 DEF Next

LEMMA StackStutter ==
    ASSUME StackInv, UNCHANGED vars
    PROVE  StackInv' /\ UNCHANGED <<regs, PC, SP, Activations>>
<1>1. Typed'
  BY DEF StackInv, Typed, vars
<1>2. StackInv'
  BY <1>1 DEF StackInv, vars
<1>3. Activations' = Activations
  BY ActivationsAreViews DEF vars
<1> QED
  BY <1>2, <1>3 DEF vars

\* The frames lie one below the other, what a returning instruction will read
\* is a return address, and MDR is the innermost CALL's while the program has
\* not used it otherwise: what every handler that reads the stack relies on.
THEOREM StackInvariant == Spec => []StackInv
<1>1. Init => StackInv
  BY StackStart
<1>2. StackInv /\ [Next]_vars => StackInv'
  BY StackStep, StackStutter
<1> QED
  BY <1>1, <1>2, PTL DEF Spec

\* Memory and registers keep whole values and the activations the sizes the
\* handlers give them, in every run.
THEOREM StackTypeCorrect == Spec => []TypeOK
<1>1. StackInv => TypeOK
  <2> SUFFICES ASSUME StackInv
               PROVE  TypeOK
    OBVIOUS
  <2>1. /\ mem \in [WordAddr -> Word] /\ regs \in [RegName -> Word] /\ PC \in {"code"} \X Nat
        /\ SP \in WordAddr /\ acts \in Seq(ActType) /\ Len(acts) <= MaxDepth
        /\ linked \in BOOLEAN /\ halted \in BOOLEAN
    BY DEF StackInv, Typed
  <2>2. \A x \in Word : x[1] \in Value /\ x[2] \in Nat
    BY DEF Word
  <2>3. ASSUME NEW i \in 1 .. Len(acts)
        PROVE  acts[i].size \in Nat /\ acts[i].size >= Len(acts[i].list)
    <3>1. acts[i] \in ActType /\ Shape(acts[i])
      BY <2>1 DEF StackInv, Fits
    <3>2. acts[i].size \in Nat /\ Len(acts[i].list) \in Nat /\ Len(acts[i].list) <= acts[i].size
      BY <3>1 DEF ActType, Shape
    <3> QED
      BY <3>2
  <2> QED
    BY <2>1, <2>2, <2>3 DEF TypeOK
<1> QED
  BY <1>1, StackInvariant, PTL

\* Return addresses and saved registers in guest memory are a stack of
\* activations the running code cannot disturb: each step of the emulator is
\* one of that stack, however deep the program nests CALL, CALLS, TRAP and
\* MOVM and whatever lists and frame sizes it uses.
THEOREM StackImplementsCallStack == Spec => ImplementsCallStack
<1>1. Init => Abstract!Init
  BY StackStart
<1>2. StackInv /\ [Next]_vars => [Abstract!Next]_<<regs, PC, SP, Activations>>
  BY StackStep, StackStutter
<1> QED
  BY <1>1, <1>2, StackInvariant, PTL DEF Spec, ImplementsCallStack, Abstract!Spec

-----------------------------------------------------------------------------
(* What the handlers access.                                               *)

LEMMA FromTheBeginning ==
    ASSUME NEW b \in WordAddr, NEW w \in WordAddr
    PROVE  Wrap(b - Depth(b, w)) = w
<1>1. Depth(b, b) = 0 /\ Depth(b, w) \in Nat /\ Depth(b, w) < NumWords
  <2>1. b - b = 0 /\ b <= b
    BY SizesAssumption DEF WordAddr
  <2> QED
    BY <2>1, DepthRange
<1>2. Wrap(b - Depth(b, w)) \in WordAddr /\ Depth(b, Wrap(b - Depth(b, w))) = Depth(b, w)
  <2>1. PICK j \in Nat : j = Depth(b, w) /\ Depth(b, b) + j < NumWords
    BY <1>1, SizesAssumption
  <2>2. Wrap(b - j) \in WordAddr /\ Depth(b, Wrap(b - j)) = Depth(b, b) + j
    BY <2>1, Down
  <2> QED
    BY <1>1, <2>1, <2>2
<1> QED
  BY <1>2, DepthUnique

\* A word so close above one of the stack that it lies above its beginning.
LEMMA PastTheBeginning ==
    ASSUME NEW b \in WordAddr, NEW w \in WordAddr, NEW j \in 0 .. 3,
           Depth(b, w) < j, 3 < NumWords
    PROVE  Wrap(w + j) = Wrap(b + (j - Depth(b, w)))
<1>1. /\ NumWords \in Nat /\ b \in Nat /\ b < NumWords /\ w \in Nat /\ w < NumWords
  BY SizesAssumption DEF WordAddr
<1>2. Depth(b, w) \in Nat /\ Depth(b, w) = IF w <= b THEN b - w ELSE (b - w) + NumWords
  BY DepthRange
<1>3. PICK x \in Int : x = b + (j - Depth(b, w))
  BY <1>1, <1>2
<1>4. PICK y \in Int : y = w + j
  BY <1>1
<1>5. x = y \/ x = y - NumWords
  BY <1>1, <1>2, <1>3, <1>4
<1>6. /\ 0 <= x /\ x < NumWords + NumWords
      /\ 0 <= y /\ y < NumWords + NumWords
  BY <1>1, <1>2, <1>3, <1>4
<1>7. x % NumWords = y % NumWords
  <2>1. -NumWords <= x /\ -NumWords <= y /\ ~(x < 0) /\ ~(y < 0)
    BY <1>1, <1>6
  <2>2. x % NumWords = IF x < NumWords THEN x ELSE x - NumWords
    BY <1>6, <2>1, Modulo
  <2>3. y % NumWords = IF y < NumWords THEN y ELSE y - NumWords
    BY <1>6, <2>1, Modulo
  <2>4. CASE x = y
    BY <2>4
  <2>5. CASE x = y - NumWords
    BY <1>1, <1>6, <2>2, <2>3, <2>5
  <2> QED
    BY <1>5, <2>4, <2>5
<1> QED
  BY <1>3, <1>4, <1>7 DEF Wrap

\* The program is neither within 12 words of the lower end of its stack nor
\* was its stack begun within 3 words of the upper end.
Inside ==
    /\ \A k \in 0 .. 12 : Wrap(SP - k) \in Mapped
    /\ \A k \in 0 .. 3 : Wrap(base + k) \in Mapped

LEMMA OnTheStack ==
    ASSUME StackInOnePiece, StackInv, base \in InitialSPs, Inside,
           NEW w \in WordAddr, Depth(base, w) <= Depth(base, SP)
    PROVE  w \in Mapped
<1>1. base \in WordAddr /\ SP \in WordAddr
  BY DEF StackInv, Typed
<1>2. PICK d \in Nat : d = Depth(base, SP) /\ Wrap(base - d) = SP
  BY <1>1, DepthRange, FromTheBeginning
<1>3. PICK e \in Nat : e = Depth(base, w) /\ Wrap(base - e) = w
  BY <1>1, DepthRange, FromTheBeginning
<1>4. d <= MaxDepth * Room /\ MaxDepth * Room \in Nat
  <2>1. PICK n \in Nat : n = Len(acts) /\ n <= MaxDepth /\ d <= n * Room
    BY <1>2 DEF StackInv, Typed, Fits
  <2>2. PICK r \in Nat : r = Room
    BY StackAssumption
  <2>3. PICK m \in Nat : m = MaxDepth
    BY SizesAssumption
  <2>4. n * r <= m * r /\ n * r \in Nat /\ m * r \in Nat
    BY <2>1, <2>3, SMTT(30)
  <2> QED
    BY <2>1, <2>2, <2>3, <2>4
<1>5. d \in 0 .. MaxDepth * Room /\ e \in 0 .. d
  BY <1>2, <1>3, <1>4
<1>6. SP \in Mapped
  <2>1. 0 \in 0 .. 12 /\ Wrap(SP - 0) = SP
    BY <1>1, WrapStays
  <2> QED
    BY <2>1 DEF Inside
<1> QED
  BY <1>2, <1>3, <1>5, <1>6 DEF StackInOnePiece

LEMMA BelowSP ==
    ASSUME Inside, SP \in WordAddr, NEW list, Len(list) \in Nat, Len(list) <= 11
    PROVE  {SP, CallLog} \cup Slots(SP, list) \subseteq Mapped
<1>1. SP \in Mapped
  <2>1. 0 \in 0 .. 12 /\ Wrap(SP - 0) = SP
    BY WrapStays
  <2> QED
    BY <2>1 DEF Inside
<1>2. CallLog \in Mapped
  <2>1. 12 \in 0 .. 12
    OBVIOUS
  <2> QED
    BY <2>1 DEF Inside, CallLog
<1>3. ASSUME NEW k \in 1 .. Len(list)
      PROVE  Slot(SP, list, k) \in Mapped
  <2>1. Len(list) - k + 1 \in 0 .. 12
    OBVIOUS
  <2> QED
    BY <2>1 DEF Inside, Slot
<1> QED
  BY <1>1, <1>2, <1>3 DEF Slots

LEMMA TopDepth ==
    ASSUME StackInv, acts # <<>>
    PROVE  /\ Top \in ActType /\ Shape(Top)
           /\ Depth(base, Top.at) + Top.size = Depth(base, SP)
           /\ Wrap(SP + Top.size) = Top.at
<1>1. PICK low \in Seq(ActType), top \in ActType, n \in Nat :
         /\ Tops(low, top, n, acts)
         /\ low = SubSeq(acts, 1, Len(acts) - 1) /\ top = Top
         /\ Shape(top) /\ Wrap(SP + top.size) = top.at
  BY TopOfStack
<1>2. Len(acts) \in 1 .. Len(acts)
  BY EmptySeq DEF StackInv, Typed
<1>3. Depth(base, Top.at) + Top.size = Depth(base, End(acts, SP, Len(acts)))
  BY <1>2 DEF StackInv, Fits, Top
<1>4. End(acts, SP, Len(acts)) = SP
  BY DEF End
<1> QED
  BY <1>1, <1>3, <1>4, Zenon

LEMMA SavedIsOnTheStack ==
    ASSUME StackInOnePiece, StackInv, base \in InitialSPs, Inside, acts # <<>>
    PROVE  {Top.at} \cup Slots(Top.at, Top.list) \subseteq Mapped
<1>1. PICK b \in WordAddr, sp \in WordAddr : b = base /\ sp = SP
  BY DEF StackInv, Typed
<1>2. PICK act \in ActType : act = Top /\ Shape(act) /\ Depth(b, act.at) + act.size = Depth(b, sp)
  BY <1>1, TopDepth
<1>3. /\ act.at \in WordAddr /\ act.list \in Seq(RegName) /\ Len(act.list) \in Nat
      /\ act.size \in Nat /\ Len(act.list) <= act.size
  BY <1>2 DEF ActType, Shape
<1>4. Depth(b, act.at) \in Nat /\ Depth(b, sp) \in Nat /\ Depth(b, sp) < NumWords
  BY <1>3, DepthRange
<1>5. act.at \in Mapped
  <2>1. Depth(base, act.at) <= Depth(base, SP)
    BY <1>1, <1>2, <1>3, <1>4
  <2> QED
    BY <1>3, <2>1, OnTheStack
<1>6. ASSUME NEW k \in 1 .. Len(act.list)
      PROVE  Slot(act.at, act.list, k) \in Mapped
  <2>1. Depth(b, act.at) + Len(act.list) < NumWords
    BY <1>2, <1>3, <1>4, SizesAssumption
  <2>2. /\ Slot(act.at, act.list, k) \in WordAddr
        /\ Depth(b, Slot(act.at, act.list, k)) = Depth(b, act.at) + ((Len(act.list) - k) + 1)
    BY <1>3, <2>1, SlotDepth
  <2>3. Depth(base, Slot(act.at, act.list, k)) <= Depth(base, SP)
    BY <1>1, <1>2, <1>3, <1>4, <2>2
  <2> QED
    BY <2>2, <2>3, OnTheStack
<1> QED
  BY <1>2, <1>5, <1>6 DEF Slots

LEMMA FrameFits ==
    ASSUME StackInv, acts # <<>>
    PROVE  3 < NumWords
<1>1. Len(acts) \in Nat /\ Len(acts) # 0 /\ Len(acts) <= MaxDepth /\ MaxDepth \in Nat
  BY EmptySeq, SizesAssumption DEF StackInv, Typed
<1>2. 0 + 12 <= Room /\ Room \in Nat
  BY StackAssumption
<1>3. 0 * Room + Room < NumWords
  BY <1>1, RoomLeft
<1> QED
  BY <1>2, <1>3, SizesAssumption

\* The word RET logs lies between the beginning of the callee's stack and
\* three words above the caller's return address.
LEMMA LoggedIsOnTheStack ==
    ASSUME StackInOnePiece, StackInv, base \in InitialSPs, Inside, acts # <<>>
    PROVE  RetLog(Top.at, Top.list) \in Mapped
<1>1. PICK b \in WordAddr, sp \in WordAddr : b = base /\ sp = SP
  BY DEF StackInv, Typed
<1>2. PICK act \in ActType : act = Top /\ Shape(act) /\ Depth(b, act.at) + act.size = Depth(b, sp)
  BY <1>1, TopDepth
<1>3. /\ act.at \in WordAddr /\ act.size \in Nat
      /\ \E n \in Nat : n = Len(act.list) /\ n <= act.size
  BY <1>2 DEF ActType, Shape
<1>4. PICK n \in Nat : n = Len(act.list) /\ n <= act.size
  BY <1>3
<1>5. /\ Depth(b, act.at) \in Nat /\ Depth(b, sp) \in Nat
      /\ Depth(b, sp) < NumWords /\ NumWords \in Nat
  BY <1>3, DepthRange, SizesAssumption
<1>6. act.at \in Int
  BY <1>3, SizesAssumption DEF WordAddr
<1>7. CASE n >= 3
  <2>1. PICK j \in Nat : j = n - 3
    BY <1>7
  <2>2. RetLog(act.at, act.list) = Wrap(act.at - j)
    BY <1>4, <2>1 DEF RetLog
  <2>3. Depth(b, act.at) + j < NumWords /\ Depth(b, act.at) + j <= Depth(b, sp)
    BY <1>2, <1>3, <1>4, <1>5, <2>1
  <2>4. /\ Wrap(act.at - j) \in WordAddr
        /\ Depth(b, Wrap(act.at - j)) = Depth(b, act.at) + j
    BY <1>3, <2>3, Down
  <2> QED
    BY <1>1, <1>2, <2>2, <2>3, <2>4, OnTheStack
<1>8. CASE n < 3
  <2>1. PICK j \in 0 .. 3 : j = 3 - n
    BY <1>8
  <2>2. RetLog(act.at, act.list) = Wrap(act.at + j)
    <3>1. act.at - (n - 3) = act.at + j
      BY <1>6, <2>1
    <3> QED
      BY <1>4, <3>1 DEF RetLog
  <2>3. CASE j <= Depth(b, act.at)
    <3>1. /\ Wrap(act.at + j) \in WordAddr
          /\ Depth(b, Wrap(act.at + j)) = Depth(b, act.at) - j
      BY <1>3, <2>3, Up
    <3>2. Depth(base, Wrap(act.at + j)) <= Depth(base, SP)
      BY <1>1, <1>2, <1>3, <1>5, <3>1
    <3> QED
      BY <1>2, <2>2, <3>1, <3>2, OnTheStack
  <2>4. CASE Depth(b, act.at) < j
    <3>1. 3 < NumWords
      BY FrameFits
    <3>2. Wrap(act.at + j) = Wrap(b + (j - Depth(b, act.at)))
      BY <1>3, <2>4, <3>1, PastTheBeginning
    <3>3. j - Depth(b, act.at) \in 0 .. 3
      BY <1>5, <2>4
    <3> QED
      BY <1>1, <1>2, <2>2, <3>2, <3>3 DEF Inside
  <2> QED
    BY <1>5, <2>3, <2>4
<1> QED
  BY <1>7, <1>8

LEMMA PopEnds ==
    ASSUME StackInv, NEW mask \in Masks, MovmPop(mask)
    PROVE  Wrap(MovmFirst(mask) + Len(MovmList(mask))) = Top.at
<1>1. acts # <<>> /\ Top.kind = "movm" /\ Top.list = MovmList(mask)
  BY DEF MovmPop
<1>2. Top \in ActType /\ Shape(Top) /\ Wrap(SP + Top.size) = Top.at
  BY <1>1, TopDepth
<1>3. PICK pushed \in Masks : Top.list = MovmList(pushed) /\ Top.size = MovmSize(pushed)
  BY <1>1, <1>2 DEF Shape
<1>4. "other" \in pushed <=> "other" \in mask
  <2>1. HasMDR(Top.list) <=> "other" \in pushed
    BY <1>3, Lists
  <2>2. HasMDR(Top.list) <=> "other" \in mask
    BY <1>1, Lists
  <2> QED
    BY <2>1, <2>2
<1>5. SP \in Int /\ Len(Top.list) \in Nat
  BY <1>2, SizesAssumption DEF StackInv, Typed, WordAddr, ActType
<1>6. MovmFirst(mask) + Len(Top.list) = SP + Top.size
  BY <1>1, <1>3, <1>4, <1>5 DEF MovmFirst, MovmSize
<1> QED
  BY <1>1, <1>2, <1>6

\* Only a handler that accesses memory ends a run, and one that finds its
\* words mapped does not.
LEMMA NoFaultInside ==
    ASSUME StackInOnePiece, StackInv, base \in InitialSPs, Inside, Next
    PROVE  halted' = halted
<1>1. SP \in WordAddr
  BY DEF StackInv, Typed
<1>2. \A mask : /\ Len(MovmList(mask)) \in Nat
                /\ Len(MovmList(mask)) <= 11
  BY Lists
<1>3. \A mask : {SP, CallLog} \cup Slots(SP, MovmList(mask)) \subseteq Mapped
  BY <1>1, <1>2, BelowSP
<1>4. ASSUME NEW mask \in Masks, NEW spare \in Spare, Call(mask, spare)
      PROVE  halted' = halted
  <2>1. {SP, CallLog} \cup Slots(SP, MovmList(mask)) \subseteq Mapped
    BY <1>3
  <2> QED
    BY <1>4, <2>1 DEF Call, Accessing
<1>5. {SP} \subseteq Mapped
  BY <1>3
<1>6. CASE Calls
  BY <1>5, <1>6 DEF Calls, Accessing
<1>7. CASE Trap
  BY <1>5, <1>7 DEF Trap, Accessing
<1>8. ASSUME NEW retf \in BOOLEAN, Return(retf)
      PROVE  halted' = halted
  <2>1. acts # <<>>
    BY <1>8 DEF Return
  <2>2. Wrap(SP + Top.size) = Top.at
    BY <2>1, TopDepth
  <2>3. {Top.at} \cup Slots(Top.at, Top.list) \subseteq Mapped /\ RetLog(Top.at, Top.list) \in Mapped
    BY <2>1, SavedIsOnTheStack, LoggedIsOnTheStack
  <2>4. {RetLog(Top.at, Top.list)} \cup Slots(Top.at, Top.list)
          \cup (IF retf THEN {} ELSE {Top.at}) \subseteq Mapped
    BY <2>3
  <2> QED
    BY <1>8, <2>2, <2>4 DEF Return, Accessing
<1>9. CASE Rets
  BY <1>5, <1>9 DEF Rets, Accessing
<1>10. ASSUME NEW mask \in Masks, MovmPush(mask)
       PROVE  halted' = halted
  <2>1. Slots(SP, MovmList(mask)) \subseteq Mapped
    BY <1>3
  <2> QED
    BY <1>10, <2>1 DEF MovmPush, Accessing
<1>11. ASSUME NEW mask \in Masks, MovmPop(mask)
       PROVE  halted' = halted
  <2>1. acts # <<>> /\ Top.list = MovmList(mask)
    BY <1>11 DEF MovmPop
  <2>2. Wrap(MovmFirst(mask) + Len(MovmList(mask))) = Top.at
    BY <1>11, PopEnds
  <2>3. Slots(Top.at, Top.list) \subseteq Mapped
    BY <2>1, SavedIsOnTheStack
  <2> QED
    BY <1>11, <2>1, <2>2, <2>3 DEF MovmPop, Accessing
<1>12. ASSUME NEW size \in Spare, AddSP(size)
       PROVE  halted' = halted
  BY <1>12 DEF AddSP
<1>13. CASE SubSP
  BY <1>13 DEF SubSP
<1>14. ASSUME NEW useMDR \in BOOLEAN, Body(useMDR)
       PROVE  halted' = halted
  BY <1>14 DEF Body
<1> QED
  BY <1>4, <1>6, <1>7, <1>8, <1>9, <1>10, <1>11, <1>12, <1>13, <1>14 DEF Next, Ret, Retf

LEMMA BaseStays ==
    ASSUME Next
    PROVE  base' = base
BY DEF Next, Call, Calls, Trap, Retf, Ret, Return, Rets, MovmPush, MovmPop, AddSP, SubSP,
       Body, Accessing

\* A program whose stack is one piece of memory ends by a fault of these
\* instructions only near an end of it: fewer than 13 words are left below SP,
\* or fewer than 3 above the place the stack began at, whatever registers it
\* saves and however deep it nests.
THEOREM StackFaultsAtTheEdge ==
    ASSUME StackInOnePiece
    PROVE  Spec => FaultsOnlyAtTheEdge
<1> DEFINE Begun == base \in InitialSPs
<1>1. Init => Begun
  BY DEF Init
<1>2. Begun /\ [Next]_vars => Begun'
  BY BaseStays DEF vars
<1>3. StackInv /\ Begun /\ [Next]_vars
        => [halted' # halted =>
              \/ \E k \in 0 .. 12 : Wrap(SP - k) \notin Mapped
              \/ \E k \in 0 .. 3 : Wrap(base + k) \notin Mapped]_vars
  <2> SUFFICES ASSUME StackInv, Begun, Next, Inside
               PROVE  halted' = halted
    BY DEF Inside
  <2> QED
    BY NoFaultInside
<1> QED
  BY <1>1, <1>2, <1>3, StackInvariant, PTL DEF Spec, FaultsOnlyAtTheEdge
===============================================================================
