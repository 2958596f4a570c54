---------------------------- MODULE FetchLoopProofs ----------------------------
(***************************************************************************)
(* Theorems about FetchLoop, for every page size, instruction length, page *)
(* table and program that SafeLaunch and SafeTarget admit.                 *)
(***************************************************************************)
EXTENDS FetchLoop, TLAPS

-----------------------------------------------------------------------------
(* Addresses.  The other proofs use PageOf, Base, Offset and Add through   *)
(* these facts only.                                                       *)

LEMMA Sizes0 ==
    /\ PageSize \in Nat \ {0} /\ NumVPages \in Nat \ {0} /\ max_ins \in 1 .. PageSize - 1
    /\ TotalBytes \in Nat \ {0}
    /\ TotalBytes = NumVPages * PageSize
    /\ 0 \in VAddr
<1>1. PageSize \in Nat \ {0} /\ NumVPages \in Nat \ {0} /\ max_ins \in 1 .. PageSize - 1
  BY SizesAssumption
<1>2. NumVPages * PageSize \in Nat \ {0}
  BY <1>1
<1> QED
  BY <1>1, <1>2 DEF TotalBytes, VAddr

\* An address is the beginning of its page and the offset in it.
LEMMA AddressParts ==
    ASSUME NEW a \in VAddr
    PROVE  /\ PageOf(a) \in VPage
           /\ Offset(a) \in 0 .. PageSize - 1
           /\ a = PageOf(a) * PageSize + Offset(a)
           /\ Base(a) = PageOf(a) * PageSize
           /\ Base(a) \in VAddr
<1>1. a \in Nat /\ a < NumVPages * PageSize
  BY Sizes0 DEF VAddr
<1>2. PageOf(a) \in Nat /\ Offset(a) \in 0 .. PageSize - 1 /\ a = PageOf(a) * PageSize + Offset(a)
  BY <1>1, Sizes0 DEF PageOf, Offset
<1>3. PageOf(a) < NumVPages
  BY <1>1, Sizes0 DEF PageOf
<1>4. PageOf(a) * PageSize \in Nat
  BY <1>2, Sizes0
<1>5. Base(a) = PageOf(a) * PageSize
  BY <1>1, <1>2, <1>4 DEF Base, Offset
<1> QED
  BY <1>1, <1>2, <1>3, <1>4, <1>5, Sizes0 DEF VPage, VAddr

LEMMA PagesApart ==
    ASSUME NEW p \in Nat, NEW q \in Nat, p < q
    PROVE  p * PageSize + PageSize <= q * PageSize
<1>1. PICK d \in Nat : q = p + 1 + d
  <2>1. q - (p + 1) \in Nat /\ q = p + 1 + (q - (p + 1))
    OBVIOUS
  <2> QED
    BY <2>1
<1>2. d * PageSize \in Nat /\ p * PageSize \in Nat
  BY Sizes0
<1>3. q * PageSize = p * PageSize + PageSize + d * PageSize
  BY <1>1, Sizes0
<1> QED
  BY <1>2, <1>3, Sizes0

\* Two addresses are on one page exactly if that page begins at one place.
LEMMA SamePage ==
    ASSUME NEW a \in VAddr, NEW b \in VAddr
    PROVE  /\ PageOf(a) = PageOf(b) <=> Base(a) = Base(b)
           /\ Base(a) <= b /\ b < Base(a) + PageSize => Base(b) = Base(a)
           /\ Base(a) < Base(b) => Base(a) + PageSize <= Base(b)
<1>1. /\ PageOf(a) \in Nat /\ PageOf(b) \in Nat
      /\ Base(a) = PageOf(a) * PageSize /\ Base(b) = PageOf(b) * PageSize
      /\ Offset(b) \in 0 .. PageSize - 1 /\ b = Base(b) + Offset(b)
      /\ Base(a) \in Int /\ Base(b) \in Int
  BY AddressParts, Sizes0 DEF VPage, VAddr
<1>2. PageOf(a) < PageOf(b) => Base(a) + PageSize <= Base(b)
  BY <1>1, PagesApart
<1>3. PageOf(b) < PageOf(a) => Base(b) + PageSize <= Base(a)
  BY <1>1, PagesApart
<1> QED
  BY <1>1, <1>2, <1>3, Sizes0 DEF VAddr

\* What the other proofs know of one address, and of sums on and over its page.
LEMMA Address ==
    ASSUME NEW a \in VAddr
    PROVE  /\ a \in Nat /\ a < TotalBytes
           /\ PageOf(a) \in VPage
           /\ Offset(a) \in Nat /\ Offset(a) < PageSize
           /\ Base(a) \in VAddr /\ Base(a) \in Nat
           /\ a = Base(a) + Offset(a)
           /\ Base(Base(a)) = Base(a) /\ PageOf(Base(a)) = PageOf(a) /\ Offset(Base(a)) = 0
           /\ PageOf(a) = 0 <=> Base(a) = 0
           /\ PageOf(a) = NumVPages - 1 <=> Base(a) + PageSize = TotalBytes
           /\ PageOf(a) # NumVPages - 1 => Base(a) + PageSize + PageSize <= TotalBytes
<1>1. /\ PageOf(a) \in VPage /\ PageOf(a) \in Nat
      /\ Offset(a) \in 0 .. PageSize - 1
      /\ a = PageOf(a) * PageSize + Offset(a)
      /\ Base(a) = PageOf(a) * PageSize
      /\ Base(a) \in VAddr
  BY AddressParts DEF VPage
<1>2. a \in Nat /\ a < TotalBytes /\ Base(a) \in Nat
  BY <1>1, Sizes0 DEF VAddr
<1>3. Base(Base(a)) = Base(a) /\ PageOf(Base(a)) = PageOf(a)
  BY <1>1, <1>2, SamePage, Sizes0
<1>4. Base(a) = Base(Base(a)) + Offset(Base(a)) /\ Offset(Base(a)) \in Nat
  BY <1>1, AddressParts
<1>5. PageOf(a) = 0 <=> Base(a) = 0
  BY <1>1, Sizes0
<1>6. PageOf(a) = NumVPages - 1 => Base(a) + PageSize = TotalBytes
  BY <1>1, Sizes0
<1>7. PageOf(a) # NumVPages - 1 => Base(a) + PageSize + PageSize <= TotalBytes
  <2> SUFFICES ASSUME PageOf(a) # NumVPages - 1
               PROVE  Base(a) + PageSize + PageSize <= TotalBytes
    OBVIOUS
  <2>1. PageOf(a) < NumVPages - 1 /\ NumVPages - 1 \in Nat
    BY <1>1, Sizes0 DEF VPage
  <2>2. Base(a) + PageSize <= (NumVPages - 1) * PageSize
    BY <1>1, <2>1, PagesApart
  <2>3. (NumVPages - 1) * PageSize + PageSize = TotalBytes
    BY Sizes0
  <2> QED
    BY <1>2, <2>2, <2>3, Sizes0
<1>8. PageOf(a) = NumVPages - 1 <=> Base(a) + PageSize = TotalBytes
  BY <1>2, <1>6, <1>7, Sizes0
<1>9. a = Base(a) + Offset(a) /\ Offset(Base(a)) = 0
  BY <1>1, <1>2, <1>3, <1>4
<1>10. Offset(a) \in Nat /\ Offset(a) < PageSize
  BY <1>1, Sizes0
<1> QED
  BY <1>1, <1>2, <1>3, <1>5, <1>7, <1>8, <1>9, <1>10

LEMMA Sums ==
    ASSUME NEW a \in VAddr, NEW n \in Nat, n <= PageSize
    PROVE  /\ Add(a, n) \in VAddr
           /\ PageOf(a) # NumVPages - 1 => Add(a, n) = a + n
           /\ a + n < TotalBytes => Add(a, n) = a + n
           /\ a + n = TotalBytes => Add(a, n) = 0
<1>1. a \in Nat /\ a < TotalBytes /\ TotalBytes \in Nat \ {0}
  BY Address, Sizes0
<1>2. Add(a, n) \in VAddr /\ (a + n < TotalBytes => Add(a, n) = a + n) /\ (a + n = TotalBytes => Add(a, n) = 0)
  BY <1>1 DEF Add, VAddr
<1>3. PageOf(a) # NumVPages - 1 => a + n < TotalBytes
  BY <1>1, Address, Sizes0
<1> QED
  BY <1>2, <1>3

\* A sum that stays on the page of its address.
LEMMA WithinPage ==
    ASSUME NEW a \in VAddr, NEW n \in Nat, Offset(a) + n < PageSize
    PROVE  /\ Add(a, n) = a + n
           /\ PageOf(Add(a, n)) = PageOf(a)
           /\ Offset(Add(a, n)) = Offset(a) + n
<1>1. a + n < TotalBytes /\ n <= PageSize
  BY Address, Sizes0
<1>2. Add(a, n) = a + n /\ Add(a, n) \in VAddr
  BY <1>1, Sums
<1>3. Base(Add(a, n)) = Base(a)
  <2>1. PICK b \in VAddr : b = Add(a, n)
    BY <1>2
  <2>2. Base(a) <= b /\ b < Base(a) + PageSize
    BY <1>2, <2>1, Address, Sizes0
  <2> QED
    BY <2>1, <2>2, SamePage
<1>4. PageOf(Add(a, n)) = PageOf(a)
  BY <1>2, <1>3, SamePage
<1>5. Offset(Add(a, n)) = Offset(a) + n
  BY <1>2, <1>3, Address
<1> QED
  BY <1>2, <1>4, <1>5

\* A sum that reaches the page behind it.
LEMMA OverPage ==
    ASSUME NEW a \in VAddr, PageOf(a) # NumVPages - 1, NEW n \in Nat, n <= PageSize,
           ~(Offset(a) + n < PageSize)
    PROVE  /\ Add(a, n) = a + n
           /\ Base(Add(a, n)) = Base(a) + PageSize
           /\ Offset(Add(a, n)) = Offset(a) + n - PageSize
<1> DEFINE q == Base(a) + PageSize
<1>1. /\ Add(a, n) = a + n /\ Add(a, n) \in VAddr /\ Add(a, n) \in Nat
      /\ Base(a) \in VAddr /\ Base(a) \in Nat /\ Base(Base(a)) = Base(a)
      /\ Offset(a) \in Nat /\ Offset(a) < PageSize /\ a = Base(a) + Offset(a)
      /\ PageSize \in Nat \ {0}
  <2>1. Add(a, n) = a + n /\ Add(a, n) \in VAddr
    BY Sums
  <2>2. Add(a, n) \in Nat
    BY <2>1, Address
  <2> QED
    BY <2>1, <2>2, Address, Sizes0
<1>2. q \in VAddr /\ q \in Nat
  <2>1. Base(a) + PageSize + PageSize <= TotalBytes /\ TotalBytes \in Nat
    BY Address, Sizes0
  <2>2. q \in Nat /\ q <= TotalBytes - 1
    BY <1>1, <2>1
  <2> QED
    BY <2>1, <2>2 DEF VAddr
<1>3. Base(q) = q
  <2>1. q = Base(q) + Offset(q) /\ Offset(q) \in Nat /\ Offset(q) < PageSize
        /\ Base(q) \in VAddr /\ Base(q) \in Nat /\ Base(Base(q)) = Base(q)
    BY <1>2, Address
  <2>2. Base(a) < Base(q)
    BY <1>1, <2>1
  <2>3. q <= Base(q)
    BY <1>1, <1>2, <2>2, SamePage
  <2> QED
    BY <1>1, <1>2, <2>1, <2>3
<1>4. q <= Add(a, n) /\ Add(a, n) < q + PageSize
  BY <1>1
<1>5. Base(Add(a, n)) = q
  BY <1>1, <1>2, <1>3, <1>4, SamePage
<1>6. Add(a, n) = Base(Add(a, n)) + Offset(Add(a, n)) /\ Offset(Add(a, n)) \in Nat
  BY <1>1, Address
<1>7. Offset(Add(a, n)) = Offset(a) + n - PageSize
  BY <1>1, <1>5, <1>6
<1> QED
  BY <1>1, <1>5, <1>7

-----------------------------------------------------------------------------
(* The inductive invariant.                                                *)

\* The programs the theorems are about: each instruction jumps to safe targets,
SafeJumps ==
    \A tbl \in [VPage -> Entry], a \in VAddr, sz \in Sizes :
        \A t \in Targets(tbl, a, sz) : t \in VAddr /\ SafeTarget(tbl, a, sz, t)

\* and each launch is one the loop is right for or finds no page.
SafeProgram ==
    /\ \A launch \in Launches :
          \/ SafeLaunch(launch[1], launch[2])
          \/ ~launch[1][PageOf(launch[2])].present
    /\ SafeJumps

\* emu_loop is called for one of these.
Admitted == phase = "call" => SafeLaunch(table, due) \/ ~Pte(due).present

\* At the loop head for the first time: the pc is at the beginning of its page
\* and not on that of the old pc, which is 0.
Entering ==
    /\ curr = PC
    /\ pc = 0
    /\ Offset(PC) = 0
    /\ PageOf(PC) # 0
    /\ IsRX(Pte(PC))

\* At the loop head after an instruction that did not set the PC: the loop sees
\* that a page has begun, or real_ins is right already.
GoesOn ==
    /\ Base(PC) = curr
    /\ \/ PC = curr /\ PageOf(PC) # PageOf(pc)
       \/ IsRX(Pte(PC)) /\ real_ins = Home(PC)

\* At the loop head after a jump.  curr is the page behind the jump, not that
\* of its target: where they are one, real_ins is on that page or the target
\* is its first byte, which the loop takes for another page.
HasJumped ==
    /\ Offset(PC) + max_ins < PageSize
    /\ PageOf(curr) # NumVPages - 1
    /\ Pte(PC).present => IsRX(Pte(PC))
    /\ PageOf(PC) = PageOf(curr) /\ PC # curr => PageOf(pc) = PageOf(curr)
    /\ PageOf(PC) = PageOf(curr) /\ PageOf(pc) = PageOf(curr) =>
          real_ins.frame = Pte(PC).page_addr

Running ==
    /\ Base(curr) = curr
    /\ IsRX(Pte(pc)) /\ IsRX(cached_next_prev)
    /\ GoesOn \/ HasJumped

\* cached_next is the page the longest instruction at the pc would end on.
KnowsNext == cached_next = Pte(Add(pc, max_ins)) /\ IsRX(cached_next)

\* With the bytes of an instruction found.  Where curr is not the page of the
\* pc, or cached_next is an old entry, the longest instruction stays within the
\* page.
Decoding ==
    /\ PC = pc
    /\ Base(curr) = curr /\ PageOf(curr) # NumVPages - 1
    /\ IsRX(Pte(pc)) /\ IsRX(cached_next_prev)
    /\ real_ins = Home(pc)
    /\ Base(pc) = curr \/ Offset(pc) + max_ins < PageSize
    /\ KnowsNext \/ (Base(pc) = curr /\ Offset(pc) + max_ins <= PageSize)
    /\ spill => KnowsNext
    /\ ~spill => Offset(pc) + max_ins <= PageSize

LoopInv ==
    /\ TypeOK
    /\ phase = "call" => pc = 0 /\ ~spill /\ ~bad_next
    /\ phase \in {"fetch", "decode"} =>
          ~bad_next /\ IsRX(cached) /\ ~IsRX(table[NumVPages - 1])
    /\ phase = "fetch" => ~spill /\ PC = due /\ (Entering \/ Running)
    /\ phase = "decode" => Decoding

-----------------------------------------------------------------------------
(* Each step keeps it.                                                     *)

LEMMA EntryFacts ==
    /\ TypeOK => \A a \in VAddr : Pte(a) \in Entry
    /\ \A e : IsRX(e) => e.present
    /\ \A a, b \in VAddr : PageOf(a) = PageOf(b) => Pte(a) = Pte(b)
BY Address DEF TypeOK, Pte, IsRX

\* The page of an address on an executable page is not the last one.
LEMMA NotLast ==
    ASSUME NEW a \in VAddr, IsRX(Pte(a)), ~IsRX(table[NumVPages - 1])
    PROVE  PageOf(a) # NumVPages - 1
BY DEF Pte

LEMMA EnterStep ==
    ASSUME LoopInv, Admitted, Enter
    PROVE  LoopInv'
<1>1. TypeOK'
  <2>1. due \in VAddr /\ Pte(due) \in Entry
    BY EntryFacts DEF LoopInv, TypeOK
  <2>2. real_ins' \in Pointer /\ real_ins'.off < PageSize
    BY <2>1, Sizes0 DEF Enter, Pointer, Entry
  <2> QED
    BY <2>1, <2>2 DEF LoopInv, TypeOK, Enter, copies
<1>2. CASE ~Pte(due).present
  BY <1>1, <1>2 DEF Enter, LoopInv
<1>3. CASE Pte(due).present
  <2>1. SafeLaunch(table, due) /\ phase' = "fetch"
    BY <1>3 DEF Enter, Admitted
  <2>2. IsRX(Pte(due)) /\ ~IsRX(table[NumVPages - 1])
    BY <2>1 DEF SafeLaunch, Pte
  <2>3. Entering'
    BY <2>1, <2>2 DEF Entering, SafeLaunch, Enter, Pte, LoopInv
  <2> QED
    BY <1>1, <2>1, <2>2, <2>3 DEF LoopInv, Enter, copies
<1> QED
  BY <1>2, <1>3

LEMMA FetchSamePageStep ==
    ASSUME LoopInv, FetchSamePage
    PROVE  LoopInv'
<1>1. TypeOK /\ PC \in VAddr /\ pc \in VAddr /\ curr \in VAddr /\ PC = due /\ ~spill /\ ~bad_next
      /\ IsRX(cached) /\ ~IsRX(table[NumVPages - 1]) /\ max_ins \in Nat /\ max_ins <= PageSize
  BY Sizes0 DEF LoopInv, TypeOK, FetchSamePage
<1>2. PC >= curr /\ PageOf(PC) = PageOf(pc) /\ Add(PC, max_ins) <= Add(curr, PageSize)
  <2>1. Add(PC, max_ins) \in VAddr /\ Add(curr, PageSize) \in VAddr
    BY <1>1, Sums, Sizes0
  <2>2. PC \in Nat /\ curr \in Nat /\ Add(PC, max_ins) \in Nat /\ Add(curr, PageSize) \in Nat
    BY <1>1, <2>1 DEF VAddr
  <2> QED
    BY <2>2 DEF FetchSamePage, LeavesPage
<1>3. Running
  BY <1>2, <1>1, Address, Sizes0 DEF LoopInv, FetchSamePage, Entering
<1>4. PageOf(curr) # NumVPages - 1
  <2>1. CASE HasJumped
    BY <2>1 DEF HasJumped
  <2>2. CASE GoesOn
    BY <2>2, <1>1, <1>2, NotLast, SamePage, Address DEF GoesOn
  <2> QED
    BY <1>3, <2>1, <2>2 DEF Running
<1>5. Base(PC) = curr /\ Offset(PC) + max_ins <= PageSize
  <2>1. Add(curr, PageSize) = curr + PageSize /\ curr + PageSize < TotalBytes /\ Base(curr) = curr
    BY <1>1, <1>3, <1>4, Sums, Address, Sizes0 DEF Running
  <2>2. Base(PC) = curr
    <3>1. CASE HasJumped
      <4>1. PC + max_ins < TotalBytes
        BY <1>1, <3>1, Address, Sizes0 DEF HasJumped
      <4>2. Add(PC, max_ins) = PC + max_ins
        BY <1>1, <4>1, Sums
      <4> QED
        BY <1>1, <1>2, <2>1, <4>2, SamePage, Address, Sizes0
    <3> QED
      BY <1>3, <3>1 DEF Running, GoesOn
  <2>3. PC + max_ins < TotalBytes
    BY <1>1, <2>1, <2>2, Address, Sizes0
  <2>4. Add(PC, max_ins) = PC + max_ins
    BY <1>1, <2>3, Sums
  <2> QED
    BY <1>1, <1>2, <2>1, <2>2, <2>4, Address, Sizes0
<1>6. real_ins' = Home(PC)
  <2>1. real_ins' = [frame |-> real_ins.frame, off |-> Offset(PC)]
    BY DEF FetchSamePage, Realign
  <2>2. CASE HasJumped
    BY <1>1, <1>2, <1>3, <1>5, <2>1, <2>2, SamePage, Address DEF HasJumped, Home, Running
  <2>3. CASE GoesOn
    BY <1>2, <2>1, <2>3 DEF GoesOn, Home
  <2> QED
    BY <1>3, <2>2, <2>3 DEF Running
<1>7. TypeOK'
  <2>1. Pte(PC) \in Entry /\ Offset(PC) \in Nat /\ Offset(PC) < PageSize
    BY <1>1, EntryFacts, Address
  <2>2. real_ins' \in Pointer /\ real_ins'.off < PageSize
    BY <1>6, <2>1 DEF Home, Pointer, Entry
  <2> QED
    BY <1>1, <2>2 DEF TypeOK, FetchSamePage, copies
<1>8. Decoding'
  <2>1. IsRX(Pte(PC))
    BY <1>2, <1>3, <1>1, EntryFacts DEF Running
  <2> QED
    BY <1>1, <1>2, <1>3, <1>4, <1>5, <1>6, <2>1 DEF Decoding, Running, FetchSamePage, copies, Home, Pte
<1> QED
  BY <1>1, <1>7, <1>8 DEF LoopInv, FetchSamePage, copies

LEMMA FetchNewPageStep ==
    ASSUME LoopInv, FetchNewPage
    PROVE  LoopInv'
<1> DEFINE nx == Add(PC, max_ins)
<1>1. /\ TypeOK /\ PC \in VAddr /\ pc \in VAddr /\ curr \in VAddr
      /\ PC = due /\ ~spill /\ ~bad_next
      /\ IsRX(cached) /\ ~IsRX(table[NumVPages - 1])
      /\ max_ins \in Nat \ {0} /\ max_ins < PageSize /\ PageSize \in Nat \ {0}
      /\ nx \in VAddr
  BY Sizes0, Sums DEF LoopInv, TypeOK, FetchNewPage
<1>2. IsRX(Pte(nx)) /\ LeavesPage /\ (OutsideCurr => Pte(PC).present)
  BY DEF FetchNewPage, NextOK
<1>3. Entering \/ GoesOn \/ HasJumped
  BY DEF LoopInv, FetchNewPage, Running
<1>4. ~Entering => Running
  BY DEF LoopInv, FetchNewPage
<1>5. IsRX(Pte(PC))
  <2>1. CASE Offset(PC) + max_ins < PageSize
    BY <1>1, <1>2, <2>1, WithinPage, EntryFacts
  <2>2. CASE Entering
    BY <2>2 DEF Entering
  <2>3. CASE GoesOn /\ PC = curr
    <3>1. Offset(PC) = 0
      BY <1>1, <2>3, Address DEF GoesOn
    <3> QED
      BY <1>1, <2>1, <3>1
  <2> QED
    BY <1>3, <2>1, <2>2, <2>3 DEF GoesOn, HasJumped
<1>6. Base(curr) = curr /\ PageOf(curr) # NumVPages - 1
  <2>1. PageOf(PC) # NumVPages - 1
    BY <1>1, <1>5, NotLast
  <2>2. CASE Entering
    BY <1>1, <2>1, <2>2, Address DEF Entering
  <2>3. CASE GoesOn
    BY <1>1, <2>1, <2>3, Address DEF GoesOn
  <2>4. CASE HasJumped /\ ~Entering
    BY <1>4, <2>4 DEF HasJumped, Running
  <2> QED
    BY <1>3, <2>2, <2>3, <2>4
<1>7. Base(PC) = curr \/ Offset(PC) + max_ins < PageSize
  BY <1>1, <1>3, <1>6 DEF Entering, GoesOn, HasJumped
<1>8. Add(curr, PageSize) = curr + PageSize
  BY <1>1, <1>6, Sums
<1>9. ASSUME ~OutsideCurr
      PROVE  ~Entering /\ real_ins = Home(PC)
  <2>1. curr < PC /\ PC < curr + PageSize
    <3>1. PC \in Nat /\ curr \in Nat
      BY <1>1, Address
    <3>2. ~(PC >= curr + PageSize) /\ ~(PC <= curr)
      BY <1>6, <1>8, <1>9 DEF OutsideCurr
    <3> QED
      BY <1>1, <3>1, <3>2
  <2>2. Base(PC) = curr /\ PC # curr /\ PageOf(PC) = PageOf(curr)
    BY <1>1, <1>6, <2>1, SamePage, Address
  <2>3. CASE HasJumped
    <3>1. PageOf(pc) = PageOf(curr) /\ Offset(PC) + max_ins < PageSize
      BY <2>2, <2>3 DEF HasJumped
    <3>2. nx = PC + max_ins
      BY <1>1, <3>1, WithinPage
    <3>3. PC + max_ins < curr + PageSize
      BY <1>1, <2>2, <3>1, Address
    <3> QED
      BY <1>1, <1>2, <1>8, <2>1, <2>2, <3>1, <3>2, <3>3, Address DEF LeavesPage
  <2> QED
    BY <1>3, <2>2, <2>3 DEF Entering, GoesOn
<1>10. real_ins' = Home(PC)
  BY <1>9 DEF FetchNewPage, Home
<1>11. IsRX(cached_next_prev')
  BY <1>4, <1>5, <1>9 DEF FetchNewPage, Running
<1>12. bad_next' = FALSE
  BY <1>1, <1>11 DEF FetchNewPage
<1>13. Pte(PC) \in Entry /\ Pte(nx) \in Entry /\ Offset(PC) \in Nat /\ Offset(PC) < PageSize
  BY <1>1, EntryFacts, Address
<1>14. spill' = (PageSize - Offset(PC) < max_ins)
  BY <1>12 DEF FetchNewPage, EndDist
<1>15. TypeOK'
  <2>1. real_ins' \in Pointer /\ real_ins'.off < PageSize
    BY <1>10, <1>13 DEF Home, Pointer, Entry
  <2>2. cached_next' \in Entry /\ cached_next_prev' \in Entry /\ spill' \in BOOLEAN
    BY <1>1, <1>13, <1>14 DEF FetchNewPage, TypeOK
  <2> QED
    BY <1>1, <1>12, <2>1, <2>2 DEF TypeOK, FetchNewPage
<1>16. KnowsNext'
  BY <1>2 DEF KnowsNext, FetchNewPage, Pte
<1>17. ~spill' => Offset(PC) + max_ins <= PageSize
  <2>1. ~(PageSize - Offset(PC) < max_ins) => Offset(PC) + max_ins <= PageSize
    BY <1>1, <1>13
  <2> QED
    BY <1>14, <2>1
<1>18. Decoding'
  BY <1>5, <1>6, <1>7, <1>10, <1>11, <1>16, <1>17 DEF Decoding, FetchNewPage, Home, Pte
<1> QED
  BY <1>1, <1>12, <1>15, <1>18 DEF LoopInv, FetchNewPage

LEMMA StoppingStep ==
    ASSUME LoopInv, FetchFaults \/ Stop
    PROVE  LoopInv' /\ phase' = "stopped"
BY DEF LoopInv, TypeOK, FetchFaults, Stop, copies
\* Where an instruction of sz bytes ends: on its page, at the first byte of the
\* next, or inside the next, which is then the page cached_next is of.
LEMMA InstructionEnds ==
    ASSUME LoopInv, phase = "decode", NEW sz \in Sizes
    PROVE  /\ Add(pc, sz) \in VAddr
           /\ Oob(sz) => KnowsNext
           /\ PageOf(Add(pc, sz)) = PageOf(pc) /\ Oob(sz) => cached_next = Pte(pc)
           /\ PageOf(Add(pc, sz)) # PageOf(pc) =>
                 \/ Offset(Add(pc, sz)) = 0
                 \/ Oob(sz) /\ cached_next = Pte(Add(pc, sz))
<1> DEFINE next == Add(pc, sz)
<1> DEFINE far == Add(pc, max_ins)
<1>1. /\ TypeOK /\ pc \in VAddr /\ curr \in VAddr /\ Decoding
      /\ ~IsRX(table[NumVPages - 1])
      /\ sz \in Nat /\ 0 < sz /\ sz <= max_ins /\ max_ins \in Nat /\ max_ins < PageSize
      /\ PageSize \in Nat \ {0}
  BY Sizes0 DEF LoopInv, TypeOK, Sizes
<1>2. /\ PageOf(pc) # NumVPages - 1
      /\ Base(curr) = curr /\ PageOf(curr) # NumVPages - 1
      /\ Base(pc) = curr \/ Offset(pc) + max_ins < PageSize
      /\ KnowsNext \/ (Base(pc) = curr /\ Offset(pc) + max_ins <= PageSize)
  BY <1>1, NotLast DEF Decoding
<1>3. /\ next \in VAddr /\ next = pc + sz /\ far \in VAddr /\ far = pc + max_ins
      /\ Add(curr, PageSize) = curr + PageSize
  BY <1>1, <1>2, Sums
<1>4. /\ pc \in Nat /\ curr \in Nat /\ Base(pc) \in Nat /\ Offset(pc) \in Nat
      /\ pc = Base(pc) + Offset(pc) /\ Offset(pc) < PageSize
      /\ Base(next) \in Nat /\ Offset(next) \in Nat /\ next = Base(next) + Offset(next)
      /\ Base(far) \in Nat
  BY <1>1, <1>3, Address
<1>5. Oob(sz) <=> pc + sz > curr + PageSize
  BY <1>3 DEF Oob
<1>6. CASE Offset(pc) + max_ins < PageSize
  <2>1. Offset(pc) + sz < PageSize
    BY <1>1, <1>4, <1>6
  <2>2. PageOf(next) = PageOf(pc) /\ PageOf(far) = PageOf(pc)
    BY <1>1, <1>6, <2>1, WithinPage
  <2>3. Oob(sz) => KnowsNext
    BY <1>1, <1>2, <1>4, <1>5, <2>1
  <2>4. KnowsNext => cached_next = Pte(pc)
    BY <1>1, <1>3, <2>2, EntryFacts DEF KnowsNext
  <2> QED
    BY <1>3, <2>2, <2>3, <2>4
<1>7. CASE ~(Offset(pc) + max_ins < PageSize)
  <2>1. Base(pc) = curr
    BY <1>2, <1>7
  <2>2. Oob(sz) <=> Offset(pc) + sz > PageSize
    BY <1>1, <1>4, <1>5, <2>1
  <2>3. Oob(sz) => KnowsNext
    BY <1>1, <1>2, <1>4, <2>2
  <2>4. PageOf(next) = PageOf(pc) => ~Oob(sz)
    <3>1. PageOf(next) = PageOf(pc) => next < curr + PageSize
      BY <1>1, <1>3, <1>4, <2>1, SamePage, Address
    <3> QED
      BY <1>1, <1>3, <1>4, <1>5, <3>1
  <2>5. ASSUME PageOf(next) # PageOf(pc)
        PROVE  Offset(next) = 0 \/ (Oob(sz) /\ cached_next = Pte(next))
    <3>1. ~(Offset(pc) + sz < PageSize)
      BY <1>1, <2>5, WithinPage
    <3>2. /\ Base(next) = Base(pc) + PageSize /\ Base(far) = Base(pc) + PageSize
          /\ Offset(next) = Offset(pc) + sz - PageSize
      BY <1>1, <1>2, <1>7, <3>1, OverPage
    <3>3. CASE Oob(sz)
      <4>1. Pte(next) = Pte(far)
        BY <1>3, <3>2, SamePage, EntryFacts
      <4> QED
        BY <2>3, <3>3, <4>1 DEF KnowsNext
    <3>4. CASE ~Oob(sz)
      <4>1. Offset(pc) + sz <= PageSize
        BY <1>1, <1>4, <2>2, <3>4
      <4>2. Offset(pc) + sz - PageSize = 0
        BY <1>1, <1>4, <3>1, <4>1
      <4> QED
        BY <3>2, <4>2
    <3> QED
      BY <3>3, <3>4
  <2> QED
    BY <1>3, <2>3, <2>4, <2>5
<1> QED
  BY <1>6, <1>7

\* What every instruction leaves behind, whatever it does to the PC.
LEMMA ExecuteStep ==
    ASSUME LoopInv, phase = "decode", NEW sz \in Sizes, NEW dest \in VAddr,
           Execute(sz, dest), due' \in VAddr
    PROVE  /\ TypeOK'
           /\ phase' = "fetch" /\ ~spill' /\ ~bad_next'
           /\ IsRX(cached') /\ ~IsRX(table'[NumVPages - 1])
           /\ table' = table /\ pc' = pc /\ IsRX(Pte(pc)) /\ IsRX(cached_next_prev')
           /\ PC' = IF dest = pc THEN Add(pc, sz) ELSE dest
           /\ curr' = Base(Add(pc, sz)) /\ Base(curr') = curr'
           /\ PageOf(curr') = PageOf(Add(pc, sz))
           /\ PageOf(Add(pc, sz)) = PageOf(pc) => real_ins'.frame = Pte(pc).page_addr
           /\ dest = pc => \/ Offset(Add(pc, sz)) = 0 /\ PageOf(Add(pc, sz)) # PageOf(pc)
                           \/ IsRX(Pte(Add(pc, sz))) /\ real_ins' = Home(Add(pc, sz))
<1> DEFINE next == Add(pc, sz)
<1>1. /\ TypeOK /\ pc \in VAddr /\ Decoding /\ ~bad_next
      /\ IsRX(cached) /\ ~IsRX(table[NumVPages - 1]) /\ IsRX(Pte(pc)) /\ IsRX(cached_next_prev)
      /\ real_ins = [frame |-> Pte(pc).page_addr, off |-> Offset(pc)]
  BY DEF LoopInv, TypeOK, Decoding, Home
<1>2. /\ next \in VAddr
      /\ Oob(sz) => KnowsNext
      /\ PageOf(next) = PageOf(pc) /\ Oob(sz) => cached_next = Pte(pc)
      /\ PageOf(next) # PageOf(pc) => Offset(next) = 0 \/ (Oob(sz) /\ cached_next = Pte(next))
  BY InstructionEnds, Zenon
<1>3. /\ cached' = IF Oob(sz) THEN cached_next ELSE cached
      /\ PC' = IF dest = pc THEN next ELSE dest
      /\ real_ins' = IF Oob(sz) \/ dest = pc
                     THEN [frame |-> IF Oob(sz) THEN cached_next.page_addr ELSE real_ins.frame,
                           off |-> Offset(next)]
                     ELSE real_ins
      /\ spill' = FALSE /\ curr' = Base(next) /\ phase' = "fetch" /\ table' = table
      /\ pc' = pc /\ cached_next' = cached_next /\ cached_next_prev' = cached_next_prev
      /\ bad_next' = bad_next
  BY <1>1 DEF Execute, RealInsAfter, PCAfter
<1>4. IsRX(cached')
  BY <1>1, <1>2, <1>3 DEF KnowsNext
<1>5. curr' \in VAddr /\ Base(curr') = curr' /\ PageOf(curr') = PageOf(next)
      /\ Offset(next) \in Nat /\ Offset(next) < PageSize
  BY <1>2, <1>3, Address
<1>6. TypeOK'
  <2>1. real_ins' \in Pointer /\ real_ins'.off < PageSize
    BY <1>1, <1>3, <1>5 DEF TypeOK, Pointer, Entry
  <2>2. cached' \in Entry
    BY <1>1, <1>3 DEF TypeOK
  <2> QED
    BY <1>1, <1>2, <1>3, <1>5, <2>1, <2>2 DEF TypeOK
<1>7. PageOf(next) = PageOf(pc) => real_ins'.frame = Pte(pc).page_addr
  BY <1>1, <1>2, <1>3
<1>8. ASSUME dest = pc
      PROVE  \/ Offset(next) = 0 /\ PageOf(next) # PageOf(pc)
             \/ IsRX(Pte(next)) /\ real_ins' = Home(next)
  <2>1. CASE PageOf(next) = PageOf(pc)
    <3>1. Pte(next) = Pte(pc)
      BY <1>1, <1>2, <2>1, EntryFacts
    <3> QED
      BY <1>1, <1>3, <1>7, <1>8, <2>1, <3>1 DEF Home
  <2>2. CASE PageOf(next) # PageOf(pc) /\ Oob(sz) /\ cached_next = Pte(next)
    BY <1>2, <1>3, <2>2 DEF Home, KnowsNext
  <2> QED
    BY <1>2, <2>1, <2>2
<1> QED
  BY <1>1, <1>3, <1>4, <1>5, <1>6, <1>7, <1>8

LEMMA SequentialStep ==
    ASSUME LoopInv, NEW sz \in Sizes, Sequential(sz)
    PROVE  LoopInv'
<1> DEFINE next == Add(pc, sz)
<1>1. phase = "decode" /\ Execute(sz, pc) /\ due' = next /\ pc \in VAddr
  BY DEF Sequential, LoopInv, TypeOK
<1>2. next \in VAddr
  BY <1>1, InstructionEnds
<1>3. /\ TypeOK' /\ phase' = "fetch" /\ ~spill' /\ ~bad_next'
      /\ IsRX(cached') /\ ~IsRX(table'[NumVPages - 1])
      /\ table' = table /\ pc' = pc /\ IsRX(Pte(pc)) /\ IsRX(cached_next_prev')
      /\ PC' = next /\ curr' = Base(next) /\ Base(curr') = curr'
      /\ \/ Offset(next) = 0 /\ PageOf(next) # PageOf(pc)
         \/ IsRX(Pte(next)) /\ real_ins' = Home(next)
  BY <1>1, <1>2, ExecuteStep
<1>4. Offset(next) = 0 => Base(next) = next
  BY <1>2, Address
<1>5. GoesOn'
  BY <1>3, <1>4 DEF GoesOn, Home, Pte
<1>6. Running'
  BY <1>3, <1>5 DEF Running, Pte
<1> QED
  BY <1>1, <1>3, <1>6 DEF LoopInv

LEMMA JumpStep ==
    ASSUME LoopInv, NEW sz \in Sizes, NEW t \in VAddr, SafeTarget(table, pc, sz, t),
           Jump(sz, t)
    PROVE  LoopInv'
<1> DEFINE next == Add(pc, sz)
<1>1. phase = "decode" /\ Execute(sz, t) /\ due' = t /\ pc \in VAddr
  BY DEF Jump, LoopInv, TypeOK
<1>2. next \in VAddr
  BY <1>1, InstructionEnds
<1>3. /\ t # pc
      /\ Pte(t).present => IsRX(Pte(t))
      /\ PageOf(next) # NumVPages - 1
      /\ Offset(t) + max_ins < PageSize
      /\ PageOf(t) = PageOf(next) => PageOf(pc) = PageOf(next) \/ Offset(t) = 0
  BY DEF SafeTarget, Pte
<1>4. /\ TypeOK' /\ phase' = "fetch" /\ ~spill' /\ ~bad_next'
      /\ IsRX(cached') /\ ~IsRX(table'[NumVPages - 1])
      /\ table' = table /\ pc' = pc /\ IsRX(Pte(pc)) /\ IsRX(cached_next_prev')
      /\ PC' = t /\ curr' = Base(next) /\ Base(curr') = curr' /\ PageOf(curr') = PageOf(next)
      /\ PageOf(next) = PageOf(pc) => real_ins'.frame = Pte(pc).page_addr
  BY <1>1, <1>3, ExecuteStep
<1>5. PageOf(t) = PageOf(next) /\ t # Base(next) => PageOf(pc) = PageOf(next)
  BY <1>2, <1>3, SamePage, Address
<1>6. PageOf(t) = PageOf(pc) => Pte(t) = Pte(pc)
  BY <1>1, EntryFacts
<1>7. HasJumped'
  BY <1>3, <1>4, <1>5, <1>6 DEF HasJumped, Pte
<1>8. Running'
  BY <1>4, <1>7 DEF Running, Pte
<1> QED
  BY <1>1, <1>4, <1>8 DEF LoopInv

\* The bytes the loop hands to the decoder are those at the pc.
LEMMA FetchedAtPC ==
    ASSUME LoopInv, phase = "decode"
    PROVE  \A k \in 0 .. max_ins - 1 : IsRX(Pte(Add(pc, k))) /\ Fetched(k) = Home(Add(pc, k))
<1> TAKE k \in 0 .. max_ins - 1
<1> DEFINE at == Add(pc, k)
<1> DEFINE far == Add(pc, max_ins)
<1>1. /\ PC = pc /\ pc \in VAddr /\ Decoding /\ IsRX(Pte(pc)) /\ PageOf(pc) # NumVPages - 1
      /\ real_ins = [frame |-> Pte(pc).page_addr, off |-> Offset(pc)]
  BY NotLast DEF LoopInv, TypeOK, Decoding, Home
<1>2. /\ k \in Nat /\ k < max_ins /\ max_ins \in Nat /\ max_ins < PageSize
      /\ PageSize \in Nat \ {0} /\ Offset(pc) \in Nat /\ Offset(pc) < PageSize
  BY <1>1, Sizes0, Address
<1>3. EndDist = PageSize - Offset(pc)
  BY <1>1 DEF EndDist
<1>4. at \in VAddr /\ far \in VAddr
  BY <1>1, <1>2, Sums
<1>5. CASE Offset(pc) + k < PageSize
  <2>1. PageOf(at) = PageOf(pc) /\ Offset(at) = Offset(pc) + k
    BY <1>1, <1>2, <1>5, WithinPage
  <2>2. Pte(at) = Pte(pc)
    BY <1>1, <1>4, <2>1, EntryFacts
  <2>3. ~(k >= EndDist)
    BY <1>2, <1>3, <1>5
  <2> QED
    BY <1>1, <2>1, <2>2, <2>3 DEF Fetched, Home
<1>6. CASE ~(Offset(pc) + k < PageSize)
  <2>1. ~(Offset(pc) + max_ins <= PageSize)
    BY <1>2, <1>6
  <2>2. spill /\ KnowsNext
    BY <1>1, <2>1 DEF Decoding
  <2>3. /\ Base(at) = Base(pc) + PageSize /\ Base(far) = Base(pc) + PageSize
        /\ Offset(at) = Offset(pc) + k - PageSize
    BY <1>1, <1>2, <1>6, <2>1, OverPage
  <2>4. Pte(at) = Pte(far)
    BY <1>4, <2>3, SamePage, EntryFacts
  <2>5. k >= EndDist /\ k - EndDist = Offset(at)
    BY <1>2, <1>3, <1>6, <2>3
  <2> QED
    BY <2>2, <2>4, <2>5 DEF Fetched, Home, KnowsNext
<1> QED
  BY <1>5, <1>6

-----------------------------------------------------------------------------
(* The theorems.                                                           *)

IInv == LoopInv /\ Admitted

LEMMA InitInv ==
    ASSUME SafeProgram, Init
    PROVE  IInv
<1>1. PICK launch \in Launches : table = launch[1] /\ Called(launch[2])
  BY DEF Init
<1>2. launch[1] \in [VPage -> Entry] /\ launch[2] \in VAddr
  BY LaunchesAssumption
<1>3. TypeOK
  <2>1. NoEntry \in Entry
    BY DEF NoEntry, Entry
  <2>2. real_ins \in Pointer /\ real_ins.off < PageSize
    BY <1>1, Sizes0 DEF Called, Pointer
  <2> QED
    BY <1>1, <1>2, <2>1, <2>2, Sizes0 DEF TypeOK, Called
<1>4. LoopInv
  BY <1>1, <1>3 DEF LoopInv, Called
<1>5. Admitted
  BY <1>1 DEF SafeProgram, Admitted, Called, Pte
<1> QED
  BY <1>4, <1>5 DEF IInv

\* A step of the loop, whoever called it.
LoopStep ==
    \/ FetchSamePage \/ FetchNewPage \/ FetchFaults \/ Stop
    \/ \E sz \in Sizes : Sequential(sz)
    \/ \E sz \in Sizes : \E t \in Targets(table, pc, sz) : Jump(sz, t)

LEMMA LoopStepInv ==
    ASSUME SafeJumps, LoopInv, LoopStep
    PROVE  LoopInv' /\ table' = table /\ phase' # "call"
<1>1. CASE FetchSamePage
  BY <1>1, FetchSamePageStep DEF FetchSamePage
<1>2. CASE FetchNewPage
  BY <1>2, FetchNewPageStep DEF FetchNewPage
<1>3. CASE FetchFaults \/ Stop
  BY <1>3, StoppingStep DEF FetchFaults, Stop
<1>4. ASSUME NEW sz \in Sizes, Sequential(sz)
      PROVE  LoopInv' /\ table' = table /\ phase' # "call"
  BY <1>4, SequentialStep DEF Sequential, Execute
<1>5. ASSUME NEW sz \in Sizes, NEW t \in Targets(table, pc, sz), Jump(sz, t)
      PROVE  LoopInv' /\ table' = table /\ phase' # "call"
  <2>1. t \in VAddr /\ SafeTarget(table, pc, sz, t)
    BY <1>5 DEF SafeJumps, LoopInv, TypeOK
  <2> QED
    BY <1>5, <2>1, JumpStep DEF Jump, Execute
<1> QED
  BY <1>1, <1>2, <1>3, <1>4, <1>5 DEF LoopStep

LEMMA NextInv ==
    ASSUME SafeProgram, IInv, [Next]_vars
    PROVE  IInv'
<1>1. CASE Enter
  <2>1. LoopInv'
    BY <1>1, EnterStep DEF IInv
  <2> QED
    BY <1>1, <2>1 DEF IInv, Admitted, Enter
<1>2. CASE LoopStep
  BY <1>2, LoopStepInv DEF IInv, Admitted, SafeProgram
<1>3. CASE UNCHANGED vars
  BY <1>3 DEF vars, copies, IInv, Admitted, SafeLaunch, Pte, LoopInv, TypeOK, Entering, Running,
              GoesOn, HasJumped, Decoding, KnowsNext, Home
<1> QED
  BY <1>1, <1>2, <1>3 DEF Next, LoopStep

\* From one iteration of emu_loop to the next its pointer, its copies of page
\* entries and its page stay what the invariant says they are.
THEOREM LoopInvariant ==
    ASSUME SafeProgram
    PROVE  Spec => []IInv
<1>1. Init => IInv
  BY InitInv
<1>2. IInv /\ [Next]_vars => IInv'
  BY NextInv
<1> QED
  BY <1>1, <1>2, PTL DEF Spec

\* However many instructions a safe program has run, and whichever page ends
\* they lay across, decode_inst is given the max_ins bytes at the pc, all of
\* them from executable pages.
THEOREM FetchIsCorrect ==
    ASSUME SafeProgram
    PROVE  Spec => []FetchesAtPC
<1>1. IInv => FetchesAtPC
  BY FetchedAtPC DEF IInv, FetchesAtPC
<1> QED
  BY <1>1, LoopInvariant, PTL

\* A safe program never sets bad_next while the loop goes on.
THEOREM NothingDegrades ==
    ASSUME SafeProgram
    PROVE  Spec => []NeverDegrades
<1>1. IInv => NeverDegrades
  BY DEF IInv, LoopInv, NeverDegrades, TypeOK
<1> QED
  BY <1>1, LoopInvariant, PTL

================================================================================
