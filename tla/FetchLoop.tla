------------------------------ MODULE FetchLoop ------------------------------
(***************************************************************************)
(* Emulator::emu_loop (emulator.cc): how the loop finds the bytes of the   *)
(* next instruction.  It keeps a host pointer (real_ins) and copies of     *)
(* page entries from one iteration to the next and goes back to the page   *)
(* tables only when it believes the pc has left the current page.          *)
(*                                                                         *)
(* The program being run is whatever Targets lets it be: an instruction    *)
(* has any size and either falls through or sets the PC.                   *)
(***************************************************************************)
EXTENDS PageEntry

CONSTANTS
    NumVPages,       \* virtual pages in the address space    (2^20)
    PageSize,        \* page_size                             (4096)
    max_ins,         \* longest instruction                   (7)
    Launches,        \* <<page table, start address>> pairs emu_loop is called with
    Targets(_,_,_)   \* addresses an instruction may jump to: table, pc, size

TotalBytes == NumVPages * PageSize
VAddr == 0 .. TotalBytes - 1
VPage == 0 .. NumVPages - 1
Sizes == 1 .. max_ins

ASSUME SizesAssumption ==
    /\ NumVPages \in Nat \ {0}
    /\ PageSize \in Nat
    /\ max_ins \in Nat \ {0}
    /\ max_ins < PageSize

ASSUME LaunchesAssumption == Launches \subseteq [VPage -> Entry] \X VAddr

VARIABLES
    table,              \* the page table; execution does not change it
    phase,              \* "call", "fetch": loop head, "decode": bytes found, "stopped"
    PC,                 \* regs.get_pc()
    pc,                 \* the local pc, oldpc once the next iteration begins
    curr,               \* page the loop believes to be in (start, at first)
    cached,             \* its entry
    cached_next,        \* entry of the page of pc + max_ins
    cached_next_prev,   \* entry of the page of pc when it was not curr's
    real_ins,           \* host pointer: frame and offset
    spill,              \* the bytes are taken from decode_spillover
    bad_next,
    due                 \* where the program is to go on

copies == <<cached, cached_next, cached_next_prev>>
vars == <<table, phase, PC, pc, curr, copies, real_ins, spill, bad_next, due>>

Pointer == [frame: Frame \cup {NullFrame}, off: Nat]

TypeOK ==
    /\ table \in [VPage -> Entry]
    /\ phase \in {"call", "fetch", "decode", "stopped"}
    /\ PC \in VAddr /\ pc \in VAddr /\ curr \in VAddr /\ due \in VAddr
    /\ cached \in Entry /\ cached_next \in Entry /\ cached_next_prev \in Entry
    /\ real_ins \in Pointer /\ real_ins.off < PageSize
    /\ spill \in BOOLEAN /\ bad_next \in BOOLEAN

-----------------------------------------------------------------------------
PageOf(a) == a \div PageSize
Offset(a) == a % PageSize
Base(a) == a - (a % PageSize)
Add(a, n) == (a + n) % TotalBytes     \* uint32 addition

\* get_pte_from_vaddr throws where the entry is not present.
Pte(a) == table[PageOf(a)]

\* The pointer to offset o of the page real_ins points into.
Realign(o) == [frame |-> real_ins.frame, off |-> o]

\* Distance from pc to the end of its page.
EndDist == PageSize - Offset(PC)

-----------------------------------------------------------------------------
\* emu_loop is called with this start address; its locals as declared.
Called(start) ==
    /\ phase = "call"
    /\ due = start
    /\ PC = 0
    /\ pc = 0
    /\ curr = 0
    /\ cached = NoEntry
    /\ cached_next = NoEntry
    /\ cached_next_prev = NoEntry
    /\ real_ins = [frame |-> NullFrame, off |-> 0]
    /\ spill = FALSE
    /\ bad_next = FALSE

Init ==
    \E launch \in Launches :
        /\ table = launch[1]
        /\ Called(launch[2])

\* Up to the while: the entry of the page of start is looked up, which throws
\* where there is none, and the PC is set.
Enter ==
    /\ phase = "call"
    /\ phase' = IF Pte(due).present THEN "fetch" ELSE "stopped"
    /\ PC' = due
    /\ curr' = due
    /\ cached' = Pte(due)
    /\ real_ins' = [frame |-> Pte(due).page_addr, off |-> 0]
    /\ UNCHANGED <<table, pc, cached_next, cached_next_prev, spill, bad_next, due>>

\* Line 56: the pc may have left the page, or the longest instruction would.
LeavesPage ==
    \/ PC < curr
    \/ PageOf(PC) # PageOf(pc)
    \/ Add(PC, max_ins) > Add(curr, PageSize)

\* Within the same page.
FetchSamePage ==
    /\ phase = "fetch"
    /\ ~LeavesPage
    /\ pc' = PC
    /\ real_ins' = Realign(Offset(PC))
    /\ phase' = "decode"
    /\ UNCHANGED <<table, PC, curr, copies, spill, bad_next, due>>

\* Slip: the first byte of curr's page counts as inside it.
OutsideCurrStrict == PC >= Add(curr, PageSize) \/ PC < Base(curr)

\* Line 68: the pc is not inside the page of curr (or at its first byte).
OutsideCurr == PC >= Add(curr, PageSize) \/ PC <= Base(curr)

NextOK == Pte(Add(PC, max_ins)).present /\ IsRX(Pte(Add(PC, max_ins)))

\* The page of pc + max_ins, or that of pc, is missing; or the former is not
\* executable: the loop ends.
FetchFaults ==
    /\ phase = "fetch"
    /\ LeavesPage
    /\ ~NextOK \/ (OutsideCurr /\ ~Pte(PC).present)
    /\ pc' = PC
    /\ bad_next' = TRUE
    /\ phase' = "stopped"
    /\ UNCHANGED <<table, PC, curr, copies, real_ins, spill, due>>

\* Slip: bad_next is worked out from the entry looked up an iteration ago.
FetchNewPageStale ==
    /\ phase = "fetch"
    /\ LeavesPage
    /\ NextOK
    /\ OutsideCurr => Pte(PC).present
    /\ pc' = PC
    /\ cached_next' = Pte(Add(PC, max_ins))
    /\ cached_next_prev' = IF OutsideCurr THEN Pte(PC) ELSE cached_next_prev
    /\ real_ins' = IF OutsideCurr
                   THEN [frame |-> Pte(PC).page_addr, off |-> Offset(PC)]
                   ELSE real_ins
    /\ bad_next' = (bad_next \/ ~IsRX(cached) \/ ~IsRX(cached_next_prev))
    /\ spill' = (~bad_next' /\ EndDist < max_ins)
    /\ phase' = "decode"
    /\ UNCHANGED <<table, PC, curr, cached, due>>

\* The page entries are looked up again; where the longest instruction would
\* not fit on the page, its bytes are put together in decode_spillover.
FetchNewPage ==
    /\ phase = "fetch"
    /\ LeavesPage
    /\ NextOK
    /\ OutsideCurr => Pte(PC).present
    /\ pc' = PC
    /\ cached_next' = Pte(Add(PC, max_ins))
    /\ cached_next_prev' = IF OutsideCurr THEN Pte(PC) ELSE cached_next_prev
    /\ real_ins' = IF OutsideCurr
                   THEN [frame |-> Pte(PC).page_addr, off |-> Offset(PC)]
                   ELSE real_ins
    /\ bad_next' = (bad_next \/ ~IsRX(cached) \/ ~IsRX(cached_next_prev'))
    /\ spill' = (~bad_next' /\ EndDist < max_ins)
    /\ phase' = "decode"
    /\ UNCHANGED <<table, PC, curr, cached, due>>

\* decode_inst or an instruction stops the loop: op 0xff, a size of 0, an
\* invalid instruction, or an exception from its handler.
Stop ==
    /\ phase = "decode"
    /\ phase' = "stopped"
    /\ UNCHANGED <<table, PC, pc, curr, copies, real_ins, spill, bad_next, due>>

Oob(sz) == Add(pc, sz) > Add(curr, PageSize)

\* The PC: only an instruction that left it alone moves it on.
PCAfter(sz, dest) == IF dest = pc THEN Add(pc, sz) ELSE dest

\* Slip: real_ins is advanced by the size and never aligned to its page.
RealInsAdvanced(moved, stayed, sz) ==
    IF moved \/ stayed
    THEN [frame |-> IF moved THEN cached_next.page_addr ELSE real_ins.frame,
          off |-> real_ins.off + sz]
    ELSE real_ins

\* real_ins after the instruction.
RealInsAfter(moved, stayed, sz) ==
    IF moved \/ stayed
    THEN [frame |-> IF moved THEN cached_next.page_addr ELSE real_ins.frame,
          off |-> Offset(Add(pc, sz))]
    ELSE real_ins

\* Lines 130-172 for an instruction of sz bytes that leaves `dest` in the PC
\* (the pc itself when it does not touch the PC).
Execute(sz, dest) ==
    LET moved == ~bad_next /\ Oob(sz)
    IN  /\ cached' = IF moved THEN cached_next ELSE cached
        /\ PC' = PCAfter(sz, dest)
        /\ real_ins' = RealInsAfter(moved, dest = pc, sz)
        /\ spill' = FALSE
        /\ curr' = Base(Add(pc, sz))
        /\ phase' = "fetch"
        /\ UNCHANGED <<table, pc, cached_next, cached_next_prev, bad_next>>

\* An instruction that does not set the PC.
Sequential(sz) ==
    /\ phase = "decode"
    /\ Execute(sz, pc)
    /\ due' = Add(pc, sz)

\* An instruction that sets the PC to t.
Jump(sz, t) ==
    /\ phase = "decode"
    /\ Execute(sz, t)
    /\ due' = t

Next ==
    \/ Enter
    \/ FetchSamePage \/ FetchNewPage \/ FetchFaults \/ Stop
    \/ \E sz \in Sizes : Sequential(sz)
    \/ \E sz \in Sizes : \E t \in Targets(table, pc, sz) : Jump(sz, t)

Spec == Init /\ [][Next]_vars

-----------------------------------------------------------------------------
(* Where the decoder reads, and where it should.                           *)

\* The k-th byte handed to decode_inst: in the spillover buffer the first
\* EndDist bytes come from real_ins and the rest from the next page.
Fetched(k) ==
    IF spill /\ k >= EndDist
    THEN [frame |-> cached_next.page_addr, off |-> k - EndDist]
    ELSE [frame |-> real_ins.frame, off |-> real_ins.off + k]

\* The byte at virtual address a.
Home(a) == [frame |-> Pte(a).page_addr, off |-> Offset(a)]

\* The decoder is given the max_ins bytes at the pc, wherever the pc came
\* from and whichever pages they lie on, from executable pages only.
FetchesAtPC ==
    phase = "decode" =>
        \A k \in 0 .. max_ins - 1 :
            IsRX(Pte(Add(pc, k))) /\ Fetched(k) = Home(Add(pc, k))

\* bad_next, once set, is never reset and switches off everything the loop
\* does at the end of a page; it is set only when the loop ends.
NeverDegrades == bad_next => phase = "stopped"

-----------------------------------------------------------------------------
(* The programs and start addresses the loop gets right.                   *)

\* Away from page 0, at the beginning of an executable page, and with no
\* code on the last page of the address space, where curr + page_size is 0.
SafeLaunch(tbl, start) ==
    /\ PageOf(start) # 0
    /\ Offset(start) = 0
    /\ IsRX(tbl[PageOf(start)])
    /\ ~IsRX(tbl[NumVPages - 1])

\* Not to the jump itself, not to a page that is mapped but not executable,
\* and not so close to the end of a page that the byte after the longest
\* instruction would be on the next; a jump that ends beyond its own page goes
\* to the page it ends on only at the first byte, and it does not end on the
\* last page of the address space.
SafeTarget(tbl, a, sz, t) ==
    LET next == Add(a, sz)
    IN  /\ t # a
        /\ tbl[PageOf(t)].present => IsRX(tbl[PageOf(t)])
        /\ PageOf(next) # NumVPages - 1
        /\ Offset(t) + max_ins < PageSize
        /\ PageOf(t) = PageOf(next) => PageOf(a) = PageOf(next) \/ Offset(t) = 0

-----------------------------------------------------------------------------
(* What comments of emulator.cc say of every program.                      *)

\* emulator.cc:97: "This handles cases where an instruction carries over to
\* the next page".
CarriesOver ==
    phase = "decode" /\ EndDist < max_ins =>
        \A k \in 0 .. max_ins - 1 : Fetched(k) = Home(Add(pc, k))

\* emulator.cc:165: "Only re-set pc if we dont set it outrselves via an
\* instruction".
KeepsPCInstructionsSet == phase = "fetch" => PC = due
==============================================================================
