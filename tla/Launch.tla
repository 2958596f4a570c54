-------------------------------- MODULE Launch --------------------------------
(***************************************************************************)
(* main (main.cc): the program is read, its pages are mapped, its bytes    *)
(* copied to them, data pages are mapped behind it, and emu_loop is        *)
(* entered.  Composed of map_range and write_many, page by page over what  *)
(* AddressSpace promises of add_page, and of FetchLoop on the table and    *)
(* the entry that come out.                                                *)
(*                                                                         *)
(* The stores of the program to its own memory are not followed: mem is    *)
(* what the loader left.                                                   *)
(***************************************************************************)
EXTENDS FetchLoop, Sequences

CONSTANTS
    Programs,     \* files and arguments main is started with
    npad,         \* bytes of padding behind the text     (0x1000)
    NumDataPages, \* pages mapped behind the program      (100)
    Alloc(_),     \* frames aligned_alloc may return, given those in use
    HostMemory    \* what the frames held before

\* The bytes of a file are told from each other and from padding: byte k,
\* counted from 1, is k.  perms, for the data pages, are 0b111, and were 0b110
\* in the line left commented out.
Program == [file: Nat, off: Nat, sep: Nat, start: VAddr, entry: VAddr, perms: SUBSET PermBits]

\* insns.insert wants a position inside the vector; a file has at most 2^31
\* bytes, so that program and data never meet.
ASSUME ProgramsAssumption ==
    /\ npad \in Nat /\ NumDataPages \in Nat \ {0}
    /\ Programs \subseteq Program
    /\ \A p \in Programs :
          /\ p.sep <= p.file
          /\ p.off < p.file => p.sep <= p.file - p.off
          /\ p.file + npad < TotalBytes - NumDataPages * PageSize

ASSUME HostMemoryAssumption == HostMemory \in [Frame -> [0 .. PageSize - 1 -> Nat]]

ASSUME AllocAssumption == \A used \in SUBSET Frame : Alloc(used) \subseteq Frame \ used

VARIABLES
    prog,     \* the file and the arguments
    stage,    \* the statement of main
    i,        \* pages its loop is through with
    mem,      \* frame -> the bytes of the host page
    failure   \* why an exception ended main

main == <<prog, stage, i, mem, failure>>
allVars == <<main, vars>>

-----------------------------------------------------------------------------
(* The bytes to be loaded.                                                 *)

\* read_file: from the offset on; the whole file where the offset is not in it.
ReadFile(size, off) ==
    LET from == IF off < size THEN off ELSE 0
    IN  [k \in 1 .. size - from |-> from + k]

\* Slip: the padding overwrites the bytes after the text.
PaddedOver(bytes, sep) ==
    [k \in 1 .. Len(bytes) |-> IF sep # 0 /\ k > sep /\ k <= sep + npad THEN 0 ELSE bytes[k]]

\* Zeros are put in after the text where its end is given.
Padded(bytes, sep) ==
    IF sep = 0 THEN bytes
    ELSE SubSeq(bytes, 1, sep) \o [k \in 1 .. npad |-> 0] \o SubSeq(bytes, sep + 1, Len(bytes))

insns == Padded(ReadFile(prog.file, prog.off), prog.sep)

n_pages == Len(insns) \div PageSize + 1

-----------------------------------------------------------------------------
NewPage == [o \in 0 .. PageSize - 1 |-> 0]   \* alloc_page's memset

\* Slip: alloc_page without its memset.
MemoryOfDirty(f) == mem[f]

\* What is in a page alloc_page returns.
MemoryOf(f) == NewPage

Mapped == {p \in VPage : table[p].present}

UsedFrames == {table[p].page_addr : p \in Mapped}

\* Slip: the data begin on the last page of the program.
RangeStartOverlaps ==
    IF stage = "map_text" THEN prog.start ELSE Add(prog.start, (n_pages - 1) * PageSize)

\* The range the map_range call in progress is for.
RangeStart == IF stage = "map_text" THEN prog.start ELSE Add(prog.start, n_pages * PageSize)
RangeSize  == IF stage = "map_text" THEN n_pages ELSE NumDataPages
RangePerms == IF stage = "map_text" THEN PermBits ELSE prog.perms
CurAddr    == Add(RangeStart, i * PageSize)

\* page_range, in 32 bits.
RangeAccepted ==
    /\ Add(RangeStart, RangeSize * PageSize) <= TotalBytes - 1
    /\ RangeSize <= (TotalBytes - 1) \div PageSize
    /\ Offset(RangeStart) = 0

LaunchInit ==
    /\ prog \in Programs
    /\ stage = "map_text"
    /\ i = 0
    /\ mem = HostMemory
    /\ failure = "none"
    /\ table = [p \in VPage |-> NoEntry]
    /\ Called(prog.entry)

Mapping == stage \in {"map_text", "map_data"}

\* add_page on the next page of the range.
MapPage ==
    /\ Mapping
    /\ i < RangeSize
    /\ RangeAccepted
    /\ ~Pte(CurAddr).present
    /\ \E f \in Alloc(UsedFrames) :
          /\ table' = [table EXCEPT ![PageOf(CurAddr)] = PresentEntry(f, RangePerms)]
          /\ mem' = [mem EXCEPT ![f] = MemoryOf(f)]
    /\ i' = i + 1
    /\ UNCHANGED <<prog, stage, failure, phase, PC, pc, curr, copies, real_ins, spill, bad_next, due>>

\* What map_range can throw on its next page.
MapExceptions ==
    IF ~RangeAccepted THEN {"range"} ELSE IF Pte(CurAddr).present THEN {"mapped"} ELSE {"memory"}

\* Slip: main does not end.
MapThrowsGoesOn ==
    /\ Mapping
    /\ i < RangeSize
    /\ failure' \in MapExceptions
    /\ stage' = "start"
    /\ UNCHANGED <<prog, i, mem, vars>>

\* map_range throws, and main's catch ends it.
MapThrows ==
    /\ Mapping
    /\ i < RangeSize
    /\ failure' \in MapExceptions
    /\ stage' = "ended"
    /\ UNCHANGED <<prog, i, mem, vars>>

MapReturns ==
    /\ Mapping
    /\ i = RangeSize
    /\ stage' = IF stage = "map_text" THEN "load" ELSE "start"
    /\ i' = 0
    /\ UNCHANGED <<prog, mem, failure, vars>>

\* write_many on the next page.  Its checks, for the alignment and the pages,
\* repeat those map_range has just made.
LoadPage ==
    LET f == Pte(Add(prog.start, i * PageSize)).page_addr
    IN  /\ stage = "load"
        /\ i * PageSize < Len(insns)
        /\ mem' = [mem EXCEPT ![f] =
                       [o \in 0 .. PageSize - 1 |->
                           IF i * PageSize + o < Len(insns) THEN insns[i * PageSize + o + 1]
                           ELSE mem[f][o]]]
        /\ i' = i + 1
        /\ UNCHANGED <<prog, stage, failure, vars>>

\* Slip: write_many goes on while there is a page left, not a byte.
LoadReturnsNever ==
    /\ stage = "load"
    /\ i * PageSize > Len(insns)
    /\ stage' = "map_data"
    /\ i' = 0
    /\ UNCHANGED <<prog, mem, failure, vars>>

LoadReturns ==
    /\ stage = "load"
    /\ i * PageSize >= Len(insns)
    /\ stage' = "map_data"
    /\ i' = 0
    /\ UNCHANGED <<prog, mem, failure, vars>>

\* emu_loop(insns, entry)
StartLoop ==
    /\ stage = "start"
    /\ stage' = "loop"
    /\ Enter
    /\ UNCHANGED <<prog, i, mem, failure>>

\* A step of the loop.
InLoop(step) == stage = "loop" /\ step /\ UNCHANGED main

LaunchNext ==
    \/ MapPage \/ MapThrows \/ MapReturns
    \/ LoadPage \/ LoadReturns
    \/ StartLoop
    \/ InLoop(FetchSamePage) \/ InLoop(FetchNewPage) \/ InLoop(FetchFaults) \/ InLoop(Stop)
    \/ \E sz \in Sizes : InLoop(Sequential(sz))
    \/ \E sz \in Sizes : \E t \in Targets(table, pc, sz) : InLoop(Jump(sz, t))

\* One thread runs main, and nothing in it waits: it gets on until the program
\* has the word.
Progress ==
    \/ MapPage \/ MapThrows \/ MapReturns
    \/ LoadPage \/ LoadReturns \/ StartLoop
    \/ InLoop(FetchSamePage) \/ InLoop(FetchNewPage) \/ InLoop(FetchFaults)

LaunchSpec == LaunchInit /\ [][LaunchNext]_allVars /\ WF_allVars(Progress)

-----------------------------------------------------------------------------
(* Properties.                                                             *)

\* The programs are entered where the loop is right for them, or at once
\* refused.
LaunchTypeOK ==
    /\ TypeOK
    /\ prog \in Programs
    /\ stage \in {"map_text", "load", "map_data", "start", "loop", "ended"}
    /\ i \in 0 .. NumVPages
    /\ \A f \in Frame : DOMAIN mem[f] = 0 .. PageSize - 1
    /\ failure \in {"none", "range", "mapped", "memory"}
    /\ (failure # "none") = (stage = "ended")
    /\ stage = "start" => SafeLaunch(table, prog.entry) \/ ~Pte(prog.entry).present

ByteAt(a) == mem[Pte(a).page_addr][Offset(a)]

\* What the arguments ask to be at the k-th byte from the start: the file from
\* the offset, with padding after the text, then zeros.
Wanted(k) ==
    LET from == IF prog.off < prog.file THEN prog.off ELSE 0
        skip == IF prog.sep = 0 \/ k < prog.sep THEN 0 ELSE npad
    IN  IF prog.sep # 0 /\ k >= prog.sep /\ k < prog.sep + npad THEN 0
        ELSE IF from + k - skip < prog.file THEN from + k - skip + 1 ELSE 0

\* Before emu_loop is entered, the whole range from the start of the program to
\* the last data page, with room behind the image, is mapped and holds the
\* image and zeros, whatever the frames held before and however the image ends
\* in a page or the range wraps.
ImageLoaded ==
    stage = "start" =>
        \A k \in 0 .. (n_pages + NumDataPages) * PageSize - 1 :
            /\ Pte(Add(prog.start, k)).present
            /\ ByteAt(Add(prog.start, k)) = Wanted(k)

\* The bytes the decoder is given are those of the file, at the place the PC
\* has in it: loader and fetch loop agree on where the program lies.
DecodesImage ==
    stage = "loop" /\ phase = "decode" =>
        \A k \in 0 .. max_ins - 1 :
            mem[Fetched(k).frame][Fetched(k).off] =
                Wanted((pc + k - prog.start) % TotalBytes)

\* The arguments a launch needs: an aligned start with room for the program
\* and the data pages below the end of the address space, and an entry within.
Loadable ==
    /\ Offset(prog.start) = 0
    /\ prog.start + (n_pages + NumDataPages) * PageSize < TotalBytes
    /\ prog.entry >= prog.start
    /\ prog.entry < prog.start + n_pages * PageSize

\* Nothing refuses such a launch but a host without memory: the range of the
\* data, computed in 32 bits from that of the program, neither meets it nor is
\* turned down, and emu_loop finds its entry on an executable page.
LoadableIsLaunched ==
    Loadable =>
        /\ failure \in {"none", "memory"}
        /\ stage \in {"start", "loop"} => IsRX(Pte(prog.entry))

\* Such a launch gets to decode the instruction at its entry, unless the host
\* has no memory left for it.
EntryReached == Loadable => <>((phase = "decode" /\ pc = prog.entry) \/ failure = "memory")
==============================================================================
