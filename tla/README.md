# Suigetsu: specification and proofs

Suigetsu emulates the MN103 CPU: it maps a program into a guest address space
(`src/src/main.cc`), and a single-threaded loop fetches, decodes and executes
its instructions (`src/src/emulator.cc`) over an MMU with three-level page
tables (`src/src/mmu.h`, `src/src/mmu.cc`).  This directory holds TLA+ models of
the parts that carry its logic, the TLC configurations that check them on small
instances, and TLAPS proofs of the results that hold for every value of the
constants.  Line numbers below are those of the files in `src/src/`.

    tlc -workers 2 -config MCMmu.cfg MCMmu          a run
    tlapm PageDirectoryProofs.tla                   the proofs of a module

## 1. Inventory

| Component | Source | State it keeps | Operations |
|---|---|---|---|
| Page entries | `mmu.h` 24-66, `mmu.cc` 8-42 | an entry: present, permissions, host page | constructors, permission bits |
| Page directory | `mmu.h` 76-132, `mmu.cc` 45-238 | `pld_ents`, the pages below it, the list `pages` of all of them | `add_page`, `get_pte_from_vaddr`, `alloc_page`, destructor |
| Mapping of ranges | `mmu.cc` 240-271 | none of its own; the loop counter and what it has mapped so far | `page_range`, `map_range` |
| MMU accesses | `mmu.h` 146-270, `mmu.cc` 272-300 | the bytes of the host pages | `read<T>`, `write<T>`, `write_many`, `log_many` |
| Fetch loop | `emulator.cc` 1-180 | host pointer `real_ins`, `curr`, `oldpc`, three copied page entries, `bad_next`, the spillover buffer | one iteration of `emu_loop` |
| Decoder | `decoder.cc`, `decoder.h`, `instruction.h` | `add_args`, `arg_sz`, `num_args`, `end`; the `Instruction` (`kinds`, `args`, `curr`, `sz`) | `decode_inst`, the `decode_*_op_*` tables, `arg_add`, `copy_data_args`, `get_arg` |
| Register file | `registers.cc`, `registers.h` | `registers`, indexed by the numbers of `ArgKind` | `get`, `set` |
| Register instructions | `emulator.cc` 438-1153 | data registers, MDR, PSW | ADD..SUBC, MUL, DIV, INC, CMP, AND, OR, XOR, NOT, BTST, ASL, ASR, LSR, ROR, ROL, EXT*, CLR, Bcc, Lcc |
| Stack instructions | `emulator.cc` 1160-1420 | SP, PC, MDR, the saved registers in guest memory | CALL, CALLS, RET, RETF, RETS, RTI, TRAP, MOVM |
| MOV, SETLB, JMP, addressing | `emulator.cc` | registers and memory | `get_val`, `get_val_mem`, `handle_mov`, `handle_setlb`, `handle_jmp` |
| Launcher | `main.cc`, `mmu.cc` 258-300 | the bytes of the file, how many pages they take | reads the file, pads it, maps, loads, runs, catches |
| Opcode tables, logging | `opcode.h`, `insn_to_str`, `arg_kind_to_str`, `log`, `dump_regs` | none | print |

**How they interact.**  There is one thread and there are no callbacks; every
interaction is a call, and every failure a C++ exception that leaves all levels
at once.  `main` calls `map_range` twice (program, then 100 data pages),
`write_many` and `emu_loop`; `map_range` calls `add_page` page by page;
`emu_loop` looks page entries up and *copies* them, hands the decoder a host
pointer, and calls the handler of the decoded instruction; handlers go through
`MMU::read` and `write` for memory and through `Reg` for registers, and the PC
they set is what the next iteration starts from.  An exception in any of them
ends the loop, and `main` prints it.

**What is hard.**  With no concurrency and nothing persisted, the hazards are
these, each listed at its line in `PROJECT.json`:

- *Partial failure.*  `alloc_page` may throw between two levels of `add_page`,
  `map_range` in the middle of its range, a split write between its two pages.
- *Stale copies.*  `emu_loop` keeps a pointer and three page entries across
  iterations and refreshes them only when three comparisons say so; `bad_next`
  is never cleared; host memory comes back with old contents.
- *Ordering within a step.*  The pointer moves to the next page before the
  instruction runs and perhaps jumps elsewhere; RETF takes the PC from MDR before
  MDR is loaded; CALL saves MDR before it overwrites it.
- *Agreement of code written twice.*  CALL and RET compute the places of the saved
  registers separately, MOVM a third time; `map_range` and `page_range` both
  compute addresses.
- *Agreement of numberings.*  `Reg::get` translates the numbers of memory operands and
  `Reg::set` does not; the number of pages is computed three times on the way from a file to
  guest memory.
- *Numeric edges.*  32-bit sums that wrap, masks that
  compare four bits, carries and overflows guessed from the result.

**What makes each component correct.**  Page directory: the tree is a tree, every
page of host memory has one role, mappings do not change, the caller is told
whether a page is new.  MMU: reads and writes behave as on one flat array with
permissions, and a faulting access does nothing.  Fetch loop: the decoder is
given the bytes at the PC.  Stack instructions: leaving an activation brings back
what entering it saved.  Register instructions: branches decide what the compared
values say, carries make longer sums, division undoes multiplication.  Decoder:
the operands a handler reads are those the bytes spell.  MOV, jumps and the rest: what the
instruction manual says, also at the ends of pages and when an access faults.  Launcher:
the image is in guest memory, whole and where the fetch loop looks for it, or nothing runs.

## 2. Modules

| Module | Models | Used by |
|---|---|---|
| `PageEntry` | `page_entry`, permissions | all below that know pages |
| `AddressSpace` | abstract: a map from pages to entries that only grows | refined by `PageDirectory` |
| `PageDirectory` | `add_page`, `alloc_page`, `map_range`, `page_range`, `get_pte_from_vaddr` | `PageDirectoryProofs` |
| `PageDirectoryProofs` | its theorems | |
| `FlatMemory` | abstract: an array of bytes with permissions | refined by `Mmu` |
| `Mmu` | `read`, `write`, `write_many` over the pages an `AddressSpace` maps | `MmuProofs` |
| `MmuProofs` | its theorems, with the refinement of `FlatMemory` | |
| `FetchLoop` | `emu_loop` over a page table | `Launch`, `FetchLoopProofs` |
| `FetchLoopProofs` | its theorems | `LaunchProofs` |
| `Launch` | `main`: file, padding, both ranges, loading, then `FetchLoop` | `LaunchProofs` |
| `LaunchProofs` | its theorems: the image, and the loop entered on it | |
| `CallStack` | abstract: a stack of activations | refined by `StackFrames` |
| `StackFrames` | CALL, CALLS, RET, RETF, RETS, TRAP, MOVM | `StackFramesProofs` |
| `StackFramesProofs` | its theorems, with the refinement of `CallStack` | |
| `Arith` | results, flags and conditions as functions of the operands | `Alu` |
| `Alu` | the handlers of register instructions as actions | `AluProofs` |
| `AluProofs` | theorems on `Arith` and `Alu` | |
| `InsnForms` | the opcode tables of the decoder, by form | `Operands`, `Manual` |
| `Operands` | what handlers infer from the kinds of operands | `Decoder`, `Machine` |
| `Registers` | `Reg::get`, `Reg::set` over the array | `Machine` |
| `Machine` | the instructions on registers, memory and PC, one action per handler | `MachineProofs` |
| `Manual` | abstract: what the instruction manual says of them | refined by `Machine` |
| `MachineProofs` | theorems on `Machine`, with the refinement of `Manual` | |
| `Decoder` | `decode_inst`, the operand bytes, and how handlers find operands | `DecoderProofs` |
| `DecoderProofs` | its theorems | |
| `MC*` | values of the constants for TLC | |

The modules are joined by their abstract specifications: `PageDirectory`
implements `AddressSpace`, and the page tables of `Mmu` and `FetchLoop` are what
`AddressSpace` allows (`Mmu!MapPage` is its `Map`; `FetchLoop` never changes its
table, for nothing is mapped while `emu_loop` runs); `Mmu` implements `FlatMemory`, which is
the memory the words of `StackFrames` live in, and, every page being readable and writable
as `main` maps it, the flat memory of `Machine`.  `Launch` extends `FetchLoop` and takes
`add_page` as `AddressSpace` has it: its `MapPage` is written as `Map`, so that this is an
assumption the refinement by `PageDirectory` justifies and not a result about `Launch`.

Operators whose comment begins with "Slip" are variants of the definition after
them, with a plausible mistake.  Nothing uses them; putting one in the place of the
original makes TLC violate the property paired with it in `PROJECT.json`
("mutants"), which shows that the property depends on that line of the code.

### PageDirectory

A call of `add_page` or `map_range` runs level by level: `pc` is the level about
to run (`AddPld`, `AddPmd`, `AddPte`), because these are the points at which
`alloc_page` may throw (`AllocThrows`) and leave the upper levels behind.  `Return`
is what follows `add_page`'s return: the end of the call, `map_range`'s throw when the
page was there, or its next iteration.  `pld` is `pld_ents`, `tables` the
contents of pages used as tables, `pages` the list the destructor frees.  The
allocator (`Alloc`) may return any unused frame, and frames start with arbitrary
contents (`HostMemory`), which is why `alloc_page`'s `memset` matters.  Any call
may follow any other, an exception included.

### Mmu

A value of T bytes is a function from byte numbers to bytes.  `Split`,
`SplitPoint`, `InSecond` keep the arithmetic of the code: the crossing test on four
bits of the page number (`page_mask`), the split point modulo 16, the second page found through
`addr + sizeof(T)`.  `ShiftIn` and `FlipEndianness` are the shift loop and
`htonl`.  `MapPage` is `add_page` seen through `AddressSpace`.  Reads and writes
record what they returned in `result`, by which they are compared with `FlatMemory`.

### FetchLoop

The state is the loop's locals.  The program being run is arbitrary: an
instruction has any size up to `max_ins` and either falls through or sets the PC
to an address `Targets` allows; `due` records where it wanted to go on.
`Enter` is what precedes the
loop (24-46).  `FetchSamePage`, `FetchNewPage` and `FetchFaults` are the three ways through the
head of the loop (56-127), `Execute` the rest of it (130-172).  `Stop` is a
BREAK, an undecodable instruction or an exception.

`SafeLaunch` and `SafeTarget` name the programs for which the loop is right; the
violation runs `carries_over` and `branch_to_self` show what happens without them.  They are the conditions
found by taking one away after the other: the program starts on a page boundary
away from page 0 (otherwise `cached_next_prev` is still the default entry at the
first crossing), no code on the last page (`curr + page_size` wraps to 0), no
jump to itself, no jump to where the longest instruction would
not fit on the page, no jump by a straddling instruction to the middle of the page it
ends on, and none to a page that is not executable.

### Launch

`stage` is the statement `main` is at.  `MapPage`, `MapThrows` and `MapReturns` are the
iterations of either `map_range` call, `LoadPage` and `LoadReturns` those of `write_many`;
then come `StartLoop` and the steps of `FetchLoop`.  Byte k of a file is the number k, so
that every byte out of place is seen.  `ReadFile` and `Padded` are `read_file` and the
insertion of `npad` zeros.  `MapExceptions` are the three ways `map_range` can throw; where
the host runs out of memory it may do so at any page.  Host pages
begin with other contents (`HostMemory`).  What the program stores is not followed, so
`DecodesImage` is about programs that leave their code alone.
`Loadable` says which arguments fit; `LoadableIsLaunched` is what must then be so at every step
(nothing but a lack of memory refuses the launch, and the entry is executable when the loop is reached),
`EntryReached` that the entry is reached.

### Operands, Registers and Machine

An instruction of `Machine` is a form of `InsnForms`, register numbers, and its operand
bytes as one number.  The register file is the array itself with the word behind it, so that
`Set` with the number of MA3 is the write past the end it would be in the code.  Each
handler is an action; `Returns` ends it with what `emu_loop` does to the PC afterwards
(163-170), `Throws` with the registers the handler had set when memory threw.  `Next` runs any
instruction there is at any mapped PC: encodings are the business of `Decoder`,
fetching that of `FetchLoop`.  The arithmetic of data registers is in `Alu`.  `Part` is
some of the bytes of a value, `Width` how many values so many bytes have.  The host's `&` and `|`
are constants here and in `Alu`, of which the proofs need only that words go to words; the MC
modules compute them bit by bit.

`Operands` has the predicates on kinds and, in `OpLoc` and `AddressOperands`,
`get_val_mem`'s reading of them.  `Decoder` checks it against the text of the instructions,
`Machine` computes with it.

`Manual` states what `insn_docs/insn_nts.dat` says, from the text of the forms and not from
their kinds, with registers by name and none of the code's order or numbering.
`Machine` is shown to implement it; where the emulator differs, `Manual` says so by name and only
asks that nothing else be changed (`Strays`):

| `Manual` | The emulator |
|---|---|
| `ExtendsAddress` | `get_val` (224) sign-extends displacements from SP and 16-bit addresses, which the manual zero-extends (`insn_nts.dat` 60-64) |
| `OtherTarget` | JMP (An) goes to PC + An (1168); CALLS does not sign-extend its 16-bit displacement (1251) |
| `OtherLoop` | a loop that ends goes on at LAR + 1, not behind the instruction; LGT and LHI combine the flags otherwise than BGT and BHI (1115) |
| `JumpsToItself` | falls through (166) |
| `SplitsPSW` | RTI with a PSW across a page boundary reads 0: `MMU::read` (`mmu.h` 205) swaps 32 bits whatever the width |
| `Bits` | BTST, BSET and BCLR on memory use the address for its contents (808-871) |

### StackFrames

Memory is counted in words; values are opaque, and return addresses are places in
the code.  `acts` is what the *program* knows: the activations it is in and
the register lists it named.  `Body` is the code of an activation: it overwrites
every register and its locals.  `CanCall` is the discipline the instructions ask
for: CALL and CALLS store the return address *at* SP, so that word must be free.
With each activation `acts` keeps where SP was (`at`), and `linked` says whether
MDR is still the innermost CALL's return address, which is when RETF may be used.
A handler that accesses a word that is not mapped throws (`Accessing`): `emu_loop`
ends.  `CallLog` and `RetLog` are the addresses `log_many` looks up, of which the
first that is not mapped throws like any other access.  `Freed` forgets the words
below SP, which no program may rely on.  `base` records the initial SP, for `Freed` and for the
statement of `FaultsOnlyAtTheEdge`.

### Arith and Alu

`Arith` has what the handlers compute from their operands: sums, flags, products,
quotients and the conditions of Bcc and Lcc.  `Alu` has an action per handler on
two data registers, MDR and the flags.  `last` records the operands of the last
ADD, MUL or CMP so that properties can relate the flags to them.

### InsnForms and Decoder

`InsnForms` lists what each case of the decoder's switches fills in (opcode, kinds, size,
bytes taken, `num_args`), once for all opcodes that differ in register numbers only: `D`,
`A`, `MA` stand for any of the four.  It names the position of the memory operand by the
mnemonic in the comment of the case.  `Decode` is `decode_inst` on an encoded
instruction of any form, with any of the operand bytes
`OperandBytes` allows (those of `MCDecoder` differ from each other and have every combination of
signs); `NoInstruction` is 0xf7 and BREAK.  `num_args` is what the decoder keeps from one
instruction to the next, `form` and `code` are what the bytes were, for the properties.
`copy_data_args` begins with `kinds[3]`, one past the end, which in memory is the
first of `args`; these have just been cleared, so it reads as no kind.
`get_val`, `get_arg`, `OpLoc`, `AddressOperands`, `Source` and `Destination` are how the
handlers then read the instruction.

## 3. Runs

| Run | Instance | What it shows |
|---|---|---|
| `page_directory` | tables of 2 entries, 8 virtual pages of 2 bytes, 5 frames; starts {2, 14, 3}, ranges of 0, 2, 8 pages | with exceptions at each level and any sequence of calls: the tree stays a tree (`FramesUsedOnce`), no two pages share memory (`NoAliasing`), ranges are mapped (`RangeMapped`), mappings never change (`MappingsAreStable`), `map_range` goes past a page only when it has mapped it itself (`RangeIsNew`), and it implements `AddressSpace` |
| `mmu` | 4 pages of 16 bytes on 2 frames, accesses at 14, 15, 61 of 1 to 8 bytes, loads at 48 (wraps) and 4 (unaligned) | host memory changes only under guest pages that allow it, or when it becomes a page (`StoresAreChecked`), and the MMU implements `FlatMemory`, in which an access that faults does nothing |
| `fetch_loop` | 7 pages of 8 bytes on 7 frames, two data pages, padding of a page, instructions up to 3, eleven launches (files that end within and at the end of a page, offsets, padding at 3, data pages with and without execution, and four that must fail), every safe jump | the image is in guest memory (`ImageLoaded`); the decoder is given the bytes at the PC (`FetchesAtPC`), which are those of the file (`DecodesImage`); `bad_next` is on only at the end (`NeverDegrades`); a launch that can succeed is refused for want of memory only (`LoadableIsLaunched`) and gets to its entry (`EntryReached`) |
| `stack_frames` | 48 words, 22 of them mapped, 3 activations, two register lists | leaving restores address, registers and SP (`ImplementsCallStack`); faults are close to the end of the stack's pages (`FaultsOnlyAtTheEdge`), the stack being in one piece as `OnePieceAssumption` of `MCStackFrames` has TLC confirm |
| `alu` | words of 3 bits, narrower types of 1 and 2 bits, shifts up to 3 | unsigned branches (`UnsignedBranchesDecide`), two-word addition (`TwoWordSum`), division of products (`DivUndoesMul`) |
| `decoder` | every form of the tables, every sign pattern of its operand bytes, after every other; 7 bytes given (`max_ins`) | operands are found where the text has them (`OperandsFound`, `OperandsByKind`), sizes agree (`SizeCoversOperands`), moves go as written (`MovesAsWritten`) |
| `machine` | bytes of 4 values, so registers of 256 and the PSW its four flags; pages of 16 bytes, three mapped at both ends of the address space; registers 0 and 3; operands with and without sign; 16 beginnings, one for each PSW, one instruction from each and two from the first | every instruction does what the manual says but for the deviations named there (`ImplementsManual`), no handler sets what is no register (`NoStrayRegister`) |
| `range_overflow` | as `page_directory` | a range over the end of the address space is accepted |
| `carries_over` | `FetchLoop` on 4 pages of 8 bytes, entry 0, all code | an instruction across a page is decoded from behind the host page |
| `branch_to_self` | as `carries_over`, jumps to itself | such a jump falls through |
| `compare_overflow` | as `alu` | CMP sets V without an overflow |
| `jump_register` | as `machine` | JMP (An) goes to PC + An |

**Bounds, and why they are enough.**

- *Page directory.*  Two entries a table is the least with which pages share all, one or
  none of their tables, and eight pages use every index of every level.  Five frames allow
  the whole path of one page (three frames) and a second page with one or two of its own.
  Page 1 and its neighbour lie in different PTE pages, page 7 wraps to page 0;
  address 3 is not aligned; 8 pages are more than `max_pages`.  Running out of
  frames only disables the allocation; `AllocThrows` can happen at any.
- *Mmu.*  Pages of 16 bytes are the smallest for which `page_mask` and the modulus
  16 of `split_point` can stay as they are, and four pages the smallest number
  on which the lowest four bits of page numbers wrap with the address space.
  Two frames suffice for the first and second page of an access in either order.  The
  bytes of a value are distinct, so a misplaced one shows.
- *FetchLoop and Launch.*  A page holds two whole instructions of the longest size and a part of
  another.  Seven pages are page 0, the last page, and between them room for three pages of
  program and two of data.  The eleven launches have images of 0 bytes, less than
  a page, exactly one and more than two; `npad` is a page as in the code, so that padding
  moves the rest of the file by one.  In a failing launch the entry is not mapped, the start is not
  aligned, the text wraps or the data wrap.
- *Machine.*  Base 4 is the least with room for the four flags in half a register and with
  bytes that have a sign and are not only 0 and 1.  An operand has as many bytes as in the code, so that
  a byte lost or extended shows.  The pointers of the beginnings are 0, 1, 2 or more bytes
  from the end of a page, with the next page mapped, missing, or at the other end of the
  address space.  A handler reads nothing an earlier one left but registers and memory, so
  one step from varied states does most of the work; a second step from one of them runs
  every instruction from what every other leaves.
- *StackFrames.*  Three activations are the least with one that is neither the
  innermost nor the outermost; the lists are one of a single register and one with
  "other" and a gap.  `CanEnter` lets an activation be entered only from the first
  place of the code at its depth, and `Body` alternates between two values per register;
  these bound the states.  22 mapped words hold three full frames
  for one place of the stack and fault for the other.  An activation takes at most 13 words (`Room`:
  a list of all registers and a spare word), three of them 39, so that the stack does
  not get around the 48 words there are.
- *Alu.*  Three bits are the least in which every register has positive, negative,
  smallest and largest words with others between, and narrower types of one and two bits
  sign-extend to them.  `MaxShift` 3 shifts every bit out.  `AluProofs` has the same
  facts for every width.
- *Decoder.*  The forms are all there are.  The operand bytes are distinct, so one out
  of place shows, and take every combination of signs; what one instruction leaves for
  the next is `num_args` and the stale `args`, so all pairs of instructions are
  all there is to see.  7 is the value of the code and the length of the longest
  instruction.

**Deadlock** is checked for the page directory and the MMU, whose callers may always call
again.  `CHECK_DEADLOCK FALSE` is set for the models in which the
emulator stops: `emu_loop` ends (`FetchLoop`, `Launch`, and `Decoder` after what is no
instruction), an exception ends it (`StackFrames`, `Machine`, whose runs end at `MaxInsns` too),
the division trap ends the process (`Alu`).

**Fairness** is assumed of `Launch` only, and there of `Progress`: the steps of `main`
before the loop and the loop's own fetch.  One thread runs them, they wait for nothing, and
each of their loops is bounded by its counter.  Nothing is assumed of the guest's
instructions: the guest may loop for ever, stop or fault, so no liveness is stated of what follows
its first instruction.  `EntryReached` says that a launch whose arguments fit
(`Loadable`) decodes the instruction at its entry or has run out of host memory.

### Findings

Where a comment of the code says one thing and the code does another, a run shows it
(`findings` in `PROJECT.json` quotes the comments):

1. `page_range` (`mmu.cc` 246) computes the end of the range in 32 bits before the
   comparison meant to catch the overflow.
2. `emu_loop` (`emulator.cc` 91): a program entered at page 0 loses the handling of page
   crossings at its first one.
3. `emu_loop` (166): a jump to itself is taken for no jump.
4. `handle_cmp` (681): V is on for differences that do not overflow, so BGE, BLT,
   BGT and BLE decide wrongly.
5. `handle_jmp` (1168): JMP (An) adds An to the PC; the manual says An → PC.

What the models also show, without a run of its own: the deviations of `Manual`
in the table above; `add_page` returns true where a level of the tree had to be made and false
for a page that was mapped (`mmu.cc` 132), which its comment (95) has the other way round:
"Returns true: one or many layers of paging already had entries", "False: This is completely new";
`map_range` (263) goes by the code, and no property states the returned value itself; narrow loads read four bytes (`emulator.cc` 347), so they fault up to three bytes before
the end of the mapped pages (`LooksAt`); a page that is not executable is run, since the loop only notes that in `bad_next`
(91; `SafeLaunch` and `SafeTarget` exclude it); a program entered in the middle of a page
other than page 0 decodes its first instruction from the start of that page (68; `SafeLaunch` again); case b of F8 (`decoder.cc` 997) chooses MOVHU or MOVBU by an
uninitialised variable; `get_val` takes the wrong bytes for BSET, BCLR and BTST with an
immediate and a displacement or address (the TODO at `emulator.cc` 212 says so); DIVU
sign-extends a divisor of 2^31 or more (`Divisor`; `DivUndoesMul` leaves these out);
C after SUB is `res < s`, not the borrow; ADDC loses the carry of a sum that runs over to
exactly the source; the carry of ADD with an immediate compares with the
immediate before its sign extension; LGT and LHI decide otherwise than BGT and BHI; the
largest negative 64-bit number divided by -1 traps on the host (`DivTraps`); a RET
within three words of the upper end of the stack's pages faults only because of its logging
(`RetLog`).

## 4. Proofs

TLAPS checks every theorem below to the last leaf; none depends on the bounds of the runs.

### `PageDirectoryProofs`

From the assumptions `SizesAssumption` (sizes are positive, the tables hold
enough entries for the pages: with 511 entries at the top, 2^20 pages need only four),
`CallersAssumption` (callers pass addresses and permissions), `AllocAssumption`
(`aligned_alloc` returns memory that is not in use), `HostMemoryAssumption` (its
contents have the right shape, nothing else), and `PageEntry`'s on the null frame:

| Theorem | Statement |
|---|---|
| `TypeCorrect` | `Spec => []TypeOK` |
| `EachFrameOnce` | `Spec => []FramesUsedOnce` |
| `NoTwoPagesShare` | `Spec => []NoAliasing` |
| `RangesMapped` | `Spec => []RangeMapped` |
| `TranslationsStable` | `Spec => MappingsAreStable` |
| `RangesAreNew` | `Spec => RangeIsNew` |
| `TreeImplementsMap` | `Spec => ImplementsAddressSpace` |

They rest on one inductive invariant, `IInv`, proved in `Invariance`:

- `TypeOK`;
- `Tree`, that is `Linked` (every present entry of a table in the tree points to a frame
  of the level below) and `FramesUsedOnce`.  `FramesUsedOnce` alone is what makes a step safe: a new
  frame is in no role yet, so writing it changes no table in use, and since no
  frame has two owners, setting one entry changes one path only;
- `Stage`: while `pc` is `"pmd"` or `"pte"`, the upper levels of the current page
  are present, so that the step writes a table that is in the tree;
- `Asked`: what a call in progress satisfies (its permissions, its counter below its number);
- `RangeMapped`: needs the others, to know that a later page does not overwrite an earlier one.

Each action is one step of the proof; the three allocating actions share lemmas on what a
new entry at each level does to the frames of each level and to `Lookup`.  The refinement
is by steps: only `AddPte` with a page not present changes `Lookup`, and it changes
it as `Map` does.

### `FetchLoopProofs`

From `SizesAssumption` (pages are longer than the longest instruction) and
`LaunchesAssumption` (types).  The theorems are about the programs the loop is right for,
`SafeProgram`: each launch is a `SafeLaunch` or finds no page at its entry, and each
instruction's targets are `SafeTarget`s.  That the loop is wrong about others is the
code's doing; `carries_over` and `branch_to_self` show it.  The program is otherwise arbitrary, and
`MCLaunch` has an instance in which every launch and every safe jump occurs.

| Theorem | Statement |
|---|---|
| `LoopInvariant` | `SafeProgram` implies `Spec => []IInv` |
| `FetchIsCorrect` | ... `Spec => []FetchesAtPC` |
| `NothingDegrades` | ... `Spec => []NeverDegrades` |

The difficulty is that the loop keeps copies and refreshes them late.  `IInv` says what each of
them is worth at each point:

- at the loop head the PC is where the program went (`due`), and one of three things holds:
  the loop has just been entered (`Entering`), the last instruction fell through
  (`GoesOn`) and `real_ins` is right or is about to be replaced because a page begins, or it
  jumped (`HasJumped`) and one of the comparisons of the code sees that;
- when the decoder is called (`Decoding`), `real_ins` is the host address of the PC (`Home`), or
  the spillover buffer holds the bytes of both pages, and `cached_next` is the entry of
  the page of `pc + max_ins` (`KnowsNext`);
- `bad_next` is off, because every page entered is executable.

`FetchesAtPC` follows from the second by splitting the bytes at the end of the page.
The other parts are needed for its induction, one comparison of the loop each.

### `LaunchProofs`

From `ProgramsAssumption` (`main.cc`'s arguments, and a file smaller than the address
space without the data pages, as sizes in 32 bits are), `HostMemoryAssumption`, `AllocAssumption` and
those of `FetchLoop`.

| Theorem | Statement |
|---|---|
| `LoaderInvariant` | `LaunchSpec => []LoaderInv` |
| `LoaderIsCorrect` | `LaunchSpec => []ImageLoaded` |
| `LoadableLaunches` | `LaunchSpec => []LoadableIsLaunched` |
| `LaunchInvariant` | `SafeJumps` implies `LaunchSpec /\ RightArguments => []LaunchInv` |
| `LaunchTypeCorrect` | ... `=> []LaunchTypeOK` |
| `LaunchedFetchIsCorrect` | ... `=> [](FetchesAtPC /\ NeverDegrades)` |
| `DecodesWhatWasLoaded` | ... `=> []DecodesImage` |

The first three need nothing of the arguments.  `LoaderInv` says how far each loop of `main` has come:
the pages `Reached` are mapped, each on a frame of its own and no other page is; those `Copied` to
have the bytes of the image, the others zeros (the `memset` of `alloc_page`).  That the text and the
data never meet, even where the range wraps, is the arithmetic of `ImagePages`.

For `LoadableLaunches` the three ways `map_range` throws are excluded one by one: a `Loadable` program
and its data are fewer pages than the address space has, so both ranges are accepted
(`LoadableAccepted`), and the page an iteration asks for is at a distance from the start that none
of those already mapped has, although addresses wrap (`NextPageIsFree`).  It is the safety half of
`EntryReached`.

`RightArguments` is about the initial state: a `Loadable` program entered at the first byte of a
page other than page 0, or a start or an entry that the loader or the loop refuses.  The lemma
`EnteredSafely` shows that the loader then leaves exactly what `SafeLaunch` asks for, so
`LaunchInv` is the conjunction of `LoaderInv` with `FetchLoop`'s invariant, and the lemmas on its steps
are used again.  `DecodesWhatWasLoaded` puts both halves together: decoder,
fetch loop and loader agree on where each byte of the file is.

### `MmuProofs`

From `SizesAssumption` (a page is a multiple of 16 bytes, as the modulus of `split_point`
needs; at least two pages) and `DataAssumption` (types of the values stored).

| Theorem | Statement |
|---|---|
| `MmuInvariant` | `Spec => []MmuInv` |
| `MmuTypeCorrect` | `Spec => []TypeOK` |
| `StoresChecked` | `Spec => StoresAreChecked` |
| `MmuImplementsFlatMemory` | `2 \notin ReadSizes` implies `Spec => ImplementsFlatMemory` |

`StoresChecked` is about every host page: one that changes is under a guest page that may be
written, or under one the loader writes to, or was under none and becomes one.

`MmuInv` is `TypeOK` and `FramesApart`: no two present pages share a frame, without which
a store would show at a second address.  The refinement rests on lemmas about the arithmetic of the code:
a page crossing is found by comparing four bits of the page number because an access is shorter than
a page; the split point modulo 16 is the distance to the end of the page because a page is a multiple
of 16; the second page is that of the last byte.  Then each byte of an access is
found in the frame of its own page, and shifting the two parts together gives the value
(`ShiftIn`, `FlipEndianness`).  The hypothesis excludes loads of two bytes, which only RTI
makes: over a page boundary `FlipEndianness` swaps four bytes whatever the width, and the theorem is
false.  The run has no such load either; `Manual` names it (`SplitsPSW`).

### `AluProofs`

The first three theorems are about the functions of `Arith` and need only `HalfAssumption` (a word
has 2 * Half values, Half positive).  The others also use `NarrowAssumption` (narrower types divide a word) and
`BitwiseAssumption` (the host's `&`, `|`, `^` of words are words).

| Theorem | Statement |
|---|---|
| `CompareTellsOrder` | after CMP of any two words the unsigned branches and loop instructions decide by their order |
| `AddCarriesSum` | C and the result of ADD of two registers are the whole sum |
| `AddcMakesTwoWordSum` | ADD followed by ADDC adds numbers of two words |
| `AluInvariant` | `Spec => []AluInv` |
| `AluTypeCorrect` | `Spec => []TypeOK` |
| `BranchesDecide` | `Spec => []UnsignedBranchesDecide` |
| `SumsCarry` | `Spec => []TwoWordSum` |
| `DivisionUndoes` | `Spec => []DivUndoesMul` |

`AluInv` is `TypeOK` with `FlagsStand` and `ProductStands`: as long as `last` names a CMP or ADD, the
flags are the ones it set, and while it names a MUL, the register and MDR hold its
product.  So each of the properties becomes a statement about `Arith`.
For `DivisionUndoes` that is signed and unsigned division of a product of two words, for any width.

### `StackFramesProofs`

From `SizesAssumption`, `MasksAssumption` (types) and `StackAssumption`: an activation takes
at most `Room` words and `MaxDepth` of them fewer than the address space has.  This is the one
thing asked of the program beyond `CanCall`, and a stack that gets around the address space would
overwrite itself.  The depth, the frame sizes, the lists and the place of the stack are arbitrary.

| Theorem | Statement |
|---|---|
| `StackInvariant` | `Spec => []StackInv` |
| `StackTypeCorrect` | `Spec => []TypeOK` |
| `StackImplementsCallStack` | `Spec => ImplementsCallStack` |
| `StackFaultsAtTheEdge` | `StackInOnePiece` implies `Spec => FaultsOnlyAtTheEdge` |

`StackInv` measures places on the stack by how far below `base` they are (`Depth`), which makes
wrapping addresses comparable.  `Fits`: the frames lie one below the other and each
has the size its list and locals need, so a new frame touches no older one and what `Body` or
`Freed` overwrite belongs to no suspended activation.  `ReturnsStand`: where a return address was
stored there is one.  `SavedLinks` and the last conjunct: MDR is the return address of the innermost CALL
while `linked`, and so is what an activation that saved MDR in that state will load, which is what
RETF returns by.  Each step is then shown to be the step of `CallStack` of
the same name, on `Activations`, the frames with what memory now holds for them.

`StackFaultsAtTheEdge` goes through every word a handler stores, loads or logs.  What it stores is
at most 12 words below SP.  What a returning handler loads lies between SP and the place the
stack began at, by `Fits`; the logged words reach at most three above that.  Hence the
hypothesis: on a stack with holes, in the locals of some frame say, a RET would fault at a hole far
from either end.  A stack that stays within one of the two ranges `main` maps has none.

### `MachineProofs`

From `MachineAssumption` (a word is four bytes of `Radix` values, at least 2; operands fit
their bytes), `BitwiseAssumption` and `BeginningsAssumption` (registers are words,
cells that are no registers are 0).

| Theorem | Statement |
|---|---|
| `MachineInvariant` | `Spec => []MachineInv` |
| `MachineTypeCorrect` | `Spec => []TypeOK` |
| `OnlyRegistersSet` | `Spec => []NoStrayRegister` |
| `MachineImplementsManual` | `Spec => ImplementsManual` |

`MachineInv` is `TypeOK` with `NoStrayRegister`.  The work is in the tables.  Handlers infer from the
kinds of the operands what to do, the manual's meaning is read off the mnemonic, and the two
share no definition.  A first group of lemmas goes through the tables once and
shows that every form `Machine` runs has one of six `Shape`s (registers only, load, store, jump, no
operands, bit operation).  A second shows that for each shape `get_val_mem` finds the operands
the mnemonic names, and the same address (`SameAddress`), but for what `ExtendsAddress` lists.
Then there is a lemma for each handler: it sets what the manual sets (`RunsWhen`), faults having stored
nothing (`FaultsWhen`), or is one of the six deviations (`StraysWhen`).  The last theorem
is about registers, memory, PC, and faults, for any bytes, pages and mapped addresses.

### `DecoderProofs`

From `TextAssumption` (operand bytes are bytes) and `WindowAssumption` (`max_ins` is a natural number).

| Theorem | Statement |
|---|---|
| `DecoderInvariant` | `Spec => []DecoderInv` |
| `DecoderTypeCorrect` | `Spec => []TypeOK` |
| `MovesGoAsWritten` | `Spec => []MovesAsWritten` |
| `SizesAgree` | `max_ins >= 7` implies `Spec => []SizeCoversOperands` |
| `OperandsAreFound` | ... `Spec => []OperandsFound` |
| `OperandsFoundByKind` | ... `Spec => []OperandsByKind` |

The forms are finitely many, but the bytes of their operands and what came before are not.  A
first group of lemmas goes through the tables once and shows that every form has one of five
`Layout`s (no data operand, one, those of CALL, of RET and of a bit instruction on memory), and every
move one of the shapes of `MoveForm`.  `DecoderInv` then says what an instruction is when the decoder
returns: that of its form, with all of its operand bytes in the order of the table or, where it was
truncated, with none.  `copy_data_args` and `arg_add` store the same bytes
(`CopiedAll`, `DecodeMakes`), which is why a `num_args` left by an earlier CALL does no harm.  For each
layout the bytes `get_arg` finds from the end are those the text has from the beginning
(`CallFound`, `RetFound`, `BitFound`, `OneDatumFound`).  7 is the size of the longest form; in a shorter
window that form is truncated to size 0 and the last three properties are false of it.

### What is only model-checked

- *Liveness.*  `EntryReached` is under fairness, which with `ENABLED` is out of the
  prover's reach.  Its safety half is `LoadableLaunches`.
- *Findings.*  The runs that end in a violation show counterexamples.
- *The hypotheses of the theorems* on programs and instances (`SafeProgram`, `RightArguments`,
  `StackInOnePiece`, no load of two bytes) are met by the instances of the runs, where TLC visits their states.

No proof uses induction over data: what could need it is a recursive function or a sum of fixed
length here (`SizeAt` adds at most three kinds), or is an assumption on a constant (the host's
`&` and `|`, which the MC modules compute bit by bit).

## 5. Not modelled

- **Decoder.**  Register numbers, what opcodes the cases of the tables are for (to be compared
  with the CPU's manual), the unused tables F7 and FF, and a call with no bytes at all.
- **Encodings in `Machine`.**  A step runs any instruction whatever the bytes at the PC, and
  the stores of a program are not followed into the code it fetches.  `Decoder`, `FetchLoop`
  and `Launch` cover the way from the file to the operands.
- **Permissions in `Machine`.**  `main` maps every page readable, writable and executable;
  `Mmu` has the permissions.
- **`Reg`'s exceptions** for numbers no operand has; **ASR and LSR with one operand**, which
  the decoder does not produce.
- **Logging** prints; only `log_many`'s lookups can
  change what happens, and these are in `StackFrames`.
- **Reading of files and arguments** in `main.cc` is I/O.

## 6. Plan

Done, in this order: page directory and its proofs; MMU accesses; fetch loop; stack
instructions; register instructions and the proofs on their arithmetic; decoder and operands;
launcher over the fetch loop; MOV, jumps and the rest against the manual; the proofs about
the fetch loop, the launcher, the MMU, the register instructions, the stack, the machine and
the decoder.

What could follow is `StackFrames` over the bytes of `FlatMemory` instead of over words, which would
join the stack instructions to the MMU by a theorem rather than by the reading of both modules.
