----------------------------- MODULE StackFrames -----------------------------
(***************************************************************************)
(* CALL, RET, RETF, CALLS, RETS, TRAP and MOVM (emulator.cc): how the      *)
(* emulator keeps return addresses and saved registers in guest memory.    *)
(*                                                                         *)
(* Memory is counted in 32-bit words, SP points to a whole one, and words  *)
(* and registers hold opaque values.  The program being run nests          *)
(* activations as it likes, by the rules of CanCall: an instruction that   *)
(* stores a return address does so where SP points, and the word there     *)
(* must be free.  The PC is followed through calls and returns only, which *)
(* the sizes of the other instructions do not touch.                       *)
(***************************************************************************)
EXTENDS Integers, Sequences

CONSTANTS
    NumWords,    \* words in the address space              (2^30)
    Mapped,      \* words on mapped, writable pages
    InitialSPs,  \* where the program may put its stack
    Masks,       \* register lists the program's CALL and MOVM name
    Spare,       \* words of locals its frames have, with the free one at SP
    CodeSize,    \* bytes between two places of the code with a call
    InsSize,     \* kind of activation -> size of the instruction that enters it
    MaxDepth,    \* bound: activations at a time
    Room         \* bound: words an activation takes, with locals and registers

WordAddr == 0 .. NumWords - 1

ASSUME SizesAssumption ==
    /\ NumWords \in Nat \ {0}
    /\ Mapped \subseteq WordAddr
    /\ InitialSPs \subseteq WordAddr
    /\ Spare \subseteq Nat \ {0}
    /\ CodeSize \in Nat \ {0}
    /\ InsSize \in [{"call", "calls", "trap"} -> Nat]
    /\ MaxDepth \in Nat

\* The stack is not so long that it gets around the address space.  A list of
\* all registers takes 12 words.
ASSUME StackAssumption ==
    /\ Room \in Nat
    /\ \A size \in {0} \cup Spare : size + 12 <= Room
    /\ MaxDepth * Room < NumWords

\* The register lists of MovmBits: one bit for each of these and one for the
\* seven others together.
Others == <<"LAR", "LIR", "MDR", "A1", "A0", "D1", "D0">>
Named  == {"A3", "A2", "D3", "D2"}
RegName == {Others[k] : k \in 1 .. Len(Others)} \cup Named

ASSUME MasksAssumption == Masks \subseteq SUBSET (Named \cup {"other"})

VARIABLES
    mem,      \* word address -> value
    regs,     \* the registers but SP and PC
    PC, SP,
    base,     \* where the program put its stack
    acts,     \* the activations the program is in, outermost first
    linked,   \* MDR still holds the return address of the innermost CALL
    halted    \* an exception has ended emu_loop

vars == <<mem, regs, PC, SP, base, acts, linked, halted>>

Code(a) == <<"code", a>>
After(a, sz) == <<a[1], a[2] + sz>>
TrapVector == Code(CodeSize * (MaxDepth + 1))   \* 0x40000010

\* What the program knows of an activation: how it was entered, the list of
\* registers it saved, where SP was and by how much it was moved.
Act(kind, list, size) ==
    [kind |-> kind, list |-> list, size |-> size, at |-> SP, linked |-> linked]
Top == acts[Len(acts)]

Any == <<"any", 0>>   \* a value nobody looks at: a local, or below SP

Wrap(w) == w % NumWords

\* The code of the next activation: where its caller is told by the address.
Callee == Code(CodeSize * (Len(acts) + 1))

-----------------------------------------------------------------------------
(* The stack layout.                                                       *)

Bit(mask, r) == IF r \in mask THEN <<r>> ELSE <<>>

\* kinds[]: the registers of a list, in the order of their addresses.
MovmList(mask) ==
    (IF "other" \in mask THEN Others ELSE <<>>)
        \o Bit(mask, "A3") \o Bit(mask, "A2") \o Bit(mask, "D3") \o Bit(mask, "D2")

\* The word register number k of the list is saved in, for a list whose last
\* register lies just below w.
Slot(w, list, k) == Wrap(w - (Len(list) - k + 1))
Slots(w, list) == {Slot(w, list, k) : k \in 1 .. Len(list)}

\* The words at Slots(w, list), with the registers' values stored in them.
Saved(w, list) ==
    [v \in Slots(w, list) |-> regs[list[CHOOSE k \in 1 .. Len(list) : Slot(w, list, k) = v]]]

Stored(words) == [w \in WordAddr |-> IF w \in DOMAIN words THEN words[w] ELSE mem[w]]

\* The memory once SP is back at sp.  Nobody clears the words below, but the
\* next frame is laid over them and nothing may be expected of them.
Freed(sp) == [w \in WordAddr |-> IF (base - w) % NumWords <= (base - sp) % NumWords THEN mem[w] ELSE Any]

\* The registers after the list has been read back.
Loaded(w, list) ==
    [r \in RegName |-> IF \E k \in 1 .. Len(list) : list[k] = r
                       THEN mem[Slot(w, list, CHOOSE k \in 1 .. Len(list) : list[k] = r)]
                       ELSE regs[r]]

\* Slip: the size of the seven others alone.
MovmSizeOthers(mask) == IF "other" \in mask THEN Len(Others) + 1 ELSE 0

\* By how much MOVM moves SP: with the seven others there is a dummy word.
MovmSize(mask) == Len(MovmList(mask)) + (IF "other" \in mask THEN 1 ELSE 0)

\* The words log_many looks up while CALL runs and before RET loads registers.
CallLog == Wrap(SP - 12)

\* Slip: the offset is scaled twice.
RetLogScaled(w, list) == Wrap(w - 4 * (Len(list) - 3))

RetLog(w, list) == Wrap(w - (Len(list) - 3))

-----------------------------------------------------------------------------
Init ==
    /\ mem = [w \in WordAddr |-> Any]
    /\ regs = [r \in RegName |-> <<r, 0>>]
    /\ PC = Code(0)
    /\ SP \in InitialSPs
    /\ base = SP
    /\ acts = <<>>
    /\ linked = FALSE
    /\ halted = FALSE

\* A handler that accesses these words: where one is not there it throws,
\* emu_loop ends, and main prints the exception.  What it had stored by then
\* nobody reads any more.
Accessing(words, effect) ==
    IF words \subseteq Mapped
    THEN effect /\ UNCHANGED <<base, halted>>
    ELSE halted' = TRUE /\ UNCHANGED <<mem, regs, PC, SP, base, acts, linked>>

Enter(act) == acts' = Append(acts, act)
Leave == acts' = SubSeq(acts, 1, Len(acts) - 1)

\* A bound on the program: it enters an activation from the first place of the
\* code at its depth, where Body brings it back to after a return.
CanEnter ==
    /\ ~halted
    /\ Len(acts) < MaxDepth
    /\ PC = Code(CodeSize * Len(acts))

\* The word at SP is free: below the program's own frame, in a CALL's frame
\* under the saved registers, or a local.
CanCall ==
    /\ CanEnter
    /\ acts # <<>> => \/ Top.kind \in {"call", "local"}
                      \/ Top.kind = "movm" /\ Top.size > Len(Top.list)

\* Slip: the link register is set before the registers are saved.
CallLinksFirst(mask, spare) ==
    LET list  == MovmList(mask)
        ret   == After(PC, InsSize["call"])
        saved == Saved(SP, list)
    IN  /\ CanCall
        /\ Accessing({SP, CallLog} \cup Slots(SP, list),
                     /\ mem' = [Stored([v \in DOMAIN saved |-> IF saved[v] = regs["MDR"] THEN ret ELSE saved[v]])
                               EXCEPT ![SP] = ret]
                     /\ regs' = [regs EXCEPT !["MDR"] = ret]
                     /\ SP' = Wrap(SP - Len(list) - spare)
                     /\ PC' = Callee
                     /\ Enter(Act("call", list, Len(list) + spare))
                     /\ linked' = TRUE)

\* CALL (d,PC),[regs],imm: the return address goes to SP, the registers
\* below it, and SP below those and the callee's locals.
Call(mask, spare) ==
    LET list == MovmList(mask)
        ret  == After(PC, InsSize["call"])
    IN  /\ CanCall
        /\ Accessing({SP, CallLog} \cup Slots(SP, list),
                     /\ mem' = [Stored(Saved(SP, list)) EXCEPT ![SP] = ret]
                     /\ regs' = [regs EXCEPT !["MDR"] = ret]
                     /\ SP' = Wrap(SP - Len(list) - spare)
                     /\ PC' = Callee
                     /\ Enter(Act("call", list, Len(list) + spare))
                     /\ linked' = TRUE)

\* CALLS: the return address goes to SP and to MDR; SP stays.
Calls ==
    /\ CanCall
    /\ Accessing({SP},
                 /\ mem' = [mem EXCEPT ![SP] = After(PC, InsSize["calls"])]
                 /\ regs' = [regs EXCEPT !["MDR"] = After(PC, InsSize["calls"])]
                 /\ PC' = Callee
                 /\ Enter(Act("calls", <<>>, 0))
                 /\ linked' = FALSE
                 /\ UNCHANGED SP)

\* TRAP: the return address goes to SP, the PC to a fixed address.
Trap ==
    /\ CanCall
    /\ Accessing({SP},
                 /\ mem' = [mem EXCEPT ![SP] = After(PC, InsSize["trap"])]
                 /\ PC' = TrapVector
                 /\ Enter(Act("trap", <<>>, 0))
                 /\ UNCHANGED <<regs, SP, linked>>)

\* RET and RETF with the register list and the size of the CALL: SP goes
\* back up, the PC comes from the stack or from MDR, and the registers, MDR
\* among them, are loaded last.
Return(retf) ==
    LET w    == Wrap(SP + Top.size)
        list == Top.list
    IN  /\ ~halted
        /\ acts # <<>>
        /\ Top.kind = "call"
        /\ Accessing({RetLog(w, list)} \cup Slots(w, list) \cup (IF retf THEN {} ELSE {w}),
                     /\ SP' = w
                     /\ PC' = IF retf THEN regs["MDR"] ELSE mem[w]
                     /\ regs' = Loaded(w, list)
                     /\ Leave
                     /\ linked' = (Top.linked /\ \E k \in 1 .. Len(list) : list[k] = "MDR")
                     /\ mem' = Freed(w))

Ret == Return(FALSE)

\* RETF returns through MDR; the callee has not touched it.
Retf == linked /\ Return(TRUE)

\* RETS, at the end of what CALLS or TRAP entered.
Rets ==
    /\ ~halted
    /\ acts # <<>>
    /\ Top.kind \in {"calls", "trap"}
    /\ Accessing({SP},
                 /\ PC' = mem[SP]
                 /\ Leave
                 /\ UNCHANGED <<mem, regs, SP, linked>>)

\* MOVM [regs],(SP): the registers are stored below SP.
MovmPush(mask) ==
    LET list == MovmList(mask)
    IN  /\ CanEnter
        /\ Accessing(Slots(SP, list),
                     /\ mem' = Stored(Saved(SP, list))
                     /\ SP' = Wrap(SP - MovmSize(mask))
                     /\ Enter(Act("movm", list, MovmSize(mask)))
                     /\ UNCHANGED <<regs, PC, linked>>)

\* Where MOVM (SP),[regs] begins to read.
MovmFirst(mask) == IF "other" \in mask THEN SP + 1 ELSE SP

\* MOVM (SP),[regs], with the list of the MOVM before.
MovmPop(mask) ==
    LET list == MovmList(mask)
        end  == Wrap(MovmFirst(mask) + Len(list))
    IN  /\ ~halted
        /\ acts # <<>>
        /\ Top.kind = "movm"
        /\ Top.list = list
        /\ Accessing(Slots(end, list),
                     /\ regs' = Loaded(end, list)
                     /\ SP' = end
                     /\ Leave
                     /\ linked' = IF "other" \in mask THEN Top.linked ELSE linked
                     /\ mem' = Freed(end)
                     /\ UNCHANGED PC)

\* ADD imm,SP: room for locals, and back.
AddSP(size) ==
    /\ CanEnter
    /\ SP' = Wrap(SP - size)
    /\ Enter(Act("local", <<>>, size))
    /\ UNCHANGED <<mem, regs, PC, base, linked, halted>>

SubSP ==
    /\ ~halted
    /\ acts # <<>>
    /\ Top.kind = "local"
    /\ SP' = Wrap(SP + Top.size)
    /\ mem' = Freed(Wrap(SP + Top.size))
    /\ Leave
    /\ UNCHANGED <<regs, PC, base, linked, halted>>

\* The locals of the running code.
Own == {Wrap(SP + k) : k \in 0 .. (IF acts # <<>> /\ Top.kind \in {"call", "local"}
                                  THEN Top.size - Len(Top.list) ELSE 0) - 1}

\* The running code overwrites every register, MDR if it likes, with
\* values of its own, and its locals, and gets on.
Body(useMDR) ==
    /\ ~halted
    /\ regs' = [r \in RegName |-> IF r = "MDR" /\ ~useMDR THEN regs[r] ELSE <<r, Len(acts) % 2>>]
    /\ linked' = (linked /\ ~useMDR)
    /\ mem' = Stored([w \in Own \cap Mapped |-> Any])
    /\ PC' = Code(CodeSize * Len(acts))
    /\ UNCHANGED <<SP, base, acts, halted>>

Next ==
    \/ \E mask \in Masks, spare \in Spare : Call(mask, spare)
    \/ Calls \/ Trap \/ Retf \/ Ret \/ Rets
    \/ \E mask \in Masks : MovmPush(mask) \/ MovmPop(mask)
    \/ \E size \in Spare : AddSP(size)
    \/ SubSP
    \/ \E useMDR \in BOOLEAN : Body(useMDR)

Spec == Init /\ [][Next]_vars

-----------------------------------------------------------------------------
(* Properties.                                                             *)

Value == {"any", "code"} \cup RegName

\* Memory and registers hold whole values, and the activations are of the
\* kinds and the sizes the handlers give them.
TypeOK ==
    /\ \A w \in WordAddr : mem[w][1] \in Value /\ mem[w][2] \in Nat
    /\ DOMAIN regs = RegName
    /\ \A r \in RegName : regs[r][1] \in Value /\ regs[r][2] \in Nat
    /\ PC[1] = "code" /\ PC[2] \in Nat
    /\ SP \in WordAddr
    /\ Len(acts) <= MaxDepth
    /\ \A i \in 1 .. Len(acts) : acts[i].size \in Nat /\ acts[i].size >= Len(acts[i].list)
    /\ linked \in BOOLEAN /\ halted \in BOOLEAN

\* The activations with what the memory holds for them now.
Activations ==
    [i \in 1 .. Len(acts) |->
        LET w    == acts[i].at
            list == acts[i].list
        IN  [kind  |-> acts[i].kind,
             ret   |-> IF acts[i].kind \in {"call", "calls", "trap"} THEN mem[w] ELSE <<"none", 0>>,
             saved |-> [r \in {list[k] : k \in 1 .. Len(list)} |->
                          mem[Slot(w, list, CHOOSE k \in 1 .. Len(list) : list[k] = r)]],
             size  |-> acts[i].size]]

Abstract == INSTANCE CallStack WITH pc <- PC, sp <- SP, stack <- Activations

\* However CALL, CALLS, TRAP and MOVM are nested, and whatever the code in
\* between does to its registers and its own memory, leaving an activation
\* brings back the return address, the saved registers and the SP of its
\* entry: the layouts handle_call writes and handle_ret reads agree, no frame
\* overlaps another's, and RETF takes MDR before the registers are loaded.
ImplementsCallStack == Abstract!Spec

\* The stack is one piece of memory: the words between its beginning and a
\* word it may reach are mapped if that word is.
StackInOnePiece ==
    \A b \in InitialSPs, d \in 0 .. MaxDepth * Room :
        Wrap(b - d) \in Mapped => \A e \in 0 .. d : Wrap(b - e) \in Mapped

\* The words the handlers look up but do not need are close to SP: a program
\* ends by a fault only when fewer than 13 words are left below its stack, or
\* fewer than 3 above the place it began at.
FaultsOnlyAtTheEdge ==
    [][halted' # halted =>
          \/ \E k \in 0 .. 12 : Wrap(SP - k) \notin Mapped
          \/ \E k \in 0 .. 3 : Wrap(base + k) \notin Mapped]_vars
==============================================================================
