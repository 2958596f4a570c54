------------------------------ MODULE CallStack ------------------------------
(***************************************************************************)
(* What the calling instructions promise a program: a stack of activations *)
(* nobody can tamper with.  Entering one records the return address and    *)
(* the values of the registers it saves; leaving it brings these, and the  *)
(* stack pointer, back, whatever ran in between.                           *)
(***************************************************************************)
EXTENDS Integers, Sequences

CONSTANTS
    NumWords,   \* words in the address space
    InsSize     \* kind of activation -> size of the instruction that enters it

VARIABLES
    regs,    \* the registers but SP and PC
    pc, sp,
    stack    \* kind, ret (return address), saved (register -> value), size

Returning == {"call", "calls", "trap"}

\* The address after an instruction of sz bytes at address a.
After(a, sz) == <<a[1], a[2] + sz>>

Restored(saved) == [r \in DOMAIN regs |-> IF r \in DOMAIN saved THEN saved[r] ELSE regs[r]]

-----------------------------------------------------------------------------
Init == stack = <<>>

\* A new activation on top of the others; the link register MDR is the only
\* one an entering instruction may change.
Enter ==
    \E act \in {stack'[Len(stack')]} :
        /\ stack' = Append(stack, act)
        /\ act.saved = [r \in DOMAIN act.saved |-> regs[r]]
        /\ act.kind \in Returning => act.ret = After(pc, InsSize[act.kind])
        /\ sp' = (sp - act.size) % NumWords
        /\ \A r \in DOMAIN regs \ {"MDR"} : regs'[r] = regs[r]
        /\ act.kind \notin Returning => UNCHANGED <<regs, pc>>

\* The topmost activation ends.
Leave ==
    \E act \in {stack[Len(stack)]} :
        /\ stack = Append(stack', act)
        /\ regs' = Restored(act.saved)
        /\ sp' = (sp + act.size) % NumWords
        /\ pc' = IF act.kind \in Returning THEN act.ret ELSE pc

\* The running code does as it likes with the registers.
Work == UNCHANGED <<sp, stack>>

Next ==
    \/ Work
    \/ Len(stack') > Len(stack) /\ Enter
    \/ Len(stack') < Len(stack) /\ Leave

Spec == Init /\ [][Next]_<<regs, pc, sp, stack>>
==============================================================================
