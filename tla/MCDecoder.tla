----------------------------- MODULE MCDecoder -----------------------------
(***************************************************************************)
(* The decoder with the window of emu_loop.  Operand byte p is p, or       *)
(* 128 + p with its highest bit on, so that every byte is told from the    *)
(* others.                                                                 *)
(***************************************************************************)
EXTENDS Decoder

MCOperandBytes(n) ==
    {[p \in 1 .. n |-> IF p \in negative THEN 128 + p ELSE p] : negative \in SUBSET (1 .. n)}
==============================================================================
