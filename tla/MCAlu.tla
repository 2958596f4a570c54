-------------------------------- MODULE MCAlu --------------------------------
(* Words of 3 bits, with narrower types of 1 and 2. *)
EXTENDS Alu, Bitwise

MCNarrow == [w \in {"B", "H"} |-> IF w = "B" THEN 2 ELSE 4]
MCPow2 == [n \in 0 .. MaxShift |-> 2^n]
MCAnd(a, b) == a & b
MCOr(a, b) == a | b
MCXor(a, b) == a ^^ b
==============================================================================
