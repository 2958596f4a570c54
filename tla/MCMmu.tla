-------------------------------- MODULE MCMmu --------------------------------
(* Instance of Mmu for TLC: four pages of 16 bytes, so that page_mask and    *)
(* split_point keep the constants of the code, and two host pages.           *)
EXTENDS Mmu

MCFrame == 1 .. 2
MCNullFrame == 0
MCByte == 0 .. 9

\* One and two bytes before the second page and three before the end of the address
\* space: accesses of 1 byte stay on the page, those of 4 bytes cross.
MCAddrs == {14, 15, 61}
MCWords(T) == {[k \in 0 .. T - 1 |-> k + 1]}

\* An image that ends inside its second page, loaded at the last page (it
\* wraps to page 0) and at an address that is not page aligned.
MCImages == {[k \in 0 .. 19 |-> IF k < 16 THEN 9 ELSE 8]}
MCLoadStarts == {48, 4}
MCPermChoices == {{"r", "w"}, {"r"}, {"w"}}

MCHostMemory == [f \in MCFrame |-> [o \in Offset |-> 7]]
MCReadSizes == {1, 4, 8}
MCWriteSizes == {1, 2, 4}
==============================================================================
