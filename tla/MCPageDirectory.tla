--------------------------- MODULE MCPageDirectory ---------------------------
(* Instance of PageDirectory for TLC: tables of two entries, eight virtual  *)
(* pages, and an allocator that returns the lowest free frame.              *)
EXTENDS PageDirectory

MCFrame == 1 .. 5
MCNullFrame == 0

MCAlloc(used) == {f \in MCFrame \ used : \A g \in MCFrame \ used : f <= g}

\* Malloc'd memory that looks like present entries.
MCHostMemory == [f \in MCFrame |-> [k \in TableIndex |-> PresentEntry(1, {"r"})]]

\* The first page, its neighbour in the same PTE page, the last page, and an
\* address that is not page aligned.  Two pages from the second cross into
\* the next PTE page, two from the last wrap to the first.
MCStarts == {2, 14, 3}
MCRangeSizes == {0, 2, 8}
MCPermChoices == {{"r", "w"}, {"r", "x"}}
==============================================================================
