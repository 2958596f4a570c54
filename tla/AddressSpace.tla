---------------------------- MODULE AddressSpace ----------------------------
(***************************************************************************)
(* What the page tables of mmu.h/mmu.cc promise the rest of the emulator,  *)
(* without the tables: a map from virtual pages to page entries that only  *)
(* ever grows, one page at a time, each page onto a host frame that no     *)
(* other page has.  PageDirectory implements it with a three-level tree.   *)
(***************************************************************************)
EXTENDS PageEntry

CONSTANTS
    VPage,       \* virtual page numbers
    PermChoices  \* permissions pages are mapped with

VARIABLE table   \* virtual page -> the entry get_pte_from_vaddr finds for it

Mapped == {p \in VPage : table[p].present}
UsedFrames == {table[p].page_addr : p \in Mapped}

-----------------------------------------------------------------------------
Init == table = [p \in VPage |-> NoEntry]

\* Page p becomes mapped, on a frame no mapped page has; no other page is
\* touched.
Map(p) ==
    /\ table'[p].present
    /\ table'[p].page_addr \in Frame \ UsedFrames
    /\ table'[p].rwx \in PermChoices
    /\ table' = [table EXCEPT ![p] = table'[p]]

Next == \E p \in VPage \ Mapped : Map(p)

Spec == Init /\ [][Next]_table
=============================================================================
