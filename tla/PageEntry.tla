------------------------------ MODULE PageEntry ------------------------------
(* page_entry (mmu.h): one entry of a page table of any level.              *)
EXTENDS Integers

CONSTANTS
    Frame,      \* host pages that aligned_alloc can return
    NullFrame   \* page_addr = 0

ASSUME NullFrameAssumption == NullFrame \notin Frame

PermBits == {"r", "w", "x"}

\* `read` and `modified` are cleared by the constructors and never used again.
Entry == [present: BOOLEAN, rwx: SUBSET PermBits, page_addr: Frame \cup {NullFrame}]

\* page_entry(), and what memset leaves in a fresh table.
NoEntry == [present |-> FALSE, rwx |-> {}, page_addr |-> NullFrame]

\* Slip: the address of the page is stored without pa >> 12.
PresentEntryUnshifted(f, perms) == [present |-> TRUE, rwx |-> perms, page_addr |-> f * 4096]

\* page_entry(pa, perms)
PresentEntry(f, perms) == [present |-> TRUE, rwx |-> perms, page_addr |-> f]

\* MMU::is_rx(pe)
IsRX(e) == e.present /\ {"r", "x"} \subseteq e.rwx
==============================================================================
