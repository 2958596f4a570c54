---------------------------- MODULE PageDirectory ----------------------------
(***************************************************************************)
(* PageDirectory and MMU::map_range (mmu.cc): a three-level tree of page   *)
(* entries, grown by add_page with pages from aligned_alloc.               *)
(*                                                                         *)
(* A call runs level by level (pc), the grain at which alloc_page can      *)
(* throw and leave the levels above it in place.  The caller may catch the *)
(* exception and call again.                                               *)
(***************************************************************************)
EXTENDS PageEntry

CONSTANTS
    NumVPages,    \* virtual pages in the address space   (2^20)
    PageSize,     \* page_size                            (4096)
    Entries,      \* page_idx_mask + 1, entries a table   (512)
    PldEntries,   \* size of pld_ents                     (511)
    Starts,       \* start addresses callers pass
    RangeSizes,   \* page counts callers ask map_range for
    PermChoices,  \* permissions callers ask for
    Alloc(_),     \* frames aligned_alloc may return, given those in use
    HostMemory    \* what the frames held before they were allocated

TotalBytes == NumVPages * PageSize
VPage == 0 .. NumVPages - 1
VAddr == 0 .. TotalBytes - 1
max_vaddr == TotalBytes - 1
max_pages == max_vaddr \div PageSize

TableIndex == 0 .. Entries - 1
PldIndex   == 0 .. PldEntries - 1
EmptyTable == [k \in TableIndex |-> NoEntry]

ASSUME SizesAssumption ==
    /\ NumVPages \in Nat \ {0}
    /\ PageSize \in Nat \ {0}
    /\ Entries \in Nat \ {0}
    /\ PldEntries \in Nat
    /\ PldEntries <= Entries
    /\ NumVPages <= PldEntries * Entries * Entries

ASSUME CallersAssumption ==
    /\ Starts \subseteq VAddr
    /\ RangeSizes \subseteq Nat
    /\ PermChoices \subseteq SUBSET PermBits

\* aligned_alloc never returns memory that is already in use.
ASSUME AllocAssumption == \A used \in SUBSET Frame : Alloc(used) \subseteq Frame \ used

ASSUME HostMemoryAssumption == HostMemory \in [Frame -> [TableIndex -> Entry]]

VARIABLES
    pld,      \* pld_ents
    tables,   \* frame -> the entries stored in it
    pages,    \* every frame alloc_page handed out
    pc,       \* "idle", or the level of add_page about to run
    call,     \* the call in progress, or the last one
    i,        \* map_range's loop counter
    ret,      \* add_page's ret
    outcome   \* how the last call ended

dir  == <<pld, tables, pages>>
vars == <<pld, tables, pages, pc, call, i, ret, outcome>>

Call == [op: {"add_page", "map_range"}, start: VAddr, num: Nat, rwx: SUBSET PermBits]

TypeOK ==
    /\ pld \in [PldIndex -> Entry]
    /\ tables \in [Frame -> [TableIndex -> Entry]]
    /\ pages \subseteq Frame
    /\ pc \in {"idle", "pld", "pmd", "pte"}
    /\ call \in Call
    /\ i \in Nat
    /\ ret \in BOOLEAN
    /\ outcome \in {"none", "running", "ok", "exception"}

-----------------------------------------------------------------------------
(* Address arithmetic (get_page_index, uint32 addresses).                  *)

PteIdx(p) == p % Entries
PmdIdx(p) == (p \div Entries) % Entries

\* Slip: the PLD index is taken with the shift of the PMD.
PldIdxWrongLevel(p) == (p \div Entries) % Entries
PldIdx(p) == (p \div (Entries * Entries)) % Entries

PageOf(a) == a \div PageSize
AddrOf(k) == (call.start + PageSize * k) % TotalBytes
CurPage   == PageOf(AddrOf(i))

\* get_pte_from_vaddr: the entry for page p, NoEntry where it throws.
Lookup(p) ==
    LET pld_e == pld[PldIdx(p)]
        pmd_e == tables[pld_e.page_addr][PmdIdx(p)]
        pte_e == tables[pmd_e.page_addr][PteIdx(p)]
    IN  IF pld_e.present /\ pmd_e.present /\ pte_e.present THEN pte_e ELSE NoEntry

-----------------------------------------------------------------------------
Init ==
    /\ pld = [k \in PldIndex |-> NoEntry]
    /\ tables = HostMemory
    /\ pages = {}
    /\ pc = "idle"
    /\ call = [op |-> "add_page", start |-> 0, num |-> 0, rwx |-> {}]
    /\ i = 0
    /\ ret = FALSE
    /\ outcome = "none"

\* add_page(v_page, perms) called on its own.
AddPageCall(start, rwx) ==
    /\ pc = "idle"
    /\ call' = [op |-> "add_page", start |-> start, num |-> 1, rwx |-> rwx]
    /\ pc' = "pld"
    /\ i' = 0
    /\ outcome' = "running"
    /\ UNCHANGED <<dir, ret>>

\* page_range's constructor: the sum is computed in 32 bits before it is
\* compared with max_vaddr.
RangeAccepted(start, num) ==
    /\ (start + num * PageSize) % TotalBytes <= max_vaddr
    /\ num <= max_pages
    /\ start % PageSize = 0

\* map_range(start, num, rwx): the checks, then the loop.
MapRangeCall(start, num, rwx) ==
    /\ pc = "idle"
    /\ call' = [op |-> "map_range", start |-> start, num |-> num, rwx |-> rwx]
    /\ i' = 0
    /\ \/ /\ ~RangeAccepted(start, num)
          /\ pc' = "idle"
          /\ outcome' = "exception"
       \/ /\ RangeAccepted(start, num)
          /\ num = 0
          /\ pc' = "idle"
          /\ outcome' = "ok"
       \/ /\ RangeAccepted(start, num)
          /\ num > 0
          /\ pc' = "pld"
          /\ outcome' = "running"
    /\ UNCHANGED <<dir, ret>>

\* Slip: the allocation is not remembered in pages.
AllocPageForgets(f) == f \in Alloc(pages) /\ UNCHANGED pages

\* Slip: the null that aligned_alloc returns is kept as a page.
AllocPageKeepsNull(f) == f \in Alloc(pages) /\ pages' = pages \cup {NullFrame}

\* alloc_page: a frame not in use, remembered in pages.
AllocPage(f) ==
    /\ f \in Alloc(pages)
    /\ pages' = pages \cup {f}

\* Slip: alloc_page without its memset.
NewTableDirty(f) == tables[f]

\* What alloc_page leaves in the frame it returns.
NewTable(f) == EmptyTable

PldEntry == pld[PldIdx(CurPage)]
PmdEntry == tables[PldEntry.page_addr][PmdIdx(CurPage)]
PteEntry == tables[PmdEntry.page_addr][PteIdx(CurPage)]

\* Slip: ret keeps its value from the page before.
AddPldStaleRet ==
    /\ pc = "pld"
    /\ pc' = "pmd"
    /\ ret' = (ret \/ ~PldEntry.present)
    /\ \/ PldEntry.present /\ UNCHANGED dir
       \/ /\ ~PldEntry.present
          /\ \E f \in Frame :
                /\ AllocPage(f)
                /\ tables' = [tables EXCEPT ![f] = NewTable(f)]
                /\ pld' = [pld EXCEPT ![PldIdx(CurPage)] = PresentEntry(f, call.rwx)]
    /\ UNCHANGED <<call, i, outcome>>

\* add_page: make sure the PLD entry is there.
AddPld ==
    /\ pc = "pld"
    /\ pc' = "pmd"
    /\ ret' = ~PldEntry.present
    /\ \/ PldEntry.present /\ UNCHANGED dir
       \/ /\ ~PldEntry.present
          /\ \E f \in Frame :
                /\ AllocPage(f)
                /\ tables' = [tables EXCEPT ![f] = NewTable(f)]
                /\ pld' = [pld EXCEPT ![PldIdx(CurPage)] = PresentEntry(f, call.rwx)]
    /\ UNCHANGED <<call, i, outcome>>

\* add_page: make sure the PMD entry is there.
AddPmd ==
    /\ pc = "pmd"
    /\ pc' = "pte"
    /\ ret' = (ret \/ ~PmdEntry.present)
    /\ \/ PmdEntry.present /\ UNCHANGED dir
       \/ /\ ~PmdEntry.present
          /\ \E f \in Frame :
                /\ AllocPage(f)
                /\ tables' = [tables EXCEPT
                                ![f] = NewTable(f),
                                ![PldEntry.page_addr][PmdIdx(CurPage)] =
                                    PresentEntry(f, call.rwx)]
          /\ UNCHANGED pld
    /\ UNCHANGED <<call, i, outcome>>

\* Slip: map_range ignores what add_page returned.
ReturnIgnored(r) ==
    /\ ret' = r
    /\ i' = i + 1
    /\ IF i + 1 < call.num
       THEN pc' = "pld" /\ UNCHANGED outcome
       ELSE pc' = "idle" /\ outcome' = "ok"

\* What follows add_page's return of r: the end of the call, or map_range's
\* next iteration; map_range throws when add_page found the page there.
Return(r) ==
    /\ ret' = r
    /\ \/ /\ call.op = "add_page"
          /\ pc' = "idle" /\ outcome' = "ok" /\ UNCHANGED i
       \/ /\ call.op = "map_range" /\ ~r
          /\ pc' = "idle" /\ outcome' = "exception" /\ UNCHANGED i
       \/ /\ call.op = "map_range" /\ r
          /\ i' = i + 1
          /\ IF i + 1 < call.num
             THEN pc' = "pld" /\ UNCHANGED outcome
             ELSE pc' = "idle" /\ outcome' = "ok"

\* Slip: a page that is already mapped is mapped again.
AddPteRemaps ==
    /\ pc = "pte"
    /\ Return(ret \/ ~PteEntry.present)
    /\ \E f \in Frame :
          /\ AllocPage(f)
          /\ tables' = [tables EXCEPT
                          ![f] = NewTable(f),
                          ![PmdEntry.page_addr][PteIdx(CurPage)] =
                              PresentEntry(f, call.rwx)]
    /\ UNCHANGED <<call, pld>>

\* add_page: make sure the PTE is there; a present one keeps its frame and
\* its permissions.
AddPte ==
    /\ pc = "pte"
    /\ Return(ret \/ ~PteEntry.present)
    /\ \/ PteEntry.present /\ UNCHANGED dir
       \/ /\ ~PteEntry.present
          /\ \E f \in Frame :
                /\ AllocPage(f)
                /\ tables' = [tables EXCEPT
                                ![f] = NewTable(f),
                                ![PmdEntry.page_addr][PteIdx(CurPage)] =
                                    PresentEntry(f, call.rwx)]
          /\ UNCHANGED pld
    /\ UNCHANGED call

\* alloc_page throws; the exception leaves add_page and map_range.
AllocThrows ==
    /\ \/ pc = "pld" /\ ~PldEntry.present
       \/ pc = "pmd" /\ ~PmdEntry.present
       \/ pc = "pte" /\ ~PteEntry.present
    /\ pc' = "idle"
    /\ outcome' = "exception"
    /\ UNCHANGED <<dir, call, i, ret>>

AddPageStep == AddPld \/ AddPmd \/ AddPte \/ AllocThrows

Next ==
    \/ \E start \in Starts, rwx \in PermChoices : AddPageCall(start, rwx)
    \/ \E start \in Starts, num \in RangeSizes, rwx \in PermChoices :
          MapRangeCall(start, num, rwx)
    \/ AddPageStep

Spec == Init /\ [][Next]_vars

-----------------------------------------------------------------------------
(* The frames each level of the tree points to.                            *)

PmdFrames  == {f \in Frame : \E k \in PldIndex :
                  pld[k].present /\ pld[k].page_addr = f}
PteFrames  == {f \in Frame : \E g \in PmdFrames, k \in TableIndex :
                  tables[g][k].present /\ tables[g][k].page_addr = f}
DataFrames == {f \in Frame : \E g \in PteFrames, k \in TableIndex :
                  tables[g][k].present /\ tables[g][k].page_addr = f}

\* No two entries of one level share a frame.
OneOwner ==
    /\ \A k, m \in PldIndex :
          pld[k].present /\ pld[m].present /\ pld[k].page_addr = pld[m].page_addr => k = m
    /\ \A f, g \in PmdFrames \cup PteFrames : \A k, m \in TableIndex :
          /\ tables[f][k].present
          /\ tables[g][m].present
          /\ tables[f][k].page_addr = tables[g][m].page_addr
          => f = g /\ k = m

\* Every page alloc_page ever handed out, and nothing else, is in the tree,
\* at exactly one place and in one role, also after an exception in the
\* middle of add_page: a guest write through a data page cannot reach a page
\* table, no page leaks, and ~PageDirectory frees each one once.
FramesUsedOnce ==
    /\ pages = PmdFrames \cup PteFrames \cup DataFrames
    /\ PmdFrames \cap PteFrames = {}
    /\ PmdFrames \cap DataFrames = {}
    /\ PteFrames \cap DataFrames = {}
    /\ OneOwner

\* Two mapped virtual pages never share a host frame.
NoAliasing ==
    \A p, q \in VPage :
        Lookup(p).present /\ Lookup(q).present /\ p # q
            => Lookup(p).page_addr # Lookup(q).page_addr

\* map_range: the pages its loop has passed are mapped with the permissions
\* it was asked for, whether it goes on, returns or throws; it returns only
\* after the last one.  (add_page on a page mapped before would keep the old
\* permissions, which is why map_range must throw.)
RangeMapped ==
    call.op = "map_range" =>
        /\ \A k \in 0 .. i - 1 :
              Lookup(PageOf(AddrOf(k))).present /\ Lookup(PageOf(AddrOf(k))).rwx = call.rwx
        /\ outcome = "ok" => i = call.num

\* A mapping never changes once made, whatever is asked for again and wherever
\* a call throws.
MappingsAreStable ==
    [][\A p \in VPage : Lookup(p).present => Lookup(p)' = Lookup(p)]_vars

\* map_range goes past a page exactly when this call has just mapped it: an
\* overlap with an earlier range, or with its own beginning after a wrap, is
\* never taken for success, nor a page it did map for a failure, whichever
\* levels an exception of an earlier call left behind.
RangeIsNew ==
    [][\A p \in VPage : pc = "pte" /\ call.op = "map_range" /\ p = CurPage =>
          (i' = i + 1 <=> ~Lookup(p).present /\ Lookup(p)'.present)]_vars

\* The tree implements the flat map.
AS == INSTANCE AddressSpace WITH table <- [p \in VPage |-> Lookup(p)]
ImplementsAddressSpace == AS!Spec

-----------------------------------------------------------------------------
(* What a comment of mmu.cc says.                                           *)

\* mmu.cc:245: "If we would overflow the address space, throw".
OverflowThrows ==
    call.op = "map_range" /\ call.start + call.num * PageSize > max_vaddr + 1
        => outcome \in {"none", "exception"}
==============================================================================
