-------------------------- MODULE PageDirectoryProofs --------------------------
(***************************************************************************)
(* Theorems about PageDirectory, for every size of the address space and   *)
(* of the tables, every allocator and every sequence of calls.             *)
(***************************************************************************)
EXTENDS PageDirectory, TLAPS

-----------------------------------------------------------------------------
(* Address arithmetic.                                                     *)

\* Every page number indexes inside each of the three tables; for the PLD
\* this is where NumVPages <= PldEntries * Entries * Entries is needed.
LEMMA IndexRange ==
    ASSUME NEW p \in VPage
    PROVE  PteIdx(p) \in TableIndex /\ PmdIdx(p) \in TableIndex /\ PldIdx(p) \in PldIndex
<1>1. p \in Nat /\ p < PldEntries * (Entries * Entries)
  BY SizesAssumption DEF VPage
<1>2. Entries * Entries \in Nat \ {0}
  BY SizesAssumption
<1>3. p \div (Entries * Entries) \in Nat /\ p \div (Entries * Entries) < PldEntries
  BY <1>1, <1>2, SizesAssumption
<1>4. PldIdx(p) = p \div (Entries * Entries)
  BY <1>3, SizesAssumption DEF PldIdx
<1> QED
  BY <1>1, <1>3, <1>4, SizesAssumption DEF PteIdx, PmdIdx, TableIndex, PldIndex

\* The three indices determine the page.
LEMMA IndexUnique ==
    ASSUME NEW p \in VPage, NEW q \in VPage,
           PteIdx(p) = PteIdx(q), PmdIdx(p) = PmdIdx(q), PldIdx(p) = PldIdx(q)
    PROVE  p = q
<1> DEFINE E == Entries
<1>1. p \in Nat /\ q \in Nat /\ E \in Nat \ {0} /\ E * E \in Nat \ {0}
  BY SizesAssumption DEF VPage
<1>2. \A x \in VPage : PldIdx(x) = x \div (E * E)
  <2> TAKE x \in VPage
  <2>1. x \in Nat /\ x < PldEntries * (E * E)
    BY SizesAssumption DEF VPage
  <2>2. x \div (E * E) \in Nat /\ x \div (E * E) < PldEntries
    BY <1>1, <2>1, SizesAssumption
  <2> QED
    BY <2>2, SizesAssumption DEF PldIdx
<1>3. (p \div E) \div E = (q \div E) \div E
  BY <1>1, <1>2
<1>4. p \div E = q \div E
  BY <1>1, <1>3 DEF PmdIdx
<1> QED
  BY <1>1, <1>4 DEF PteIdx

\* The address map_range works on is an address, on a page.
LEMMA PageInRange ==
    /\ \A a \in VAddr : PageOf(a) \in VPage
    /\ \A a \in VAddr, k \in Nat : (a + PageSize * k) % TotalBytes \in VAddr
<1>1. ASSUME NEW a \in VAddr PROVE PageOf(a) \in VPage
  <2>1. a \in Nat /\ a < PageSize * NumVPages
    BY SizesAssumption DEF VAddr, TotalBytes
  <2> QED
    BY <2>1, SizesAssumption DEF PageOf, VPage
<1>2. ASSUME NEW a \in VAddr, NEW k \in Nat PROVE (a + PageSize * k) % TotalBytes \in VAddr
  <2>1. TotalBytes \in Nat \ {0}
    BY SizesAssumption DEF TotalBytes
  <2>2. a + PageSize * k \in Nat
    BY SizesAssumption, <2>1 DEF VAddr
  <2> QED
    BY <2>1, <2>2 DEF VAddr
<1> QED
  BY <1>1, <1>2

LEMMA CurPageInRange ==
    ASSUME TypeOK
    PROVE  CurPage \in VPage
BY PageInRange DEF TypeOK, Call, CurPage, AddrOf

-----------------------------------------------------------------------------
(* Types.                                                                  *)

LEMMA EntryTypes ==
    /\ NoEntry \in Entry
    /\ ~NoEntry.present
    /\ EmptyTable \in [TableIndex -> Entry]
    /\ \A k \in TableIndex : EmptyTable[k] = NoEntry
    /\ \A f \in Frame, perms \in SUBSET PermBits :
          /\ PresentEntry(f, perms) \in Entry
          /\ PresentEntry(f, perms).present
          /\ PresentEntry(f, perms).page_addr = f
          /\ PresentEntry(f, perms).rwx = perms
BY DEF NoEntry, Entry, EmptyTable, PresentEntry

-----------------------------------------------------------------------------
(* What a step of add_page does to the directory: nothing where the entry  *)
(* is present, else one new frame, empty, and one entry that points to it. *)

\* The frame f is new, is now in use and holds an empty table.
NewFrame(f) ==
    /\ f \in Frame \ pages
    /\ pages' = pages \cup {f}
    /\ tables'[f] = EmptyTable

\* Entry k of table g now points to f; it did not point anywhere before.
EntryInstalled(g, k, f) ==
    /\ g # f
    /\ ~tables[g][k].present
    /\ tables' \in [Frame -> [TableIndex -> Entry]]
    /\ tables'[g] = [tables[g] EXCEPT ![k] = PresentEntry(f, call.rwx)]
    /\ \A h \in Frame \ {f, g} : tables'[h] = tables[h]
    /\ pld' = pld

LEMMA AllocIsFresh ==
    ASSUME TypeOK, NEW f, AllocPage(f)
    PROVE  f \in Frame \ pages /\ pages' = pages \cup {f}
BY AllocAssumption DEF TypeOK, AllocPage

LEMMA AddPldEffect ==
    ASSUME TypeOK, AddPld
    PROVE  \/ PldEntry.present /\ UNCHANGED dir
           \/ \E f : /\ NewFrame(f)
                     /\ ~PldEntry.present
                     /\ tables' \in [Frame -> [TableIndex -> Entry]]
                     /\ \A h \in Frame \ {f} : tables'[h] = tables[h]
                     /\ pld' = [pld EXCEPT ![PldIdx(CurPage)] = PresentEntry(f, call.rwx)]
<1>1. CASE PldEntry.present /\ UNCHANGED dir
  BY <1>1
<1>2. CASE ~PldEntry.present
  <2>1. PICK f \in Frame :
          /\ AllocPage(f)
          /\ tables' = [tables EXCEPT ![f] = NewTable(f)]
          /\ pld' = [pld EXCEPT ![PldIdx(CurPage)] = PresentEntry(f, call.rwx)]
    BY <1>2 DEF AddPld
  <2>2. f \in Frame \ pages /\ pages' = pages \cup {f}
    BY <2>1, AllocIsFresh
  <2>3. /\ tables'[f] = EmptyTable
        /\ \A h \in Frame \ {f} : tables'[h] = tables[h]
        /\ tables' \in [Frame -> [TableIndex -> Entry]]
    BY <2>1, EntryTypes DEF TypeOK, NewTable
  <2> QED
    BY <1>2, <2>1, <2>2, <2>3 DEF NewFrame
<1> QED
  BY <1>1, <1>2 DEF AddPld

\* The two lower levels install their entry in a table alike.
LEMMA InstallEffect ==
    ASSUME TypeOK, NEW g \in pages, NEW k \in TableIndex, NEW f \in Frame,
           AllocPage(f), UNCHANGED pld, ~tables[g][k].present,
           tables' = [tables EXCEPT ![f] = NewTable(f),
                                    ![g][k] = PresentEntry(f, call.rwx)]
    PROVE  NewFrame(f) /\ EntryInstalled(g, k, f)
<1>1. f \in Frame \ pages /\ pages' = pages \cup {f}
  BY AllocIsFresh
<1>2. g # f /\ g \in Frame
  BY <1>1 DEF TypeOK
<1>3. PresentEntry(f, call.rwx) \in Entry
  BY EntryTypes DEF TypeOK, Call
<1>4. /\ tables'[f] = EmptyTable
      /\ tables'[g] = [tables[g] EXCEPT ![k] = PresentEntry(f, call.rwx)]
      /\ \A h \in Frame \ {f, g} : tables'[h] = tables[h]
      /\ DOMAIN tables' = Frame
  BY <1>1, <1>2 DEF TypeOK, NewTable
<1>5. \A h \in Frame : tables'[h] \in [TableIndex -> Entry]
  BY <1>2, <1>3, <1>4, EntryTypes DEF TypeOK
<1>6. tables' \in [Frame -> [TableIndex -> Entry]]
  BY <1>4, <1>5 DEF TypeOK
<1> QED
  BY <1>1, <1>2, <1>4, <1>6 DEF NewFrame, EntryInstalled

-----------------------------------------------------------------------------
(* The shape of the tree.                                                  *)

\* Present entries point to pages that alloc_page handed out.
Linked ==
    /\ \A k \in PldIndex : pld[k].present => pld[k].page_addr \in pages
    /\ \A f \in PmdFrames \cup PteFrames : \A k \in TableIndex :
          tables[f][k].present => tables[f][k].page_addr \in pages

Tree == Linked /\ FramesUsedOnce

\* An entry of a table is the only one for its frame.
LEMMA SoleOwner ==
    ASSUME Tree, NEW h \in PmdFrames \cup PteFrames, NEW g \in PmdFrames \cup PteFrames,
           NEW k \in TableIndex, NEW m \in TableIndex,
           tables[h][k].present, tables[g][m].present,
           tables[h][k].page_addr = tables[g][m].page_addr
    PROVE  h = g /\ k = m
BY DEF Tree, FramesUsedOnce, OneOwner

\* Nothing in the tree changes when the directory does not.
LEMMA TreeUnchanged ==
    ASSUME Tree, UNCHANGED dir
    PROVE  Tree'
<1>1. pld' = pld /\ tables' = tables /\ pages' = pages
  BY DEF dir
<1>2. PmdFrames' = PmdFrames
  BY <1>1 DEF PmdFrames
<1>3. PteFrames' = PteFrames
  BY <1>1, <1>2 DEF PteFrames
<1>4. DataFrames' = DataFrames
  BY <1>1, <1>3 DEF DataFrames
<1>5. Linked' /\ OneOwner'
  BY <1>1, <1>2, <1>3 DEF Tree, Linked, FramesUsedOnce, OneOwner
<1> QED
  BY <1>1, <1>2, <1>3, <1>4, <1>5 DEF Tree, FramesUsedOnce

\* A new frame in the PLD is a new, empty PMD page.
LEMMA TreeAfterPld ==
    ASSUME TypeOK, Tree, NEW f, NewFrame(f), NEW x \in PldIndex,
           ~pld[x].present,
           tables' \in [Frame -> [TableIndex -> Entry]],
           \A h \in Frame \ {f} : tables'[h] = tables[h],
           pld' = [pld EXCEPT ![x] = PresentEntry(f, call.rwx)]
    PROVE  Tree'
<1>1. f \in Frame /\ f \notin pages /\ pages' = pages \cup {f}
  BY DEF NewFrame
<1>2. /\ pld'[x].present
      /\ pld'[x].page_addr = f
      /\ \A k \in PldIndex \ {x} : pld'[k] = pld[k]
  BY DEF TypeOK, PresentEntry
<1>3. \A k \in TableIndex : ~tables'[f][k].present
  BY EntryTypes DEF NewFrame
<1>4. f \notin PmdFrames \cup PteFrames \cup DataFrames
  BY <1>1 DEF Tree, FramesUsedOnce
<1>5. PmdFrames' = PmdFrames \cup {f}
  BY <1>1, <1>2 DEF PmdFrames
<1>6. PteFrames' = PteFrames
  <2>1. \A h \in PmdFrames : tables'[h] = tables[h]
    BY <1>4 DEF PmdFrames
  <2> QED
    BY <1>3, <1>5, <2>1 DEF PteFrames
<1>7. DataFrames' = DataFrames
  <2>1. \A g \in PteFrames : g \in Frame /\ tables'[g] = tables[g]
    BY <1>1, <1>4 DEF PteFrames
  <2> QED
    BY <1>6, <2>1 DEF DataFrames
<1>8. Linked'
  <2>1. \A k \in PldIndex : pld'[k].present => pld'[k].page_addr \in pages'
    BY <1>1, <1>2 DEF Tree, Linked
  <2>2. ASSUME NEW g \in PmdFrames' \cup PteFrames', NEW k \in TableIndex,
               tables'[g][k].present
        PROVE  tables'[g][k].page_addr \in pages'
    <3>1. g # f /\ g \in PmdFrames \cup PteFrames
      BY <2>2, <1>3, <1>5, <1>6
    <3>2. tables'[g] = tables[g]
      BY <3>1 DEF PmdFrames, PteFrames
    <3> QED
      BY <2>2, <3>1, <3>2, <1>1 DEF Tree, Linked
  <2> QED
    BY <2>1, <2>2 DEF Linked
<1>9. OneOwner'
  <2>1. \A k, m \in PldIndex :
          pld'[k].present /\ pld'[m].present /\ pld'[k].page_addr = pld'[m].page_addr => k = m
    <3>1. \A k \in PldIndex \ {x} : pld'[k].present => pld'[k].page_addr # f
      BY <1>1, <1>2 DEF Tree, Linked
    <3> QED
      BY <3>1, <1>2 DEF Tree, FramesUsedOnce, OneOwner
  <2>2. \A g \in PmdFrames' \cup PteFrames' : \A k \in TableIndex :
          tables'[g][k].present => g \in PmdFrames \cup PteFrames /\ tables'[g] = tables[g]
    BY <1>3, <1>5, <1>6 DEF PmdFrames, PteFrames
  <2> QED
    BY <2>1, <2>2 DEF Tree, FramesUsedOnce, OneOwner
<1> QED
  BY <1>1, <1>4, <1>5, <1>6, <1>7, <1>8, <1>9 DEF Tree, FramesUsedOnce

\* What an installed entry does to the entries of tables in the tree: table g
\* has one more, which points to f; the others are as they were.
LEMMA EntriesAfterInstall ==
    ASSUME TypeOK, Tree, NEW f, NewFrame(f), NEW g \in PmdFrames \cup PteFrames,
           NEW x \in TableIndex, EntryInstalled(g, x, f)
    PROVE  /\ f \in Frame /\ f \notin pages /\ pages' = pages \cup {f}
           /\ f \notin PmdFrames \cup PteFrames \cup DataFrames
           /\ tables'[g][x].present /\ tables'[g][x].page_addr = f
           /\ \A k \in TableIndex \ {x} : tables'[g][k] = tables[g][k]
           /\ \A h \in Frame \ {f, g} : tables'[h] = tables[h]
           /\ \A k \in TableIndex : ~tables'[f][k].present
           /\ PmdFrames' = PmdFrames
<1>1. f \in Frame /\ f \notin pages /\ pages' = pages \cup {f}
  BY DEF NewFrame
<1>2. f \notin PmdFrames \cup PteFrames \cup DataFrames
  BY <1>1 DEF Tree, FramesUsedOnce
<1>3. g \in Frame /\ tables[g] \in [TableIndex -> Entry]
  BY DEF TypeOK, PmdFrames, PteFrames
<1>4. /\ tables'[g][x] = PresentEntry(f, call.rwx)
      /\ \A k \in TableIndex \ {x} : tables'[g][k] = tables[g][k]
  BY <1>3 DEF EntryInstalled
<1>5. tables'[g][x].present /\ tables'[g][x].page_addr = f
  BY <1>4 DEF PresentEntry
<1>6. \A k \in TableIndex : ~tables'[f][k].present
  BY EntryTypes DEF NewFrame
<1>7. PmdFrames' = PmdFrames
  BY DEF PmdFrames, EntryInstalled
<1> QED
  BY <1>1, <1>2, <1>4, <1>5, <1>6, <1>7 DEF EntryInstalled

\* A new frame in a PMD page is a new, empty PTE page.
LEMMA TreeAfterPmd ==
    ASSUME TypeOK, Tree, NEW f, NewFrame(f), NEW g \in PmdFrames,
           NEW x \in TableIndex, EntryInstalled(g, x, f)
    PROVE  Tree'
<1> USE EntriesAfterInstall
<1>1. \A h \in PmdFrames \cup PteFrames : h \in Frame /\ h # f
  BY DEF PmdFrames, PteFrames
<1>2. PteFrames' = PteFrames \cup {f}
  BY <1>1 DEF PteFrames, EntryInstalled
<1>3. DataFrames' = DataFrames
  <2>1. \A h \in PteFrames : tables'[h] = tables[h]
    BY <1>1 DEF Tree, FramesUsedOnce
  <2> QED
    BY <1>2, <2>1 DEF DataFrames
<1>4. \A h \in PmdFrames' \cup PteFrames' : \A k \in TableIndex :
        tables'[h][k].present =>
          /\ h \in PmdFrames \cup PteFrames
          /\ (h = g /\ k = x) \/ tables'[h][k] = tables[h][k]
  BY <1>1, <1>2
<1>5. Linked'
  BY <1>4 DEF Tree, Linked, EntryInstalled
<1>6. OneOwner'
  <2>1. \A h \in PmdFrames \cup PteFrames : \A k \in TableIndex :
          tables[h][k].present => tables[h][k].page_addr # f
    BY DEF Tree, Linked
  <2> QED
    BY <1>4, <2>1 DEF Tree, FramesUsedOnce, OneOwner, EntryInstalled
<1> QED
  BY <1>2, <1>3, <1>5, <1>6 DEF Tree, FramesUsedOnce

\* A new frame in a PTE page is a new data page.
LEMMA TreeAfterPte ==
    ASSUME TypeOK, Tree, NEW f, NewFrame(f), NEW g \in PteFrames,
           NEW x \in TableIndex, EntryInstalled(g, x, f)
    PROVE  Tree'
<1> USE EntriesAfterInstall
<1>1. \A h \in PmdFrames \cup PteFrames : h \in Frame /\ h # f
  BY DEF PmdFrames, PteFrames
<1>2. PteFrames' = PteFrames
  <2>1. \A h \in PmdFrames : tables'[h] = tables[h]
    BY <1>1 DEF Tree, FramesUsedOnce
  <2> QED
    BY <2>1 DEF PteFrames
<1>3. DataFrames' = DataFrames \cup {f}
  <2>1. \A h \in PteFrames : \A k \in TableIndex :
          (h = g /\ k = x) \/ tables'[h][k] = tables[h][k]
    BY <1>1
  <2>2. /\ ~tables[g][x].present
        /\ tables'[g][x].present /\ tables'[g][x].page_addr = f /\ f \in Frame
    <3>1. ~tables[g][x].present
      BY DEF EntryInstalled
    <3> QED
      BY <3>1
  <2>3. g \in PteFrames'
    BY <1>2
  <2> HIDE EntriesAfterInstall
  <2>4. ASSUME NEW d \in Frame
        PROVE  d \in DataFrames' <=> d \in DataFrames \/ d = f
    BY <1>2, <2>1, <2>2, <2>3 DEF DataFrames
  <2> QED
    BY <2>2, <2>4 DEF DataFrames
<1>4. \A h \in PmdFrames' \cup PteFrames' : \A k \in TableIndex :
        tables'[h][k].present =>
          /\ h \in PmdFrames \cup PteFrames
          /\ (h = g /\ k = x) \/ tables'[h][k] = tables[h][k]
  BY <1>1, <1>2
<1>5. Linked'
  BY <1>4 DEF Tree, Linked, EntryInstalled
<1>6. OneOwner'
  <2>1. \A h \in PmdFrames \cup PteFrames : \A k \in TableIndex :
          tables[h][k].present => tables[h][k].page_addr # f
    BY DEF Tree, Linked
  <2> QED
    BY <1>4, <2>1 DEF Tree, FramesUsedOnce, OneOwner, EntryInstalled
<1> QED
  BY <1>2, <1>3, <1>5, <1>6 DEF Tree, FramesUsedOnce

-----------------------------------------------------------------------------
(* What a lookup finds.                                                    *)

\* Where a walk down the tree ends, and through which tables it goes.
LEMMA Walk ==
    ASSUME TypeOK, Tree, NEW p \in VPage
    PROVE  LET a == pld[PldIdx(p)]
               b == tables[a.page_addr][PmdIdx(p)]
               c == tables[b.page_addr][PteIdx(p)]
           IN  /\ a.present => a.page_addr \in PmdFrames
               /\ a.present /\ b.present => b.page_addr \in PteFrames
               /\ a.present /\ b.present /\ c.present => c.page_addr \in DataFrames
               /\ Lookup(p) = IF a.present /\ b.present /\ c.present THEN c ELSE NoEntry
<1> DEFINE a == pld[PldIdx(p)]
           b == tables[a.page_addr][PmdIdx(p)]
           c == tables[b.page_addr][PteIdx(p)]
<1>1. PteIdx(p) \in TableIndex /\ PmdIdx(p) \in TableIndex /\ PldIdx(p) \in PldIndex
  BY IndexRange
<1>2. a.present => a.page_addr \in PmdFrames
  BY <1>1 DEF TypeOK, Tree, Linked, PmdFrames
<1>3. a.present /\ b.present => b.page_addr \in PteFrames
  <2> SUFFICES ASSUME a.present, b.present PROVE b.page_addr \in PteFrames
    OBVIOUS
  <2>1. b.page_addr \in Frame
    BY <1>1, <1>2 DEF TypeOK, Tree, Linked
  <2> QED
    BY <1>1, <1>2, <2>1 DEF PteFrames
<1>4. a.present /\ b.present /\ c.present => c.page_addr \in DataFrames
  <2> SUFFICES ASSUME a.present, b.present, c.present PROVE c.page_addr \in DataFrames
    OBVIOUS
  <2>1. c.page_addr \in Frame
    BY <1>1, <1>3 DEF TypeOK, Tree, Linked
  <2> QED
    BY <1>1, <1>3, <2>1 DEF DataFrames
<1>5. Lookup(p) = IF a.present /\ b.present /\ c.present THEN c ELSE NoEntry
  BY DEF Lookup
<1> QED
  BY <1>2, <1>3, <1>4, <1>5

\* A new PMD page translates nothing yet.
LEMMA LookupAfterPld ==
    ASSUME TypeOK, Tree, NEW f, NewFrame(f), NEW x \in PldIndex,
           ~pld[x].present,
           \A h \in Frame \ {f} : tables'[h] = tables[h],
           pld' = [pld EXCEPT ![x] = PresentEntry(f, call.rwx)],
           NEW p \in VPage
    PROVE  Lookup(p)' = Lookup(p)
<1>1. PteIdx(p) \in TableIndex /\ PmdIdx(p) \in TableIndex /\ PldIdx(p) \in PldIndex
  BY IndexRange
<1>2. f \notin PmdFrames \cup PteFrames
  BY DEF NewFrame, Tree, FramesUsedOnce
<1>3. \A h \in PmdFrames \cup PteFrames : tables'[h] = tables[h]
  BY <1>2 DEF PmdFrames, PteFrames
<1>4. CASE PldIdx(p) = x
  <2>1. pld'[x].present /\ pld'[x].page_addr = f
    BY DEF TypeOK, PresentEntry
  <2>2. ~tables'[f][PmdIdx(p)].present
    BY <1>1, EntryTypes DEF NewFrame
  <2> QED
    BY <1>4, <2>1, <2>2 DEF Lookup
<1>5. CASE PldIdx(p) # x
  <2> DEFINE a == pld[PldIdx(p)]
             b == tables[a.page_addr][PmdIdx(p)]
  <2>1. pld'[PldIdx(p)] = a
    BY <1>1, <1>5 DEF TypeOK
  <2>2. CASE ~a.present
    BY <2>1, <2>2 DEF Lookup
  <2>3. CASE a.present
    <3>1. a.page_addr \in PmdFrames
      BY <2>3, Walk
    <3>2. tables'[a.page_addr][PmdIdx(p)] = b
      BY <1>3, <3>1
    <3>3. CASE ~b.present
      BY <2>1, <2>3, <3>2, <3>3 DEF Lookup
    <3>4. CASE b.present
      <4>1. b.page_addr \in PteFrames
        BY <2>3, <3>4, Walk
      <4>2. tables'[b.page_addr] = tables[b.page_addr]
        BY <1>3, <4>1
      <4> QED
        <5>1. /\ pld'[PldIdx(p)].present
              /\ tables'[pld'[PldIdx(p)].page_addr][PmdIdx(p)] = b
          BY <2>1, <2>3, <3>2
        <5>2. tables'[tables'[pld'[PldIdx(p)].page_addr][PmdIdx(p)].page_addr][PteIdx(p)]
                = tables[b.page_addr][PteIdx(p)]
          BY <5>1, <4>2
        <5> QED
          BY <2>3, <3>4, <5>1, <5>2 DEF Lookup
    <3> QED
      BY <3>3, <3>4
  <2> QED
    BY <2>2, <2>3
<1> QED
  BY <1>4, <1>5

\* A new PTE page translates nothing yet.
LEMMA LookupAfterPmd ==
    ASSUME TypeOK, Tree, NEW f, NewFrame(f), NEW g \in PmdFrames,
           NEW x \in TableIndex, EntryInstalled(g, x, f),
           NEW p \in VPage
    PROVE  Lookup(p)' = Lookup(p)
<1> DEFINE a == pld[PldIdx(p)]
           b == tables[a.page_addr][PmdIdx(p)]
<1>1. PteIdx(p) \in TableIndex /\ PmdIdx(p) \in TableIndex /\ PldIdx(p) \in PldIndex
  BY IndexRange
<1>2. pld' = pld
  BY DEF EntryInstalled
<1>3. \A h \in PteFrames : tables'[h] = tables[h]
  BY EntriesAfterInstall DEF PteFrames, Tree, FramesUsedOnce
<1>4. CASE a.present /\ a.page_addr = g /\ PmdIdx(p) = x
  <2>1. ~b.present
    BY <1>4 DEF EntryInstalled
  <2>2. /\ tables'[a.page_addr][PmdIdx(p)].page_addr = f
        /\ ~tables'[f][PteIdx(p)].present
    BY <1>1, <1>4, EntriesAfterInstall
  <2> QED
    BY <1>2, <2>1, <2>2 DEF Lookup
<1>5. CASE a.present /\ ~(a.page_addr = g /\ PmdIdx(p) = x)
  <2>1. a.page_addr \in PmdFrames
    BY <1>5, Walk
  <2>4. a.page_addr \in Frame /\ a.page_addr # f
    BY <2>1 DEF PmdFrames, NewFrame, Tree, FramesUsedOnce
  <2>2. tables'[a.page_addr][PmdIdx(p)] = b
    BY <1>1, <1>5, <2>1, <2>4, EntriesAfterInstall
  <2>3. b.present => b.page_addr \in PteFrames
    BY <1>5, Walk
  <2> QED
    BY <1>2, <1>3, <1>5, <2>2, <2>3 DEF Lookup
<1>6. CASE ~a.present
  BY <1>2, <1>6 DEF Lookup
<1> QED
  BY <1>4, <1>5, <1>6

\* A new data page is the translation of the one page that was walked to.
LEMMA LookupAfterPte ==
    ASSUME TypeOK, Tree, NEW f, NewFrame(f), NEW q \in VPage,
           pld[PldIdx(q)].present,
           tables[pld[PldIdx(q)].page_addr][PmdIdx(q)].present,
           EntryInstalled(tables[pld[PldIdx(q)].page_addr][PmdIdx(q)].page_addr, PteIdx(q), f)
    PROVE  /\ ~Lookup(q).present
           /\ Lookup(q)' = PresentEntry(f, call.rwx)
           /\ \A p \in VPage \ {q} : Lookup(p)' = Lookup(p)
<1> DEFINE d == pld[PldIdx(q)].page_addr
           g == tables[d][PmdIdx(q)].page_addr
<1>1. d \in PmdFrames /\ g \in PteFrames
  BY Walk
<1>2. pld' = pld
  BY DEF EntryInstalled
<1>3. PteIdx(q) \in TableIndex /\ PmdIdx(q) \in TableIndex /\ PldIdx(q) \in PldIndex
  BY IndexRange
<1>4. \A h \in PmdFrames : tables'[h] = tables[h]
  BY <1>1, <1>3, EntriesAfterInstall DEF PmdFrames, Tree, FramesUsedOnce
<1>5. ~Lookup(q).present
  BY EntryTypes DEF EntryInstalled, Lookup
<1>6. Lookup(q)' = PresentEntry(f, call.rwx)
  <2>1. tables'[d][PmdIdx(q)] = tables[d][PmdIdx(q)]
    BY <1>1, <1>4
  <2>2. tables'[g][PteIdx(q)] = PresentEntry(f, call.rwx)
    <3>1. tables[g] \in [TableIndex -> Entry]
      BY <1>1 DEF TypeOK, PteFrames
    <3>2. tables'[g] = [tables[g] EXCEPT ![PteIdx(q)] = PresentEntry(f, call.rwx)]
      BY DEF EntryInstalled
    <3> QED
      BY <1>3, <3>1, <3>2
  <2>3. PresentEntry(f, call.rwx).present
    BY DEF PresentEntry
  <2> QED
    BY <1>2, <2>1, <2>2, <2>3 DEF Lookup
<1>7. ASSUME NEW p \in VPage \ {q} PROVE Lookup(p)' = Lookup(p)
  <2> DEFINE a == pld[PldIdx(p)]
             b == tables[a.page_addr][PmdIdx(p)]
  <2>1. PteIdx(p) \in TableIndex /\ PmdIdx(p) \in TableIndex /\ PldIdx(p) \in PldIndex
    BY IndexRange
  <2>2. CASE ~a.present
    BY <1>2, <2>2 DEF Lookup
  <2>3. CASE a.present /\ ~b.present
    <3>1. tables'[a.page_addr][PmdIdx(p)] = b
      BY <1>4, <2>3, Walk
    <3> QED
      BY <1>2, <2>3, <3>1 DEF Lookup
  <2>4. CASE a.present /\ b.present
    <3>1. a.page_addr \in PmdFrames /\ b.page_addr \in PteFrames
      BY <2>4, Walk
    <3>2. tables'[a.page_addr][PmdIdx(p)] = b
      BY <1>4, <3>1
    <3>3. ~(b.page_addr = g /\ PteIdx(p) = PteIdx(q))
      <4> SUFFICES ASSUME b.page_addr = g, PteIdx(p) = PteIdx(q) PROVE FALSE
        OBVIOUS
      <4>1. a.page_addr = d /\ PmdIdx(p) = PmdIdx(q)
        <5>1. d \in PmdFrames /\ PmdIdx(q) \in TableIndex /\ tables[d][PmdIdx(q)].present
              /\ tables[d][PmdIdx(q)].page_addr = g
          BY <1>1, <1>3
        <5> QED
          BY <2>1, <2>4, <3>1, <5>1, SoleOwner
      <4>2. PldIdx(p) = PldIdx(q)
        BY <1>3, <2>1, <2>4, <4>1 DEF Tree, FramesUsedOnce, OneOwner
      <4> QED
        BY <4>1, <4>2, IndexUnique
    <3>4. b.page_addr \in Frame /\ b.page_addr # f
      BY <3>1 DEF PteFrames, NewFrame, Tree, FramesUsedOnce
    <3>5. tables'[b.page_addr][PteIdx(p)] = tables[b.page_addr][PteIdx(p)]
      <4>1. /\ \A k \in TableIndex \ {PteIdx(q)} : tables'[g][k] = tables[g][k]
            /\ \A h \in Frame \ {f, g} : tables'[h] = tables[h]
        <5>1. EntryInstalled(g, PteIdx(q), f) /\ g \in PmdFrames \cup PteFrames
          BY <1>1
        <5> HIDE DEF g
        <5> QED
          BY <1>3, <5>1, EntriesAfterInstall
      <4> HIDE DEF a, b, d, g
      <4> QED
        BY <2>1, <3>3, <3>4, <4>1
    <3> QED
      BY <1>2, <2>4, <3>2, <3>5 DEF Lookup
  <2> QED
    BY <2>2, <2>3, <2>4
<1> QED
  BY <1>5, <1>6, <1>7

-----------------------------------------------------------------------------
(* The inductive invariant.                                                *)

\* Between two steps of a call, the levels above the next one are there, and
\* ret is true only when nothing below can be.
Stage ==
    /\ pc \in {"pmd", "pte"} => PldEntry.present
    /\ pc = "pte" => PmdEntry.present
    /\ pc = "pmd" /\ ret => ~PmdEntry.present
    /\ pc = "pte" /\ ret => ~PteEntry.present
    /\ pc # "idle" => outcome = "running" /\ i < call.num

\* The call in progress asks for permissions a caller may ask for.
Asked == pc # "idle" => call.rwx \in PermChoices

IInv == TypeOK /\ Tree /\ Stage /\ Asked /\ RangeMapped

LEMMA InitInv == Init => IInv
<1> SUFFICES ASSUME Init PROVE IInv
  OBVIOUS
<1>1. TypeOK
  <2>1. TotalBytes \in Nat \ {0}
    BY SizesAssumption DEF TotalBytes
  <2>2. call \in Call
    BY <2>1 DEF Init, Call, VAddr
  <2>3. pld \in [PldIndex -> Entry]
    BY EntryTypes DEF Init
  <2> QED
    BY <2>2, <2>3, HostMemoryAssumption DEF Init, TypeOK
<1>2. \A k \in PldIndex : ~pld[k].present
  BY EntryTypes DEF Init
<1>3. PmdFrames = {} /\ PteFrames = {} /\ DataFrames = {}
  BY <1>2 DEF PmdFrames, PteFrames, DataFrames
<1>4. Tree
  BY <1>2, <1>3 DEF Init, Tree, Linked, FramesUsedOnce, OneOwner
<1>5. Stage
  BY DEF Init, Stage
<1>6. RangeMapped /\ Asked
  BY DEF Init, RangeMapped, Asked
<1> QED
  BY <1>1, <1>4, <1>5, <1>6 DEF IInv

\* The entries the call in progress looks at are where Walk puts them.
LEMMA CurEntries ==
    ASSUME TypeOK, Tree
    PROVE  /\ PteIdx(CurPage) \in TableIndex
           /\ PmdIdx(CurPage) \in TableIndex
           /\ PldIdx(CurPage) \in PldIndex
           /\ PldEntry.present => PldEntry.page_addr \in PmdFrames
           /\ PldEntry.present /\ PmdEntry.present => PmdEntry.page_addr \in PteFrames
           /\ PmdFrames \cup PteFrames \subseteq pages
           /\ PldEntry.present /\ PmdEntry.present
                => Lookup(CurPage) = IF PteEntry.present THEN PteEntry ELSE NoEntry
<1>1. CurPage \in VPage
  BY CurPageInRange
<1>2. PmdFrames \cup PteFrames \subseteq pages
  BY DEF Tree, FramesUsedOnce
<1> QED
  BY <1>1, <1>2, IndexRange, Walk DEF PldEntry, PmdEntry, PteEntry

\* A step at the PLD translates no page, and leaves the invariant.
LEMMA PldStep ==
    ASSUME TypeOK, Tree, Stage, AddPld
    PROVE  /\ TypeOK' /\ Tree' /\ Stage'
           /\ \A p \in VPage : Lookup(p)' = Lookup(p)
<1>1. CurPage' = CurPage
  BY DEF AddPld, CurPage, AddrOf
<1>2. PmdIdx(CurPage) \in TableIndex /\ PldIdx(CurPage) \in PldIndex
  BY CurEntries
<1>3. /\ pc' = "pmd" /\ ret' = ~PldEntry.present /\ ret' \in BOOLEAN
      /\ UNCHANGED <<call, i, outcome>>
      /\ outcome = "running" /\ i < call.num
  BY DEF AddPld, Stage
<1>4. CASE PldEntry.present /\ UNCHANGED dir
  <2>1. TypeOK'
    BY <1>3, <1>4 DEF TypeOK, dir
  <2>2. Tree'
    BY <1>4, TreeUnchanged
  <2>3. PldEntry' = PldEntry
    BY <1>1, <1>4 DEF PldEntry, dir
  <2>4. Stage'
    BY <1>3, <1>4, <2>3 DEF Stage
  <2>5. \A p \in VPage : Lookup(p)' = Lookup(p)
    BY <1>4 DEF Lookup, dir
  <2> QED
    BY <2>1, <2>2, <2>4, <2>5
<1>5. ASSUME NEW f, NewFrame(f), ~PldEntry.present,
             tables' \in [Frame -> [TableIndex -> Entry]],
             \A h \in Frame \ {f} : tables'[h] = tables[h],
             pld' = [pld EXCEPT ![PldIdx(CurPage)] = PresentEntry(f, call.rwx)]
      PROVE  /\ TypeOK' /\ Tree' /\ Stage'
             /\ \A p \in VPage : Lookup(p)' = Lookup(p)
  <2>1. f \in Frame /\ call.rwx \in SUBSET PermBits
    BY <1>5 DEF NewFrame, TypeOK, Call
  <2>2. PresentEntry(f, call.rwx) \in Entry
    BY <2>1, EntryTypes
  <2>3. TypeOK'
    <3>1. pld' \in [PldIndex -> Entry]
      BY <1>5, <2>2 DEF TypeOK
    <3>2. pages' \subseteq Frame
      BY <1>5, <2>1 DEF TypeOK, NewFrame
    <3> QED
      BY <1>3, <1>5, <3>1, <3>2 DEF TypeOK
  <2>4. Tree'
    BY <1>2, <1>5, TreeAfterPld DEF PldEntry
  <2>5. PldEntry'.present /\ PldEntry'.page_addr = f
    BY <1>1, <1>2, <1>5, <2>1, EntryTypes DEF PldEntry, TypeOK
  <2>6. ~PmdEntry'.present
    BY <1>1, <1>2, <1>5, <2>5, EntryTypes DEF PmdEntry, NewFrame
  <2>7. Stage'
    BY <1>3, <2>5, <2>6 DEF Stage
  <2>8. \A p \in VPage : Lookup(p)' = Lookup(p)
    BY <1>2, <1>5, LookupAfterPld DEF PldEntry
  <2> QED
    BY <2>3, <2>4, <2>7, <2>8
<1> QED
  BY <1>4, <1>5, AddPldEffect

\* A step at the PMD translates no page either.
LEMMA PmdStep ==
    ASSUME TypeOK, Tree, Stage, AddPmd
    PROVE  /\ TypeOK' /\ Tree' /\ Stage'
           /\ \A p \in VPage : Lookup(p)' = Lookup(p)
<1>1. CurPage' = CurPage
  BY DEF AddPmd, CurPage, AddrOf
<1>2. /\ PteIdx(CurPage) \in TableIndex /\ PmdIdx(CurPage) \in TableIndex
      /\ PldEntry.present /\ PldEntry.page_addr \in PmdFrames
      /\ PldEntry.page_addr \in pages
  BY CurEntries DEF AddPmd, Stage
<1>3. /\ pc' = "pte" /\ ret' = (ret \/ ~PmdEntry.present)
      /\ UNCHANGED <<call, i, outcome>>
      /\ outcome = "running" /\ i < call.num
      /\ ret => ~PmdEntry.present
  BY DEF AddPmd, Stage
<1>4. ret' \in BOOLEAN
  <2>1. ret \in BOOLEAN
    BY DEF TypeOK
  <2> QED
    BY <1>3, <2>1
<1>5. CASE PmdEntry.present /\ UNCHANGED dir
  <2>1. TypeOK'
    BY <1>3, <1>4, <1>5 DEF TypeOK, dir
  <2>2. Tree'
    BY <1>5, TreeUnchanged
  <2>3. PldEntry' = PldEntry /\ PmdEntry' = PmdEntry
    BY <1>1, <1>5 DEF PldEntry, PmdEntry, dir
  <2>4. ~ret'
    BY <1>3, <1>5
  <2>5. Stage'
    BY <1>2, <1>3, <1>5, <2>3, <2>4 DEF Stage
  <2>6. \A p \in VPage : Lookup(p)' = Lookup(p)
    BY <1>5 DEF Lookup, dir
  <2> QED
    BY <2>1, <2>2, <2>5, <2>6
<1>6. ASSUME ~PmdEntry.present,
             NEW f \in Frame, NewFrame(f),
             EntryInstalled(PldEntry.page_addr, PmdIdx(CurPage), f)
      PROVE  /\ TypeOK' /\ Tree' /\ Stage'
             /\ \A p \in VPage : Lookup(p)' = Lookup(p)
  <2>1. TypeOK'
    <3>1. pages' \subseteq Frame
      BY <1>6 DEF TypeOK, NewFrame
    <3>2. tables' \in [Frame -> [TableIndex -> Entry]] /\ pld' = pld
      BY <1>6 DEF EntryInstalled
    <3> QED
      BY <1>3, <1>4, <3>1, <3>2 DEF TypeOK
  <2>2. Tree'
    BY <1>2, <1>6, TreeAfterPmd
  <2>3. PldEntry' = PldEntry
    BY <1>1, <1>6 DEF PldEntry, EntryInstalled
  <2>4. PmdEntry'.present /\ PmdEntry'.page_addr = f
    BY <1>1, <1>2, <1>6, <2>3, EntriesAfterInstall DEF PmdEntry
  <2>5. ~PteEntry'.present
    BY <1>1, <1>2, <1>6, <2>4, EntryTypes DEF PteEntry, NewFrame
  <2>6. Stage'
    BY <1>2, <1>3, <2>3, <2>4, <2>5 DEF Stage
  <2>7. \A p \in VPage : Lookup(p)' = Lookup(p)
    BY <1>2, <1>6, LookupAfterPmd
  <2> QED
    BY <2>1, <2>2, <2>6, <2>7
<1>7. CASE ~PmdEntry.present
  <2>1. PICK f \in Frame :
          /\ AllocPage(f)
          /\ tables' = [tables EXCEPT
                          ![f] = NewTable(f),
                          ![PldEntry.page_addr][PmdIdx(CurPage)] =
                              PresentEntry(f, call.rwx)]
    BY <1>7 DEF AddPmd
  <2>2. pld' = pld
    BY <1>7 DEF AddPmd
  <2>3. NewFrame(f) /\ EntryInstalled(PldEntry.page_addr, PmdIdx(CurPage), f)
    BY <1>2, <1>7, <2>1, <2>2, InstallEffect DEF PmdEntry
  <2> QED
    BY <1>6, <1>7, <2>3
<1> QED
  BY <1>5, <1>7 DEF AddPmd

\* What Return does to the variables that are not the directory's.
LEMMA ReturnStep ==
    ASSUME TypeOK, Stage, pc = "pte", NEW r \in BOOLEAN, Return(r), UNCHANGED call
    PROVE  /\ pc' \in {"idle", "pld"} /\ i' \in Nat /\ ret' = r
           /\ outcome' \in {"running", "ok", "exception"}
           /\ pc' = "pld" => outcome' = "running" /\ i' < call'.num
           /\ call.op = "map_range" =>
                 \/ r /\ i' = i + 1
                 \/ ~r /\ i' = i /\ outcome' = "exception"
           /\ call.op = "map_range" /\ outcome' = "ok" => i' = call.num
           /\ ~r /\ call.op = "map_range" => i' = i
<1>1. i \in Nat /\ call.num \in Nat /\ i < call.num /\ outcome = "running"
  BY DEF TypeOK, Call, Stage
<1>2. call.op \in {"add_page", "map_range"}
  BY DEF TypeOK, Call
<1>3. CASE call.op = "add_page"
  BY <1>1, <1>3 DEF Return
<1>4. CASE call.op = "map_range" /\ ~r
  BY <1>1, <1>4 DEF Return
<1>5. CASE call.op = "map_range" /\ r
  BY <1>1, <1>5 DEF Return
<1> QED
  BY <1>2, <1>3, <1>4, <1>5

\* A step at the PTE either finds the page mapped, or maps it and no other.
LEMMA PteStep ==
    ASSUME TypeOK, Tree, Stage, AddPte
    PROVE  /\ TypeOK' /\ Tree' /\ Stage'
           /\ ret' <=> ~Lookup(CurPage).present
           /\ \A p \in VPage :
                 \/ Lookup(p)' = Lookup(p) /\ (p = CurPage => Lookup(p).present)
                 \/ /\ p = CurPage /\ ~Lookup(p).present
                    /\ \E f \in Frame : Lookup(p)' = PresentEntry(f, call.rwx)
<1> DEFINE r == ret \/ ~PteEntry.present
<1>1. /\ CurPage \in VPage
      /\ PteIdx(CurPage) \in TableIndex
      /\ PldEntry.present /\ PmdEntry.present
      /\ PmdEntry.page_addr \in PteFrames
      /\ PmdEntry.page_addr \in pages
  BY CurEntries, CurPageInRange DEF AddPte, Stage
<1>2. r \in BOOLEAN /\ (r <=> ~PteEntry.present)
  <2>1. ret \in BOOLEAN
    BY DEF TypeOK
  <2>2. ret => ~PteEntry.present
    BY DEF AddPte, Stage
  <2> QED
    BY <2>1, <2>2
<1>3. r <=> ~Lookup(CurPage).present
  BY <1>1, <1>2, CurEntries, EntryTypes
<1>4. pc = "pte" /\ Return(r) /\ call' = call
  BY DEF AddPte
<1>5. /\ pc' \in {"idle", "pld"} /\ i' \in Nat /\ ret' = r
      /\ outcome' \in {"running", "ok", "exception"}
      /\ pc' = "pld" => outcome' = "running" /\ i' < call'.num
  BY <1>2, <1>4, ReturnStep
<1>6. Stage'
  BY <1>5 DEF Stage
<1>7. CASE PteEntry.present /\ UNCHANGED dir
  <2>1. TypeOK'
    BY <1>2, <1>4, <1>5, <1>7 DEF TypeOK, dir
  <2>2. Tree'
    BY <1>7, TreeUnchanged
  <2>3. \A p \in VPage : Lookup(p)' = Lookup(p)
    BY <1>7 DEF Lookup, dir
  <2> QED
    BY <1>2, <1>3, <1>5, <1>6, <1>7, <2>1, <2>2, <2>3
<1>8. CASE ~PteEntry.present
  <2>1. PICK f \in Frame :
          /\ AllocPage(f)
          /\ tables' = [tables EXCEPT
                          ![f] = NewTable(f),
                          ![PmdEntry.page_addr][PteIdx(CurPage)] =
                              PresentEntry(f, call.rwx)]
    BY <1>8 DEF AddPte
  <2>2. pld' = pld
    BY <1>8 DEF AddPte
  <2>3. NewFrame(f) /\ EntryInstalled(PmdEntry.page_addr, PteIdx(CurPage), f)
    BY <1>1, <1>8, <2>1, <2>2, InstallEffect DEF PteEntry
  <2>4. TypeOK'
    <3>1. pages' \subseteq Frame
      BY <2>3 DEF TypeOK, NewFrame
    <3>2. tables' \in [Frame -> [TableIndex -> Entry]]
      BY <2>3 DEF EntryInstalled
    <3> QED
      BY <1>2, <1>4, <1>5, <2>2, <3>1, <3>2 DEF TypeOK
  <2>5. Tree'
    BY <1>1, <2>3, TreeAfterPte
  <2>6. PICK q \in VPage : q = CurPage
    BY <1>1
  <2>7. /\ Lookup(q)' = PresentEntry(f, call.rwx)
        /\ \A p \in VPage \ {q} : Lookup(p)' = Lookup(p)
    BY <1>1, <2>3, <2>6, LookupAfterPte DEF PldEntry, PmdEntry
  <2> QED
    BY <1>2, <1>3, <1>5, <1>6, <1>8, <2>4, <2>5, <2>6, <2>7
<1> QED
  BY <1>7, <1>8 DEF AddPte

\* The steps that leave the directory alone: a call comes in, an exception
\* goes out, or nothing happens.
LEMMA OtherStep ==
    ASSUME TypeOK, Tree, Stage,
           \/ \E start \in Starts, rwx \in PermChoices : AddPageCall(start, rwx)
           \/ \E start \in Starts, num \in RangeSizes, rwx \in PermChoices :
                 MapRangeCall(start, num, rwx)
           \/ AllocThrows
           \/ UNCHANGED vars
    PROVE  UNCHANGED dir /\ TypeOK' /\ Tree' /\ Stage'
<1>1. UNCHANGED dir
  BY DEF AddPageCall, MapRangeCall, AllocThrows, vars, dir
<1>2. Tree'
  BY <1>1, TreeUnchanged
<1>3. ASSUME NEW start \in Starts, NEW rwx \in PermChoices, AddPageCall(start, rwx)
      PROVE  TypeOK' /\ Stage'
  BY <1>1, <1>3, CallersAssumption DEF TypeOK, Stage, AddPageCall, Call, dir
<1>4. ASSUME NEW start \in Starts, NEW num \in RangeSizes, NEW rwx \in PermChoices,
             MapRangeCall(start, num, rwx)
      PROVE  TypeOK' /\ Stage'
  BY <1>1, <1>4, CallersAssumption DEF TypeOK, Stage, MapRangeCall, Call, dir
<1>5. CASE AllocThrows
  BY <1>1, <1>2, <1>5 DEF TypeOK, Stage, AllocThrows, dir
<1>6. CASE UNCHANGED vars
  <2>1. TypeOK'
    BY <1>6 DEF TypeOK, vars, dir
  <2>2. PldEntry' = PldEntry /\ PmdEntry' = PmdEntry /\ PteEntry' = PteEntry
    BY <1>6 DEF PldEntry, PmdEntry, PteEntry, CurPage, AddrOf, vars, dir
  <2>3. Stage'
    BY <1>6, <2>2 DEF Stage, vars
  <2> QED
    BY <1>1, <1>2, <2>1, <2>3
<1> QED
  BY <1>1, <1>2, <1>3, <1>4, <1>5, <1>6

\* What any step does to the translations.
LookupStep ==
    \A p \in VPage :
        \/ Lookup(p)' = Lookup(p)
        \/ /\ AddPte /\ p = CurPage /\ ~Lookup(p).present
           /\ \E f \in Frame : Lookup(p)' = PresentEntry(f, call.rwx)

LEMMA StepEffect ==
    ASSUME TypeOK, Tree, Stage, [Next]_vars
    PROVE  TypeOK' /\ Tree' /\ Stage' /\ LookupStep
<1>1. CASE AddPld
  BY <1>1, PldStep DEF LookupStep
<1>2. CASE AddPmd
  BY <1>2, PmdStep DEF LookupStep
<1>3. CASE AddPte
  BY <1>3, PteStep DEF LookupStep
<1>4. ASSUME \/ \E start \in Starts, rwx \in PermChoices : AddPageCall(start, rwx)
             \/ \E start \in Starts, num \in RangeSizes, rwx \in PermChoices :
                   MapRangeCall(start, num, rwx)
             \/ AllocThrows
             \/ UNCHANGED vars
      PROVE  TypeOK' /\ Tree' /\ Stage' /\ LookupStep
  <2>1. UNCHANGED dir /\ TypeOK' /\ Tree' /\ Stage'
    BY <1>4, OtherStep
  <2>2. \A p \in VPage : Lookup(p)' = Lookup(p)
    BY <2>1 DEF Lookup, dir
  <2> QED
    BY <2>1, <2>2 DEF LookupStep
<1> QED
  BY <1>1, <1>2, <1>3, <1>4 DEF Next, AddPageStep

\* Pages that map_range has passed stay as they are.
LEMMA PassedPagesKept ==
    ASSUME TypeOK, RangeMapped, LookupStep, UNCHANGED call,
           call.op = "map_range", NEW k \in 0 .. i - 1
    PROVE  /\ Lookup(PageOf(AddrOf(k)))'.present
           /\ Lookup(PageOf(AddrOf(k)))'.rwx = call.rwx
<1>1. PageOf(AddrOf(k)) \in VPage
  BY PageInRange DEF TypeOK, Call, AddrOf
<1>2. PICK p \in VPage : p = PageOf(AddrOf(k))
  BY <1>1
<1>3. Lookup(p).present /\ Lookup(p).rwx = call.rwx
  BY <1>2 DEF RangeMapped
<1>4. Lookup(p)' = Lookup(p)
  BY <1>3 DEF LookupStep
<1>5. PageOf(AddrOf(k))' = p
  BY <1>2 DEF PageOf, AddrOf
<1>6. Lookup(PageOf(AddrOf(k)))' = Lookup(p)'
  BY <1>5 DEF Lookup
<1> QED
  BY <1>3, <1>4, <1>6

LEMMA NextInv == IInv /\ [Next]_vars => IInv'
<1> SUFFICES ASSUME IInv, [Next]_vars PROVE IInv'
  OBVIOUS
<1>1. TypeOK' /\ Tree' /\ Stage' /\ LookupStep
  BY StepEffect DEF IInv
<1>2. i \in Nat /\ call.num \in Nat
  BY DEF IInv, TypeOK, Call
<1>3. CASE AddPld \/ AddPmd \/ AllocThrows \/ UNCHANGED vars
  <2>1. UNCHANGED <<call, i>>
    BY <1>3 DEF AddPld, AddPmd, AllocThrows, vars
  <2>2. Asked'
    BY <1>3, <2>1 DEF IInv, Asked, AddPld, AddPmd, AllocThrows, vars
  <2>3. outcome' = "ok" => outcome = "ok"
    BY <1>3 DEF AddPld, AddPmd, AllocThrows, vars
  <2>4. RangeMapped'
    <3> SUFFICES ASSUME call.op = "map_range" PROVE RangeMapped'
      BY <2>1 DEF RangeMapped
    <3>1. \A k \in 0 .. i - 1 :
            /\ Lookup(PageOf(AddrOf(k)))'.present
            /\ Lookup(PageOf(AddrOf(k)))'.rwx = call.rwx
      BY <1>1, <2>1, PassedPagesKept DEF IInv
    <3>2. outcome' = "ok" => i' = call'.num
      BY <2>1, <2>3 DEF IInv, RangeMapped
    <3> QED
      BY <2>1, <3>1, <3>2 DEF RangeMapped
  <2> QED
    BY <1>1, <2>2, <2>4 DEF IInv
<1>4. CASE AddPte
  <2>1. Asked'
    BY <1>4 DEF IInv, Asked, AddPte
  <2>2. /\ call' = call
        /\ call.op = "map_range" =>
              \/ ret' /\ i' = i + 1
              \/ ~ret' /\ i' = i
        /\ call.op = "map_range" /\ outcome' = "ok" => i' = call.num
    <3>1. (ret \/ ~PteEntry.present) \in BOOLEAN /\ pc = "pte" /\ call' = call
          /\ Return(ret \/ ~PteEntry.present)
      BY <1>4 DEF AddPte
    <3> QED
      BY <3>1, ReturnStep DEF IInv
  <2>3. ASSUME call.op = "map_range" PROVE RangeMapped'
    <3>1. \A k \in 0 .. i - 1 :
            /\ Lookup(PageOf(AddrOf(k)))'.present
            /\ Lookup(PageOf(AddrOf(k)))'.rwx = call.rwx
      BY <1>1, <2>2, <2>3, PassedPagesKept DEF IInv
    <3>2. ASSUME ret', NEW k \in Nat, k = i
          PROVE  /\ Lookup(PageOf(AddrOf(k)))'.present
                 /\ Lookup(PageOf(AddrOf(k)))'.rwx = call.rwx
      <4>1. PICK p \in VPage : p = CurPage
        BY CurPageInRange DEF IInv
      <4>2. PICK f \in Frame : Lookup(p)' = PresentEntry(f, call.rwx)
        BY <1>4, <3>2, <4>1, PteStep DEF IInv
      <4>3. PageOf(AddrOf(k))' = p
        BY <2>2, <3>2, <4>1 DEF CurPage, PageOf, AddrOf
      <4>4. Lookup(PageOf(AddrOf(k)))' = Lookup(p)'
        BY <4>3 DEF Lookup
      <4> QED
        BY <4>2, <4>4 DEF PresentEntry
    <3>3. \A k \in 0 .. i' - 1 :
            /\ Lookup(PageOf(AddrOf(k)))'.present
            /\ Lookup(PageOf(AddrOf(k)))'.rwx = call.rwx
      <4> TAKE k \in 0 .. i' - 1
      <4>1. k \in Nat /\ (k \in 0 .. i - 1 \/ (ret' /\ k = i))
        BY <1>2, <2>2, <2>3
      <4> QED
        BY <3>1, <3>2, <4>1
    <3> QED
      BY <2>2, <2>3, <3>3 DEF RangeMapped
  <2>4. ASSUME call.op # "map_range" PROVE RangeMapped'
    <3>1. call'.op # "map_range"
      BY <2>2, <2>4
    <3> QED
      BY <3>1 DEF RangeMapped
  <2> QED
    BY <1>1, <2>1, <2>3, <2>4 DEF IInv
<1>5. ASSUME NEW start \in Starts, NEW rwx \in PermChoices, AddPageCall(start, rwx)
      PROVE  IInv'
  BY <1>1, <1>5 DEF IInv, Asked, RangeMapped, AddPageCall
<1>6. ASSUME NEW start \in Starts, NEW num \in RangeSizes, NEW rwx \in PermChoices,
             MapRangeCall(start, num, rwx)
      PROVE  IInv'
  <2>1. Asked' /\ RangeMapped'
    BY <1>6 DEF Asked, RangeMapped, MapRangeCall
  <2> QED
    BY <1>1, <2>1 DEF IInv
<1> QED
  BY <1>3, <1>4, <1>5, <1>6 DEF Next, AddPageStep

-----------------------------------------------------------------------------
(* The theorems.                                                           *)

\* What holds in every state, and is kept by every step: the types, the shape
\* of the tree, what the levels done so far have left to the next one, and
\* what map_range has mapped so far.
THEOREM Invariance == Spec => []IInv
BY InitInv, NextInv, PTL DEF Spec

\* The directory and the call in progress keep their types, whatever calls
\* are made and wherever allocations fail.
THEOREM TypeCorrect == Spec => []TypeOK
<1>1. IInv => TypeOK
  BY DEF IInv
<1> QED
  BY <1>1, Invariance, PTL

\* Every page alloc_page handed out is in the tree once, in one role.
THEOREM EachFrameOnce == Spec => []FramesUsedOnce
<1>1. IInv => FramesUsedOnce
  BY DEF IInv, Tree
<1> QED
  BY <1>1, Invariance, PTL

\* Two pages whose walks end at one frame took the same three turns.
LEMMA TreeNoAliasing ==
    ASSUME TypeOK, Tree
    PROVE  NoAliasing
<1> SUFFICES ASSUME NEW p \in VPage, NEW q \in VPage,
                    Lookup(p).present, Lookup(q).present,
                    Lookup(p).page_addr = Lookup(q).page_addr
             PROVE  p = q
  BY DEF NoAliasing
<1> DEFINE a(v) == pld[PldIdx(v)]
           b(v) == tables[a(v).page_addr][PmdIdx(v)]
           c(v) == tables[b(v).page_addr][PteIdx(v)]
<1>1. ASSUME NEW v \in VPage, Lookup(v).present
      PROVE  /\ PteIdx(v) \in TableIndex /\ PmdIdx(v) \in TableIndex /\ PldIdx(v) \in PldIndex
             /\ a(v).present /\ b(v).present /\ c(v).present
             /\ a(v).page_addr \in PmdFrames
             /\ b(v).page_addr \in PteFrames
             /\ Lookup(v) = c(v)
  <2>1. PteIdx(v) \in TableIndex /\ PmdIdx(v) \in TableIndex /\ PldIdx(v) \in PldIndex
    BY IndexRange
  <2>2. Lookup(v) = IF a(v).present /\ b(v).present /\ c(v).present THEN c(v) ELSE NoEntry
    BY DEF Lookup
  <2>3. a(v).present /\ b(v).present /\ c(v).present /\ Lookup(v) = c(v)
    BY <1>1, <2>2, EntryTypes
  <2> QED
    BY <2>1, <2>3, Walk
<1>2. b(p).page_addr = b(q).page_addr /\ PteIdx(p) = PteIdx(q)
  <2>1. /\ b(p).page_addr \in PteFrames /\ PteIdx(p) \in TableIndex /\ c(p).present
        /\ b(q).page_addr \in PteFrames /\ PteIdx(q) \in TableIndex /\ c(q).present
        /\ c(p).page_addr = c(q).page_addr
    BY <1>1
  <2> HIDE DEF a, b
  <2> QED
    BY <2>1, SoleOwner
<1>3. a(p).page_addr = a(q).page_addr /\ PmdIdx(p) = PmdIdx(q)
  <2>1. /\ a(p).page_addr \in PmdFrames /\ PmdIdx(p) \in TableIndex /\ b(p).present
        /\ a(q).page_addr \in PmdFrames /\ PmdIdx(q) \in TableIndex /\ b(q).present
    BY <1>1
  <2> HIDE DEF a
  <2> QED
    BY <1>2, <2>1 DEF Tree, FramesUsedOnce, OneOwner
<1>4. PldIdx(p) = PldIdx(q)
  BY <1>1, <1>3 DEF Tree, FramesUsedOnce, OneOwner
<1> QED
  BY <1>2, <1>3, <1>4, IndexUnique

\* No two virtual pages are ever translated to one host frame.
THEOREM NoTwoPagesShare == Spec => []NoAliasing
<1>1. IInv => NoAliasing
  BY TreeNoAliasing DEF IInv
<1> QED
  BY <1>1, Invariance, PTL

\* map_range leaves every page it has passed mapped as it was asked to.
THEOREM RangesMapped == Spec => []RangeMapped
<1>1. IInv => RangeMapped
  BY DEF IInv
<1> QED
  BY <1>1, Invariance, PTL

\* A translation, once there, never changes.
THEOREM TranslationsStable == Spec => MappingsAreStable
<1>1. IInv /\ [Next]_vars
        => [\A p \in VPage : Lookup(p).present => Lookup(p)' = Lookup(p)]_vars
  BY StepEffect DEF IInv, LookupStep
<1> QED
  BY <1>1, Invariance, PTL DEF Spec, MappingsAreStable

\* map_range goes past a page exactly when this call has just mapped it, also
\* after calls that threw halfway.
THEOREM RangesAreNew == Spec => RangeIsNew
<1>1. ASSUME IInv, Next, NEW p \in VPage,
             pc = "pte", call.op = "map_range", p = CurPage
      PROVE  i' = i + 1 <=> ~Lookup(p).present /\ Lookup(p)'.present
  <2>1. i \in Nat
    BY <1>1 DEF IInv, TypeOK
  <2>2. CASE AllocThrows
    <3>1. i' = i /\ Lookup(p)' = Lookup(p)
      BY <2>2 DEF AllocThrows, Lookup, dir
    <3> QED
      BY <2>1, <3>1
  <2>3. CASE AddPte
    <3>1. ret' <=> ~Lookup(p).present
      BY <1>1, <2>3, PteStep DEF IInv
    <3>2. \/ ret' /\ i' = i + 1
          \/ ~ret' /\ i' = i
      <4>1. (ret \/ ~PteEntry.present) \in BOOLEAN /\ pc = "pte" /\ call' = call
            /\ Return(ret \/ ~PteEntry.present)
        BY <2>3 DEF AddPte
      <4> QED
        BY <1>1, <4>1, ReturnStep DEF IInv
    <3>3. ret' => Lookup(p)'.present
      <4> SUFFICES ASSUME ret' PROVE Lookup(p)'.present
        OBVIOUS
      <4>1. PICK f \in Frame : Lookup(p)' = PresentEntry(f, call.rwx)
        BY <1>1, <2>3, PteStep DEF IInv
      <4> QED
        BY <4>1 DEF PresentEntry
    <3> QED
      BY <2>1, <3>1, <3>2, <3>3
  <2> QED
    BY <1>1, <2>2, <2>3
       DEF Next, AddPageStep, AddPageCall, MapRangeCall, AddPld, AddPmd
<1>2. IInv /\ [Next]_vars
        => [\A p \in VPage : pc = "pte" /\ call.op = "map_range" /\ p = CurPage =>
              (i' = i + 1 <=> ~Lookup(p).present /\ Lookup(p)'.present)]_vars
  BY <1>1
<1> QED
  BY <1>2, Invariance, PTL DEF Spec, RangeIsNew

\* The tree implements the flat, grow-only map of AddressSpace.
THEOREM TreeImplementsMap == Spec => ImplementsAddressSpace
<1> DEFINE table == [p \in VPage |-> Lookup(p)]
<1>1. Init => AS!Init
  <2> SUFFICES ASSUME Init PROVE table = [p \in VPage |-> NoEntry]
    BY DEF AS!Init, AS!NoEntry, NoEntry
  <2>1. \A p \in VPage : ~pld[PldIdx(p)].present
    BY IndexRange, EntryTypes DEF Init
  <2> QED
    BY <2>1 DEF Lookup
<1>2. (TypeOK /\ Tree => NoAliasing)'
  <2>1. TypeOK /\ Tree => NoAliasing
    BY TreeNoAliasing
  <2> QED
    BY <2>1, PTL
<1>3. IInv /\ [Next]_vars => [AS!Next]_table
  <2> SUFFICES ASSUME IInv, [Next]_vars PROVE [AS!Next]_table
    OBVIOUS
  <2>1. LookupStep
    BY StepEffect DEF IInv
  <2>2. CASE \A p \in VPage : Lookup(p)' = Lookup(p)
    BY <2>2
  <2>3. ASSUME NEW p \in VPage, NEW f \in Frame,
               AddPte, p = CurPage, ~Lookup(p).present,
               Lookup(p)' = PresentEntry(f, call.rwx)
        PROVE  AS!Next
    <3>1. \A q \in VPage \ {p} : Lookup(q)' = Lookup(q)
      BY <2>1, <2>3 DEF LookupStep
    <3>2. /\ table'[p].present /\ table'[p].page_addr = f
          /\ table'[p].rwx = call.rwx
      BY <2>3, EntryTypes DEF PresentEntry
    <3>3. table' = [table EXCEPT ![p] = table'[p]]
      BY <3>1
    <3>4. call.rwx \in PermChoices
      BY <2>3 DEF IInv, Asked, AddPte
    <3>5. \A q \in VPage : Lookup(q).present => Lookup(q).page_addr # f
      <4> SUFFICES ASSUME NEW q \in VPage, Lookup(q).present, Lookup(q).page_addr = f
                   PROVE  FALSE
        OBVIOUS
      <4>1. q # p
        BY <2>3
      <4>2. Lookup(q)' = Lookup(q)
        BY <3>1, <4>1
      <4>3. NoAliasing'
        BY StepEffect, <1>2 DEF IInv
      <4> QED
        BY <3>2, <4>1, <4>2, <4>3 DEF NoAliasing
    <3>6. f \notin AS!UsedFrames
      BY <3>5 DEF AS!UsedFrames, AS!Mapped
    <3>7. AS!Map(p)
      BY <3>2, <3>3, <3>4, <3>6 DEF AS!Map
    <3> QED
      BY <2>3, <3>7 DEF AS!Next, AS!Mapped
  <2> QED
    BY <2>1, <2>2, <2>3 DEF LookupStep
<1> QED
  BY <1>1, <1>3, Invariance, PTL DEF Spec, ImplementsAddressSpace, AS!Spec
==============================================================================
