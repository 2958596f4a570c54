--------------------------------- MODULE Mmu ---------------------------------
(***************************************************************************)
(* MMU::read, write and write_many (mmu.h, mmu.cc) over the pages an       *)
(* AddressSpace maps: an access that crosses a page is carried out byte by *)
(* byte over two host pages.                                               *)
(***************************************************************************)
EXTENDS PageEntry, FiniteSets

CONSTANTS
    NumVPages,    \* virtual pages in the address space   (2^20)
    PageSize,     \* page_size                            (4096)
    Byte,
    Addrs,        \* addresses instructions access
    ReadSizes,    \* sizeof(T) of the reads
    WriteSizes,   \* sizeof(T) of the writes
    Words(_),     \* values of T bytes that are written
    Images,       \* data passed to write_many
    LoadStarts,   \* addresses passed to write_many
    PermChoices,  \* permissions pages are mapped with
    HostMemory    \* what the frames held before they were allocated

TotalBytes == NumVPages * PageSize
VAddr == 0 .. TotalBytes - 1
VPage == 0 .. NumVPages - 1
Offset == 0 .. PageSize - 1

ASSUME SizesAssumption ==
    /\ NumVPages \in Nat \ {0, 1}
    /\ PageSize \in Nat \ {0}
    /\ PageSize % 16 = 0
    /\ 0 \in Byte
    /\ HostMemory \in [Frame -> [Offset -> Byte]]
    /\ Addrs \subseteq VAddr
    /\ LoadStarts \subseteq VAddr
    /\ PermChoices \subseteq SUBSET PermBits
    /\ ReadSizes \cup WriteSizes \subseteq {1, 2, 4, 8}

\* A value of T bytes is the function from byte numbers, lowest first.
Word(T) == [0 .. T - 1 -> Byte]

\* The number of bytes of an image is a uint32.
ASSUME DataAssumption ==
    /\ \A T \in WriteSizes : Words(T) \subseteq Word(T)
    /\ \A data \in Images : \E n \in 0 .. TotalBytes - 1 : data \in Word(n)

VARIABLES
    table,   \* virtual page -> the entry get_pte_from_vaddr finds for it
    mem,     \* frame -> the bytes of the host page
    result   \* the last operation: op, addr, size, ok and the bytes moved

vars == <<table, mem, result>>

TypeOK ==
    /\ table \in [VPage -> Entry]
    /\ mem \in [Frame -> [Offset -> Byte]]
    /\ result.op \in {"none", "map", "read", "write", "load"}
    /\ result.ok \in BOOLEAN
    /\ result.op = "read" /\ result.ok => result.val \in Word(result.size)

-----------------------------------------------------------------------------
PageOf(a) == a \div PageSize
Wrap(a) == a % TotalBytes

\* get_pte_from_vaddr
Pte(a) == table[PageOf(Wrap(a))]

\* page_mask is 0xf000: the lowest four bits of the page number are compared.
MaskedPage(a) == PageOf(a) % 16
Split(a, T) == MaskedPage(a + T - 1) # MaskedPage(a)

\* Slip: the second page of a split is looked up but not checked.
AccessFirstOnly(a, T, perm) ==
    /\ Split(a, T) => Pte(a + T).present
    /\ Pte(a).present /\ perm \in Pte(a).rwx

\* The checks of read and write: the second page of a split first, found
\* through the address just past the access, then the first.
Access(a, T, perm) ==
    /\ Split(a, T) => Pte(a + T).present /\ perm \in Pte(a + T).rwx
    /\ Pte(a).present /\ perm \in Pte(a).rwx

\* Slip: the number of bytes on the first page is one too small.
SplitPointOff(a, T) == T - 1 - ((a + T - 1) % 16)

SplitPoint(a, T) == T - ((a + T - 1) % 16)

\* Where byte k of the access lives: the byte pointer is moved to the second
\* page when the loop gets to split_point - 1.
InSecond(a, T, k) == Split(a, T) /\ k >= SplitPoint(a, T) - 1
FrameOf(a, T, k) == IF InSecond(a, T, k) THEN Pte(a + T).page_addr ELSE Pte(a).page_addr
OffsetOf(a, T, k) == IF InSecond(a, T, k) THEN k - (SplitPoint(a, T) - 1)
                                          ELSE (a % PageSize) + k

\* val <<= 8; val += *curr: the first byte read ends up highest.
ShiftIn(bytes, T) == [k \in 0 .. T - 1 |-> bytes[T - 1 - k]]

\* htonl swaps the bytes of a 32-bit value, whatever T is; for 8 bytes both
\* halves are swapped and exchanged.
FlipEndianness(val, T) ==
    LET width == IF T > 4 THEN 8 ELSE 4
        extended == [k \in 0 .. width - 1 |-> IF k < T THEN val[k] ELSE 0]
    IN  [k \in 0 .. T - 1 |-> extended[width - 1 - k]]

Bytes(a, T) == [k \in 0 .. T - 1 |-> mem[FrameOf(a, T, k)][OffsetOf(a, T, k)]]

ReadValue(a, T) ==
    IF Split(a, T) THEN FlipEndianness(ShiftIn(Bytes(a, T), T), T) ELSE Bytes(a, T)

-----------------------------------------------------------------------------
Init ==
    /\ table = [p \in VPage |-> NoEntry]
    /\ mem = HostMemory
    /\ result = [op |-> "none", addr |-> 0, size |-> 0, ok |-> TRUE, val |-> <<>>]

\* add_page, as AddressSpace has it: a page nobody has, zeroed.
MapPage(p, f, perms) ==
    /\ ~table[p].present
    /\ \A q \in VPage : table[q].present => table[q].page_addr # f
    /\ table' = [table EXCEPT ![p] = PresentEntry(f, perms)]
    /\ mem' = [mem EXCEPT ![f] = [o \in Offset |-> 0]]
    /\ result' = [op |-> "map", addr |-> p * PageSize, size |-> 0, ok |-> TRUE, val |-> <<>>]

\* read<T>(addr)
Read(a, T) ==
    /\ result' = [op |-> "read", addr |-> a, size |-> T, ok |-> Access(a, T, "r"),
                  val |-> IF Access(a, T, "r") THEN ReadValue(a, T) ELSE <<>>]
    /\ UNCHANGED <<table, mem>>

\* write<T>(addr, val)
Write(a, T, val) ==
    /\ result' = [op |-> "write", addr |-> a, size |-> T, ok |-> Access(a, T, "w"),
                  val |-> val]
    /\ mem' = IF Access(a, T, "w")
              THEN [f \in Frame |-> [o \in Offset |->
                      IF \E k \in 0 .. T - 1 : FrameOf(a, T, k) = f /\ OffsetOf(a, T, k) = o
                      THEN val[CHOOSE k \in 0 .. T - 1 :
                                  FrameOf(a, T, k) = f /\ OffsetOf(a, T, k) = o]
                      ELSE mem[f][o]]]
              ELSE mem
    /\ UNCHANGED table

\* write_many(start, data, num): page after page without a look at the
\* permissions; the first page that is not there throws, and what was copied
\* before it stays.
WriteMany(start, data) ==
    LET num == Cardinality(DOMAIN data)
        chunks == 0 .. (num - 1) \div PageSize
        copied == {c \in chunks : \A d \in 0 .. c : Pte(start + d * PageSize).present}
        aligned == start % PageSize = 0
        Source(f, o) == {c * PageSize + o : c \in
                           {c \in copied : Pte(start + c * PageSize).page_addr = f}}
                        \cap DOMAIN data
    IN  /\ result' = [op |-> "load", addr |-> start, size |-> num,
                      ok |-> aligned /\ copied = chunks, val |-> data]
        /\ mem' = IF aligned
                  THEN [f \in Frame |-> [o \in Offset |->
                          IF Source(f, o) = {} THEN mem[f][o]
                          ELSE data[CHOOSE k \in Source(f, o) : TRUE]]]
                  ELSE mem
        /\ UNCHANGED table

Next ==
    \/ \E p \in VPage, f \in Frame, perms \in PermChoices : MapPage(p, f, perms)
    \/ \E a \in Addrs, T \in ReadSizes : Read(a, T)
    \/ \E a \in Addrs, T \in WriteSizes : \E val \in Words(T) : Write(a, T, val)
    \/ \E start \in LoadStarts, data \in Images : WriteMany(start, data)

Spec == Init /\ [][Next]_vars
-----------------------------------------------------------------------------
FrameAt(a) == Pte(a).page_addr

\* The page at p is on the host page f.
IsOn(p, f) == table[p].present /\ table[p].page_addr = f

\* Host memory changes only under the guest pages that are on it: by a write
\* where such a page may be written, by the loader whatever its permissions,
\* and otherwise only when it becomes a page.  A split access that asked one of
\* its pages, or one that runs over the end of a host page, would change
\* another.
StoresAreChecked ==
    [][\A f \in Frame : mem'[f] # mem[f] =>
          \/ result'.op = "write" /\ \E p \in VPage : IsOn(p, f) /\ "w" \in table[p].rwx
          \/ result'.op = "load" /\ \E p \in VPage : IsOn(p, f)
          \/ result'.op = "map" /\ \A p \in VPage : ~IsOn(p, f)]_vars

\* Over any two host pages, reads and writes behave as on one flat array.
Flat == INSTANCE FlatMemory WITH
            mapped <- {p \in VPage : table[p].present},
            prot <- [p \in VPage |-> table[p].rwx],
            cell <- [a \in VAddr |-> IF Pte(a).present
                                     THEN mem[FrameAt(a)][a % PageSize] ELSE 0]
ImplementsFlatMemory == Flat!Spec
==============================================================================
