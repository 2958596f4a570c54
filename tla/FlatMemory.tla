------------------------------ MODULE FlatMemory ------------------------------
(***************************************************************************)
(* What the MMU promises the instructions it serves: one flat array of     *)
(* bytes with permissions per page.  A load returns the bytes at the       *)
(* addresses it names, a store replaces exactly those, and an access that  *)
(* is not allowed at every one of its bytes has no effect at all.          *)
(***************************************************************************)
EXTENDS Integers

CONSTANTS
    NumVPages, PageSize,
    ReadSizes, WriteSizes,   \* widths of loads and stores, in bytes
    PermChoices              \* permissions pages are mapped with

VARIABLES
    mapped,   \* pages that are mapped
    prot,     \* page -> its permissions
    cell,     \* address -> byte, 0 while its page is not mapped
    result    \* the last operation: op, addr, size, ok and the bytes moved

TotalBytes == NumVPages * PageSize
VAddr == 0 .. TotalBytes - 1
VPage == 0 .. NumVPages - 1
PageOf(a) == a \div PageSize

\* Addresses are 32 bits wide and wrap: the address k bytes after a, and how
\* many bytes b is after a.
At(a, k) == (a + k) % TotalBytes
Dist(a, b) == (b - a) % TotalBytes

Allowed(a, T, perm) ==
    \A k \in 0 .. T - 1 : PageOf(At(a, k)) \in mapped /\ perm \in prot[PageOf(At(a, k))]

-----------------------------------------------------------------------------
Init ==
    /\ mapped = {}
    /\ prot = [p \in VPage |-> {}]
    /\ cell = [a \in VAddr |-> 0]
    /\ result = [op |-> "none", addr |-> 0, size |-> 0, ok |-> TRUE, val |-> <<>>]

Map ==
    /\ result'.op = "map"
    /\ \E p \in VPage \ mapped, perms \in PermChoices :
          mapped' = mapped \cup {p} /\ prot' = [prot EXCEPT ![p] = perms]
    /\ UNCHANGED cell

Read ==
    LET a == result'.addr
        T == result'.size
    IN  /\ result'.op = "read"
        /\ T \in ReadSizes
        /\ result'.ok <=> Allowed(a, T, "r")
        /\ result'.ok => result'.val = [k \in 0 .. T - 1 |-> cell[At(a, k)]]
        /\ UNCHANGED <<mapped, prot, cell>>

Write ==
    LET a == result'.addr
        T == result'.size
    IN  /\ result'.op = "write"
        /\ T \in WriteSizes
        /\ result'.ok <=> Allowed(a, T, "w")
        /\ cell' = IF result'.ok
                   THEN [b \in VAddr |-> IF Dist(a, b) < T THEN result'.val[Dist(a, b)]
                                                           ELSE cell[b]]
                   ELSE cell
        /\ UNCHANGED <<mapped, prot>>

\* The loader copies page by page, whatever the permissions, up to the first
\* page that is not mapped.
Load ==
    LET a == result'.addr
        T == result'.size
        aligned == a % PageSize = 0
        Reached(k) == \A m \in 0 .. k : PageOf(At(a, m)) \in mapped
    IN  /\ result'.op = "load"
        /\ result'.ok <=> aligned /\ \A k \in 0 .. T - 1 : Reached(k)
        /\ cell' = [b \in VAddr |-> IF aligned /\ Dist(a, b) < T /\ Reached(Dist(a, b))
                                    THEN result'.val[Dist(a, b)] ELSE cell[b]]
        /\ UNCHANGED <<mapped, prot>>

Next == Map \/ Read \/ Write \/ Load

Spec == Init /\ [][Next]_<<mapped, prot, cell, result>>
==============================================================================
