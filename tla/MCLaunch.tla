------------------------------- MODULE MCLaunch -------------------------------
(* Instances of Launch for TLC: seven pages of 8 bytes, two of data, entered  *)
(* where the loop is right (SafeLaunch) or where nothing is mapped, and files *)
(* that end within a page, at the end of one, and before their first byte.    *)
EXTENDS Launch, FiniteSets

MCFrame == 1 .. 7
MCNullFrame == 0
MCHostMemory == [f \in MCFrame |-> [o \in 0 .. PageSize - 1 |-> 99]]
MCAlloc(used) == {f \in MCFrame \ used : \A g \in MCFrame \ used : f <= g}
NoLaunches == {}
SafeTargets(tbl, a, sz) == {t \in VAddr : SafeTarget(tbl, a, sz, t)}

Prog(file, off, sep, start, entry) ==
    [file |-> file, off |-> off, sep |-> sep, start |-> start, entry |-> entry,
     perms |-> PermBits]

\* Entered on a page the loop is right for.
Run == {Prog(0, 0, 0, 8, 8), Prog(8, 0, 0, 8, 16), Prog(17, 0, 0, 8, 16),
        Prog(13, 5, 0, 16, 16), Prog(5, 5, 0, 16, 16), Prog(11, 2, 3, 0, 8)}

\* With data pages as in the line of main.cc left commented out.
NoExec == {[Prog(7, 0, 0, 8, 8) EXCEPT !.perms = {"r", "w"}]}

\* Entered where nothing is mapped; not aligned; and at the end of the address
\* space, over which program or data wrap.
Fail == {Prog(7, 0, 0, 8, 32), Prog(7, 0, 0, 4, 8), Prog(9, 0, 8, 32, 24), Prog(7, 0, 0, 48, 24)}

MCPrograms == Run \cup NoExec \cup Fail
==============================================================================
