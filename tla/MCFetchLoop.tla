----------------------------- MODULE MCFetchLoop -----------------------------
(* FetchLoop on its own, entered as by default: main maps the program at 0   *)
(* and enters it there.  Four pages of 8 bytes, instructions of up to 3.     *)
EXTENDS FetchLoop

MCFrame == 1 .. 4
MCNullFrame == 0

DefaultLaunch == {<<[p \in VPage |-> PresentEntry(p + 1, PermBits)], 0>>}
NoTargets(tbl, a, sz) == {}
SelfTarget(tbl, a, sz) == {a}
==============================================================================
