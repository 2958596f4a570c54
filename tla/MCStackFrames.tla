---------------------------- MODULE MCStackFrames ----------------------------
(* A stack of 22 words, begun three words below its upper end or one. *)
EXTENDS StackFrames

MCMapped == 8 .. 29
MCMasks == {{"D2"}, {"other", "A2", "D3"}}
MCInsSize == [k \in {"call", "calls", "trap"} |-> CASE k = "call" -> 5 [] k = "calls" -> 4 [] OTHER -> 2]

\* What FaultsOnlyAtTheEdge is proved from.
ASSUME OnePieceAssumption == StackInOnePiece
==============================================================================
