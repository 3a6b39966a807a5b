------------------------- MODULE MCDisputeResolver -------------------------
(* The dispute protocol for TLC: agents are interchangeable, and so are the *)
(* challengers.                                                             *)
EXTENDS DisputeResolver, TLC

NetworkSymmetry == Permutations(Agents) \cup Permutations(Challengers)
=============================================================================
