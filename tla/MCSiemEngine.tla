---------------------------- MODULE MCSiemEngine ----------------------------
(* SiemEngine for TLC: the threads of a kind are interchangeable. *)
EXTENDS SiemEngine, TLC

ThreadSymmetry == Permutations(Processors) \cup Permutations(Trainers)
=============================================================================
