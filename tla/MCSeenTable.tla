---------------------------- MODULE MCSeenTable ----------------------------
(* Instances of SeenTable: the state constraint is MaxCalls, in Call's guard. *)
EXTENDS SeenTable, TLC

ThreadSymmetry == Permutations(Threads)
=============================================================================
