-------------------------- MODULE MCCombinedIndex --------------------------
(* Threads and addresses are alike. *)
EXTENDS CombinedIndex, TLC

Alike == Permutations(Thread) \cup Permutations(Object) \cup Permutations(Dir)
=============================================================================
