---------------------------- MODULE MCInMemoryStore ----------------------------
(* Small instances of InMemoryStore for TLC. *)
EXTENDS InMemoryStore, TLC

MCTimes == 1..3

Symmetry == Permutations(Runs) \cup Permutations(EventIds) \cup Permutations(Threads)
================================================================================
