----------------------------- MODULE MCSqliteStore -----------------------------
(* Small instances of SqliteStore for TLC. *)
EXTENDS SqliteStore, TLC

MCTimes == 1..2

Symmetry == Permutations(Runs) \cup Permutations(EventIds) \cup Permutations(Threads)
================================================================================
