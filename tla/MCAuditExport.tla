----------------------------- MODULE MCAuditExport -----------------------------
(* Small instance of AuditExport for TLC. *)
EXTENDS AuditExport, TLC

MCTimes == 1..3

Symmetry == Permutations(Runs) \cup Permutations(EventIds)
================================================================================
