---------------------------- MODULE MCExecutionGate ----------------------------
(* Small instance of ExecutionGate for TLC. *)
EXTENDS ExecutionGate, TLC

CONSTANTS d1, p1

MCRequest == [decision \in Decisions |->
                IF decision = d1 THEN [action |-> "purchase.create", payload |-> p1]
                ELSE [action |-> "other", payload |-> p1]]

Symmetry == Permutations(Tokens) \cup Permutations(Threads)
================================================================================
