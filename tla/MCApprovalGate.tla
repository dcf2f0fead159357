----------------------------- MODULE MCApprovalGate -----------------------------
(* Small instance of ApprovalRaces for TLC: clients post one event of each shape  *)
(* that the business rules or the projection single out.                         *)
EXTENDS ApprovalRaces, TLC

CONSTANTS gate, second, resume, complete, d1

Client(id, type, status, decision) ==
  [id |-> id, type |-> type, step |-> "other",
   requires_approval |-> status # "not_required", status |-> status,
   decision_id |-> decision, resolved_by |-> status \in {"approved", "rejected"},
   resolved_at |-> status \in {"approved", "rejected"}, answers |-> None]

MCClientEvents ==
  {Client(gate, "approval_requested", "pending", None),
   Client(second, "approval_requested", "pending", d1),
   Client(second, "action", "approved", None),
   Client(second, "approval_resolved", "rejected", d1),
   Client(complete, "approval_resolved", "approved", None),
   Client(complete, "approval_resolved", "pending", None),
   Client(resume, "action", "not_required", None),
   Client(resume, "summary", "not_required", None)}

ThreadSymmetry == Permutations(Threads)

MCIdPrefixes == {<<gate, second>>}
================================================================================
