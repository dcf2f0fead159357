------------------------------- MODULE MCScanRun -------------------------------
(* Small instance of ScanRun for TLC: one event of every shape that the code   *)
(* tells apart.                                                                *)
EXTENDS ScanRun, TLC

Event(id, type, step, requires, status, by, at) ==
  [id |-> id, type |-> type, step |-> step, requires_approval |-> requires,
   status |-> status, decision_id |-> None, resolved_by |-> by, resolved_at |-> at,
   high_risk |-> FALSE, evidence |-> TRUE]

Risky(id) == [Event(id, "action", "other", FALSE, "not_required", FALSE, FALSE)
                EXCEPT !.high_risk = TRUE, !.evidence = FALSE]

Shapes(id) ==
  {Event(id, "action", "other", FALSE, "not_required", FALSE, FALSE),
   Event(id, "action", "other", TRUE, "not_required", FALSE, FALSE),
   Event(id, "approval_requested", "other", TRUE, "pending", FALSE, FALSE),
   Event(id, "action", "other", TRUE, "pending", FALSE, FALSE),
   Event(id, "approval_requested", "run_stopped", TRUE, "pending", FALSE, FALSE),
   Event(id, "approval_resolved", "other", FALSE, "approved", TRUE, TRUE),
   Event(id, "action", "other", TRUE, "approved", TRUE, TRUE),
   Event(id, "approval_resolved", "other", TRUE, "rejected", TRUE, TRUE),
   Event(id, "approval_resolved", "approval_rejected", TRUE, "rejected", TRUE, TRUE),
   Event(id, "approval_resolved", "other", TRUE, "approved", FALSE, TRUE),
   Event(id, "approval_resolved", "other", TRUE, "rejected", TRUE, FALSE),
   Event(id, "approval_resolved", "other", TRUE, "pending", TRUE, TRUE),
   Event(id, "action", "run_expired", FALSE, "not_required", FALSE, FALSE),
   Event(id, "action", "other", FALSE, "approved", TRUE, TRUE),
   Event(id, "summary", "other", FALSE, "not_required", FALSE, FALSE),
   Risky(id)}

MCEvents == UNION {Shapes(id) : id \in EventIds}
================================================================================
