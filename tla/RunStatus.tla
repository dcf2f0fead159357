------------------------------- MODULE RunStatus -------------------------------
(***************************************************************************)
(* The projection of a run's receipts to its workflow status               *)
(* (services/run_status_service.py).  An event is reduced to the fields    *)
(* the projection and the business rules read; identities and times of an  *)
(* approval are reduced to whether they are present.                       *)
(***************************************************************************)
EXTENDS Sequences

CONSTANTS
  EventIds,      \* event ids
  DecisionIds,   \* approval.decision_id
  None           \* no event, no decision id

ASSUME NoneAssumption == None \notin EventIds \cup DecisionIds

EventTypes == {"action", "approval_requested", "approval_resolved", "summary"}

ApprovalStatuses == {"not_required", "pending", "approved", "rejected"}

\* meta.step: the steps that end a run, and every other one.
TerminalSteps == {"run_expired", "approval_expired", "run_stopped", "approval_rejected"}

Steps == TerminalSteps \cup {"other"}

\* "action" stands for every type that the projection does not look at; one that is
\* no action is an action of no high risk with evidence.
EventPayload ==
  [id: EventIds, type: EventTypes, step: Steps, requires_approval: BOOLEAN,
   status: ApprovalStatuses, decision_id: DecisionIds \cup {None},
   resolved_by: BOOLEAN, resolved_at: BOOLEAN, high_risk: BOOLEAN, evidence: BOOLEAN]

WorkflowStatuses ==
  {"running", "paused", "approved", "rejected", "stopped", "expired", "completed"}

NoError == "none"

ProjectionErrors ==
  {"TERMINAL_STATE_CONFLICT", "REJECTED_STATE_CONFLICT", "INVALID_APPROVAL_TRANSITION",
   "NO_PENDING_APPROVAL", "MISSING_APPROVER_ID", "MISSING_APPROVAL_TIMESTAMP",
   "DUPLICATE_PENDING_APPROVAL"}

\* The loop's local variables, and the code of the error it raised.
Projection ==
  [status: WorkflowStatuses, pending: EventIds \cup {None}, terminal: BOOLEAN,
   error: ProjectionErrors \cup {NoError}]

--------------------------------------------------------------------------------
IsTerminal(event) == event.type = "summary" \/ event.step \in TerminalSteps

\* Wrong: the step is taken for the status.
StatusNamedByStep(event) == IF event.type = "summary" THEN "completed" ELSE event.step

TerminalStatus(event) ==
  CASE event.type = "summary"                               -> "completed"
    [] event.type # "summary"
       /\ event.step \in {"run_expired", "approval_expired"} -> "expired"
    [] OTHER                                                -> "stopped"

IsResolutionSignal(event) ==
  \/ event.type = "approval_resolved"
  \/ event.requires_approval /\ event.status \in {"approved", "rejected"}

IsPendingSignal(event) ==
  \/ event.type = "approval_requested"
  \/ event.requires_approval /\ event.status = "pending"

InitProjection ==
  [status |-> "running", pending |-> None, terminal |-> FALSE, error |-> NoError]

\* The error one event raises in the loop, if any, in the order of the checks.
ResolutionError(p, event) ==
  CASE event.status \notin {"approved", "rejected"} -> "INVALID_APPROVAL_TRANSITION"
    [] event.status \in {"approved", "rejected"} /\ p.pending = None
         -> "NO_PENDING_APPROVAL"
    [] event.status \in {"approved", "rejected"} /\ p.pending # None
       /\ ~ event.resolved_by
         -> "MISSING_APPROVER_ID"
    [] event.status \in {"approved", "rejected"} /\ p.pending # None
       /\ event.resolved_by /\ ~ event.resolved_at
         -> "MISSING_APPROVAL_TIMESTAMP"
    [] OTHER -> NoError

\* Wrong: a second request replaces the first one silently.
StepErrorAllowingSecondRequest(p, event) ==
  IF p.terminal THEN "TERMINAL_STATE_CONFLICT"
  ELSE IF IsTerminal(event) THEN NoError
  ELSE IF p.status = "rejected" THEN "REJECTED_STATE_CONFLICT"
  ELSE IF IsResolutionSignal(event) THEN ResolutionError(p, event)
  ELSE NoError

StepError(p, event) ==
  IF p.terminal THEN "TERMINAL_STATE_CONFLICT"
  ELSE IF IsTerminal(event) THEN NoError
  ELSE IF p.status = "rejected" THEN "REJECTED_STATE_CONFLICT"
  ELSE IF IsResolutionSignal(event) THEN ResolutionError(p, event)
  ELSE IF IsPendingSignal(event) /\ p.pending # None THEN "DUPLICATE_PENDING_APPROVAL"
  ELSE NoError

\* Wrong: the end of a run leaves its approval pending.
AdvanceEndingWithPending(p, event) ==
  IF IsTerminal(event)
  THEN [p EXCEPT !.status = TerminalStatus(event), !.terminal = TRUE]
  ELSE IF IsResolutionSignal(event)
  THEN [p EXCEPT !.status = event.status, !.pending = None]
  ELSE IF IsPendingSignal(event)
  THEN [p EXCEPT !.status = "paused", !.pending = event.id]
  ELSE IF p.pending # None THEN [p EXCEPT !.status = "paused"]
  ELSE IF p.status = "approved" THEN [p EXCEPT !.status = "running"]
  ELSE p

\* Wrong: work after an approval leaves the run approved.
AdvanceStayingApproved(p, event) ==
  IF IsTerminal(event)
  THEN [p EXCEPT !.status = TerminalStatus(event), !.pending = None, !.terminal = TRUE]
  ELSE IF IsResolutionSignal(event)
  THEN [p EXCEPT !.status = event.status, !.pending = None]
  ELSE IF IsPendingSignal(event)
  THEN [p EXCEPT !.status = "paused", !.pending = event.id]
  ELSE IF p.pending # None THEN [p EXCEPT !.status = "paused"]
  ELSE p

\* One turn of the loop that raises nothing.
Advance(p, event) ==
  IF IsTerminal(event)
  THEN [p EXCEPT !.status = TerminalStatus(event), !.pending = None, !.terminal = TRUE]
  ELSE IF IsResolutionSignal(event)
  THEN [p EXCEPT !.status = event.status, !.pending = None]
  ELSE IF IsPendingSignal(event)
  THEN [p EXCEPT !.status = "paused", !.pending = event.id]
  ELSE IF p.pending # None THEN [p EXCEPT !.status = "paused"]
  ELSE IF p.status = "approved" THEN [p EXCEPT !.status = "running"]
  ELSE p

ProjectStep(p, event) ==
  IF p.error # NoError THEN p
  ELSE IF StepError(p, event) # NoError THEN [p EXCEPT !.error = StepError(p, event)]
  ELSE Advance(p, event)
================================================================================
