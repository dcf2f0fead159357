-------------------------------- MODULE Journal --------------------------------
(***************************************************************************)
(* The journal of a run (services/journal_projection_service.py and the    *)
(* endpoint GET /v1/runs/{run_id}/journal): one entry for each receipt, in *)
(* the order of the timeline.  Of an entry its event and the approval      *)
(* indicator are modelled, which tells a reader what waits for a person.   *)
(* Stored receipts carry their own id and run and the texts of an entry:   *)
(* the schema has checked that, so those checks of the projection never    *)
(* fail and are left out.                                                  *)
(***************************************************************************)
EXTENDS RunStatus

\* _assert_risky_action_has_evidence
MissingEvidence(event) ==
  /\ event.type = "action"
  /\ event.high_risk \/ event.requires_approval
  /\ ~ event.evidence

NoIndicator == [required |-> FALSE, resolved |-> FALSE]

\* Wrong: a verdict is known by its type only.
IndicatorByType(event) ==
  [required |-> event.requires_approval \/ event.type = "approval_requested",
   resolved |-> event.type = "approval_resolved"]

\* _approval_indicator; an entry with neither mark has none.
ApprovalIndicator(event) ==
  [required |-> event.requires_approval \/ event.type = "approval_requested",
   resolved |-> event.type = "approval_resolved" \/ event.status \in {"approved", "rejected"}]

JournalEntry(event) == [event_id |-> event.id, indicator |-> ApprovalIndicator(event)]

ProjectRunJournal(events) == [i \in DOMAIN events |-> JournalEntry(events[i])]

\* get_run_journal answers: there is a receipt, and neither projection raises.
ShowsJournal(events, projection) ==
  /\ events # << >>
  /\ \A i \in DOMAIN events : ~ MissingEvidence(events[i])
  /\ projection.error = NoError
================================================================================
