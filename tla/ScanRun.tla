-------------------------------- MODULE ScanRun --------------------------------
(***************************************************************************)
(* project_run_status as a machine: its state is that of the loop, and one *)
(* step is one turn on one more event.  The variable scanned remembers the *)
(* events, so that the projection can be compared with what a timeline of  *)
(* receipts means when it is read as a whole.                              *)
(***************************************************************************)
EXTENDS Journal, Integers

CONSTANTS
  Events,      \* the events a timeline is made of
  MaxEvents    \* bound on the length of a timeline

ASSUME ScanAssumption ==
  /\ Events \subseteq EventPayload
  /\ MaxEvents \in Nat

VARIABLES scanned, projection

vars == <<scanned, projection>>

Init ==
  /\ scanned = << >>
  /\ projection = InitProjection

Scan(event) ==
  /\ projection.error = NoError
  /\ Len(scanned) < MaxEvents
  /\ scanned' = Append(scanned, event)
  /\ projection' = ProjectStep(projection, event)

Next == \E event \in Events : Scan(event)

Spec == Init /\ [][Next]_vars

--------------------------------------------------------------------------------
(* What a timeline means, without a loop. *)

Plain(event) ==
  ~ IsTerminal(event) /\ ~ IsResolutionSignal(event) /\ ~ IsPendingSignal(event)

Resolves(event) == ~ IsTerminal(event) /\ IsResolutionSignal(event)

Requests(event) ==
  ~ IsTerminal(event) /\ ~ IsResolutionSignal(event) /\ IsPendingSignal(event)

\* A request at position i that nothing before position n has answered.
OpenBefore(events, i, n) ==
  /\ i \in 1..(n - 1)
  /\ Requests(events[i])
  /\ \A k \in (i + 1)..(n - 1) : Plain(events[k])

\* The receipt at position i may stand where it stands.
Legal(events, i) ==
  /\ \A k \in 1..(i - 1) : ~ IsTerminal(events[k])
  /\ ~ IsTerminal(events[i]) =>
       \A k \in 1..(i - 1) : Resolves(events[k]) => events[k].status # "rejected"
  /\ Resolves(events[i]) =>
       /\ events[i].status \in {"approved", "rejected"}
       /\ events[i].resolved_by
       /\ events[i].resolved_at
       /\ \E j \in 1..(i - 1) : OpenBefore(events, j, i)
  /\ Requests(events[i]) => ~ \E j \in 1..(i - 1) : OpenBefore(events, j, i)

WellFormed(events) == \A i \in 1..Len(events) : Legal(events, i)

\* The status of a well-formed timeline, read off its end.
Meaning(events, status, pending) ==
  LET n    == Len(events)
      open == {i \in 1..n : OpenBefore(events, i, n + 1)}
  IN  /\ IF open = {} THEN pending = None
         ELSE \E i \in open : pending = events[i].id
      /\ (status = "paused") <=> (open # {})
      /\ open = {} =>
           CASE n = 0                                -> status = "running"
             [] n > 0 /\ IsTerminal(events[n])       -> status = TerminalStatus(events[n])
             [] n > 0 /\ Resolves(events[n])         -> status = events[n].status
             [] OTHER                                -> status = "running"

--------------------------------------------------------------------------------
\* Types of the loop's variables.
TypeOK ==
  /\ scanned \in Seq(Events)
  /\ projection \in Projection

\* The loop rejects a timeline exactly when some receipt of it stands where it
\* may not: after an end or a rejection, a resolution that nothing open or that
\* nobody signed, a second request while one is open.
RejectsExactlyIllFormed == (projection.error = NoError) <=> WellFormed(scanned)

\* The status and the pending approval of an accepted timeline are the ones its
\* receipts mean, wherever in the timeline they stand.
ProjectionCorrect ==
  projection.error = NoError => Meaning(scanned, projection.status, projection.pending)

\* The API contract of GET /v1/runs/{run_id}/status: a pending approval is
\* reported exactly when the run is paused.
PendingIffPaused ==
  projection.error = NoError =>
    ((projection.status = "paused") <=> (projection.pending # None))

\* A receipt that breaks BUSINESS_RULES.md's RULE-RISK-003, which nothing enforces: an
\* approval status that does not go with the flag.
Inconsistent(event) ==
  /\ event.requires_approval <=> (event.status = "not_required")
  /\ event.type \notin {"approval_requested", "approval_resolved"}

\* The entries that a reader of the journal takes for a request nobody has answered.
Waiting(entries) ==
  {i \in DOMAIN entries :
     /\ entries[i].indicator.required /\ ~ entries[i].indicator.resolved
     /\ \A k \in (i + 1)..Len(entries) : entries[k].indicator = NoIndicator}

\* The journal and the status tell one story: in a run whose flags go with the approval
\* statuses and that has not ended, the journal's indicators leave one request
\* waiting exactly when the status reports a pending approval, and it is that one.
JournalTellsPending ==
  LET entries == ProjectRunJournal(scanned)
  IN  /\ ShowsJournal(scanned, projection)
      /\ \A i \in DOMAIN scanned : ~ Inconsistent(scanned[i])
      /\ ~ projection.terminal
      => {entries[i].event_id : i \in Waiting(entries)} = {projection.pending} \ {None}
================================================================================
