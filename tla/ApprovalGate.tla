------------------------------ MODULE ApprovalGate ------------------------------
(***************************************************************************)
(* Everything that writes to the timelines of runs: ingestion behind the   *)
(* business rules (services/business_rules_service.py), registration and   *)
(* resolution of approvals with the demo's orchestration                   *)
(* (services/approval_service.py), and the receipts of the execution gate  *)
(* (controllers/events_controller.py).                                     *)
(*                                                                         *)
(* Every handler reads the timeline, decides, and appends in a later call  *)
(* of the store, with no lock around the two: one action for each.  The    *)
(* store's append is the atomic one of EventLedger; here a timeline is in  *)
(* the order in which it is read, by timestamp.  A client chooses the      *)
(* timestamp of its event, so ingestion inserts anywhere; the services     *)
(* take one after the last event they have read.                           *)
(***************************************************************************)
EXTENDS RunStatus, Integers, FiniteSets, SequencesExt

CONSTANTS
  Runs,
  ClientIds,      \* event ids that clients choose
  ServiceIds,     \* event ids that services draw (uuid4)
  Threads,        \* server threads
  ClientEvents,   \* the events that clients may post
  IdPrefixes,     \* <<a, b>>: the id b is a, "_" and more
  DemoRun, DemoGate, ResumeId, CompleteId,   \* the demo's fixed ids
  MaxEvents       \* bound on the number of events

\* A stored event.  answers is the target whose id stands in the event's own id
\* (apr_, the target's id, _, the verdict and more), None for every other form of
\* id.
Event ==
  [id: EventIds, type: EventTypes, step: Steps, requires_approval: BOOLEAN,
   status: ApprovalStatuses, decision_id: DecisionIds \cup {None},
   resolved_by: BOOLEAN, resolved_at: BOOLEAN, answers: EventIds \cup {None}]

ASSUME ApprovalAssumption ==
  /\ ClientIds \cup ServiceIds \subseteq EventIds
  /\ ClientIds \cap ServiceIds = {}
  /\ ClientEvents \subseteq {event \in Event : event.id \in ClientIds /\ event.answers = None}
  /\ IdPrefixes \subseteq EventIds \X EventIds
  /\ {DemoGate, ResumeId, CompleteId} \subseteq ClientIds
  /\ MaxEvents \in Nat

VARIABLES
  timeline,   \* for each run, its events by timestamp
  call        \* for each thread, what it is about to append

vars == <<timeline, call>>

--------------------------------------------------------------------------------
(* Reading a timeline *)

\* A turn of the loop takes the value of the last one: TLC would evaluate it anew
\* wherever ProjectStep names it.
Turn(last, event) == CHOOSE p \in {ProjectStep(q, event) : q \in {last}} : TRUE

\* project_run_status
ProjectRunStatus(events) == FoldLeft(Turn, InitProjection, events)

HasId(events, id) == \E i \in DOMAIN events : events[i].id = id

EventOf(events, id) == events[CHOOSE i \in DOMAIN events : events[i].id = id]

LastId(events) == IF events = << >> THEN None ELSE events[Len(events)].id

\* Wrong: any resolution of the run counts as one of the target.
WasAnyEventResolved(events, target) ==
  \E j \in DOMAIN events : IsResolutionSignal(events[j]) /\ ~ IsPendingSignal(events[j])

\* _was_event_resolved: an answer names the target by its id, or follows it with
\* no other request or resolution between.
WasEventResolved(events, target) ==
  \E j \in DOMAIN events :
    /\ IsResolutionSignal(events[j]) /\ ~ IsPendingSignal(events[j])
    /\ \/ events[j].answers = target
       \/ <<target, events[j].answers>> \in IdPrefixes
       \/ \E i \in 1..(j - 1) :
            /\ events[i].id = target
            /\ IsPendingSignal(events[i])
            /\ \A k \in (i + 1)..(j - 1) :
                 ~ IsPendingSignal(events[k]) /\ ~ IsResolutionSignal(events[k])

\* The places of the events of a decision, in all runs, that request or resolve.
LifecycleEvents(decision) ==
  UNION {{<<run, i>> : i \in {k \in DOMAIN timeline[run] :
            /\ timeline[run][k].decision_id = decision
            /\ IsPendingSignal(timeline[run][k]) \/ IsResolutionSignal(timeline[run][k])}}
         : run \in Runs}

PendingEvents(decision) ==
  {place \in LifecycleEvents(decision) : IsPendingSignal(timeline[place[1]][place[2]])}

--------------------------------------------------------------------------------
(* validate_event_business_rules.  RULE-RISK-005 looks at evidence, which no    *)
(* other rule reads: an event is taken to carry what it asks for.               *)

\* Wrong: only a summary ends a run.
EndsWithSummary(events) == events # << >> /\ events[Len(events)].type = "summary"

EndsRun(events) == events # << >> /\ IsTerminal(events[Len(events)])

RequestRules(event) ==
  event.type = "approval_requested" => event.requires_approval /\ event.status = "pending"

ResolutionRules(event, events) ==
  LET p == ProjectRunStatus(events)
  IN  event.type = "approval_resolved" =>
        /\ p.error = NoError
        /\ p.pending # None
        /\ LET decision == EventOf(events, p.pending).decision_id
           IN  decision = None \/ event.decision_id = decision
        /\ event.resolved_by
        /\ event.resolved_at

SummaryRules(event, events) ==
  LET p == ProjectRunStatus(events)
  IN  event.type = "summary" =>
        /\ ~ event.requires_approval
        /\ event.status = "not_required"
        /\ p.error = NoError
        /\ p.pending = None

Accepts(event, events) ==
  /\ ~ EndsRun(events)
  /\ RequestRules(event)
  /\ ResolutionRules(event, events)
  /\ SummaryRules(event, events)

--------------------------------------------------------------------------------
(* Requests under way: the event a handler is about to append and the last event *)
(* its timestamp is known to follow.  A handler of the demo goes on with the     *)
(* continuation ("resume", "complete") or the receipt of its failure ("error").  *)

Idle == [pc |-> "idle"]

Call ==
  {Idle} \cup [pc: {"append", "resume", "complete", "error"}, run: Runs, event: Event,
                after: EventIds \cup {None}]

Appending(pc, run, event, after) ==
  [pc |-> pc, run |-> run, event |-> event, after |-> after]

Undrawn(id) ==
  /\ \A run \in Runs : ~ HasId(timeline[run], id)
  /\ \A thread \in Threads : call[thread] # Idle => call[thread].event.id # id

\* Bound: the ids of the services are not used up (uuid4 never runs out).
IdsLeft == {id \in ServiceIds : Undrawn(id)} # {}

FreshId == CHOOSE id \in ServiceIds : Undrawn(id)

Receipt(id, type, step, decision) ==
  [id |-> id, type |-> type, step |-> step, requires_approval |-> FALSE,
   status |-> "not_required", decision_id |-> decision, resolved_by |-> FALSE,
   resolved_at |-> FALSE, answers |-> None]

RequestEvent(decision) ==
  [Receipt(FreshId, "approval_requested", "other", decision) EXCEPT
     !.requires_approval = TRUE, !.status = "pending"]

\* Wrong: a status the schema does not know.
ResolutionWithVerb(target, verdict) ==
  [Receipt(FreshId, "approval_resolved", "other", target.decision_id) EXCEPT
     !.requires_approval = TRUE, !.status = "resolved", !.resolved_by = TRUE,
     !.resolved_at = TRUE, !.answers = target.id]

\* Wrong: a rejection does not end the run.
ResolutionWithoutStop(target, verdict) ==
  [Receipt(FreshId, "approval_resolved", "other", target.decision_id) EXCEPT
     !.requires_approval = TRUE, !.status = verdict, !.resolved_by = TRUE,
     !.resolved_at = TRUE, !.answers = target.id]

ResolutionEvent(target, verdict) ==
  [Receipt(FreshId, "approval_resolved",
           IF verdict = "rejected" THEN "approval_rejected" ELSE "other",
           target.decision_id) EXCEPT
     !.requires_approval = TRUE, !.status = verdict, !.resolved_by = TRUE,
     !.resolved_at = TRUE, !.answers = target.id]

Init ==
  /\ timeline = [run \in Runs |-> << >>]
  /\ call = [thread \in Threads |-> Idle]

Handle(thread, next) ==
  /\ call[thread] = Idle
  /\ call' = [call EXCEPT ![thread] = next]
  /\ UNCHANGED timeline

--------------------------------------------------------------------------------
(* The handlers, up to the append *)

\* POST /v1/events
IngestEvent(thread, run, event) ==
  /\ Accepts(event, timeline[run])
  /\ Handle(thread, Appending("append", run, event, None))

\* Wrong: the decision is looked up in the request's own run.
RegisterIfNewInRun(thread, run, decision) ==
  /\ IdsLeft
  /\ \A i \in DOMAIN timeline[run] : timeline[run][i].decision_id # decision
  /\ Handle(thread, Appending("append", run, RequestEvent(decision), LastId(timeline[run])))

\* POST /v1/approvals/requests
RegisterApprovalRequest(thread, run, decision) ==
  /\ IdsLeft
  /\ LifecycleEvents(decision) = {}
  /\ Handle(thread, Appending("append", run, RequestEvent(decision), LastId(timeline[run])))

\* Wrong: what has happened since the request is not looked at.
ResolvableIfRequested(run, id) ==
  /\ \A other \in Runs : HasId(timeline[other], id) <=> (other = run)
  /\ IsPendingSignal(EventOf(timeline[run], id))

Resolvable(run, id) ==
  LET p == ProjectRunStatus(timeline[run])
  IN  /\ \A other \in Runs : HasId(timeline[other], id) <=> (other = run)
      /\ IsPendingSignal(EventOf(timeline[run], id))
      /\ ~ WasEventResolved(timeline[run], id)
      /\ p.error = NoError
      /\ p.status = "paused"
      /\ p.pending = id

\* POST /v1/approvals/{event_id}
ResolvePendingApproval(thread, run, id, verdict) ==
  /\ IdsLeft
  /\ Resolvable(run, id)
  /\ Handle(thread, Appending("append", run,
                              ResolutionEvent(EventOf(timeline[run], id), verdict),
                              LastId(timeline[run])))

\* POST /v1/approvals/decisions/{decision_id}
ResolveByDecisionId(thread, decision, verdict) ==
  \E place \in PendingEvents(decision) :
    /\ PendingEvents(decision) = {place}
    /\ ResolvePendingApproval(thread, place[1], timeline[place[1]][place[2]].id, verdict)

\* The receipts of authorize_action, the mint and the executor: no business rule.
AppendRuntimeReceipt(thread, run, decision) ==
  /\ IdsLeft
  /\ Handle(thread, Appending("append", run, Receipt(FreshId, "action", "other", decision),
                              LastId(timeline[run])))

--------------------------------------------------------------------------------
(* The append *)

Stored == FoldFunction(LAMBDA events, n : n + Len(events), 0, timeline)

\* Where an event may land: anywhere after the one its timestamp follows.
Landings(c) ==
  {i \in 1..(Len(timeline[c.run]) + 1) :
     c.after # None => \E k \in 1..(i - 1) : timeline[c.run][k].id = c.after}

\* Wrong: the run is ended before it is resumed.
ContinueEndingFirst(c) ==
  CASE c.pc = "append" /\ c.run = DemoRun /\ c.event.answers = DemoGate
       /\ c.event.status = "approved"
         -> Appending("complete", c.run, Receipt(CompleteId, "summary", "other", None),
                      c.event.id)
    [] c.pc = "complete"
         -> Appending("resume", c.run, Receipt(ResumeId, "action", "other", None), CompleteId)
    [] OTHER -> Idle

\* What a handler does once its event is stored: the demo's gate, approved, is
\* followed by the resumption of the run and its completion.
Continue(c) ==
  CASE c.pc = "append" /\ c.run = DemoRun /\ c.event.answers = DemoGate
       /\ c.event.status = "approved"
         -> Appending("resume", c.run, Receipt(ResumeId, "action", "other", None), c.event.id)
    [] c.pc = "resume"
         -> Appending("complete", c.run, Receipt(CompleteId, "summary", "other", None), ResumeId)
    [] OTHER -> Idle

\* What it does when the append fails: the continuation leaves an error receipt,
\* which ends the run.
Abort(c) ==
  IF c.pc \in {"resume", "complete"}
  THEN Appending("error", c.run, Receipt(FreshId, "action", "run_stopped", None), c.after)
  ELSE Idle

StoreEvent(thread) ==
  LET c == call[thread]
  IN  /\ c # Idle
      /\ Stored < MaxEvents
      /\ ~ HasId(timeline[c.run], c.event.id)
      /\ \E i \in Landings(c) :
           timeline' = [timeline EXCEPT ![c.run] = InsertAt(@, i, c.event)]
      /\ call' = [call EXCEPT ![thread] = Continue(c)]

\* The id is taken, or the storage fails.
StoreFails(thread) ==
  /\ call[thread] # Idle
  /\ call[thread].pc \in {"resume", "complete"} => IdsLeft
  /\ call' = [call EXCEPT ![thread] = Abort(call[thread])]
  /\ UNCHANGED timeline

Serve(thread) ==
  \E run \in Runs :
    \/ \E event \in ClientEvents : IngestEvent(thread, run, event)
    \/ \E decision \in DecisionIds : RegisterApprovalRequest(thread, run, decision)
    \/ \E i \in DOMAIN timeline[run], verdict \in {"approved", "rejected"} :
         ResolvePendingApproval(thread, run, timeline[run][i].id, verdict)
    \/ \E decision \in DecisionIds \cup {None} : AppendRuntimeReceipt(thread, run, decision)

\* A thread of the pool takes a request.
Begin(thread) ==
  /\ call[thread] = Idle
  /\ \/ Serve(thread)
     \/ \E decision \in DecisionIds, verdict \in {"approved", "rejected"} :
          ResolveByDecisionId(thread, decision, verdict)

Next == \E thread \in Threads : Begin(thread) \/ StoreEvent(thread) \/ StoreFails(thread)

Spec == Init /\ [][Next]_vars

--------------------------------------------------------------------------------
Readable(events) == ProjectRunStatus(events).error = NoError

\* Types of the timelines and of the requests under way.
TypeOK ==
  /\ timeline \in [Runs -> Seq(Event)]
  /\ call \in [Threads -> Call]

Answers(id) ==
  UNION {{<<run, i>> : i \in {k \in DOMAIN timeline[run] : timeline[run][k].answers = id}}
         : run \in Runs}

\* An approval is approved or rejected once: no request of any run has two answers
\* from the approval endpoints, whichever of the two endpoints gave them.
ResolvedOnce == \A id \in EventIds : Cardinality(Answers(id)) <= 1

\* Nobody waits for an approval that cannot be given: the approval that holds a
\* readable run up can be resolved by its event id, unless its id is used by
\* another run or the id of an answered request begins with it.
Addressable ==
  \A run \in Runs :
    LET p == ProjectRunStatus(timeline[run])
    IN  /\ p.error = NoError
        /\ p.pending # None
        /\ \A other \in Runs \ {run} : ~ HasId(timeline[other], p.pending)
        /\ \A i \in DOMAIN timeline[run] :
             <<p.pending, timeline[run][i].answers>> \notin IdPrefixes
        => Resolvable(run, p.pending)
================================================================================
