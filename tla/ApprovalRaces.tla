----------------------------- MODULE ApprovalRaces -----------------------------
(***************************************************************************)
(* The handlers of ApprovalGate, watched for requests that run into each   *)
(* other.  FastAPI serves the endpoints from a pool of threads and nothing *)
(* is locked between what a handler reads and what it appends, so another  *)
(* request may come in between.  The variables of this module record where *)
(* that has happened, and constrain nothing: they say up to where the      *)
(* checks of the handlers decide what is stored.                           *)
(***************************************************************************)
EXTENDS ApprovalGate

VARIABLES
  overtaken,       \* threads whose run has changed since their handler read it
  answeredAtOnce,  \* ids of which two answers have been under way at once
  registeredAtOnce \* decisions of which two registrations have been

watched == <<vars, overtaken, answeredAtOnce, registeredAtOnce>>

AnswersTo(c, id) == c # Idle /\ c.event.answers = id

Registers(c, decision) ==
  /\ c # Idle
  /\ c.event.type = "approval_requested"
  /\ c.event.id \in ServiceIds
  /\ c.event.decision_id = decision

WatchedInit ==
  /\ Init
  /\ overtaken = {}
  /\ answeredAtOnce = {}
  /\ registeredAtOnce = {}

\* Another thread has stored an event of the run.
Overtakes(thread) ==
  call'[thread] = call[thread] /\ timeline'[call[thread].run] # timeline[call[thread].run]

Watch ==
  /\ overtaken' =
       {thread \in Threads :
          /\ call[thread] # Idle /\ call'[thread] # Idle
          /\ thread \in overtaken \/ Overtakes(thread)}
  /\ answeredAtOnce' = answeredAtOnce \cup
       {id \in EventIds : \E t, u \in Threads :
          t # u /\ AnswersTo(call'[t], id) /\ AnswersTo(call'[u], id)}
  /\ registeredAtOnce' = registeredAtOnce \cup
       {decision \in DecisionIds : \E t, u \in Threads :
          t # u /\ Registers(call'[t], decision) /\ Registers(call'[u], decision)}

\* Bound: a request begins while there is room for its event.
Room == Stored + Cardinality({thread \in Threads : call[thread] # Idle}) < MaxEvents

WatchedNext ==
  /\ \E thread \in Threads :
       (Room /\ Begin(thread)) \/ StoreEvent(thread) \/ StoreFails(thread)
  /\ Watch

WatchedSpec == WatchedInit /\ [][WatchedNext]_watched

--------------------------------------------------------------------------------
\* An approval is approved or rejected once, however many threads serve the runs:
\* no request has two answers from the approval endpoints, whichever of the two gave
\* them, until two answers to it are under way at once.
ResolvedOnceApart ==
  \A id \in EventIds \ answeredAtOnce : Cardinality(Answers(id)) <= 1

\* A decision is registered once, whatever runs it is registered for, until two
\* registrations of it are under way at once.
RegisteredOnceApart ==
  \A r1, r2 \in Runs : \A i \in DOMAIN timeline[r1], k \in DOMAIN timeline[r2] :
    LET one   == timeline[r1][i]
        other == timeline[r2][k]
    IN  /\ one.type = "approval_requested" /\ one.id \in ServiceIds
        /\ other.type = "approval_requested" /\ other.id \in ServiceIds
        /\ one.decision_id = other.decision_id
        /\ one.decision_id \notin registeredAtOnce
        => one.id = other.id

\* The approval endpoints answer the request that holds the run up, and their
\* answer takes the run on: approved, or stopped, and still readable.  Requests to
\* other runs, and those to the run that fail, may come in between.
ResolutionLegal ==
  [][\A thread \in Threads \ overtaken :
       LET c == call[thread]
       IN  /\ c # Idle /\ c.pc = "append" /\ c.event.answers # None
           /\ call'[thread] # c /\ timeline' # timeline
           => /\ ProjectRunStatus(timeline[c.run]).pending = c.event.answers
              /\ Readable(timeline'[c.run])
              /\ ProjectRunStatus(timeline'[c.run]).status =
                   IF c.event.status = "approved" THEN "approved" ELSE "stopped"]_watched

\* An approved demo gate is followed by the resumption of its run and its end, or by
\* the receipt of their failure: each leaves the run readable, the first running, the
\* second completed, the third stopped, unless another request to the run comes in
\* between the approval and the last of them.
ContinuationLegal ==
  [][\A thread \in Threads \ overtaken :
       LET c == call[thread]
           p == ProjectRunStatus(timeline'[c.run])
       IN  /\ c # Idle /\ c.pc # "append"
           /\ call'[thread] # c /\ timeline' # timeline
           => /\ p.error = NoError
              /\ p.status = CASE c.pc = "resume"   -> "running"
                              [] c.pc = "complete" -> "completed"
                              [] c.pc = "error"    -> "stopped"]_watched

\* What the rules of ingestion let through although the projection refuses it: a
\* resolution of another type than approval_resolved, or with no verdict, a second
\* request, work after a rejection.
Unguarded(event, p) ==
  \/ IsResolutionSignal(event) /\ event.type # "approval_resolved"
  \/ event.type = "approval_resolved" /\ event.status \notin {"approved", "rejected"}
  \/ IsPendingSignal(event) /\ p.pending # None
  \/ p.status = "rejected" /\ ~ IsTerminal(event)

\* Those four aside, the rules and the projection agree: an event that the rules
\* accept, posted in time order and not overtaken, leaves a readable run readable.
IngestKeepsReadable ==
  [][\A thread \in Threads \ overtaken :
       LET c == call[thread]
           before == timeline[c.run]
       IN  /\ c # Idle /\ c.pc = "append" /\ c.event.id \in ClientIds
           /\ call'[thread] # c /\ timeline'[c.run] = Append(before, c.event)
           /\ Readable(before)
           /\ ~ Unguarded(c.event, ProjectRunStatus(before))
           => Readable(timeline'[c.run])]_watched
================================================================================
