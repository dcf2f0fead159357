--------------------------- MODULE ApprovalGateProofs ---------------------------
(***************************************************************************)
(* What the handlers that write to the timelines keep, for any runs, ids,  *)
(* decisions and client events, and timelines of any length.               *)
(*                                                                         *)
(* The projection is a fold over a timeline, so first the loop behind it   *)
(* is recovered and what it has found after each event is proved by        *)
(* induction on the events.  What a handler knows when it appends is then  *)
(* an invariant of the handlers under way, for any number of threads: some *)
(* of it always, the rest until a request for the same approval or         *)
(* decision is under way at once, or another one stores an event of the    *)
(* run in between.  The violating run approval_threads shows that less     *)
(* does not do.                                                            *)
(***************************************************************************)
EXTENDS ApprovalRaces, SharedLemmas

--------------------------------------------------------------------------------
(* The projection as a loop *)

\* A turn of the loop is one step of the projection.
LEMMA TurnIsStep == \A last, event : Turn(last, event) = ProjectStep(last, event)
BY DEF Turn

\* The fold of the community modules takes the largest position first.
LEMMA LargestOf ==
  ASSUME NEW n \in Nat, NEW s \in SUBSET (1..n), n \in s
  PROVE  Max(s) = n
<1>1. \A k \in s : k \in Nat /\ k <= n
  OBVIOUS
<1>2. \A x \in s : (\A y \in s : x >= y) => x = n
  BY <1>1
<1>3. \A y \in s : n >= y
  BY <1>1
<1> QED
  BY <1>2, <1>3 DEF Max

\* The function by which that fold is defined, on the sets of positions, exists: for
\* no positions, and for n + 1 of them when it does for n.
LEMMA FoldDefined ==
  ASSUME NEW events, NEW length \in Nat
  PROVE  \E g :
           g = [s \in SUBSET (1..length) |->
                  IF s = {} THEN InitProjection
                  ELSE Turn(g[s \ {Max(s)}], events[Max(s)])]
<1> DEFINE IsFold(g, n) ==
             g = [s \in SUBSET (1..n) |->
                    IF s = {} THEN InitProjection
                    ELSE Turn(g[s \ {Max(s)}], events[Max(s)])]
           reached == {n \in Nat : \E g : IsFold(g, n)}
<1>1. 0 \in reached
  <2>1. IsFold([s \in SUBSET (1..0) |-> InitProjection], 0)
    OBVIOUS
  <2> QED
    BY <2>1
<1>2. ASSUME NEW n \in Nat, n \in reached PROVE n + 1 \in reached
  <2>1. PICK g : IsFold(g, n)
    BY <1>2
  <2> DEFINE h == [s \in SUBSET (1..(n + 1)) |->
                     IF n + 1 \in s THEN Turn(g[s \ {n + 1}], events[n + 1]) ELSE g[s]]
  <2>2. ASSUME NEW s \in SUBSET (1..(n + 1))
        PROVE  h[s] = IF s = {} THEN InitProjection
                      ELSE Turn(h[s \ {Max(s)}], events[Max(s)])
    <3>1. CASE n + 1 \in s
      <4>1. Max(s) = n + 1
        BY <3>1, LargestOf
      <4>2. s \ {n + 1} \in SUBSET (1..(n + 1)) /\ n + 1 \notin s \ {n + 1}
        OBVIOUS
      <4>3. h[s \ {n + 1}] = g[s \ {n + 1}]
        BY <4>2
      <4> QED
        BY <3>1, <4>1, <4>3
    <3>2. CASE n + 1 \notin s
      <4>1. \A k \in s : k \in 1..n
        BY <3>2
      <4>2. s \in SUBSET (1..n) /\ s \ {Max(s)} \in SUBSET (1..(n + 1))
        BY <4>1
      <4>3. h[s] = g[s] /\ h[s \ {Max(s)}] = g[s \ {Max(s)}]
        BY <3>2, <4>2
      <4> QED
        BY <2>1, <4>2, <4>3
    <3> QED
      BY <3>1, <3>2
  <2>3. h = [s \in SUBSET (1..(n + 1)) |-> h[s]]
    OBVIOUS
  <2> HIDE DEF h
  <2>4. IsFold(h, n + 1)
    BY <2>2, <2>3
  <2> HIDE DEF IsFold
  <2>5. n + 1 \in Nat /\ \E f : IsFold(f, n + 1)
    BY <2>4
  <2> QED
    BY <2>5
<1> HIDE DEF reached
<1>3. Nat \subseteq reached
  BY <1>1, <1>2, NatSetInduction
<1> QED
  BY <1>3 DEF reached

\* The projection as the loop it is in the code: a value before each turn and after it.
LEMMA Loop ==
  ASSUME NEW events, NEW n \in Nat, DOMAIN events = 1..n
  PROVE  \E after :
           /\ after[0] = InitProjection
           /\ \A k \in 1..n : after[k] = ProjectStep(after[k - 1], events[k])
           /\ ProjectRunStatus(events) = after[n]
<1> DEFINE IsFold(g) ==
             g = [s \in SUBSET (1..n) |->
                    IF s = {} THEN InitProjection
                    ELSE Turn(g[s \ {Max(s)}], events[Max(s)])]
           fold == CHOOSE g : IsFold(g)
           after == [k \in 0..n |-> fold[1..k]]
<1>1. IsFold(fold)
  <2>1. \E g : IsFold(g)
    BY FoldDefined
  <2> HIDE DEF IsFold
  <2> QED
    BY <2>1
<1>2. ProjectRunStatus(events) = after[n]
  <2>1. ProjectRunStatus(events) = fold[1..n]
    BY DEF ProjectRunStatus, FoldLeft, MapThenFoldSet
  <2> HIDE DEF fold
  <2> QED
    BY <2>1
<1> HIDE DEF fold
<1>3. after[0] = InitProjection
  <2>1. 1..0 = {} /\ {} \in SUBSET (1..n)
    OBVIOUS
  <2> QED
    BY <1>1, <2>1
<1>4. ASSUME NEW k \in 1..n PROVE after[k] = ProjectStep(after[k - 1], events[k])
  <2>1. Max(1..k) = k
    BY LargestOf
  <2>2. 1..k \in SUBSET (1..n) /\ 1..k # {} /\ (1..k) \ {k} = 1..(k - 1)
    OBVIOUS
  <2>3. fold[1..k] = Turn(fold[1..(k - 1)], events[k])
    BY <1>1, <2>1, <2>2
  <2> QED
    BY <2>3, TurnIsStep
<1> HIDE DEF after
<1> QED
  BY <1>2, <1>3, <1>4


\* The fields of a stored event.
LEMMA EventFields ==
  ASSUME NEW event \in Event
  PROVE  /\ event.id \in EventIds /\ event.type \in EventTypes /\ event.step \in Steps
         /\ event.requires_approval \in BOOLEAN /\ event.status \in ApprovalStatuses
         /\ event.decision_id \in DecisionIds \cup {None}
         /\ event.resolved_by \in BOOLEAN /\ event.resolved_at \in BOOLEAN
         /\ event.answers \in EventIds \cup {None}
BY DEF Event

\* A step of the projection yields a projection.
LEMMA StepType ==
  ASSUME NEW p \in Projection, NEW event \in Event
  PROVE  ProjectStep(p, event) \in Projection
<1>1. StepError(p, event) \in ProjectionErrors \cup {NoError}
  BY DEF StepError, ResolutionError, ProjectionErrors, NoError
<1>2. [p EXCEPT !.error = StepError(p, event)] \in Projection
  BY <1>1 DEF Projection
<1>3. StepError(p, event) = NoError /\ ~ p.terminal => Advance(p, event) \in Projection
  <2>1. SUFFICES ASSUME StepError(p, event) = NoError, ~ p.terminal
                 PROVE  Advance(p, event) \in Projection
    OBVIOUS
  <2>2. CASE IsTerminal(event)
    <3>1. TerminalStatus(event) \in WorkflowStatuses
      BY DEF TerminalStatus, WorkflowStatuses
    <3> QED
      BY <2>2, <3>1 DEF Advance, Projection
  <2>3. CASE ~ IsTerminal(event) /\ IsResolutionSignal(event)
    <3>1. event.status \in {"approved", "rejected"}
      BY <2>1, <2>3 DEF StepError, ResolutionError, NoError
    <3> QED
      BY <2>3, <3>1 DEF Advance, Projection, WorkflowStatuses
  <2>4. CASE ~ IsTerminal(event) /\ ~ IsResolutionSignal(event)
    BY <2>4, EventFields DEF Advance, Projection, WorkflowStatuses
  <2> QED
    BY <2>2, <2>3, <2>4
<1>4. p.terminal => StepError(p, event) # NoError
  BY DEF StepError, NoError
<1> QED
  BY <1>2, <1>3, <1>4 DEF ProjectStep

\* The event of this id asks for an approval, and none of the first k events that follow
\* it is a request or a resolution.
AwaitedSince(id, events, k) ==
  \E i \in 1..k :
    /\ events[i].id = id
    /\ IsPendingSignal(events[i])
    /\ \A m \in (i + 1)..k : ~ IsPendingSignal(events[m]) /\ ~ IsResolutionSignal(events[m])

\* What the loop knows after k events that raised no error.  An approval is pending
\* only on a paused run, and asked for by an event that no request and no resolution
\* has followed; the run has ended only with its last event.
Knows(p, events, k) ==
  /\ p \in Projection
  /\ p.error = NoError /\ p.pending # None =>
       /\ p.status = "paused"
       /\ ~ p.terminal
       /\ AwaitedSince(p.pending, events, k)
  /\ p.error = NoError /\ p.terminal => k # 0 /\ IsTerminal(events[k])

\* One turn of the loop keeps it.
LEMMA KnowsStep ==
  ASSUME NEW k \in Nat, NEW events, events[k + 1] \in Event, NEW p, Knows(p, events, k)
  PROVE  Knows(ProjectStep(p, events[k + 1]), events, k + 1)
<1> DEFINE event == events[k + 1]
           q == ProjectStep(p, event)
<1> SUFFICES Knows(q, events, k + 1)
  OBVIOUS
<1>1. p \in Projection /\ q \in Projection
  BY StepType DEF Knows
<1>2. CASE q.error # NoError
  BY <1>1, <1>2 DEF Knows
<1>3. CASE q.error = NoError
  <2>1. p.error = NoError /\ StepError(p, event) = NoError /\ q = Advance(p, event)
    <3>1. p.error # NoError => q = p
      BY DEF ProjectStep
    <3>2. p.error = NoError
      BY <1>3, <3>1
    <3>3. StepError(p, event) # NoError => q.error = StepError(p, event)
      BY <1>1, <3>2 DEF ProjectStep, Projection
    <3> QED
      BY <1>3, <3>2, <3>3 DEF ProjectStep
  <2>2. ~ p.terminal
    BY <2>1 DEF StepError, NoError
  <2> HIDE DEF event, q
  <2>3. CASE IsTerminal(event)
    <3>1. q.pending = None
      BY <1>1, <2>1, <2>3 DEF Advance, Projection
    <3> QED
      BY <1>1, <2>3, <3>1 DEF Knows, event
  <2>4. CASE ~ IsTerminal(event) /\ IsResolutionSignal(event)
    <3>1. q.pending = None /\ ~ q.terminal
      BY <1>1, <2>1, <2>2, <2>4 DEF Advance, Projection
    <3> QED
      BY <1>1, <3>1 DEF Knows
  <2>5. CASE ~ IsTerminal(event) /\ ~ IsResolutionSignal(event) /\ IsPendingSignal(event)
    <3>1. q.status = "paused" /\ q.pending = event.id /\ ~ q.terminal
      BY <1>1, <2>1, <2>2, <2>5 DEF Advance, Projection
    <3>2. k + 1 \in 1..(k + 1) /\ \A m \in (k + 1 + 1)..(k + 1) : FALSE
      OBVIOUS
    <3>3. AwaitedSince(event.id, events, k + 1)
      BY <2>5, <3>2 DEF AwaitedSince, event
    <3> QED
      BY <1>1, <3>1, <3>3 DEF Knows
  <2>6. CASE ~ IsTerminal(event) /\ ~ IsResolutionSignal(event) /\ ~ IsPendingSignal(event)
    <3>1. /\ q.pending = p.pending
          /\ ~ q.terminal
          /\ p.pending # None => q.status = "paused"
      BY <1>1, <2>1, <2>2, <2>6 DEF Advance, Projection
    <3>2. CASE p.pending = None
      BY <1>1, <3>1, <3>2 DEF Knows
    <3>3. CASE p.pending # None
      <4>1. PICK i \in 1..k :
              /\ events[i].id = p.pending
              /\ IsPendingSignal(events[i])
              /\ \A m \in (i + 1)..k :
                   ~ IsPendingSignal(events[m]) /\ ~ IsResolutionSignal(events[m])
        BY <2>1, <3>3 DEF Knows, AwaitedSince
      <4>2. i \in 1..(k + 1) /\ \A m \in (i + 1)..(k + 1) : m \in (i + 1)..k \/ m = k + 1
        OBVIOUS
      <4>3. \A m \in (i + 1)..(k + 1) :
              ~ IsPendingSignal(events[m]) /\ ~ IsResolutionSignal(events[m])
        BY <2>6, <4>1, <4>2 DEF event
      <4>4. AwaitedSince(p.pending, events, k + 1)
        BY <4>1, <4>2, <4>3 DEF AwaitedSince
      <4> QED
        BY <1>1, <3>1, <4>4 DEF Knows
    <3> QED
      BY <3>2, <3>3
  <2> QED
    BY <2>3, <2>4, <2>5, <2>6
<1> QED
  BY <1>2, <1>3

\* So the projection of a timeline is known to be of this shape.
LEMMA ProjectionKnows ==
  ASSUME NEW events \in Seq(Event)
  PROVE  Knows(ProjectRunStatus(events), events, Len(events))
<1> DEFINE n == Len(events)
<1>1. n \in Nat /\ DOMAIN events = 1..n /\ \A k \in 1..n : events[k] \in Event
  OBVIOUS
<1> HIDE DEF n
<1>2. PICK after :
        /\ after[0] = InitProjection
        /\ \A k \in 1..n : after[k] = ProjectStep(after[k - 1], events[k])
        /\ ProjectRunStatus(events) = after[n]
  BY <1>1, Loop
<1> DEFINE known == {k \in Nat : k <= n => Knows(after[k], events, k)}
<1>3. 0 \in known
  <2>1. InitProjection \in Projection
    BY DEF InitProjection, Projection, WorkflowStatuses
  <2>2. InitProjection.pending = None /\ InitProjection.terminal = FALSE
    BY DEF InitProjection
  <2>3. Knows(InitProjection, events, 0)
    BY <2>1, <2>2 DEF Knows
  <2> QED
    BY <1>2, <2>3
<1>4. ASSUME NEW k \in Nat, k \in known PROVE k + 1 \in known
  <2>1. SUFFICES ASSUME k + 1 <= n PROVE Knows(after[k + 1], events, k + 1)
    OBVIOUS
  <2>2. Knows(after[k], events, k) /\ k + 1 \in 1..n
    BY <1>1, <1>4, <2>1
  <2>3. after[k + 1] = ProjectStep(after[k], events[k + 1])
    BY <1>2, <2>2
  <2> QED
    BY <1>1, <2>2, <2>3, KnowsStep
<1> HIDE DEF known
<1>5. Nat \subseteq known
  BY <1>3, <1>4, NatSetInduction
<1>6. Knows(after[n], events, n)
  BY <1>1, <1>5 DEF known
<1> QED
  BY <1>2, <1>6 DEF n

\* To append an event to a timeline is one more turn of the loop.
LEMMA ProjectAppend ==
  ASSUME NEW events \in Seq(Event), NEW event \in Event
  PROVE  ProjectRunStatus(Append(events, event)) = ProjectStep(ProjectRunStatus(events), event)
<1> DEFINE n == Len(events)
           longer == Append(events, event)
<1>1. /\ n \in Nat /\ DOMAIN events = 1..n /\ DOMAIN longer = 1..(n + 1)
      /\ \A k \in 1..n : longer[k] = events[k]
      /\ longer[n + 1] = event
  OBVIOUS
<1> HIDE DEF n, longer
<1>2. PICK after :
        /\ after[0] = InitProjection
        /\ \A k \in 1..n : after[k] = ProjectStep(after[k - 1], events[k])
        /\ ProjectRunStatus(events) = after[n]
  BY <1>1, Loop
<1>3. PICK other :
        /\ other[0] = InitProjection
        /\ \A k \in 1..(n + 1) : other[k] = ProjectStep(other[k - 1], longer[k])
        /\ ProjectRunStatus(longer) = other[n + 1]
  <2>1. n + 1 \in Nat
    BY <1>1
  <2> QED
    BY <1>1, <2>1, Loop
<1> DEFINE same == {k \in Nat : k <= n => other[k] = after[k]}
<1>4. 0 \in same
  BY <1>2, <1>3
<1>5. ASSUME NEW k \in Nat, k \in same PROVE k + 1 \in same
  <2>1. SUFFICES ASSUME k + 1 <= n PROVE other[k + 1] = after[k + 1]
    OBVIOUS
  <2>2. other[k] = after[k] /\ k + 1 \in 1..n /\ k + 1 \in 1..(n + 1) /\ k + 1 - 1 = k
    BY <1>1, <1>5, <2>1
  <2>3. /\ after[k + 1] = ProjectStep(after[k], events[k + 1])
        /\ other[k + 1] = ProjectStep(other[k], longer[k + 1])
    BY <1>2, <1>3, <2>2
  <2> QED
    BY <1>1, <2>2, <2>3
<1> HIDE DEF same
<1>6. Nat \subseteq same
  BY <1>4, <1>5, NatSetInduction
<1>7. other[n] = after[n]
  BY <1>1, <1>6 DEF same
<1>8. other[n + 1] = ProjectStep(other[n], event)
  <2>1. n + 1 \in 1..(n + 1) /\ n + 1 - 1 = n
    BY <1>1
  <2> QED
    BY <1>1, <1>3, <2>1
<1> QED
  BY <1>2, <1>3, <1>7, <1>8 DEF longer

--------------------------------------------------------------------------------
(* Timelines *)

\* Where the events of a timeline are once one more has landed at i.
LEMMA LandedPositions ==
  ASSUME NEW events \in Seq(Event), NEW event \in Event, NEW i \in 1..(Len(events) + 1)
  PROVE  LET n      == Len(events)
             landed == InsertAt(events, i, event)
         IN  /\ n \in Nat
             /\ DOMAIN events = 1..n
             /\ DOMAIN landed = 1..(n + 1)
             /\ landed \in Seq(Event)
             /\ landed[i] = event
             /\ \A k \in 1..n : k < i => landed[k] = events[k]
             /\ \A k \in 1..(n + 1) : k > i => k - 1 \in 1..n /\ landed[k] = events[k - 1]
             /\ i = n + 1 => landed = Append(events, event)
<1>1. InsertAt(events, i, event) = Inserted(events, i, event)
  BY DEF InsertAt, Inserted
<1> QED
  BY <1>1, InsertPositions

--------------------------------------------------------------------------------
(* What a step does *)

\* A request under way holds an event for a run.
LEMMA CallFields ==
  ASSUME TypeOK, NEW t \in Threads, call[t] # Idle
  PROVE  /\ call[t] \in Call
         /\ call[t].pc \in {"append", "resume", "complete", "error"}
         /\ call[t].run \in Runs
         /\ call[t].event \in Event
         /\ call[t].after \in EventIds \cup {None}
<1>1. call[t] \in Call
  BY DEF TypeOK
<1> QED
  BY <1>1 DEF Call

\* The id a service draws is one of its own.
LEMMA FreshIdType ==
  ASSUME IdsLeft
  PROVE  FreshId \in ServiceIds /\ FreshId \in EventIds
BY ApprovalAssumption DEF IdsLeft, FreshId

\* The event of an id that the timeline has.
LEMMA EventOfId ==
  ASSUME NEW events \in Seq(Event), NEW id, HasId(events, id)
  PROVE  \E i \in DOMAIN events :
           EventOf(events, id) = events[i] /\ events[i].id = id /\ events[i] \in Event
<1>1. PICK i \in DOMAIN events : events[i].id = id
  BY DEF HasId
<1> DEFINE place == CHOOSE k \in DOMAIN events : events[k].id = id
<1>2. place \in DOMAIN events /\ events[place].id = id
  BY <1>1
<1>3. EventOf(events, id) = events[place]
  BY DEF EventOf
<1> HIDE DEF place
<1>4. events[place] \in Event
  BY <1>2
<1> QED
  BY <1>2, <1>3, <1>4

\* The id of the last event, if there is one.
LEMMA LastIdType ==
  ASSUME NEW events \in Seq(Event)
  PROVE  LastId(events) \in EventIds \cup {None}
<1>1. CASE events = << >>
  BY <1>1 DEF LastId
<1>2. CASE events # << >>
  <2>1. events[Len(events)] \in Event
    BY <1>2
  <2> QED
    BY <1>2, <2>1, EventFields DEF LastId
<1> QED
  BY <1>1, <1>2

\* What the first step of each handler leaves to append.
Ingested(c) ==
  c.event \in ClientEvents /\ c.after = None /\ Accepts(c.event, timeline[c.run])

Drawn(c) == c.event.id \in ServiceIds /\ c.after = LastId(timeline[c.run])

Registration(c) ==
  /\ Drawn(c)
  /\ c.event.type = "approval_requested"
  /\ c.event.answers = None
  /\ c.event.decision_id \in DecisionIds
  /\ LifecycleEvents(c.event.decision_id) = {}

Answer(c) ==
  /\ Drawn(c)
  /\ c.event.type = "approval_resolved"
  /\ c.event.status \in {"approved", "rejected"}
  /\ c.event.step = IF c.event.status = "rejected" THEN "approval_rejected" ELSE "other"
  /\ c.event.resolved_by
  /\ c.event.resolved_at
  /\ Resolvable(c.run, c.event.answers)

RuntimeReceipt(c) ==
  Drawn(c) /\ c.event.type = "action" /\ c.event.answers = None

Started(c) ==
  /\ c.pc = "append"
  /\ c.run \in Runs
  /\ c.event \in Event
  /\ Ingested(c) \/ Registration(c) \/ Answer(c) \/ RuntimeReceipt(c)

\* The receipts of the services are events.
LEMMA ReceiptType ==
  ASSUME NEW id \in EventIds, NEW type \in EventTypes, NEW step \in Steps,
         NEW decision \in DecisionIds \cup {None}
  PROVE  Receipt(id, type, step, decision) \in Event
BY DEF Receipt, Event, ApprovalStatuses

\* A handler that resolves starts with an answer to the target.
LEMMA AnswerStarted ==
  ASSUME TypeOK, NEW t \in Threads, NEW run \in Runs, NEW i \in DOMAIN timeline[run],
         NEW verdict \in {"approved", "rejected"},
         ResolvePendingApproval(t, run, timeline[run][i].id, verdict)
  PROVE  \E next \in Call : Started(next) /\ Handle(t, next)
<1> DEFINE id == timeline[run][i].id
           target == EventOf(timeline[run], id)
           event == ResolutionEvent(target, verdict)
           next == Appending("append", run, event, LastId(timeline[run]))
<1>1. timeline[run] \in Seq(Event) /\ LastId(timeline[run]) \in EventIds \cup {None}
  BY LastIdType DEF TypeOK
<1>2. IdsLeft /\ Resolvable(run, id) /\ Handle(t, next)
  BY DEF ResolvePendingApproval
<1>3. HasId(timeline[run], id)
  BY DEF HasId
<1>4. target.id = id /\ target \in Event
  BY <1>1, <1>3, EventOfId
<1> HIDE DEF target, id
<1>5. FreshId \in ServiceIds /\ FreshId \in EventIds
  BY <1>2, FreshIdType
<1> DEFINE step == IF verdict = "rejected" THEN "approval_rejected" ELSE "other"
           blank == Receipt(FreshId, "approval_resolved", step, target.decision_id)
<1>6. blank \in Event /\ target.id \in EventIds
  BY <1>4, <1>5, ReceiptType, EventFields DEF EventTypes, Steps, TerminalSteps
<1>7. /\ event = [blank EXCEPT !.requires_approval = TRUE, !.status = verdict,
                    !.resolved_by = TRUE, !.resolved_at = TRUE, !.answers = target.id]
      /\ blank.id = FreshId /\ blank.type = "approval_resolved" /\ blank.step = step
  BY DEF ResolutionEvent, Receipt
<1> HIDE DEF blank, event
<1>8. /\ event \in Event
      /\ event.id = FreshId /\ event.type = "approval_resolved" /\ event.step = step
      /\ event.status = verdict /\ event.resolved_by /\ event.resolved_at
      /\ event.answers = id
  BY <1>4, <1>6, <1>7 DEF Event, ApprovalStatuses
<1>9. /\ next.pc = "append" /\ next.run = run /\ next.event = event
      /\ next.after = LastId(timeline[run]) /\ next \in Call
  BY <1>1, <1>8 DEF Appending, Call
<1> HIDE DEF next
<1>10. Answer(next)
  BY <1>2, <1>5, <1>8, <1>9 DEF Answer, Drawn
<1> QED
  BY <1>2, <1>8, <1>9, <1>10 DEF Started

\* The first step of any handler.
LEMMA ServeStarts ==
  ASSUME TypeOK, NEW t \in Threads, Serve(t)
  PROVE  \E next \in Call : Started(next) /\ Handle(t, next)
<1>1. PICK run \in Runs :
        \/ \E event \in ClientEvents : IngestEvent(t, run, event)
        \/ \E decision \in DecisionIds : RegisterApprovalRequest(t, run, decision)
        \/ \E i \in DOMAIN timeline[run], verdict \in {"approved", "rejected"} :
             ResolvePendingApproval(t, run, timeline[run][i].id, verdict)
        \/ \E decision \in DecisionIds \cup {None} : AppendRuntimeReceipt(t, run, decision)
  BY DEF Serve
<1>2. LastId(timeline[run]) \in EventIds \cup {None}
  BY LastIdType DEF TypeOK
<1>3. ASSUME NEW event \in ClientEvents, IngestEvent(t, run, event)
      PROVE  \E next \in Call : Started(next) /\ Handle(t, next)
  <2> DEFINE next == Appending("append", run, event, None)
  <2>1. event \in Event
    BY ApprovalAssumption
  <2>2. /\ next.pc = "append" /\ next.run = run /\ next.event = event
        /\ next.after = None /\ next \in Call
    BY <2>1 DEF Appending, Call
  <2>3. Accepts(event, timeline[run]) /\ Handle(t, next)
    BY <1>3 DEF IngestEvent
  <2> HIDE DEF next
  <2> QED
    BY <2>1, <2>2, <2>3 DEF Started, Ingested
<1>4. ASSUME NEW decision \in DecisionIds, RegisterApprovalRequest(t, run, decision)
      PROVE  \E next \in Call : Started(next) /\ Handle(t, next)
  <2> DEFINE event == RequestEvent(decision)
             blank == Receipt(FreshId, "approval_requested", "other", decision)
             next == Appending("append", run, event, LastId(timeline[run]))
  <2>1. IdsLeft /\ LifecycleEvents(decision) = {} /\ Handle(t, next)
    BY <1>4 DEF RegisterApprovalRequest
  <2>2. FreshId \in ServiceIds /\ FreshId \in EventIds
    BY <2>1, FreshIdType
  <2>3. blank \in Event
    BY <2>2, ReceiptType DEF EventTypes, Steps
  <2>4. /\ event = [blank EXCEPT !.requires_approval = TRUE, !.status = "pending"]
        /\ blank.id = FreshId /\ blank.type = "approval_requested"
        /\ blank.decision_id = decision /\ blank.answers = None
    BY DEF RequestEvent, Receipt
  <2> HIDE DEF blank, event
  <2>5. /\ event \in Event
        /\ event.id = FreshId /\ event.type = "approval_requested"
        /\ event.decision_id = decision /\ event.answers = None
    BY <2>3, <2>4 DEF Event, ApprovalStatuses
  <2>6. /\ next.pc = "append" /\ next.run = run /\ next.event = event
        /\ next.after = LastId(timeline[run]) /\ next \in Call
    BY <1>2, <2>5 DEF Appending, Call
  <2> HIDE DEF next
  <2> QED
    BY <2>1, <2>2, <2>5, <2>6 DEF Started, Registration, Drawn
<1>5. ASSUME NEW decision \in DecisionIds \cup {None}, AppendRuntimeReceipt(t, run, decision)
      PROVE  \E next \in Call : Started(next) /\ Handle(t, next)
  <2> DEFINE event == Receipt(FreshId, "action", "other", decision)
             next == Appending("append", run, event, LastId(timeline[run]))
  <2>1. IdsLeft /\ Handle(t, next)
    BY <1>5 DEF AppendRuntimeReceipt
  <2>2. FreshId \in ServiceIds /\ FreshId \in EventIds
    BY <2>1, FreshIdType
  <2>3. event \in Event
    BY <2>2, ReceiptType DEF EventTypes, Steps
  <2>4. event.id = FreshId /\ event.type = "action" /\ event.answers = None
    BY DEF Receipt
  <2> HIDE DEF event
  <2>5. /\ next.pc = "append" /\ next.run = run /\ next.event = event
        /\ next.after = LastId(timeline[run]) /\ next \in Call
    BY <1>2, <2>3 DEF Appending, Call
  <2> HIDE DEF next
  <2> QED
    BY <2>1, <2>2, <2>3, <2>4, <2>5 DEF Started, RuntimeReceipt, Drawn
<1> QED
  BY <1>1, <1>3, <1>4, <1>5, AnswerStarted

\* A request that is over, or that goes on with a continuation of the demo: nothing
\* that registers or answers an approval.
Harmless(c) ==
  c = Idle \/ (c \in Call /\ c.pc # "append" /\ c.event.answers = None
               /\ c.event.type # "approval_requested")

\* What follows a stored event, and what follows a failed append.
LEMMA FollowUps ==
  ASSUME TypeOK, NEW t \in Threads, call[t] # Idle
  PROVE  /\ Continue(call[t]) \in Call /\ Harmless(Continue(call[t]))
         /\ (call[t].pc \in {"resume", "complete"} => IdsLeft)
              => Abort(call[t]) \in Call /\ Harmless(Abort(call[t]))
<1> DEFINE c == call[t]
<1>1. c.run \in Runs /\ c.event.id \in EventIds /\ c.after \in EventIds \cup {None}
  BY CallFields, EventFields
<1> HIDE DEF c
<1>2. ASSUME NEW pc \in {"resume", "complete", "error"}, NEW id \in EventIds,
             NEW type \in {"action", "summary"}, NEW step \in Steps,
             NEW after \in EventIds \cup {None}
      PROVE  LET next == Appending(pc, c.run, Receipt(id, type, step, None), after)
             IN  next \in Call /\ Harmless(next)
  <2> DEFINE event == Receipt(id, type, step, None)
             next == Appending(pc, c.run, event, after)
  <2>1. event \in Event
    BY ReceiptType DEF EventTypes
  <2>2. event.answers = None /\ event.type # "approval_requested"
    BY DEF Receipt
  <2> HIDE DEF event
  <2>3. next \in Call /\ next.pc # "append" /\ next.event = event
    BY <1>1, <2>1 DEF Appending, Call
  <2> HIDE DEF next
  <2>4. next \in Call /\ Harmless(next)
    BY <2>2, <2>3 DEF Harmless
  <2> QED
    BY <2>4 DEF next, event
<1>3. ResumeId \in EventIds /\ CompleteId \in EventIds /\ "other" \in Steps
      /\ "run_stopped" \in Steps
  BY ApprovalAssumption DEF Steps, TerminalSteps
<1>4. Idle \in Call /\ Harmless(Idle)
  BY DEF Call, Harmless
<1>5. Continue(c) \in Call /\ Harmless(Continue(c))
  <2>1. LET next == Appending("resume", c.run, Receipt(ResumeId, "action", "other", None),
                              c.event.id)
        IN  next \in Call /\ Harmless(next)
    BY <1>1, <1>2, <1>3
  <2>2. LET next == Appending("complete", c.run,
                              Receipt(CompleteId, "summary", "other", None), ResumeId)
        IN  next \in Call /\ Harmless(next)
    BY <1>1, <1>2, <1>3
  <2> QED
    BY <1>4, <2>1, <2>2 DEF Continue
<1>6. ASSUME c.pc \in {"resume", "complete"} => IdsLeft
      PROVE  Abort(c) \in Call /\ Harmless(Abort(c))
  <2>1. CASE c.pc \in {"resume", "complete"}
    <3>1. FreshId \in EventIds
      BY <1>6, <2>1, FreshIdType
    <3>2. LET next == Appending("error", c.run,
                                Receipt(FreshId, "action", "run_stopped", None), c.after)
          IN  next \in Call /\ Harmless(next)
      BY <1>1, <1>2, <1>3, <3>1
    <3> QED
      BY <2>1, <3>2 DEF Abort
  <2>2. CASE c.pc \notin {"resume", "complete"}
    BY <1>4, <2>2 DEF Abort
  <2> QED
    BY <2>1, <2>2
<1> QED
  BY <1>5, <1>6 DEF c

\* An append puts the event of the thread into its run and lets the thread go on.
Stores(t, i) ==
  LET c == call[t]
  IN  /\ c # Idle
      /\ ~ HasId(timeline[c.run], c.event.id)
      /\ i \in Landings(c)
      /\ timeline' = [timeline EXCEPT ![c.run] = InsertAt(timeline[c.run], i, c.event)]

\* Every step begins a request, stores an event and goes on, or gives up and goes on.
LEMMA StepCases ==
  ASSUME TypeOK, Next
  PROVE  \E t \in Threads, next \in Call :
           /\ call' = [call EXCEPT ![t] = next]
           /\ \/ /\ timeline' = timeline
                 /\ call[t] = Idle
                 /\ Started(next)
              \/ /\ call[t] # Idle
                 /\ Harmless(next)
                 /\ \/ timeline' = timeline /\ next = Abort(call[t])
                    \/ next = Continue(call[t]) /\ \E i \in Nat : Stores(t, i)
<1>1. PICK t \in Threads :
        \/ Serve(t)
        \/ \E decision \in DecisionIds, verdict \in {"approved", "rejected"} :
             ResolveByDecisionId(t, decision, verdict)
        \/ StoreEvent(t)
        \/ StoreFails(t)
  BY DEF Next, Begin
<1>2. ASSUME NEW next \in Call, Started(next), Handle(t, next)
      PROVE  /\ call' = [call EXCEPT ![t] = next]
             /\ timeline' = timeline
             /\ call[t] = Idle
  BY <1>2 DEF Handle
<1>3. CASE Serve(t)
  BY <1>2, <1>3, ServeStarts
<1>4. ASSUME NEW decision \in DecisionIds, NEW verdict \in {"approved", "rejected"},
             ResolveByDecisionId(t, decision, verdict)
      PROVE  \E next \in Call : Started(next) /\ Handle(t, next)
  <2>1. PICK place \in PendingEvents(decision) :
          ResolvePendingApproval(t, place[1], timeline[place[1]][place[2]].id, verdict)
    BY <1>4 DEF ResolveByDecisionId
  <2>2. place[1] \in Runs /\ place[2] \in DOMAIN timeline[place[1]]
    BY DEF PendingEvents, LifecycleEvents
  <2> QED
    BY <2>1, <2>2, AnswerStarted
<1>5. CASE StoreEvent(t)
  <2> DEFINE next == Continue(call[t])
  <2>1. /\ call[t] # Idle
        /\ call' = [call EXCEPT ![t] = next]
    BY <1>5 DEF StoreEvent
  <2>2. PICK i \in Landings(call[t]) :
          timeline' = [timeline EXCEPT ![call[t].run] =
                         InsertAt(timeline[call[t].run], i, call[t].event)]
    BY <1>5 DEF StoreEvent
  <2>3. i \in Nat /\ Stores(t, i)
    <3>1. i \in 1..(Len(timeline[call[t].run]) + 1)
      BY DEF Landings
    <3>2. timeline[call[t].run] \in Seq(Event)
      BY <2>1, CallFields DEF TypeOK
    <3>3. i \in Nat
      BY <3>1, <3>2
    <3> QED
      BY <1>5, <2>1, <2>2, <3>3 DEF Stores, StoreEvent
  <2>4. next \in Call /\ Harmless(next)
    BY <2>1, FollowUps
  <2> QED
    BY <2>1, <2>3, <2>4
<1>6. CASE StoreFails(t)
  <2> DEFINE next == Abort(call[t])
  <2>1. /\ call[t] # Idle
        /\ call[t].pc \in {"resume", "complete"} => IdsLeft
        /\ call' = [call EXCEPT ![t] = next]
        /\ timeline' = timeline
    BY <1>6 DEF StoreFails
  <2>2. next \in Call /\ Harmless(next)
    BY <2>1, FollowUps
  <2> QED
    BY <2>1, <2>2
<1> QED
  BY <1>1, <1>2, <1>3, <1>4, <1>5, <1>6

\* What an append leaves of the timelines: one run has one more event, and the
\* others of it are where they were or one place further on.
LEMMA StoreShape ==
  ASSUME TypeOK, NEW t \in Threads, NEW i \in Nat, Stores(t, i)
  PROVE  LET run == call[t].run
             event == call[t].event
             n == Len(timeline[run])
         IN  /\ run \in Runs /\ event \in Event
             /\ n \in Nat /\ i \in 1..(n + 1)
             /\ DOMAIN timeline[run] = 1..n
             /\ DOMAIN timeline'[run] = 1..(n + 1)
             /\ timeline' \in [Runs -> Seq(Event)]
             /\ \A r \in Runs : r # run => timeline'[r] = timeline[r]
             /\ timeline'[run][i] = event
             /\ \A k \in 1..n : k < i => timeline'[run][k] = timeline[run][k]
             /\ \A k \in 1..(n + 1) : k > i =>
                  k - 1 \in 1..n /\ timeline'[run][k] = timeline[run][k - 1]
             /\ i = n + 1 => timeline'[run] = Append(timeline[run], event)
<1> DEFINE run == call[t].run
           event == call[t].event
           events == timeline[run]
           n == Len(events)
           landed == InsertAt(events, i, event)
<1>1. run \in Runs /\ event \in Event
  BY CallFields DEF Stores
<1>2. events \in Seq(Event) /\ i \in 1..(n + 1)
  BY <1>1 DEF TypeOK, Stores, Landings
<1> HIDE DEF run, event, events
<1>3. /\ n \in Nat
      /\ DOMAIN events = 1..n
      /\ DOMAIN landed = 1..(n + 1)
      /\ landed \in Seq(Event)
      /\ landed[i] = event
      /\ \A k \in 1..n : k < i => landed[k] = events[k]
      /\ \A k \in 1..(n + 1) : k > i => k - 1 \in 1..n /\ landed[k] = events[k - 1]
      /\ i = n + 1 => landed = Append(events, event)
  <2>1. LET l == InsertAt(events, i, event)
            m == Len(events)
        IN  /\ m \in Nat
            /\ DOMAIN events = 1..m
            /\ DOMAIN l = 1..(m + 1)
            /\ l \in Seq(Event)
            /\ l[i] = event
            /\ \A k \in 1..m : k < i => l[k] = events[k]
            /\ \A k \in 1..(m + 1) : k > i => k - 1 \in 1..m /\ l[k] = events[k - 1]
            /\ i = m + 1 => l = Append(events, event)
    BY ONLY <1>1, <1>2, LandedPositions, SMT
  <2> QED
    BY ONLY <2>1
<1>4. timeline' = [timeline EXCEPT ![run] = landed]
  BY DEF Stores, run, event, events
<1> HIDE DEF landed
<1>5. /\ timeline'[run] = landed
      /\ \A r \in Runs : r # run => timeline'[r] = timeline[r]
      /\ timeline' \in [Runs -> Seq(Event)]
  BY <1>1, <1>3, <1>4 DEF TypeOK
<1> QED
  BY <1>1, <1>2, <1>3, <1>5 DEF run, event, events

\* The timelines and the requests under way keep their types.
THEOREM ApprovalTypeOK == Spec => []TypeOK
<1>1. Init => TypeOK
  BY DEF Init, TypeOK, Call
<1>2. TypeOK /\ [Next]_vars => TypeOK'
  <2> SUFFICES ASSUME TypeOK, [Next]_vars PROVE TypeOK'
    OBVIOUS
  <2>1. CASE UNCHANGED vars
    BY <2>1 DEF vars, TypeOK
  <2>2. CASE Next
    <3>1. PICK t \in Threads, next \in Call :
            /\ call' = [call EXCEPT ![t] = next]
            /\ timeline' = timeline \/ \E i \in Nat : Stores(t, i)
      BY <2>2, StepCases
    <3>2. call' \in [Threads -> Call]
      BY <3>1 DEF TypeOK
    <3>3. timeline' \in [Runs -> Seq(Event)]
      BY <3>1, StoreShape DEF TypeOK
    <3> QED
      BY <3>2, <3>3 DEF TypeOK
  <2> QED
    BY <2>1, <2>2
<1> QED
  BY <1>1, <1>2, PTL DEF Spec

--------------------------------------------------------------------------------
(* What holds for any number of threads: an answer lies after the request it *)
(* answers, since it is placed after the last event its handler has read.    *)

\* The place in run r, after thread t has stored at i, of the event that was at k.
Place(t, i, r, k) == IF r = call[t].run /\ k >= i THEN k + 1 ELSE k

\* An append moves events and adds one.
LEMMA StoreMoves ==
  ASSUME TypeOK, NEW t \in Threads, NEW i \in Nat, Stores(t, i), NEW r \in Runs
  PROVE  /\ DOMAIN timeline[r] \subseteq Nat
         /\ \A k \in DOMAIN timeline[r] :
              /\ Place(t, i, r, k) \in DOMAIN timeline'[r]
              /\ timeline'[r][Place(t, i, r, k)] = timeline[r][k]
         /\ \A m \in DOMAIN timeline'[r] :
              \/ r = call[t].run /\ m = i /\ timeline'[r][m] = call[t].event
              \/ \E k \in DOMAIN timeline[r] :
                   m = Place(t, i, r, k) /\ timeline'[r][m] = timeline[r][k]
<1> DEFINE run == call[t].run
           n == Len(timeline[run])
<1>1. /\ run \in Runs
      /\ n \in Nat /\ i \in 1..(n + 1)
      /\ DOMAIN timeline[run] = 1..n
      /\ DOMAIN timeline'[run] = 1..(n + 1)
      /\ \A q \in Runs : q # run => timeline'[q] = timeline[q]
      /\ timeline'[run][i] = call[t].event
      /\ \A k \in 1..n : k < i => timeline'[run][k] = timeline[run][k]
      /\ \A k \in 1..(n + 1) : k > i =>
           k - 1 \in 1..n /\ timeline'[run][k] = timeline[run][k - 1]
  BY StoreShape
<1>2. DOMAIN timeline[r] \subseteq Nat
  BY DEF TypeOK
<1> HIDE DEF n
<1>3. CASE r # run
  BY <1>1, <1>2, <1>3 DEF Place
<1>4. CASE r = run
  <2>1. ASSUME NEW k \in 1..n
        PROVE  /\ Place(t, i, r, k) \in 1..(n + 1)
               /\ timeline'[run][Place(t, i, r, k)] = timeline[run][k]
    <3>1. CASE k < i
      BY <1>1, <3>1 DEF Place
    <3>2. CASE k >= i
      <4>1. k + 1 \in 1..(n + 1) /\ k + 1 > i /\ k + 1 - 1 = k
        BY <1>1, <3>2
      <4>2. timeline'[run][k + 1] = timeline[run][k]
        BY <1>1, <4>1
      <4> QED
        BY <1>4, <3>2, <4>1, <4>2 DEF Place
    <3> QED
      BY <1>1, <3>1, <3>2
  <2>2. ASSUME NEW m \in 1..(n + 1), m # i
        PROVE  \E k \in 1..n : m = Place(t, i, r, k) /\ timeline'[run][m] = timeline[run][k]
    <3>1. CASE m < i
      <4>1. m \in 1..n /\ m = Place(t, i, r, m)
        BY <1>1, <3>1 DEF Place
      <4> QED
        BY <1>1, <3>1, <4>1
    <3>2. CASE m > i
      <4>1. m - 1 \in 1..n /\ m - 1 >= i /\ m = m - 1 + 1
        BY <1>1, <3>2
      <4>2. m = Place(t, i, r, m - 1)
        BY <1>4, <4>1 DEF Place
      <4> QED
        BY <1>1, <3>2, <4>1, <4>2
    <3> QED
      BY <1>1, <2>2, <3>1, <3>2
  <2>3. \A k \in DOMAIN timeline[r] :
          /\ Place(t, i, r, k) \in DOMAIN timeline'[r]
          /\ timeline'[r][Place(t, i, r, k)] = timeline[r][k]
    BY <1>1, <1>4, <2>1
  <2>4. \A m \in DOMAIN timeline'[r] : m # i =>
          \E k \in DOMAIN timeline[r] :
            m = Place(t, i, r, k) /\ timeline'[r][m] = timeline[r][k]
    <3>1. /\ DOMAIN timeline'[r] = 1..(n + 1) /\ DOMAIN timeline[r] = 1..n
          /\ timeline'[run] = timeline'[r] /\ timeline[run] = timeline[r]
      BY ONLY <1>1, <1>4
    <3> QED
      BY ONLY <2>2, <3>1
  <2>5. timeline'[r][i] = call[t].event /\ r = call[t].run
    BY ONLY <1>1, <1>4
  <2> QED
    BY <1>2, <2>3, <2>4, <2>5
<1> QED
  BY <1>3, <1>4

\* No run has two events of one id.
UniqueIds ==
  \A run \in Runs : \A i, k \in DOMAIN timeline[run] :
    timeline[run][i].id = timeline[run][k].id => i = k

\* What answers a request resolves it and requests nothing.
IsAnswer(event) ==
  event.answers # None => event.type = "approval_resolved" /\ event.status # "pending"

AnswersResolve ==
  /\ \A run \in Runs : \A i \in DOMAIN timeline[run] : IsAnswer(timeline[run][i])
  /\ \A t \in Threads : call[t] # Idle => IsAnswer(call[t].event)

\* A stored answer follows the request it answers.
AnswersFollow ==
  \A run \in Runs : \A i \in DOMAIN timeline[run] :
    timeline[run][i].answers # None =>
      \E k \in 1..(i - 1) : timeline[run][k].id = timeline[run][i].answers

\* The request that an answer under way is for lies no later than the event the answer
\* will follow.
TargetRead ==
  \A t \in Threads : call[t] # Idle /\ call[t].event.answers # None =>
    /\ call[t].after # None
    /\ \E a, b \in DOMAIN timeline[call[t].run] :
         /\ a <= b
         /\ timeline[call[t].run][a].id = call[t].event.answers
         /\ timeline[call[t].run][b].id = call[t].after

\* The inductive invariant for any number of threads.
OrderInv == TypeOK /\ UniqueIds /\ AnswersResolve /\ AnswersFollow /\ TargetRead

\* A request begins: what it has read is there.
LEMMA StartKeepsOrderInv ==
  ASSUME OrderInv, NEW t \in Threads, NEW next \in Call, Started(next),
         timeline' = timeline, call' = [call EXCEPT ![t] = next]
  PROVE  OrderInv'
<1> USE DEF OrderInv
<1>1. call'[t] = next /\ \A u \in Threads : u # t => call'[u] = call[u]
  BY DEF TypeOK
<1>2. TypeOK'
  BY DEF TypeOK
<1>3. UniqueIds' /\ AnswersFollow'
  BY DEF UniqueIds, AnswersFollow
<1>4. next.event.answers # None => Answer(next)
  <2>1. Ingested(next) => next.event.answers = None
    BY ApprovalAssumption DEF Ingested
  <2> QED
    BY <2>1 DEF Started, Registration, RuntimeReceipt
<1>5. AnswersResolve'
  BY <1>1, <1>4 DEF AnswersResolve, IsAnswer, Answer
<1>6. ASSUME next.event.answers # None
      PROVE  /\ next.after # None
             /\ \E a, b \in DOMAIN timeline[next.run] :
                  /\ a <= b
                  /\ timeline[next.run][a].id = next.event.answers
                  /\ timeline[next.run][b].id = next.after
  <2> DEFINE events == timeline[next.run]
  <2>1. events \in Seq(Event) /\ next.run \in Runs
    BY DEF TypeOK, Started
  <2>2. /\ HasId(events, next.event.answers)
        /\ next.after = LastId(events)
    BY <1>4, <1>6, <2>1 DEF Answer, Resolvable, Drawn
  <2> HIDE DEF events
  <2>3. PICK a \in DOMAIN events : events[a].id = next.event.answers
    BY <2>2 DEF HasId
  <2>4. /\ a <= Len(events) /\ Len(events) \in DOMAIN events /\ events # << >>
        /\ events[Len(events)] \in Event
    BY <2>1
  <2>5. next.after = events[Len(events)].id /\ next.after \in EventIds
    BY <2>2, <2>4, EventFields DEF LastId
  <2> QED
    BY <2>3, <2>4, <2>5, NoneAssumption DEF events
<1>7. TargetRead'
  <2> SUFFICES ASSUME NEW u \in Threads, call'[u] # Idle, call'[u].event.answers # None
               PROVE  /\ call'[u].after # None
                      /\ \E a, b \in DOMAIN timeline[call'[u].run] :
                           /\ a <= b
                           /\ timeline[call'[u].run][a].id = call'[u].event.answers
                           /\ timeline[call'[u].run][b].id = call'[u].after
    BY DEF TargetRead
  <2>1. CASE u = t
    BY <1>1, <1>6, <2>1
  <2>2. CASE u # t
    BY <1>1, <2>2 DEF TargetRead
  <2> QED
    BY <2>1, <2>2
<1> QED
  BY <1>2, <1>3, <1>5, <1>7

\* An event is stored: an answer among those that follow its request.
LEMMA StoreKeepsOrderInv ==
  ASSUME OrderInv, NEW t \in Threads, NEW next \in Call, Harmless(next),
         NEW i \in Nat, Stores(t, i), call' = [call EXCEPT ![t] = next]
  PROVE  OrderInv'
<1> USE DEF OrderInv
<1> DEFINE run == call[t].run
           event == call[t].event
<1>1. call'[t] = next /\ \A u \in Threads : u # t => call'[u] = call[u]
  BY DEF TypeOK
<1>2. run \in Runs /\ call[t] # Idle /\ event \in Event
  BY CallFields DEF Stores
<1>3. TypeOK'
  <2>1. timeline' \in [Runs -> Seq(Event)]
    BY StoreShape
  <2> QED
    BY <2>1 DEF TypeOK
<1> DEFINE P(r, k) == Place(t, i, r, k)
<1>4. ASSUME NEW r \in Runs
      PROVE  /\ DOMAIN timeline[r] \subseteq Nat
             /\ \A k \in DOMAIN timeline[r] :
                  P(r, k) \in DOMAIN timeline'[r] /\ timeline'[r][P(r, k)] = timeline[r][k]
             /\ \A m \in DOMAIN timeline'[r] :
                  \/ r = run /\ m = i /\ timeline'[r][m] = event
                  \/ \E k \in DOMAIN timeline[r] :
                       m = P(r, k) /\ timeline'[r][m] = timeline[r][k]
  BY StoreMoves
<1>5. \A r \in Runs : \A j, k \in Nat : j <= k => P(r, j) <= P(r, k) /\ P(r, j) \in Nat
  BY DEF Place
<1>6. \A r \in Runs : \A j, k \in Nat : j < k => P(r, j) < P(r, k) /\ P(r, j) \in Nat
  BY DEF Place
<1>7. \A k \in DOMAIN timeline[run] : timeline[run][k].id # event.id
  BY DEF Stores, HasId
<1> HIDE DEF P, run, event
<1>8. UniqueIds'
  <2> SUFFICES ASSUME NEW r \in Runs, NEW j \in DOMAIN timeline'[r],
                      NEW k \in DOMAIN timeline'[r],
                      timeline'[r][j].id = timeline'[r][k].id
               PROVE  j = k
    BY DEF UniqueIds
  <2>1. CASE r = run /\ timeline'[r][j] = event /\ j = i
    BY <1>4, <1>7, <2>1
  <2>2. CASE r = run /\ timeline'[r][k] = event /\ k = i
    BY <1>4, <1>7, <2>2
  <2>3. CASE /\ \E o \in DOMAIN timeline[r] : j = P(r, o) /\ timeline'[r][j] = timeline[r][o]
             /\ \E o \in DOMAIN timeline[r] : k = P(r, o) /\ timeline'[r][k] = timeline[r][o]
    BY <2>3 DEF UniqueIds
  <2> QED
    BY <1>4, <2>1, <2>2, <2>3
<1>9. AnswersResolve'
  <2>1. IsAnswer(event)
    BY <1>2 DEF AnswersResolve, event
  <2>2. next # Idle => IsAnswer(next.event)
    BY DEF Harmless, IsAnswer
  <2>3. \A r \in Runs : \A m \in DOMAIN timeline'[r] : IsAnswer(timeline'[r][m])
    BY <1>4, <2>1 DEF AnswersResolve
  <2>4. \A u \in Threads : call'[u] # Idle => IsAnswer(call'[u].event)
    BY <1>1, <2>2 DEF AnswersResolve
  <2> QED
    BY <2>3, <2>4 DEF AnswersResolve
<1>10. AnswersFollow'
  <2> SUFFICES ASSUME NEW r \in Runs, NEW m \in DOMAIN timeline'[r],
                      timeline'[r][m].answers # None
               PROVE  \E k \in 1..(m - 1) : timeline'[r][k].id = timeline'[r][m].answers
    BY DEF AnswersFollow
  <2>1. CASE r = run /\ m = i /\ timeline'[r][m] = event
    <3>1. PICK a, b \in DOMAIN timeline[run] :
            /\ call[t].after # None
            /\ a <= b
            /\ timeline[run][a].id = event.answers
            /\ timeline[run][b].id = call[t].after
      BY <1>2, <2>1 DEF TargetRead, run, event
    <3>2. PICK k \in 1..(i - 1) : timeline[run][k].id = call[t].after
      BY <3>1 DEF Stores, Landings, run
    <3>3. k = b /\ a \in Nat /\ b \in Nat
      <4>1. i \in 1..(Len(timeline[run]) + 1) /\ timeline[run] \in Seq(Event)
        BY <1>2 DEF Stores, Landings, TypeOK, run
      <4>2. k \in DOMAIN timeline[run]
        BY <4>1
      <4> QED
        BY <1>2, <1>4, <3>1, <3>2, <4>2 DEF UniqueIds
    <3>4. P(r, a) = a /\ a \in 1..(i - 1)
      <4>1. a < i /\ a >= 1
        <5>1. a \in 1..Len(timeline[run]) /\ Len(timeline[run]) \in Nat
          BY <1>2 DEF TypeOK
        <5> QED
          BY <3>1, <3>2, <3>3, <5>1
      <4> QED
        BY <3>3, <4>1 DEF P, Place
    <3>5. timeline'[r][a] = timeline[run][a]
      BY <1>2, <1>4, <2>1, <3>4
    <3> QED
      BY <2>1, <3>1, <3>4, <3>5
  <2>2. CASE \E k \in DOMAIN timeline[r] : m = P(r, k) /\ timeline'[r][m] = timeline[r][k]
    <3>1. PICK k \in DOMAIN timeline[r] : m = P(r, k) /\ timeline'[r][m] = timeline[r][k]
      BY <2>2
    <3>2. PICK o \in 1..(k - 1) : timeline[r][o].id = timeline[r][k].answers
      BY <3>1 DEF AnswersFollow
    <3>3. /\ DOMAIN timeline[r] = 1..Len(timeline[r]) /\ Len(timeline[r]) \in Nat
          /\ DOMAIN timeline'[r] = 1..Len(timeline'[r]) /\ Len(timeline'[r]) \in Nat
      BY <1>3 DEF TypeOK
    <3>4. o \in DOMAIN timeline[r] /\ o < k /\ o \in Nat /\ k \in Nat
      BY <3>2, <3>3
    <3>5. P(r, o) < P(r, k) /\ P(r, o) \in DOMAIN timeline'[r]
          /\ timeline'[r][P(r, o)] = timeline[r][o]
      BY <1>4, <1>6, <3>4
    <3>6. P(r, o) \in 1..(m - 1)
      BY <3>1, <3>3, <3>5
    <3> QED
      BY <3>1, <3>2, <3>5, <3>6
  <2> QED
    BY <1>4, <2>1, <2>2
<1>11. TargetRead'
  <2> SUFFICES ASSUME NEW u \in Threads, call'[u] # Idle, call'[u].event.answers # None
               PROVE  /\ call'[u].after # None
                      /\ \E a, b \in DOMAIN timeline'[call'[u].run] :
                           /\ a <= b
                           /\ timeline'[call'[u].run][a].id = call'[u].event.answers
                           /\ timeline'[call'[u].run][b].id = call'[u].after
    BY DEF TargetRead
  <2>1. u # t /\ call'[u] = call[u] /\ call[u] # Idle
    BY <1>1 DEF Harmless
  <2>2. call[u].run \in Runs
    BY <2>1, CallFields
  <2>3. PICK a, b \in DOMAIN timeline[call[u].run] :
          /\ call[u].after # None
          /\ a <= b
          /\ timeline[call[u].run][a].id = call[u].event.answers
          /\ timeline[call[u].run][b].id = call[u].after
    BY <2>1 DEF TargetRead
  <2> DEFINE r == call[u].run
  <2>4. /\ P(r, a) \in DOMAIN timeline'[r] /\ timeline'[r][P(r, a)] = timeline[r][a]
        /\ P(r, b) \in DOMAIN timeline'[r] /\ timeline'[r][P(r, b)] = timeline[r][b]
        /\ P(r, a) <= P(r, b)
    BY <1>4, <1>5, <2>2, <2>3
  <2> QED
    BY <2>1, <2>3, <2>4
<1> QED
  BY <1>3, <1>8, <1>9, <1>10, <1>11

\* A request ends, or goes on with a continuation, without storing anything.
LEMMA GiveUpKeepsOrderInv ==
  ASSUME OrderInv, NEW t \in Threads, NEW next \in Call, Harmless(next),
         timeline' = timeline, call' = [call EXCEPT ![t] = next]
  PROVE  OrderInv'
<1> USE DEF OrderInv
<1>1. call'[t] = next /\ \A u \in Threads : u # t => call'[u] = call[u]
  BY DEF TypeOK
<1>2. TypeOK' /\ UniqueIds' /\ AnswersFollow'
  BY DEF TypeOK, UniqueIds, AnswersFollow
<1>3. AnswersResolve'
  BY <1>1 DEF AnswersResolve, Harmless, IsAnswer
<1>4. TargetRead'
  <2> SUFFICES ASSUME NEW u \in Threads, call'[u] # Idle, call'[u].event.answers # None
               PROVE  /\ call'[u].after # None
                      /\ \E a, b \in DOMAIN timeline[call'[u].run] :
                           /\ a <= b
                           /\ timeline[call'[u].run][a].id = call'[u].event.answers
                           /\ timeline[call'[u].run][b].id = call'[u].after
    BY DEF TargetRead
  <2>1. u # t /\ call'[u] = call[u]
    BY <1>1 DEF Harmless
  <2> QED
    BY <2>1 DEF TargetRead
<1> QED
  BY <1>2, <1>3, <1>4

\* Whatever the threads do, an id is used once per run and an answer follows the
\* request it answers.
THEOREM ApprovalOrderInv == Spec => []OrderInv
<1>1. Init => OrderInv
  <2> SUFFICES ASSUME Init PROVE OrderInv
    OBVIOUS
  <2>1. TypeOK /\ (\A run \in Runs : timeline[run] = << >>) /\ \A t \in Threads : call[t] = Idle
    BY DEF Init, TypeOK, Call
  <2> QED
    BY <2>1 DEF OrderInv, UniqueIds, AnswersResolve, AnswersFollow, TargetRead
<1>2. OrderInv /\ [Next]_vars => OrderInv'
  <2> SUFFICES ASSUME OrderInv, [Next]_vars PROVE OrderInv'
    OBVIOUS
  <2>1. CASE UNCHANGED vars
    BY <2>1 DEF vars, OrderInv, TypeOK, UniqueIds, AnswersResolve, AnswersFollow, TargetRead
  <2>2. CASE Next
    <3>1. PICK t \in Threads, next \in Call :
            /\ call' = [call EXCEPT ![t] = next]
            /\ \/ timeline' = timeline /\ call[t] = Idle /\ Started(next)
               \/ /\ Harmless(next)
                  /\ timeline' = timeline \/ \E i \in Nat : Stores(t, i)
      BY <2>2, StepCases DEF OrderInv
    <3> QED
      BY <3>1, StartKeepsOrderInv, StoreKeepsOrderInv, GiveUpKeepsOrderInv
  <2> QED
    BY <2>1, <2>2
<1> QED
  BY <1>1, <1>2, PTL DEF Spec

\* The approval that holds a readable run up can be resolved by its event id, for any
\* number of threads: it is the last word of its run, so no answer follows it, and an
\* answer to it would.
THEOREM ApprovalAddressable == Spec => []Addressable
<1>1. OrderInv => Addressable
  <2> SUFFICES ASSUME OrderInv, NEW run \in Runs,
                      ProjectRunStatus(timeline[run]).error = NoError,
                      ProjectRunStatus(timeline[run]).pending # None,
                      \A other \in Runs \ {run} :
                        ~ HasId(timeline[other], ProjectRunStatus(timeline[run]).pending),
                      \A i \in DOMAIN timeline[run] :
                        <<ProjectRunStatus(timeline[run]).pending, timeline[run][i].answers>>
                          \notin IdPrefixes
               PROVE  Resolvable(run, ProjectRunStatus(timeline[run]).pending)
    BY DEF Addressable
  <2> DEFINE p == ProjectRunStatus(timeline[run])
             id == p.pending
             events == timeline[run]
             n == Len(events)
  <2>1. events \in Seq(Event) /\ n \in Nat /\ DOMAIN events = 1..n
    BY DEF OrderInv, TypeOK
  <2>2. p.status = "paused" /\ AwaitedSince(id, events, n)
    BY <2>1, ProjectionKnows DEF Knows
  <2>3. \A j, k \in 1..n : events[j].id = events[k].id => j = k
    BY <2>1 DEF OrderInv, UniqueIds
  <2>4. \A j \in 1..n : /\ IsAnswer(events[j])
                        /\ events[j].answers # None =>
                             \E k \in 1..(j - 1) : events[k].id = events[j].answers
    BY <2>1 DEF OrderInv, AnswersResolve, AnswersFollow
  <2>5. p.error = NoError /\ id # None /\ \A j \in 1..n : <<id, events[j].answers>> \notin IdPrefixes
    BY <2>1
  <2>6. \A other \in Runs : other # run => ~ HasId(timeline[other], id)
    OBVIOUS
  <2> HIDE DEF id, p, n, events
  <2>7. PICK i \in 1..n :
          /\ events[i].id = id
          /\ IsPendingSignal(events[i])
          /\ \A m \in (i + 1)..n : ~ IsPendingSignal(events[m]) /\ ~ IsResolutionSignal(events[m])
    BY <2>2 DEF AwaitedSince
  <2>8. HasId(events, id)
    BY <2>1, <2>7 DEF HasId
  <2>9. \A other \in Runs : HasId(timeline[other], id) <=> (other = run)
    BY <2>6, <2>8 DEF events
  <2>10. EventOf(events, id) = events[i]
    <3>1. PICK k \in DOMAIN events : EventOf(events, id) = events[k] /\ events[k].id = id
      BY <2>1, <2>8, EventOfId
    <3> QED
      BY <2>1, <2>3, <2>7, <3>1
  <2>11. ~ WasEventResolved(events, id)
    <3>1. SUFFICES ASSUME NEW j \in 1..n,
                          IsResolutionSignal(events[j]), ~ IsPendingSignal(events[j]),
                          \/ events[j].answers = id
                          \/ <<id, events[j].answers>> \in IdPrefixes
                          \/ \E k \in 1..(j - 1) : events[k].id = id
                   PROVE  FALSE
      BY <2>1 DEF WasEventResolved
    <3>2. PICK k \in 1..(j - 1) : events[k].id = id
      BY <2>4, <2>5, <3>1
    <3>3. k \in 1..n
      BY <2>1, <3>1, <3>2
    <3>4. k = i
      BY <2>3, <2>7, <3>2, <3>3
    <3>5. j \in (i + 1)..n
      BY <2>1, <3>1, <3>2, <3>4
    <3> QED
      BY <2>7, <3>1, <3>5
  <2>12. Resolvable(run, id)
    BY <2>2, <2>5, <2>7, <2>9, <2>10, <2>11 DEF Resolvable, p, id, events
  <2> QED
    BY <2>12 DEF id, p, events
<1> QED
  BY <1>1, ApprovalOrderInv, PTL

--------------------------------------------------------------------------------
(* What the handlers store once, for any number of threads: what a handler has   *)
(* found on its decision or its request stays so until another handler under way *)
(* for the same one appends.                                                     *)

\* Two handlers under way for one request, or for one decision, have been noticed.
AtOnce ==
  \A t, u \in Threads : t # u =>
    /\ \A id \in EventIds :
         AnswersTo(call[t], id) /\ AnswersTo(call[u], id) => id \in answeredAtOnce
    /\ \A decision \in DecisionIds :
         Registers(call[t], decision) /\ Registers(call[u], decision)
           => decision \in registeredAtOnce

\* The answer under way to a request is its first.
AnswersNew ==
  \A t \in Threads : \A id \in EventIds \ answeredAtOnce : AnswersTo(call[t], id) =>
    \A r \in Runs : \A k \in DOMAIN timeline[r] : timeline[r][k].answers # id

\* The registration under way of a decision is its first.
RegistersNew ==
  \A t \in Threads : \A decision : Registers(call[t], decision) =>
    /\ decision \in DecisionIds
    /\ decision \notin registeredAtOnce =>
         \A r \in Runs : \A k \in DOMAIN timeline[r] :
           timeline[r][k].type = "approval_requested" /\ timeline[r][k].id \in ServiceIds
             => timeline[r][k].decision_id # decision

\* No request has two answers.
AnsweredOnce ==
  \A r1, r2 \in Runs : \A i \in DOMAIN timeline[r1], k \in DOMAIN timeline[r2] :
    /\ timeline[r1][i].answers # None
    /\ timeline[r1][i].answers \notin answeredAtOnce
    /\ timeline[r1][i].answers = timeline[r2][k].answers
    => r1 = r2 /\ i = k

\* The inductive invariant of answers and registrations.
OnceInv == AtOnce /\ AnswersNew /\ RegistersNew /\ AnsweredOnce /\ RegisteredOnceApart

\* A handler takes up only a request that has no answer.
LEMMA NewAnswer ==
  ASSUME OrderInv, NEW c, Started(c), c.event.answers # None,
         NEW r \in Runs, NEW k \in DOMAIN timeline[r]
  PROVE  timeline[r][k].answers # c.event.answers
<1> DEFINE id == c.event.answers
           run == c.run
<1>1. Answer(c) /\ run \in Runs
  <2>1. ~ Ingested(c)
    BY ApprovalAssumption DEF Ingested
  <2> QED
    BY <2>1 DEF Started, Registration, RuntimeReceipt
<1>2. (\A other \in Runs : HasId(timeline[other], id) <=> (other = run))
      /\ ~ WasEventResolved(timeline[run], id)
  BY <1>1 DEF Answer, Resolvable
<1>3. SUFFICES ASSUME timeline[r][k].answers = id PROVE FALSE
  OBVIOUS
<1>4. /\ timeline[r][k].type = "approval_resolved" /\ timeline[r][k].status # "pending"
      /\ \E j \in 1..(k - 1) : timeline[r][j].id = id
  BY <1>3 DEF OrderInv, AnswersResolve, AnswersFollow, IsAnswer
<1>5. r = run
  <2>1. timeline[r] \in Seq(Event)
    BY DEF OrderInv, TypeOK
  <2>2. \A j \in 1..(k - 1) : j \in DOMAIN timeline[r]
    BY <2>1
  <2>3. HasId(timeline[r], id)
    BY <1>4, <2>2 DEF HasId
  <2> QED
    BY <1>2, <2>3
<1>6. IsResolutionSignal(timeline[r][k]) /\ ~ IsPendingSignal(timeline[r][k])
  BY <1>4 DEF IsResolutionSignal, IsPendingSignal
<1>7. WasEventResolved(timeline[run], id)
  BY <1>3, <1>5, <1>6 DEF WasEventResolved
<1> QED
  BY <1>2, <1>7

\* A handler registers only a decision that nobody has requested an approval for.
LEMMA NewRegistration ==
  ASSUME NEW c, Started(c), c.event.type = "approval_requested", c.event.id \in ServiceIds
  PROVE  /\ c.event.decision_id \in DecisionIds
         /\ \A r \in Runs : \A k \in DOMAIN timeline[r] :
              timeline[r][k].type = "approval_requested" =>
                timeline[r][k].decision_id # c.event.decision_id
<1>1. Registration(c)
  <2>1. ~ Ingested(c)
    BY ApprovalAssumption DEF Ingested
  <2> QED
    BY <2>1 DEF Started, Answer, RuntimeReceipt
<1>2. LifecycleEvents(c.event.decision_id) = {}
  BY <1>1 DEF Registration
<1>3. SUFFICES ASSUME NEW r \in Runs, NEW k \in DOMAIN timeline[r],
                      timeline[r][k].type = "approval_requested",
                      timeline[r][k].decision_id = c.event.decision_id
               PROVE  FALSE
  BY <1>1 DEF Registration
<1>4. <<r, k>> \in LifecycleEvents(c.event.decision_id)
  BY <1>3 DEF LifecycleEvents, IsPendingSignal
<1> QED
  BY <1>2, <1>4

\* Two handlers that come under way together for one request or decision are noticed.
LEMMA WatchNotices ==
  ASSUME Watch
  PROVE  /\ AtOnce'
         /\ answeredAtOnce \subseteq answeredAtOnce'
         /\ registeredAtOnce \subseteq registeredAtOnce'
BY DEF Watch, AtOnce

\* A request begins: nothing is stored, and what it answers or registers is new.
LEMMA StartKeepsOnceInv ==
  ASSUME OrderInv, OnceInv, Watch, NEW t \in Threads, NEW next, Started(next),
         TypeOK, call' = [call EXCEPT ![t] = next], timeline' = timeline
  PROVE  OnceInv'
<1>1. /\ call'[t] = next
      /\ \A u \in Threads : u # t => call'[u] = call[u]
  BY DEF TypeOK
<1>2. AnswersNew'
  <2> SUFFICES ASSUME NEW u \in Threads, NEW id \in EventIds, id \notin answeredAtOnce',
                      AnswersTo(call'[u], id), NEW r \in Runs, NEW k \in DOMAIN timeline[r]
               PROVE  timeline[r][k].answers # id
    BY DEF AnswersNew
  <2>1. CASE u = t
    <3>1. next.event.answers = id /\ id # None
      BY <1>1, <2>1, NoneAssumption DEF AnswersTo
    <3> QED
      BY <3>1, NewAnswer
  <2>2. CASE u # t
    <3>1. AnswersTo(call[u], id) /\ id \notin answeredAtOnce
      BY <1>1, <2>2, WatchNotices
    <3> QED
      BY <3>1 DEF OnceInv, AnswersNew
  <2> QED
    BY <2>1, <2>2
<1>3. RegistersNew'
  <2> SUFFICES ASSUME NEW u \in Threads, NEW decision, Registers(call'[u], decision)
               PROVE  /\ decision \in DecisionIds
                      /\ decision \notin registeredAtOnce' =>
                           \A r \in Runs : \A k \in DOMAIN timeline[r] :
                             timeline[r][k].type = "approval_requested"
                             /\ timeline[r][k].id \in ServiceIds
                               => timeline[r][k].decision_id # decision
    BY DEF RegistersNew
  <2>1. CASE u = t
    BY <1>1, <2>1, NewRegistration DEF Registers
  <2>2. CASE u # t
    <3>1. Registers(call[u], decision)
      BY <1>1, <2>2
    <3> QED
      BY <3>1, WatchNotices DEF OnceInv, RegistersNew
  <2> QED
    BY <2>1, <2>2
<1>4. AnsweredOnce' /\ RegisteredOnceApart'
  BY WatchNotices DEF OnceInv, AnsweredOnce, RegisteredOnceApart
<1> QED
  BY <1>2, <1>3, <1>4, WatchNotices DEF OnceInv

\* A handler gives up: nothing is stored.
LEMMA GiveUpKeepsOnceInv ==
  ASSUME OnceInv, Watch, NEW t \in Threads, NEW next, Harmless(next), TypeOK,
         call' = [call EXCEPT ![t] = next], timeline' = timeline
  PROVE  OnceInv'
<1>1. \A u \in Threads : call'[u] = call[u] \/ Harmless(call'[u])
  BY DEF TypeOK
<1>2. \A u \in Threads :
        /\ \A id \in EventIds : AnswersTo(call'[u], id) => AnswersTo(call[u], id)
        /\ \A decision : Registers(call'[u], decision) => Registers(call[u], decision)
  BY <1>1, NoneAssumption DEF Harmless, AnswersTo, Registers
<1>3. AnswersNew'
  BY <1>2, WatchNotices DEF OnceInv, AnswersNew
<1>4. RegistersNew'
  BY <1>2, WatchNotices DEF OnceInv, RegistersNew
<1>5. AnsweredOnce' /\ RegisteredOnceApart'
  BY WatchNotices DEF OnceInv, AnsweredOnce, RegisteredOnceApart
<1> QED
  BY <1>3, <1>4, <1>5, WatchNotices DEF OnceInv

\* Storing an event keeps answers and registrations single: a second of either would
\* have been under way together with the first, and noticed.
LEMMA StoreKeepsOnceInv ==
  ASSUME OnceInv, Watch, TypeOK, NEW t \in Threads, NEW next, Harmless(next),
         call' = [call EXCEPT ![t] = next], NEW i \in Nat, Stores(t, i)
  PROVE  OnceInv'
<1> DEFINE event == call[t].event
           AsBefore(r, m, k) == m = Place(t, i, r, k) /\ timeline'[r][m] = timeline[r][k]
           New(r, m) == r = call[t].run /\ m = i /\ timeline'[r][m] = event
<1>1. /\ call'[t] = next
      /\ \A u \in Threads : u # t => call'[u] = call[u]
      /\ call[t] # Idle
      /\ event \in Event
  BY CallFields DEF TypeOK, Stores
<1>2. \A u \in Threads :
        /\ \A id \in EventIds : AnswersTo(call'[u], id) => u # t /\ AnswersTo(call[u], id)
        /\ \A decision : Registers(call'[u], decision) => u # t /\ Registers(call[u], decision)
  BY <1>1, NoneAssumption DEF Harmless, AnswersTo, Registers
<1>3. \A r \in Runs : \A m \in DOMAIN timeline'[r] :
        New(r, m) \/ \E k \in DOMAIN timeline[r] : AsBefore(r, m, k)
  BY StoreMoves
<1>4. /\ answeredAtOnce \subseteq answeredAtOnce'
      /\ registeredAtOnce \subseteq registeredAtOnce'
  BY WatchNotices
<1>5. ASSUME NEW id \in EventIds, id \notin answeredAtOnce, event.answers = id
      PROVE  /\ \A u \in Threads : u # t => ~ AnswersTo(call[u], id)
             /\ \A r \in Runs : \A k \in DOMAIN timeline[r] : timeline[r][k].answers # id
  <2>1. AnswersTo(call[t], id)
    BY <1>1, <1>5 DEF AnswersTo
  <2> QED
    BY <1>5, <2>1 DEF OnceInv, AtOnce, AnswersNew
<1>6. ASSUME event.type = "approval_requested", event.id \in ServiceIds,
             event.decision_id \notin registeredAtOnce
      PROVE  /\ \A u \in Threads : u # t => ~ Registers(call[u], event.decision_id)
             /\ \A r \in Runs : \A k \in DOMAIN timeline[r] :
                  timeline[r][k].type = "approval_requested" /\ timeline[r][k].id \in ServiceIds
                    => timeline[r][k].decision_id # event.decision_id
  <2>1. Registers(call[t], event.decision_id)
    BY <1>1, <1>6 DEF Registers
  <2>2. event.decision_id \in DecisionIds
    BY <2>1 DEF OnceInv, RegistersNew
  <2> QED
    BY <1>6, <2>1, <2>2 DEF OnceInv, AtOnce, RegistersNew
<1> HIDE DEF event, AsBefore, New
<1>7. AnswersNew'
  <2> SUFFICES ASSUME NEW u \in Threads, NEW id \in EventIds, id \notin answeredAtOnce',
                      AnswersTo(call'[u], id), NEW r \in Runs, NEW m \in DOMAIN timeline'[r]
               PROVE  timeline'[r][m].answers # id
    BY DEF AnswersNew
  <2>1. u # t /\ AnswersTo(call[u], id) /\ id \notin answeredAtOnce
    BY <1>2, <1>4
  <2>2. CASE New(r, m)
    BY <1>5, <2>1, <2>2 DEF New
  <2>3. CASE \E k \in DOMAIN timeline[r] : AsBefore(r, m, k)
    BY <2>1, <2>3 DEF OnceInv, AnswersNew, AsBefore
  <2> QED
    BY <1>3, <2>2, <2>3
<1>8. RegistersNew'
  <2> SUFFICES ASSUME NEW u \in Threads, NEW decision, Registers(call'[u], decision)
               PROVE  /\ decision \in DecisionIds
                      /\ decision \notin registeredAtOnce' =>
                           \A r \in Runs : \A m \in DOMAIN timeline'[r] :
                             timeline'[r][m].type = "approval_requested"
                             /\ timeline'[r][m].id \in ServiceIds
                               => timeline'[r][m].decision_id # decision
    BY DEF RegistersNew
  <2>1. u # t /\ Registers(call[u], decision) /\ decision \in DecisionIds
    BY <1>2 DEF OnceInv, RegistersNew
  <2>2. ASSUME decision \notin registeredAtOnce', NEW r \in Runs,
               NEW m \in DOMAIN timeline'[r], timeline'[r][m].type = "approval_requested",
               timeline'[r][m].id \in ServiceIds
        PROVE  timeline'[r][m].decision_id # decision
    <3>1. decision \notin registeredAtOnce
      BY <1>4, <2>2
    <3>2. CASE New(r, m)
      BY <1>6, <2>1, <2>2, <3>1, <3>2 DEF New
    <3>3. CASE \E k \in DOMAIN timeline[r] : AsBefore(r, m, k)
      BY <2>1, <2>2, <3>1, <3>3 DEF OnceInv, RegistersNew, AsBefore
    <3> QED
      BY <1>3, <2>2, <3>2, <3>3
  <2> QED
    BY <2>1, <2>2
<1>9. AnsweredOnce'
  <2> SUFFICES ASSUME NEW r1 \in Runs, NEW r2 \in Runs,
                      NEW j \in DOMAIN timeline'[r1], NEW k \in DOMAIN timeline'[r2],
                      timeline'[r1][j].answers # None,
                      timeline'[r1][j].answers \notin answeredAtOnce',
                      timeline'[r1][j].answers = timeline'[r2][k].answers
               PROVE  r1 = r2 /\ j = k
    BY DEF AnsweredOnce
  <2>1. timeline'[r1][j].answers \notin answeredAtOnce
    BY <1>4
  <2>2. CASE /\ \E o \in DOMAIN timeline[r1] : AsBefore(r1, j, o)
             /\ \E o \in DOMAIN timeline[r2] : AsBefore(r2, k, o)
    BY <2>1, <2>2 DEF OnceInv, AnsweredOnce, AsBefore
  <2>3. event.answers # None /\ event.answers \notin answeredAtOnce =>
          \A r \in Runs : \A o \in DOMAIN timeline[r] : timeline[r][o].answers # event.answers
    BY <1>1, <1>5 DEF Event
  <2>4. CASE New(r1, j)
    BY <1>3, <2>1, <2>3, <2>4 DEF New, AsBefore
  <2>5. CASE New(r2, k)
    BY <1>3, <2>1, <2>3, <2>5 DEF New, AsBefore
  <2> QED
    BY <1>3, <2>2, <2>4, <2>5
<1>10. RegisteredOnceApart'
  <2> SUFFICES ASSUME NEW r1 \in Runs, NEW r2 \in Runs,
                      NEW j \in DOMAIN timeline'[r1], NEW k \in DOMAIN timeline'[r2],
                      timeline'[r1][j].type = "approval_requested",
                      timeline'[r1][j].id \in ServiceIds,
                      timeline'[r2][k].type = "approval_requested",
                      timeline'[r2][k].id \in ServiceIds,
                      timeline'[r1][j].decision_id = timeline'[r2][k].decision_id,
                      timeline'[r1][j].decision_id \notin registeredAtOnce'
               PROVE  timeline'[r1][j].id = timeline'[r2][k].id
    BY DEF RegisteredOnceApart
  <2>1. timeline'[r1][j].decision_id \notin registeredAtOnce
    BY <1>4
  <2>2. CASE /\ \E o \in DOMAIN timeline[r1] : AsBefore(r1, j, o)
             /\ \E o \in DOMAIN timeline[r2] : AsBefore(r2, k, o)
    BY <2>1, <2>2 DEF OnceInv, RegisteredOnceApart, AsBefore
  <2>3. CASE New(r1, j)
    BY <1>3, <1>6, <2>1, <2>3 DEF New, AsBefore
  <2>4. CASE New(r2, k)
    BY <1>3, <1>6, <2>1, <2>4 DEF New, AsBefore
  <2> QED
    BY <1>3, <2>2, <2>3, <2>4
<1> QED
  BY <1>7, <1>8, <1>9, <1>10, WatchNotices DEF OnceInv

\* The watched handlers do what the handlers do.
LEMMA WatchedGate == WatchedSpec => Spec
<1>1. WatchedInit => Init
  BY DEF WatchedInit
<1>2. [WatchedNext]_watched => [Next]_vars
  BY DEF WatchedNext, watched, Next
<1> QED
  BY <1>1, <1>2, PTL DEF WatchedSpec, Spec

LEMMA StepKeepsOnceInv == OrderInv /\ OnceInv /\ [WatchedNext]_watched => OnceInv'
<1> SUFFICES ASSUME OrderInv, OnceInv, [WatchedNext]_watched PROVE OnceInv'
  OBVIOUS
<1>1. TypeOK
  BY DEF OrderInv
<1>2. CASE UNCHANGED watched
  BY <1>2 DEF watched, vars, OnceInv, AtOnce, AnswersNew, RegistersNew, AnsweredOnce,
              RegisteredOnceApart
<1>3. CASE WatchedNext
  <2>1. Next /\ Watch
    BY <1>3 DEF WatchedNext, Next
  <2>2. PICK t \in Threads, next \in Call :
          /\ call' = [call EXCEPT ![t] = next]
          /\ \/ timeline' = timeline /\ Started(next)
             \/ /\ Harmless(next)
                /\ timeline' = timeline \/ \E i \in Nat : Stores(t, i)
    BY <1>1, <2>1, StepCases
  <2> QED
    BY <1>1, <2>1, <2>2, StartKeepsOnceInv, GiveUpKeepsOnceInv, StoreKeepsOnceInv
<1> QED
  BY <1>2, <1>3

\* For any number of threads, what is stored twice was under way twice at once.
THEOREM ApprovalOnceInv == WatchedSpec => []OnceInv
<1>1. WatchedInit => OnceInv
  <2> SUFFICES ASSUME WatchedInit PROVE OnceInv
    OBVIOUS
  <2>1. (\A run \in Runs : timeline[run] = << >>) /\ \A t \in Threads : call[t] = Idle
    BY DEF WatchedInit, Init
  <2> QED
    BY <2>1 DEF OnceInv, AtOnce, AnswersNew, RegistersNew, AnsweredOnce,
                RegisteredOnceApart, AnswersTo, Registers
<1> QED
  BY <1>1, StepKeepsOnceInv, WatchedGate, ApprovalOrderInv, PTL DEF WatchedSpec

\* For any number of threads a decision is registered once, whatever runs it is
\* registered for, until two registrations of it are under way at once.
THEOREM ApprovalRegisteredOnce == WatchedSpec => []RegisteredOnceApart
<1>1. OnceInv => RegisteredOnceApart
  BY DEF OnceInv
<1> QED
  BY <1>1, ApprovalOnceInv, PTL

\* For any number of threads a request is answered once, whichever endpoint is called
\* and however often, until two answers to it are under way at once.  Then it may be
\* answered twice: the run approval_threads.
THEOREM ApprovalResolvedOnce == WatchedSpec => []ResolvedOnceApart
<1>1. OnceInv => ResolvedOnceApart
  <2> SUFFICES ASSUME OnceInv, NEW id \in EventIds \ answeredAtOnce
               PROVE  Cardinality(Answers(id)) <= 1
    BY DEF ResolvedOnceApart
  <2>1. \A place \in Answers(id) :
          /\ place[1] \in Runs /\ place[2] \in DOMAIN timeline[place[1]]
          /\ timeline[place[1]][place[2]].answers = id
          /\ place = <<place[1], place[2]>>
    BY DEF Answers
  <2>2. \A p, q \in Answers(id) : p = q
    <3>1. id # None
      BY NoneAssumption
    <3> QED
      BY <2>1, <3>1 DEF OnceInv, AnsweredOnce
  <2>3. CASE Answers(id) = {}
    BY <2>3, FS_EmptySet
  <2>4. CASE Answers(id) # {}
    <3>1. PICK p : Answers(id) = {p}
      BY <2>2, <2>4
    <3>2. Cardinality({p}) = 1
      BY FS_Singleton
    <3> QED
      BY <3>1, <3>2
  <2> QED
    BY <2>3, <2>4
<1> QED
  BY <1>1, ApprovalOnceInv, PTL

--------------------------------------------------------------------------------
(* What the handlers make of their run, unless another request to it comes in     *)
(* between: what they have read of it is still so when they append.               *)

\* An answer under way is to the request that holds the run up.
Open(c) ==
  LET p == ProjectRunStatus(timeline[c.run])
  IN  /\ c.after = LastId(timeline[c.run])
      /\ p.error = NoError /\ p.status = "paused" /\ p.pending = c.event.answers
      /\ c.event.type = "approval_resolved"
      /\ c.event.status \in {"approved", "rejected"}
      /\ c.event.step = IF c.event.status = "rejected" THEN "approval_rejected" ELSE "other"
      /\ c.event.resolved_by
      /\ c.event.resolved_at

\* The projection of a run in the middle of the demo's continuation.
MidContinuation(p, pc) ==
  /\ p.error = NoError /\ ~ p.terminal /\ p.pending = None
  /\ p.status = "approved" \/ (p.status = "running" /\ pc # "resume")

\* The receipts of the continuation.
ContinuationEvent(event, pc) ==
  /\ event.requires_approval = FALSE
  /\ pc = "resume"   => event.type = "action" /\ event.step = "other" /\ event.id = ResumeId
  /\ pc = "complete" => event.type = "summary"
  /\ pc = "error"    => event.type = "action" /\ event.step = "run_stopped"

\* A continuation under way follows the event that the handler has stored last.
Continues(c) ==
  /\ c.after = LastId(timeline[c.run]) /\ c.after # None
  /\ MidContinuation(ProjectRunStatus(timeline[c.run]), c.pc)
  /\ ContinuationEvent(c.event, c.pc)

UpToDate(c) ==
  /\ c.pc = "append" /\ c.event.id \in ClientIds => Accepts(c.event, timeline[c.run])
  /\ c.pc = "append" /\ c.event.answers # None => Open(c)
  /\ c.pc # "append" => Continues(c)

\* What a handler has read is still so until it is overtaken.
Undisturbed == \A t \in Threads \ overtaken : call[t] # Idle => UpToDate(call[t])

\* What a handler begins with is up to date.
LEMMA StartUpToDate == ASSUME NEW c, Started(c) PROVE UpToDate(c)
<1>1. c.pc = "append"
  BY DEF Started
<1>2. Drawn(c) => c.event.id \notin ClientIds
  BY ApprovalAssumption DEF Drawn
<1>3. Ingested(c) => c.event.id \in ClientIds /\ c.event.answers = None
  BY ApprovalAssumption DEF Ingested
<1>4. CASE Ingested(c)
  BY <1>1, <1>3, <1>4 DEF UpToDate, Ingested
<1>5. CASE Registration(c) \/ RuntimeReceipt(c)
  BY <1>1, <1>2, <1>5 DEF UpToDate, Registration, RuntimeReceipt
<1>6. CASE Answer(c)
  <2>1. Open(c)
    BY <1>6 DEF Answer, Drawn, Resolvable, Open
  <2> QED
    BY <1>1, <1>2, <1>6, <2>1 DEF UpToDate, Answer
<1> QED
  BY <1>4, <1>5, <1>6 DEF Started

\* An event that follows the last one of its run lands at the end.
LEMMA LandsLast ==
  ASSUME OrderInv, NEW t \in Threads, NEW i \in Nat, Stores(t, i),
         call[t].after = LastId(timeline[call[t].run]), call[t].after # None
  PROVE  timeline'[call[t].run] = Append(timeline[call[t].run], call[t].event)
<1> DEFINE run == call[t].run
           n == Len(timeline[run])
<1>1. /\ run \in Runs /\ n \in Nat /\ i \in 1..(n + 1)
      /\ DOMAIN timeline[run] = 1..n
      /\ i = n + 1 => timeline'[run] = Append(timeline[run], call[t].event)
  BY StoreShape DEF OrderInv
<1>2. timeline[run] \in Seq(Event)
  BY <1>1 DEF OrderInv, TypeOK
<1>3. timeline[run] # << >> /\ call[t].after = timeline[run][n].id /\ n \in 1..n
  BY <1>1, <1>2 DEF LastId
<1>4. PICK k \in 1..(i - 1) : timeline[run][k].id = call[t].after
  BY DEF Stores, Landings
<1>5. k \in 1..n
  BY <1>1, <1>4
<1>6. k = n
  BY <1>1, <1>3, <1>4, <1>5 DEF OrderInv, UniqueIds
<1>7. i = n + 1
  BY <1>1, <1>4, <1>6
<1> QED
  BY <1>1, <1>7

\* The projection of an answer to the request that holds a run up.
LEMMA AnswerTakesRunOn ==
  ASSUME NEW p \in Projection, NEW event \in Event,
         p.error = NoError, p.status = "paused", p.pending # None, ~ p.terminal,
         event.type = "approval_resolved", event.status \in {"approved", "rejected"},
         event.step = IF event.status = "rejected" THEN "approval_rejected" ELSE "other",
         event.resolved_by, event.resolved_at
  PROVE  /\ ProjectStep(p, event).error = NoError
         /\ ProjectStep(p, event).status =
              IF event.status = "approved" THEN "approved" ELSE "stopped"
         /\ event.status = "approved" => MidContinuation(ProjectStep(p, event), "resume")
<1>1. IsTerminal(event) <=> event.status = "rejected"
  BY DEF IsTerminal, TerminalSteps
<1>2. IsResolutionSignal(event) /\ ResolutionError(p, event) = NoError
  BY DEF IsResolutionSignal, ResolutionError
<1>3. StepError(p, event) = NoError
  BY <1>2 DEF StepError
<1>4. ProjectStep(p, event) = Advance(p, event)
  BY <1>3 DEF ProjectStep
<1>5. CASE event.status = "rejected"
  <2>1. TerminalStatus(event) = "stopped"
    BY <1>5 DEF TerminalStatus
  <2> QED
    BY <1>1, <1>4, <1>5, <2>1 DEF Advance, Projection
<1>6. CASE event.status = "approved"
  BY <1>1, <1>4, <1>2, <1>6 DEF Advance, Projection, MidContinuation
<1> QED
  BY <1>5, <1>6

\* The projection of the receipts of the demo's continuation.
LEMMA ContinuationTakesRunOn ==
  ASSUME NEW p \in Projection, NEW event \in Event,
         NEW pc \in {"resume", "complete", "error"},
         MidContinuation(p, pc), ContinuationEvent(event, pc)
  PROVE  /\ ProjectStep(p, event).error = NoError
         /\ ProjectStep(p, event).status = CASE pc = "resume"   -> "running"
                                             [] pc = "complete" -> "completed"
                                             [] pc = "error"    -> "stopped"
         /\ pc = "resume" => MidContinuation(ProjectStep(p, event), "complete")
<1>1. p.error = NoError /\ ~ p.terminal /\ p.pending = None
  BY DEF MidContinuation
<1>2. CASE pc = "resume"
  <2>1. p.status = "approved"
    BY <1>2 DEF MidContinuation
  <2>2. ~ IsTerminal(event) /\ ~ IsResolutionSignal(event) /\ ~ IsPendingSignal(event)
    BY <1>2 DEF ContinuationEvent, IsTerminal, TerminalSteps, IsResolutionSignal,
                IsPendingSignal
  <2>3. ProjectStep(p, event) = [p EXCEPT !.status = "running"]
    BY <1>1, <2>1, <2>2 DEF ProjectStep, StepError, Advance
  <2> QED
    BY <1>1, <1>2, <2>3 DEF Projection, MidContinuation
<1>3. CASE pc \in {"complete", "error"}
  <2>1. IsTerminal(event)
        /\ TerminalStatus(event) = IF pc = "complete" THEN "completed" ELSE "stopped"
    BY <1>3 DEF ContinuationEvent, IsTerminal, TerminalSteps, TerminalStatus
  <2>2. ProjectStep(p, event) = Advance(p, event)
    BY <1>1, <2>1 DEF ProjectStep, StepError
  <2> QED
    BY <1>1, <1>3, <2>1, <2>2 DEF Advance, Projection
<1> QED
  BY <1>2, <1>3

\* What an answer that was not overtaken makes of its run.
LEMMA AnswerStored ==
  ASSUME OrderInv, NEW t \in Threads, NEW i \in Nat, Stores(t, i), Open(call[t]),
         call[t].event.answers # None
  PROVE  LET run == call[t].run
             event == call[t].event
             q == ProjectRunStatus(timeline'[run])
         IN  /\ timeline'[run] = Append(timeline[run], event)
             /\ q.error = NoError
             /\ q.status = IF event.status = "approved" THEN "approved" ELSE "stopped"
             /\ event.status = "approved" => MidContinuation(q, "resume")
<1> DEFINE run == call[t].run
           event == call[t].event
           p == ProjectRunStatus(timeline[run])
<1>1. run \in Runs /\ event \in Event /\ timeline[run] \in Seq(Event)
  BY CallFields DEF OrderInv, TypeOK, Stores
<1>2. /\ p.error = NoError /\ p.status = "paused" /\ p.pending = event.answers
      /\ call[t].after = LastId(timeline[run])
      /\ event.type = "approval_resolved" /\ event.status \in {"approved", "rejected"}
      /\ event.step = IF event.status = "rejected" THEN "approval_rejected" ELSE "other"
      /\ event.resolved_by /\ event.resolved_at
  BY DEF Open
<1>3. p \in Projection /\ ~ p.terminal
  BY <1>1, <1>2, ProjectionKnows DEF Knows
<1>4. timeline'[run] = Append(timeline[run], event)
  <2>1. call[t].after # None
    BY DEF OrderInv, TargetRead, Stores
  <2> QED
    BY <1>2, <2>1, LandsLast
<1>5. ProjectRunStatus(timeline'[run]) = ProjectStep(p, event)
  BY <1>1, <1>4, ProjectAppend
<1> HIDE DEF p
<1>6. /\ ProjectStep(p, event).error = NoError
      /\ ProjectStep(p, event).status =
           IF event.status = "approved" THEN "approved" ELSE "stopped"
      /\ event.status = "approved" => MidContinuation(ProjectStep(p, event), "resume")
  BY <1>1, <1>2, <1>3, AnswerTakesRunOn
<1> QED
  BY <1>4, <1>5, <1>6

\* What a receipt of the continuation that was not overtaken makes of its run.
LEMMA ContinuationStored ==
  ASSUME OrderInv, NEW t \in Threads, NEW i \in Nat, Stores(t, i), Continues(call[t]),
         call[t].pc # "append"
  PROVE  LET c == call[t]
             q == ProjectRunStatus(timeline'[c.run])
         IN  /\ timeline'[c.run] = Append(timeline[c.run], c.event)
             /\ q.error = NoError
             /\ q.status = CASE c.pc = "resume"   -> "running"
                             [] c.pc = "complete" -> "completed"
                             [] c.pc = "error"    -> "stopped"
             /\ c.pc = "resume" => MidContinuation(q, "complete")
<1> DEFINE run == call[t].run
           event == call[t].event
           pc == call[t].pc
           p == ProjectRunStatus(timeline[run])
<1>1. /\ run \in Runs /\ event \in Event /\ timeline[run] \in Seq(Event)
      /\ pc \in {"resume", "complete", "error"}
  BY CallFields DEF OrderInv, TypeOK, Stores
<1>2. MidContinuation(p, pc) /\ ContinuationEvent(event, pc)
  BY DEF Continues
<1>3. p \in Projection
  BY <1>1, ProjectionKnows DEF Knows
<1>4. timeline'[run] = Append(timeline[run], event)
  BY LandsLast DEF Continues
<1>5. ProjectRunStatus(timeline'[run]) = ProjectStep(p, event)
  BY <1>1, <1>4, ProjectAppend
<1> HIDE DEF p
<1>6. /\ ProjectStep(p, event).error = NoError
      /\ ProjectStep(p, event).status = CASE pc = "resume"   -> "running"
                                          [] pc = "complete" -> "completed"
                                          [] pc = "error"    -> "stopped"
      /\ pc = "resume" => MidContinuation(ProjectStep(p, event), "complete")
  BY <1>1, <1>2, <1>3, ContinuationTakesRunOn
<1> QED
  BY <1>4, <1>5, <1>6

\* What a handler goes on with after storing an event is up to date, if the event was.
LEMMA ContinueUpToDate ==
  ASSUME OrderInv, NEW t \in Threads, NEW i \in Nat, Stores(t, i), UpToDate(call[t]),
         NEW next, next = Continue(call[t]), next # Idle
  PROVE  UpToDate(next)'
<1> DEFINE c == call[t]
           run == c.run
<1>1. run \in Runs /\ c.event \in Event /\ timeline[run] \in Seq(Event)
  BY CallFields DEF OrderInv, TypeOK, Stores
<1>2. ASSUME timeline'[run] = Append(timeline[run], c.event)
      PROVE  LastId(timeline'[run]) = c.event.id /\ c.event.id # None
  <2>1. c.event.id \in EventIds
    BY <1>1 DEF Event
  <2> QED
    BY <1>1, <1>2, <2>1, NoneAssumption DEF LastId
<1>3. \/ /\ c.pc = "append" /\ c.event.answers = DemoGate /\ c.event.status = "approved"
         /\ next = Appending("resume", run, Receipt(ResumeId, "action", "other", None),
                             c.event.id)
      \/ /\ c.pc = "resume"
         /\ next = Appending("complete", run, Receipt(CompleteId, "summary", "other", None),
                             ResumeId)
  <2>1. c.pc = "append" /\ c.run = DemoRun /\ c.event.answers = DemoGate
        /\ c.event.status = "approved" => c.pc # "resume"
    OBVIOUS
  <2> QED
    BY DEF Continue
<1>4. CASE c.pc = "append"
  <2>1. c.event.answers # None /\ c.event.status = "approved"
    BY <1>3, <1>4, ApprovalAssumption, NoneAssumption
  <2>2. next = Appending("resume", run, Receipt(ResumeId, "action", "other", None),
                         c.event.id)
    BY <1>3, <1>4
  <2>3. Open(c)
    BY <1>4, <2>1 DEF UpToDate
  <2>4. /\ timeline'[run] = Append(timeline[run], c.event)
        /\ MidContinuation(ProjectRunStatus(timeline'[run]), "resume")
    BY <2>1, <2>3, AnswerStored
  <2>5. /\ next.pc = "resume" /\ next.run = run /\ next.after = c.event.id
        /\ ContinuationEvent(next.event, "resume")
    BY <2>2 DEF Appending, Receipt, ContinuationEvent
  <2> QED
    BY <1>2, <2>4, <2>5 DEF UpToDate, Continues
<1>5. CASE c.pc = "resume"
  <2>1. next = Appending("complete", run, Receipt(CompleteId, "summary", "other", None),
                         ResumeId)
    BY <1>3, <1>5
  <2>2. Continues(c)
    BY <1>5 DEF UpToDate
  <2>3. /\ timeline'[run] = Append(timeline[run], c.event)
        /\ MidContinuation(ProjectRunStatus(timeline'[run]), "complete")
    BY <1>5, <2>2, ContinuationStored
  <2>4. c.event.id = ResumeId
    BY <1>5, <2>2 DEF Continues, ContinuationEvent
  <2>5. /\ next.pc = "complete" /\ next.run = run /\ next.after = ResumeId
        /\ ContinuationEvent(next.event, "complete")
    BY <2>1 DEF Appending, Receipt, ContinuationEvent
  <2> QED
    BY <1>2, <2>3, <2>4, <2>5 DEF UpToDate, Continues
<1> QED
  BY <1>3, <1>4, <1>5

\* What a handler goes on with after a failed append is up to date, if the event was.
LEMMA AbortUpToDate ==
  ASSUME NEW t \in Threads, call[t] # Idle, UpToDate(call[t]), Abort(call[t]) # Idle
  PROVE  UpToDate(Abort(call[t]))
<1> DEFINE c == call[t]
           next == Appending("error", c.run,
                             Receipt(FreshId, "action", "run_stopped", None), c.after)
<1>1. c.pc \in {"resume", "complete"} /\ Abort(c) = next
  BY DEF Abort
<1>2. Continues(c)
  BY <1>1 DEF UpToDate
<1>3. /\ next.pc = "error" /\ next.run = c.run /\ next.after = c.after
      /\ ContinuationEvent(next.event, "error")
  BY DEF Appending, Receipt, ContinuationEvent
<1> HIDE DEF next
<1>4. MidContinuation(ProjectRunStatus(timeline[c.run]), "error")
  BY <1>2 DEF Continues, MidContinuation
<1>5. Continues(next)
  BY <1>2, <1>3, <1>4 DEF Continues
<1> QED
  BY <1>1, <1>3, <1>5 DEF UpToDate

\* No step changes what a handler has read, but for those that overtake it.
LEMMA StepKeepsUndisturbed ==
  OrderInv /\ Undisturbed /\ [WatchedNext]_watched => Undisturbed'
<1> SUFFICES ASSUME OrderInv, Undisturbed, [WatchedNext]_watched PROVE Undisturbed'
  OBVIOUS
<1>1. TypeOK
  BY DEF OrderInv
<1>2. CASE UNCHANGED watched
  BY <1>2 DEF watched, vars, Undisturbed, UpToDate, Open, Continues
<1>3. CASE WatchedNext
  <2>1. Next /\ Watch
    BY <1>3 DEF WatchedNext, Next
  <2>2. PICK t \in Threads, next \in Call :
          /\ call' = [call EXCEPT ![t] = next]
          /\ \/ timeline' = timeline /\ call[t] = Idle /\ Started(next)
             \/ /\ call[t] # Idle
                /\ \/ timeline' = timeline /\ next = Abort(call[t])
                   \/ next = Continue(call[t]) /\ \E i \in Nat : Stores(t, i)
    BY <1>1, <2>1, StepCases
  <2>3. /\ call'[t] = next
        /\ \A u \in Threads : u # t => call'[u] = call[u]
    BY <1>1, <2>2 DEF TypeOK
  <2>4. SUFFICES ASSUME NEW u \in Threads, u \notin overtaken', call'[u] # Idle
                 PROVE  UpToDate(call[u])'
    BY DEF Undisturbed
  <2>5. call[u] # Idle => u \notin overtaken /\ ~ Overtakes(u)
    BY <2>1, <2>4 DEF Watch
  <2>6. CASE u # t
    <3>1. call'[u] = call[u] /\ call[u] # Idle
      BY <2>3, <2>4, <2>6
    <3>2. timeline'[call[u].run] = timeline[call[u].run]
      BY <2>5, <3>1 DEF Overtakes
    <3>3. UpToDate(call[u])
      BY <2>5, <3>1 DEF Undisturbed
    <3> QED
      BY <3>1, <3>2, <3>3 DEF UpToDate, Open, Continues
  <2>7. CASE u = t
    <3>1. CASE timeline' = timeline
      <4>1. UpToDate(next)
        <5>1. CASE Started(next)
          BY <5>1, StartUpToDate
        <5>2. CASE call[t] # Idle /\ next = Abort(call[t])
          BY <2>3, <2>4, <2>5, <2>7, <5>2, AbortUpToDate DEF Undisturbed
        <5>3. CASE call[t] # Idle /\ \E i \in Nat : Stores(t, i)
          BY <1>1, <3>1, <5>3, StoreShape
        <5> QED
          BY <2>2, <5>1, <5>2, <5>3
      <4> QED
        BY <2>3, <2>7, <3>1, <4>1 DEF UpToDate, Open, Continues
    <3>2. CASE timeline' # timeline
      <4>1. call[t] # Idle /\ next = Continue(call[t]) /\ \E i \in Nat : Stores(t, i)
        BY <2>2, <3>2
      <4>2. UpToDate(call[t])
        BY <2>5, <2>7, <4>1 DEF Undisturbed
      <4>3. UpToDate(next)'
        BY <2>3, <2>4, <2>7, <4>1, <4>2, ContinueUpToDate
      <4> QED
        BY <2>3, <2>7, <4>3 DEF UpToDate, Open, Continues
    <3> QED
      BY <3>1, <3>2
  <2> QED
    BY <2>6, <2>7
<1> QED
  BY <1>2, <1>3

\* For any number of threads, a handler that is not overtaken appends to the run it has
\* read.
THEOREM ApprovalUndisturbed == WatchedSpec => []Undisturbed
<1>1. WatchedInit => Undisturbed
  BY DEF WatchedInit, Init, Undisturbed
<1> QED
  BY <1>1, StepKeepsUndisturbed, WatchedGate, ApprovalOrderInv, PTL DEF WatchedSpec

\* The thread whose request ends or goes on with a stored event is the one that has
\* stored it.
LEMMA WhoStores ==
  ASSUME OrderInv, [WatchedNext]_watched, timeline' # timeline,
         NEW t \in Threads, call'[t] # call[t]
  PROVE  \E i \in Nat : Stores(t, i)
<1>1. Next /\ TypeOK
  BY DEF WatchedNext, Next, watched, vars, OrderInv
<1>2. PICK u \in Threads, next \in Call :
        call' = [call EXCEPT ![u] = next] /\ \E i \in Nat : Stores(u, i)
  BY <1>1, StepCases
<1>3. u = t
  BY <1>1, <1>2 DEF TypeOK
<1> QED
  BY <1>2, <1>3

\* An answer that is not overtaken is stored to the request that holds its run up, and
\* takes the run on: approved, or stopped, and still readable.
THEOREM ApprovalResolutionLegal == WatchedSpec => ResolutionLegal
<1> DEFINE Legal ==
      \A thread \in Threads \ overtaken :
       LET c == call[thread]
       IN  /\ c # Idle /\ c.pc = "append" /\ c.event.answers # None
           /\ call'[thread] # c /\ timeline' # timeline
           => /\ ProjectRunStatus(timeline[c.run]).pending = c.event.answers
              /\ Readable(timeline'[c.run])
              /\ ProjectRunStatus(timeline'[c.run]).status =
                   IF c.event.status = "approved" THEN "approved" ELSE "stopped"
<1>1. OrderInv /\ Undisturbed /\ [WatchedNext]_watched => [Legal]_watched
  <2> SUFFICES ASSUME OrderInv, Undisturbed, [WatchedNext]_watched, timeline' # timeline,
                      NEW t \in Threads \ overtaken, call[t] # Idle,
                      call[t].pc = "append", call[t].event.answers # None,
                      call'[t] # call[t]
               PROVE  /\ ProjectRunStatus(timeline[call[t].run]).pending
                           = call[t].event.answers
                      /\ Readable(timeline'[call[t].run])
                      /\ ProjectRunStatus(timeline'[call[t].run]).status =
                           IF call[t].event.status = "approved" THEN "approved" ELSE "stopped"
    OBVIOUS
  <2>1. Open(call[t])
    BY DEF Undisturbed, UpToDate
  <2>2. PICK i \in Nat : Stores(t, i)
    BY WhoStores
  <2> QED
    BY <2>1, <2>2, AnswerStored DEF Readable, Open
<1> QED
  BY <1>1, ApprovalUndisturbed, WatchedGate, ApprovalOrderInv, PTL
     DEF WatchedSpec, ResolutionLegal

\* The demo's continuation, not overtaken since the approval, leaves its run readable
\* after each receipt, and at its end completed or stopped.
THEOREM ApprovalContinuationLegal == WatchedSpec => ContinuationLegal
<1> DEFINE Legal ==
      \A thread \in Threads \ overtaken :
       LET c == call[thread]
           p == ProjectRunStatus(timeline'[c.run])
       IN  /\ c # Idle /\ c.pc # "append"
           /\ call'[thread] # c /\ timeline' # timeline
           => /\ p.error = NoError
              /\ p.status = CASE c.pc = "resume"   -> "running"
                              [] c.pc = "complete" -> "completed"
                              [] c.pc = "error"    -> "stopped"
<1>1. OrderInv /\ Undisturbed /\ [WatchedNext]_watched => [Legal]_watched
  <2> SUFFICES ASSUME OrderInv, Undisturbed, [WatchedNext]_watched, timeline' # timeline,
                      NEW t \in Threads \ overtaken, call[t] # Idle,
                      call[t].pc # "append", call'[t] # call[t]
               PROVE  LET c == call[t]
                          p == ProjectRunStatus(timeline'[c.run])
                      IN  /\ p.error = NoError
                          /\ p.status = CASE c.pc = "resume"   -> "running"
                                          [] c.pc = "complete" -> "completed"
                                          [] c.pc = "error"    -> "stopped"
    OBVIOUS
  <2>1. Continues(call[t])
    BY DEF Undisturbed, UpToDate
  <2>2. PICK i \in Nat : Stores(t, i)
    BY WhoStores
  <2> QED
    BY <2>1, <2>2, ContinuationStored
<1> QED
  BY <1>1, ApprovalUndisturbed, WatchedGate, ApprovalOrderInv, PTL
     DEF WatchedSpec, ContinuationLegal

\* An event that the rules accept is one that the projection takes, but for the four
\* kinds the rules let through.
LEMMA AcceptedIsTaken ==
  ASSUME NEW events \in Seq(Event), NEW event \in Event, Accepts(event, events),
         Readable(events), ~ Unguarded(event, ProjectRunStatus(events))
  PROVE  Readable(Append(events, event))
<1> DEFINE p == ProjectRunStatus(events)
<1>1. Knows(p, events, Len(events)) /\ p.error = NoError
  BY ProjectionKnows DEF Readable
<1>2. ~ p.terminal
  BY <1>1 DEF Knows, Accepts, EndsRun
<1>3. StepError(p, event) = NoError
  <2>1. p.status = "rejected" => IsTerminal(event)
    BY DEF Unguarded
  <2>2. IsResolutionSignal(event) => ResolutionError(p, event) = NoError
    <3>1. SUFFICES ASSUME IsResolutionSignal(event) PROVE ResolutionError(p, event) = NoError
      OBVIOUS
    <3>2. event.type = "approval_resolved" /\ event.status \in {"approved", "rejected"}
      BY <3>1 DEF Unguarded
    <3>3. p.pending # None /\ event.resolved_by /\ event.resolved_at
      BY <3>2 DEF Accepts, ResolutionRules
    <3> QED
      BY <3>2, <3>3 DEF ResolutionError
  <2>3. IsPendingSignal(event) => p.pending = None
    BY DEF Unguarded
  <2> HIDE DEF p
  <2> QED
    BY <1>2, <2>1, <2>2, <2>3 DEF StepError
<1> HIDE DEF p
<1>4. ProjectStep(p, event) = Advance(p, event)
  BY <1>1, <1>3 DEF ProjectStep
<1>5. Advance(p, event).error = NoError
  BY <1>1 DEF Knows, Projection, Advance
<1>6. ProjectRunStatus(Append(events, event)) = ProjectStep(p, event)
  BY ProjectAppend DEF p
<1> QED
  BY <1>4, <1>5, <1>6 DEF Readable

\* For any number of threads, an event that the rules accept, posted in time order and
\* not overtaken, leaves a readable run readable, but for the four kinds the rules let
\* through.
THEOREM ApprovalIngestKeepsReadable == WatchedSpec => IngestKeepsReadable
<1> DEFINE Kept ==
      \A thread \in Threads \ overtaken :
       LET c == call[thread]
           before == timeline[c.run]
       IN  /\ c # Idle /\ c.pc = "append" /\ c.event.id \in ClientIds
           /\ call'[thread] # c /\ timeline'[c.run] = Append(before, c.event)
           /\ Readable(before)
           /\ ~ Unguarded(c.event, ProjectRunStatus(before))
           => Readable(timeline'[c.run])
<1>1. OrderInv /\ Undisturbed => Kept
  <2> SUFFICES ASSUME OrderInv, Undisturbed, NEW t \in Threads \ overtaken,
                      call[t] # Idle, call[t].pc = "append",
                      call[t].event.id \in ClientIds,
                      timeline'[call[t].run] = Append(timeline[call[t].run], call[t].event),
                      Readable(timeline[call[t].run]),
                      ~ Unguarded(call[t].event, ProjectRunStatus(timeline[call[t].run]))
               PROVE  Readable(timeline'[call[t].run])
    OBVIOUS
  <2>1. TypeOK
    BY DEF OrderInv
  <2>2. call[t].event \in Event /\ timeline[call[t].run] \in Seq(Event)
    BY <2>1, CallFields DEF TypeOK
  <2>3. Accepts(call[t].event, timeline[call[t].run])
    BY DEF Undisturbed, UpToDate
  <2> QED
    BY <2>2, <2>3, AcceptedIsTaken
<1>2. Kept => [Kept]_watched
  OBVIOUS
<1> QED
  BY <1>1, <1>2, ApprovalUndisturbed, WatchedGate, ApprovalOrderInv, PTL
     DEF WatchedSpec, IngestKeepsReadable
================================================================================
