------------------------------ MODULE ScanRunProofs ------------------------------
(***************************************************************************)
(* The loop of project_run_status, for timelines of any length made of any *)
(* events, computes what a timeline means when it is read as a whole.      *)
(*                                                                         *)
(* The loop remembers four things of the receipts it has seen; IInv says   *)
(* what each of them stands for.  One more receipt leaves the legality of  *)
(* the earlier ones alone (LegalPrefix), and the check that the loop makes *)
(* on it is the legality of the last one (StepErrorIsIllegality).          *)
(***************************************************************************)
EXTENDS ScanRun, TLAPS

\* A receipt has ended the run.
Ended(events) == \E k \in 1..Len(events) : IsTerminal(events[k])

\* A person has refused.
Refused(events) ==
  \E k \in 1..Len(events) : Resolves(events[k]) /\ events[k].status = "rejected"

\* The requests that nothing has answered, of which there is one at most.
OpenRequests(events) == {i \in 1..Len(events) : OpenBefore(events, i, Len(events) + 1)}

\* What the loop's variables stand for while it has raised nothing.
Tracks(events, p) ==
  /\ p.terminal <=> Ended(events)
  /\ ~ p.terminal => ((p.status = "rejected") <=> Refused(events))
  /\ (p.pending = None) <=> (OpenRequests(events) = {})
  /\ Meaning(events, p.status, p.pending)

\* The inductive invariant.
IInv ==
  /\ TypeOK
  /\ IF projection.error = NoError
     THEN WellFormed(scanned) /\ Tracks(scanned, projection)
     ELSE ~ WellFormed(scanned)

--------------------------------------------------------------------------------
\* A receipt is of one kind: it ends the run, resolves, requests or none of these.
LEMMA KindsApart ==
  ASSUME NEW event
  PROVE  /\ Plain(event) => ~ IsTerminal(event) /\ ~ Resolves(event) /\ ~ Requests(event)
         /\ Requests(event) => ~ IsTerminal(event) /\ ~ Resolves(event) /\ ~ Plain(event)
         /\ Resolves(event) => ~ IsTerminal(event)
         /\ IsTerminal(event) \/ Resolves(event) \/ Requests(event) \/ Plain(event)
BY DEF Plain, Resolves, Requests

\* Appending leaves the earlier receipts where they are.
LEMMA AppendKeeps ==
  ASSUME NEW events \in Seq(EventPayload), NEW event \in EventPayload
  PROVE  /\ Append(events, event) \in Seq(EventPayload)
         /\ Len(events) \in Nat
         /\ Len(Append(events, event)) = Len(events) + 1
         /\ \A i \in 1..Len(events) : Append(events, event)[i] = events[i]
         /\ Append(events, event)[Len(events) + 1] = event
OBVIOUS

\* Whether a request is open at a position depends on the receipts before it.
LEMMA OpenPrefix ==
  ASSUME NEW events \in Seq(EventPayload), NEW event \in EventPayload,
         NEW n \in 1..(Len(events) + 1), NEW i \in Int
  PROVE  OpenBefore(Append(events, event), i, n) <=> OpenBefore(events, i, n)
<1>1. \A k \in 1..(n - 1) : Append(events, event)[k] = events[k]
  BY AppendKeeps
<1>2. i \in 1..(n - 1) => \A k \in (i + 1)..(n - 1) : k \in 1..(n - 1)
  OBVIOUS
<1> QED
  BY <1>1, <1>2 DEF OpenBefore

\* A receipt that is legal stays legal whatever comes after it.
LEMMA LegalPrefix ==
  ASSUME NEW events \in Seq(EventPayload), NEW event \in EventPayload,
         NEW i \in 1..Len(events)
  PROVE  Legal(Append(events, event), i) <=> Legal(events, i)
<1>1. /\ i \in 1..(Len(events) + 1)
      /\ \A k \in 1..i : Append(events, event)[k] = events[k]
      /\ \A k \in 1..(i - 1) : k \in 1..i
      /\ i \in 1..i
      /\ \A k \in 1..(i - 1) : k \in Int
  BY AppendKeeps
<1>2. \A j \in 1..(i - 1) :
        OpenBefore(Append(events, event), j, i) <=> OpenBefore(events, j, i)
  BY <1>1, OpenPrefix
<1> QED
  BY <1>1, <1>2 DEF Legal

\* So a longer timeline is well-formed if the shorter one is and the last receipt is
\* legal.
LEMMA WellFormedAppend ==
  ASSUME NEW events \in Seq(EventPayload), NEW event \in EventPayload
  PROVE  WellFormed(Append(events, event)) <=>
           WellFormed(events) /\ Legal(Append(events, event), Len(events) + 1)
<1>1. \A i \in 1..Len(events) : Legal(Append(events, event), i) <=> Legal(events, i)
  BY LegalPrefix
<1>2. \A i \in 1..Len(Append(events, event)) :
        i \in 1..Len(events) \/ i = Len(events) + 1
  BY AppendKeeps
<1>3. /\ Len(events) + 1 \in 1..Len(Append(events, event))
      /\ \A i \in 1..Len(events) : i \in 1..Len(Append(events, event))
  BY AppendKeeps
<1> QED
  BY <1>1, <1>2, <1>3 DEF WellFormed

\* The check that the loop makes on a receipt, from what it remembers, is its legality.
LEMMA StepErrorIsIllegality ==
  ASSUME NEW events \in Seq(EventPayload), NEW event \in EventPayload,
         NEW p \in Projection, Tracks(events, p)
  PROVE  (StepError(p, event) = NoError) <=> Legal(Append(events, event), Len(events) + 1)
<1> DEFINE longer == Append(events, event)
           n == Len(events)
<1>1. /\ longer[n + 1] = event
      /\ \A k \in 1..n : longer[k] = events[k]
      /\ n \in Nat /\ (n + 1) - 1 = n
  BY AppendKeeps
<1>2. (\E j \in 1..n : OpenBefore(longer, j, n + 1)) <=> (p.pending # None)
  <2>1. \A j \in 1..n : OpenBefore(longer, j, n + 1) <=> OpenBefore(events, j, n + 1)
    <3>1. n + 1 \in 1..(Len(events) + 1) /\ \A j \in 1..n : j \in Int
      BY <1>1
    <3> QED
      BY <3>1, OpenPrefix
  <2> QED
    BY <2>1 DEF Tracks, OpenRequests
<1>3. (\A k \in 1..n : ~ IsTerminal(longer[k])) <=> ~ p.terminal
  BY <1>1 DEF Tracks, Ended
<1>4. ~ p.terminal =>
        ((\A k \in 1..n : Resolves(longer[k]) => longer[k].status # "rejected")
           <=> p.status # "rejected")
  BY <1>1 DEF Tracks, Refused
<1>5. Legal(longer, n + 1) <=>
        /\ ~ p.terminal
        /\ ~ IsTerminal(event) => p.status # "rejected"
        /\ Resolves(event) =>
             /\ event.status \in {"approved", "rejected"}
             /\ event.resolved_by
             /\ event.resolved_at
             /\ p.pending # None
        /\ Requests(event) => p.pending = None
  <2> HIDE DEF longer, n
  <2> QED
    BY <1>1, <1>2, <1>3, <1>4 DEF Legal
<1>6. (ResolutionError(p, event) = NoError) <=>
        /\ event.status \in {"approved", "rejected"}
        /\ event.resolved_by
        /\ event.resolved_at
        /\ p.pending # None
  BY DEF ResolutionError, NoError, EventPayload
<1> HIDE DEF longer, n
<1>7. (StepError(p, event) = NoError) <=>
        /\ ~ p.terminal
        /\ ~ IsTerminal(event) => p.status # "rejected"
        /\ Resolves(event) => ResolutionError(p, event) = NoError
        /\ Requests(event) => p.pending = None
  BY DEF StepError, NoError, Resolves, Requests, Projection
<1> QED
  BY <1>5, <1>6, <1>7 DEF longer, n

\* What one more receipt does to the open requests.
LEMMA OpenAppend ==
  ASSUME NEW events \in Seq(EventPayload), NEW event \in EventPayload
  PROVE  /\ Plain(event) => OpenRequests(Append(events, event)) = OpenRequests(events)
         /\ Requests(event) => OpenRequests(Append(events, event)) = {Len(events) + 1}
         /\ IsTerminal(event) \/ Resolves(event) =>
              OpenRequests(Append(events, event)) = {}
<1> DEFINE longer == Append(events, event)
           n == Len(events)
<1>1. /\ longer[n + 1] = event
      /\ \A k \in 1..n : longer[k] = events[k]
      /\ n \in Nat /\ Len(longer) = n + 1
  BY AppendKeeps
<1> HIDE DEF longer, n
<1>2. ASSUME NEW i \in 1..n
      PROVE  OpenBefore(longer, i, n + 2) <=> OpenBefore(events, i, n + 1) /\ Plain(event)
  <2>1. /\ i \in 1..((n + 2) - 1) /\ i \in 1..((n + 1) - 1)
        /\ (n + 2) - 1 = n + 1 /\ (n + 1) - 1 = n
        /\ \A k \in (i + 1)..(n + 1) : k = n + 1 \/ k \in (i + 1)..n
        /\ \A k \in (i + 1)..n : k \in 1..n /\ k \in (i + 1)..(n + 1)
        /\ n + 1 \in (i + 1)..(n + 1)
    BY <1>1
  <2>2. (\A k \in (i + 1)..(n + 1) : Plain(longer[k])) <=>
          (\A k \in (i + 1)..n : Plain(events[k])) /\ Plain(event)
    BY <1>1, <2>1
  <2>3. longer[i] = events[i]
    BY <1>1
  <2> QED
    BY <2>1, <2>2, <2>3 DEF OpenBefore
<1>3. OpenBefore(longer, n + 1, n + 2) <=> Requests(event)
  <2>1. /\ (n + 2) - 1 = n + 1 /\ n + 1 \in 1..(n + 1)
        /\ \A k \in ((n + 1) + 1)..(n + 1) : FALSE
    BY <1>1
  <2> QED
    BY <1>1, <2>1 DEF OpenBefore
<1>4. /\ \A i \in 1..(n + 1) : i \in 1..n \/ i = n + 1
      /\ \A i \in 1..n : i \in 1..(n + 1)
      /\ n + 1 \in 1..(n + 1) /\ n + 1 \notin 1..n
      /\ (n + 1) + 1 = n + 2
  BY <1>1
<1>5. OpenRequests(longer) =
        {i \in 1..n : OpenBefore(events, i, n + 1) /\ Plain(event)}
          \cup (IF Requests(event) THEN {n + 1} ELSE {})
  <2>1. OpenRequests(longer) = {i \in 1..(n + 1) : OpenBefore(longer, i, n + 2)}
    BY <1>1, <1>4 DEF OpenRequests
  <2> QED
    BY <1>2, <1>3, <1>4, <2>1
<1>6. OpenRequests(events) = {i \in 1..n : OpenBefore(events, i, n + 1)}
  BY DEF OpenRequests, n
<1>7. CASE Plain(event)
  <2>1. ~ Requests(event) /\ ~ IsTerminal(event) /\ ~ Resolves(event)
    BY <1>7, KindsApart
  <2>2. OpenRequests(longer) = OpenRequests(events)
    BY <1>5, <1>6, <1>7, <2>1
  <2> QED
    BY <2>1, <2>2 DEF longer
<1>8. CASE ~ Plain(event)
  <2>1. OpenRequests(longer) = IF Requests(event) THEN {n + 1} ELSE {}
    BY <1>5, <1>8
  <2>2. IsTerminal(event) \/ Resolves(event) => ~ Requests(event)
    BY KindsApart
  <2> QED
    BY <1>8, <2>1, <2>2 DEF longer, n
<1> QED
  BY <1>7, <1>8

\* The status that the last receipt says, when no request is open.
LastSays(events, status) ==
  LET n == Len(events)
  IN  CASE n = 0                          -> status = "running"
        [] n > 0 /\ IsTerminal(events[n]) -> status = TerminalStatus(events[n])
        [] n > 0 /\ Resolves(events[n])   -> status = events[n].status
        [] OTHER                          -> status = "running"

\* Meaning, in terms of the open requests and the last receipt.
LEMMA MeaningParts ==
  ASSUME NEW events, NEW status, NEW pending
  PROVE  Meaning(events, status, pending) <=>
           /\ IF OpenRequests(events) = {} THEN pending = None
              ELSE \E i \in OpenRequests(events) : pending = events[i].id
           /\ (status = "paused") <=> (OpenRequests(events) # {})
           /\ OpenRequests(events) = {} => LastSays(events, status)
BY DEF Meaning, OpenRequests, LastSays

\* What the last receipt says of a longer timeline.
LEMMA LastSaysAppend ==
  ASSUME NEW events \in Seq(EventPayload), NEW event \in EventPayload, NEW status
  PROVE  /\ IsTerminal(event) =>
              (LastSays(Append(events, event), status) <=> status = TerminalStatus(event))
         /\ Resolves(event) =>
              (LastSays(Append(events, event), status) <=> status = event.status)
         /\ Plain(event) =>
              (LastSays(Append(events, event), status) <=> status = "running")
<1>1. /\ Append(events, event)[Len(events) + 1] = event
      /\ Len(Append(events, event)) = Len(events) + 1
      /\ Len(events) + 1 > 0 /\ Len(events) + 1 # 0
  BY AppendKeeps
<1>2. Resolves(event) => ~ IsTerminal(event)
  BY KindsApart
<1>3. Plain(event) => ~ IsTerminal(event) /\ ~ Resolves(event)
  BY KindsApart
<1> QED
  BY <1>1, <1>2, <1>3 DEF LastSays

\* What the last receipt adds to what a timeline has seen.
LEMMA SeenAppend ==
  ASSUME NEW events \in Seq(EventPayload), NEW event \in EventPayload
  PROVE  /\ Ended(Append(events, event)) <=> Ended(events) \/ IsTerminal(event)
         /\ Refused(Append(events, event)) <=>
              Refused(events) \/ (Resolves(event) /\ event.status = "rejected")
<1>1. /\ \A k \in 1..Len(Append(events, event)) : k \in 1..Len(events) \/ k = Len(events) + 1
      /\ \A k \in 1..Len(events) : k \in 1..Len(Append(events, event))
      /\ Len(events) + 1 \in 1..Len(Append(events, event))
  BY AppendKeeps
<1>2. /\ Append(events, event)[Len(events) + 1] = event
      /\ \A k \in 1..Len(events) : Append(events, event)[k] = events[k]
  BY AppendKeeps
<1> QED
  BY <1>1, <1>2 DEF Ended, Refused

\* A run that nothing holds up, with work still allowed, is running or just approved.
LEMMA UnheldStatus ==
  ASSUME NEW events \in Seq(EventPayload), NEW p \in Projection,
         WellFormed(events), Tracks(events, p),
         p.pending = None, ~ p.terminal, p.status # "rejected"
  PROVE  p.status \in {"running", "approved"}
<1>1. LastSays(events, p.status)
  BY MeaningParts DEF Tracks
<1>2. CASE Len(events) = 0
  BY <1>1, <1>2 DEF LastSays
<1>3. CASE Len(events) # 0
  <2>1. Len(events) \in 1..Len(events) /\ Len(events) > 0
    BY <1>3
  <2>2. ~ IsTerminal(events[Len(events)])
    BY <2>1 DEF Tracks, Ended
  <2>3. Resolves(events[Len(events)]) =>
          events[Len(events)].status \in {"approved", "rejected"}
    BY <2>1 DEF WellFormed, Legal
  <2> QED
    BY <1>1, <1>3, <2>1, <2>2, <2>3 DEF LastSays
<1> QED
  BY <1>2, <1>3

\* A turn of the loop that raises nothing keeps track of the timeline.
LEMMA AdvanceTracks ==
  ASSUME NEW events \in Seq(EventPayload), NEW event \in EventPayload,
         NEW p \in Projection,
         WellFormed(events), Tracks(events, p), StepError(p, event) = NoError
  PROVE  /\ Tracks(Append(events, event), Advance(p, event))
         /\ Advance(p, event) \in Projection
         /\ Advance(p, event).error = p.error
<1> DEFINE longer == Append(events, event)
           q == Advance(p, event)
<1>1. ~ p.terminal /\ (~ IsTerminal(event) => p.status # "rejected")
  BY DEF StepError, NoError
<1>2. ~ Ended(events) /\ (~ IsTerminal(event) => ~ Refused(events))
  BY <1>1 DEF Tracks
<1>3. event.id \in EventIds /\ event.id # None
  BY NoneAssumption DEF EventPayload
<1>4. CASE IsTerminal(event)
  <2>1. q = [p EXCEPT !.status = TerminalStatus(event), !.pending = None, !.terminal = TRUE]
    BY <1>4 DEF Advance
  <2>2. TerminalStatus(event) \in {"completed", "expired", "stopped"}
    BY DEF TerminalStatus
  <2>3. /\ q \in Projection /\ q.error = p.error
        /\ q.terminal /\ q.pending = None /\ q.status = TerminalStatus(event)
    BY <2>1, <2>2 DEF Projection, WorkflowStatuses
  <2>4. OpenRequests(longer) = {} /\ Ended(longer) /\ LastSays(longer, q.status)
    BY <1>4, <2>3, OpenAppend, SeenAppend, LastSaysAppend
  <2>5. Meaning(longer, q.status, q.pending)
    BY <2>2, <2>3, <2>4, MeaningParts
  <2> QED
    BY <2>3, <2>4, <2>5 DEF Tracks
<1>5. CASE Resolves(event)
  <2>1. ~ IsTerminal(event) /\ IsResolutionSignal(event)
    BY <1>5 DEF Resolves
  <2>2. q = [p EXCEPT !.status = event.status, !.pending = None]
    BY <2>1 DEF Advance
  <2>3. event.status \in {"approved", "rejected"}
    BY <1>1, <2>1 DEF StepError, ResolutionError, NoError
  <2>4. /\ q \in Projection /\ q.error = p.error
        /\ ~ q.terminal /\ q.pending = None /\ q.status = event.status
    BY <1>1, <2>2, <2>3 DEF Projection, WorkflowStatuses
  <2>5. /\ OpenRequests(longer) = {} /\ ~ Ended(longer) /\ LastSays(longer, q.status)
        /\ Refused(longer) <=> event.status = "rejected"
    BY <1>2, <1>5, <2>1, <2>4, OpenAppend, SeenAppend, LastSaysAppend
  <2>6. Meaning(longer, q.status, q.pending)
    BY <2>3, <2>4, <2>5, MeaningParts
  <2> QED
    BY <2>4, <2>5, <2>6 DEF Tracks
<1>6. CASE Requests(event)
  <2>1. ~ IsTerminal(event) /\ ~ IsResolutionSignal(event) /\ IsPendingSignal(event)
    BY <1>6 DEF Requests
  <2>2. q = [p EXCEPT !.status = "paused", !.pending = event.id]
    BY <2>1 DEF Advance
  <2>3. /\ q \in Projection /\ q.error = p.error
        /\ ~ q.terminal /\ q.pending = event.id /\ q.status = "paused"
    BY <1>1, <1>3, <2>2 DEF Projection, WorkflowStatuses
  <2>4. OpenRequests(longer) = {Len(events) + 1} /\ ~ Ended(longer) /\ ~ Refused(longer)
    BY <1>2, <1>6, <2>1, KindsApart, OpenAppend, SeenAppend
  <2>5. longer[Len(events) + 1] = event
    BY AppendKeeps
  <2>6. Meaning(longer, q.status, q.pending)
    BY <2>3, <2>4, <2>5, MeaningParts
  <2> QED
    BY <1>3, <2>3, <2>4, <2>6 DEF Tracks
<1>7. CASE Plain(event)
  <2>1. ~ IsTerminal(event) /\ ~ IsResolutionSignal(event) /\ ~ IsPendingSignal(event)
    BY <1>7 DEF Plain
  <2>2. /\ OpenRequests(longer) = OpenRequests(events) /\ ~ Ended(longer)
        /\ ~ Refused(longer)
    BY <1>2, <1>7, <2>1, KindsApart, OpenAppend, SeenAppend
  <2>3. CASE p.pending # None
    <3>1. q = [p EXCEPT !.status = "paused"]
      BY <2>1, <2>3 DEF Advance
    <3>2. /\ q \in Projection /\ q.error = p.error
          /\ ~ q.terminal /\ q.pending = p.pending /\ q.status = "paused"
      BY <1>1, <3>1 DEF Projection, WorkflowStatuses
    <3>3. OpenRequests(longer) # {}
      BY <2>2, <2>3 DEF Tracks
    <3>4. \E i \in OpenRequests(longer) : q.pending = longer[i].id
      <4>1. PICK i \in OpenRequests(events) : p.pending = events[i].id
        BY <2>2, <3>3, MeaningParts DEF Tracks
      <4>2. longer[i] = events[i]
        BY <4>1, AppendKeeps DEF OpenRequests
      <4> QED
        BY <2>2, <3>2, <4>1, <4>2
    <3>5. Meaning(longer, q.status, q.pending)
      BY <3>2, <3>3, <3>4, MeaningParts
    <3> QED
      BY <2>2, <2>3, <3>2, <3>3, <3>5 DEF Tracks
  <2>4. CASE p.pending = None
    <3>1. p.status \in {"running", "approved"}
      BY <1>1, <2>1, <2>4, UnheldStatus
    <3>2. q = IF p.status = "approved" THEN [p EXCEPT !.status = "running"] ELSE p
      BY <2>1, <2>4 DEF Advance
    <3>3. /\ q \in Projection /\ q.error = p.error
          /\ ~ q.terminal /\ q.pending = None /\ q.status = "running"
      BY <1>1, <2>4, <3>1, <3>2 DEF Projection, WorkflowStatuses
    <3>4. OpenRequests(longer) = {} /\ LastSays(longer, q.status)
      BY <1>7, <2>2, <2>4, <3>3, LastSaysAppend DEF Tracks
    <3>5. Meaning(longer, q.status, q.pending)
      BY <3>3, <3>4, MeaningParts
    <3> QED
      BY <2>2, <3>3, <3>4, <3>5 DEF Tracks
  <2> QED
    BY <2>3, <2>4
<1> QED
  BY <1>4, <1>5, <1>6, <1>7, KindsApart

--------------------------------------------------------------------------------
\* A timeline without receipts is well-formed, and its run is running.
LEMMA InitIInv == Init => IInv
<1> SUFFICES ASSUME Init PROVE IInv
  OBVIOUS
<1>1. scanned = << >> /\ projection = InitProjection
  BY DEF Init
<1>2. TypeOK
  BY <1>1 DEF TypeOK, InitProjection, Projection, WorkflowStatuses, NoError
<1>3. Len(scanned) = 0 /\ \A k \in 1..Len(scanned) : FALSE
  BY <1>1
<1>4. WellFormed(scanned) /\ ~ Ended(scanned) /\ ~ Refused(scanned)
  BY <1>3 DEF WellFormed, Ended, Refused
<1>5. OpenRequests(scanned) = {}
  BY <1>3 DEF OpenRequests
<1>6. Meaning(scanned, "running", None)
  BY <1>3, <1>5, MeaningParts DEF LastSays
<1>7. Tracks(scanned, projection)
  BY <1>1, <1>4, <1>5, <1>6 DEF Tracks, InitProjection
<1> QED
  BY <1>1, <1>2, <1>4, <1>7 DEF IInv, InitProjection

\* A turn of the loop keeps the inductive invariant.
LEMMA ScanKeepsIInv ==
  ASSUME IInv, NEW event \in Events, Scan(event)
  PROVE  IInv'
<1>1. /\ scanned \in Seq(Events) /\ projection \in Projection
      /\ projection.error = NoError
      /\ WellFormed(scanned) /\ Tracks(scanned, projection)
  BY DEF IInv, TypeOK, Scan
<1>2. event \in EventPayload /\ scanned \in Seq(EventPayload)
  BY <1>1, ScanAssumption
<1>3. /\ scanned' = Append(scanned, event)
      /\ projection' = ProjectStep(projection, event)
      /\ scanned' \in Seq(Events)
  BY <1>1 DEF Scan
<1>4. WellFormed(scanned') <=> StepError(projection, event) = NoError
  BY <1>1, <1>2, <1>3, WellFormedAppend, StepErrorIsIllegality
<1>5. CASE StepError(projection, event) = NoError
  <2>1. projection' = Advance(projection, event)
    BY <1>1, <1>3, <1>5 DEF ProjectStep
  <2>2. /\ Tracks(scanned', projection')
        /\ projection' \in Projection
        /\ projection'.error = NoError
    BY <1>1, <1>2, <1>3, <1>5, <2>1, AdvanceTracks
  <2> QED
    BY <1>3, <1>4, <1>5, <2>2 DEF IInv, TypeOK, Tracks, Ended, Refused, OpenRequests
<1>6. CASE StepError(projection, event) # NoError
  <2>1. projection' = [projection EXCEPT !.error = StepError(projection, event)]
    BY <1>1, <1>3, <1>6 DEF ProjectStep
  <2>2. StepError(projection, event) \in ProjectionErrors \cup {NoError}
    BY DEF StepError, ResolutionError, ProjectionErrors, NoError
  <2>3. projection' \in Projection /\ projection'.error # NoError
    BY <1>1, <1>6, <2>1, <2>2 DEF Projection
  <2> QED
    BY <1>3, <1>4, <1>6, <2>3 DEF IInv, TypeOK
<1> QED
  BY <1>5, <1>6

\* Every step keeps the inductive invariant.
LEMMA NextIInv == IInv /\ [Next]_vars => IInv'
<1> SUFFICES ASSUME IInv, [Next]_vars PROVE IInv'
  OBVIOUS
<1>1. ASSUME NEW event \in Events, Scan(event) PROVE IInv'
  BY <1>1, ScanKeepsIInv
<1>2. CASE UNCHANGED vars
  BY <1>2 DEF vars, IInv, TypeOK, Tracks, Ended, Refused, OpenRequests
<1> QED
  BY <1>1, <1>2 DEF Next

\* The inductive invariant holds throughout.
THEOREM ScanInvariant == Spec => []IInv
<1> QED
  BY InitIInv, NextIInv, PTL DEF Spec

\* The loop's variables keep their types.
THEOREM ScanTypeOK == Spec => []TypeOK
<1>1. IInv => TypeOK
  BY DEF IInv
<1> QED
  BY <1>1, ScanInvariant, PTL

\* Whatever the length of a timeline, the loop rejects it exactly when some receipt of
\* it stands where it may not.
THEOREM ScanRejectsExactlyIllFormed == Spec => []RejectsExactlyIllFormed
<1>1. IInv => RejectsExactlyIllFormed
  BY DEF IInv, RejectsExactlyIllFormed
<1> QED
  BY <1>1, ScanInvariant, PTL

\* Whatever the length of a timeline, the status and the pending approval that the loop
\* computes are the ones its receipts mean.
THEOREM ScanProjectionCorrect == Spec => []ProjectionCorrect
<1>1. IInv => ProjectionCorrect
  BY DEF IInv, ProjectionCorrect, Tracks
<1> QED
  BY <1>1, ScanInvariant, PTL

\* GET /v1/runs/{run_id}/status reports a pending approval exactly when the run is
\* paused.
THEOREM ScanPendingIffPaused == Spec => []PendingIffPaused
<1>1. IInv => PendingIffPaused
  BY MeaningParts DEF IInv, PendingIffPaused, Tracks
<1> QED
  BY <1>1, ScanInvariant, PTL

--------------------------------------------------------------------------------
\* RULE-GATE-001, which ingestion enforces.
RequestsPending ==
  \A event \in Events :
    event.type = "approval_requested" => event.requires_approval /\ event.status = "pending"

\* Of a receipt whose flag goes with its approval status, and that does not end the run,
\* the indicator tells which kind it is.
LEMMA IndicatorTellsKind ==
  ASSUME NEW event \in EventPayload, ~ IsTerminal(event), ~ Inconsistent(event),
         event.type = "approval_requested" =>
           event.requires_approval /\ event.status = "pending"
  PROVE  /\ Requests(event) <=>
              ApprovalIndicator(event).required /\ ~ ApprovalIndicator(event).resolved
         /\ Plain(event) <=> ApprovalIndicator(event) = NoIndicator
<1>1. /\ event.type \in EventTypes /\ event.type # "summary"
      /\ event.status \in ApprovalStatuses /\ event.requires_approval \in BOOLEAN
  BY DEF EventPayload, IsTerminal
<1>2. CASE event.type = "approval_requested"
  BY <1>2 DEF Requests, Plain, IsResolutionSignal, IsPendingSignal, ApprovalIndicator,
              NoIndicator
<1>3. CASE event.type = "approval_resolved"
  BY <1>3 DEF Requests, Plain, IsResolutionSignal, ApprovalIndicator, NoIndicator
<1>4. CASE event.type = "action"
  <2>1. event.requires_approval <=> event.status # "not_required"
    BY <1>4 DEF Inconsistent
  <2> QED
    BY <1>1, <1>4, <2>1 DEF Requests, Plain, IsResolutionSignal, IsPendingSignal,
       ApprovalIndicator, NoIndicator, ApprovalStatuses
<1> QED
  BY <1>1, <1>2, <1>3, <1>4 DEF EventTypes

\* So a reader of the journal finds the open requests.
LEMMA WaitingIsOpen ==
  ASSUME RequestsPending, IInv, projection.error = NoError, ~ projection.terminal,
         \A i \in DOMAIN scanned : ~ Inconsistent(scanned[i])
  PROVE  Waiting(ProjectRunJournal(scanned)) = OpenRequests(scanned)
<1> DEFINE n == Len(scanned)
           entries == ProjectRunJournal(scanned)
<1>1. /\ scanned \in Seq(Events) /\ n \in Nat /\ DOMAIN scanned = 1..n
      /\ \A i \in 1..n : scanned[i] \in Events
  BY DEF IInv, TypeOK
<1>2. \A i \in 1..n : scanned[i] \in EventPayload /\ ~ IsTerminal(scanned[i])
  BY <1>1, ScanAssumption DEF IInv, Tracks, Ended
<1>3. /\ DOMAIN entries = 1..n /\ Len(entries) = n
      /\ \A i \in 1..n : entries[i].indicator = ApprovalIndicator(scanned[i])
  BY <1>1 DEF ProjectRunJournal, JournalEntry
<1>4. ASSUME NEW i \in 1..n
      PROVE  /\ Requests(scanned[i]) <=>
                  entries[i].indicator.required /\ ~ entries[i].indicator.resolved
             /\ Plain(scanned[i]) <=> entries[i].indicator = NoIndicator
  BY <1>1, <1>2, <1>3, IndicatorTellsKind DEF RequestsPending
<1> HIDE DEF n, entries
<1>5. ASSUME NEW i \in 1..n
      PROVE  OpenBefore(scanned, i, n + 1) <=>
               /\ entries[i].indicator.required /\ ~ entries[i].indicator.resolved
               /\ \A k \in (i + 1)..n : entries[k].indicator = NoIndicator
  <2>1. /\ (n + 1) - 1 = n
        /\ \A k \in (i + 1)..n : k \in 1..n
    BY <1>1
  <2> QED
    BY <1>4, <2>1 DEF OpenBefore
<1>6. OpenRequests(scanned) = {i \in 1..n : OpenBefore(scanned, i, n + 1)}
  BY DEF OpenRequests, n
<1>7. Waiting(entries) =
        {i \in 1..n : /\ entries[i].indicator.required /\ ~ entries[i].indicator.resolved
                      /\ \A k \in (i + 1)..n : entries[k].indicator = NoIndicator}
  BY <1>3 DEF Waiting
<1> QED
  BY <1>5, <1>6, <1>7 DEF entries

\* No two requests are open: the later one would be no plain receipt.
LEMMA OneOpenRequest ==
  ASSUME NEW events, NEW i \in OpenRequests(events), NEW j \in OpenRequests(events),
         Len(events) \in Nat
  PROVE  i = j
<1>1. /\ i \in 1..Len(events) /\ j \in 1..Len(events)
      /\ Requests(events[i]) /\ Requests(events[j])
      /\ \A k \in (i + 1)..Len(events) : Plain(events[k])
      /\ \A k \in (j + 1)..Len(events) : Plain(events[k])
  BY DEF OpenRequests, OpenBefore
<1>2. ~ Plain(events[i]) /\ ~ Plain(events[j])
  BY <1>1, KindsApart
<1>3. ~ (i < j) /\ ~ (j < i)
  BY <1>1, <1>2
<1> QED
  BY <1>1, <1>3

\* The journal of a run and its status report the same pending approval, for timelines
\* of any length made of receipts that passed RULE-GATE-001.
THEOREM ScanJournalTellsPending ==
  ASSUME RequestsPending
  PROVE  Spec => []JournalTellsPending
<1>1. IInv => JournalTellsPending
  <2> SUFFICES ASSUME IInv, projection.error = NoError, ~ projection.terminal,
                      \A i \in DOMAIN scanned : ~ Inconsistent(scanned[i])
               PROVE  {ProjectRunJournal(scanned)[i].event_id
                         : i \in Waiting(ProjectRunJournal(scanned))}
                        = {projection.pending} \ {None}
    BY DEF JournalTellsPending, ShowsJournal
  <2>1. Waiting(ProjectRunJournal(scanned)) = OpenRequests(scanned)
    BY WaitingIsOpen
  <2>2. /\ Len(scanned) \in Nat /\ DOMAIN scanned = 1..Len(scanned)
        /\ \A i \in 1..Len(scanned) : scanned[i].id # None
    BY ScanAssumption, NoneAssumption DEF IInv, TypeOK, EventPayload
  <2>3. \A i \in OpenRequests(scanned) :
          ProjectRunJournal(scanned)[i].event_id = scanned[i].id
    BY <2>2 DEF OpenRequests, ProjectRunJournal, JournalEntry
  <2>4. IF OpenRequests(scanned) = {} THEN projection.pending = None
        ELSE \E i \in OpenRequests(scanned) : projection.pending = scanned[i].id
    BY MeaningParts DEF IInv, Tracks
  <2>5. CASE OpenRequests(scanned) = {}
    BY <2>1, <2>4, <2>5
  <2>6. CASE OpenRequests(scanned) # {}
    <3>1. PICK i \in OpenRequests(scanned) : projection.pending = scanned[i].id
      BY <2>4, <2>6
    <3>2. OpenRequests(scanned) = {i}
      BY <2>2, <3>1, OneOpenRequest
    <3>3. projection.pending # None
      BY <2>2, <3>1 DEF OpenRequests
    <3> QED
      BY <2>1, <2>3, <3>1, <3>2, <3>3
  <2> QED
    BY <2>5, <2>6
<1> QED
  BY <1>1, ScanInvariant, PTL
================================================================================
