-------------------------- MODULE InMemoryStoreProofs --------------------------
(***************************************************************************)
(* Until two appends to a run are under way at once, the run of the        *)
(* in-memory store is a run of the ledger, for any number of threads, runs,*)
(* ids, times and records.                                                 *)
(*                                                                         *)
(* An append of the ledger is six steps here, of which Record is the one   *)
(* that a reader sees.  RunInv says, of a run on which no two appends have *)
(* met, that it is settled or that one thread appends to it, and then what *)
(* that append has found out and how far each index is ahead of the        *)
(* records or behind them.  Threads that append to other runs change none  *)
(* of this; what they share is the sequence, which only counts.            *)
(***************************************************************************)
EXTENDS InMemoryStore, FiniteSetTheorems, TLAPS

\* The ids and the timestamps of a run's records.
Ids(run) == {runRecords[run][i].content.id : i \in DOMAIN runRecords[run]}

TimesOf(run) == {runRecords[run][i].content.timestamp : i \in DOMAIN runRecords[run]}

\* What last_timestamp_by_run is for a run that has seen these times.
IsNewest(time, times) ==
  IF times = {} THEN time = NoTime ELSE time \in times /\ \A t \in times : t <= time

\* Every append that has no number yet will get one.
NumbersLeft ==
  /\ IsFiniteSet(InFlight)
  /\ sequence + Cardinality(InFlight) <= MaxSequence
  /\ \A thread \in Threads :
       call[thread].pc \in {"index", "record", "publish"} => call[thread].sequence > 0

\* The indexes of a run agree with its records.
Settled(run) ==
  /\ idIndex[run] = Ids(run)
  /\ lastHash[run] = Ledger!LastHash(ledgerView[run])
  /\ IsNewest(lastTimestamp[run], TimesOf(run))

\* The thread's append is on its way to the record: what it has found out holds, the
\* last timestamp knows its event already and so may the id index.
Begun(thread, run) ==
  /\ call[thread].content.id \notin Ids(run)
  /\ call[thread].content.integrity_warning
       <=> Ledger!OlderThanStored(ledgerView[run], call[thread].content.timestamp)
  /\ call[thread].pc # "link" => call[thread].prev_hash = Ledger!LastHash(ledgerView[run])
  /\ idIndex[run] = Ids(run) \cup (IF At(thread, "record") THEN {call[thread].content.id}
                                   ELSE {})
  /\ lastHash[run] = Ledger!LastHash(ledgerView[run])
  /\ IsNewest(lastTimestamp[run], TimesOf(run) \cup {call[thread].content.timestamp})

\* The record is stored and its digest is about to be published.
Recorded(thread, run) ==
  /\ idIndex[run] = Ids(run)
  /\ NewRecord(thread).hash = Ledger!LastHash(ledgerView[run])
  /\ IsNewest(lastTimestamp[run], TimesOf(run))

Progress(thread, run) ==
  IF At(thread, "publish") THEN Recorded(thread, run) ELSE Begun(thread, run)

OnlyAppender(thread, run) ==
  /\ AppendsTo(thread, run)
  /\ \A other \in Threads : AppendsTo(other, run) => other = thread

RunInv(run) ==
  \/ (\A thread \in Threads : ~ AppendsTo(thread, run)) /\ Settled(run)
  \/ \E thread \in Threads : OnlyAppender(thread, run) /\ Progress(thread, run)

\* Two appends met when the run had at most the records it has now.
MetBefore == \A run \in Runs : met[run] # Never => met[run] <= Len(runRecords[run])

\* The inductive invariant.
IInv ==
  /\ TypeOK
  /\ NumbersLeft
  /\ MetBefore
  /\ \A run \in Runs : met[run] = Never => RunInv(run)

--------------------------------------------------------------------------------
\* The receipts of a run, as the ledger sees them.
LEMMA ViewShape ==
  ASSUME TypeOK, NEW run \in Runs
  PROVE  /\ runRecords[run] \in Seq(StoredRecord)
         /\ Len(runRecords[run]) \in Nat
         /\ DOMAIN runRecords[run] = 1..Len(runRecords[run])
         /\ ledgerView[run] \in Seq(Ledger!StoredEvent)
         /\ Len(ledgerView[run]) = Len(runRecords[run])
         /\ DOMAIN ledgerView[run] = DOMAIN runRecords[run]
         /\ \A i \in DOMAIN runRecords[run] :
              /\ ledgerView[run][i].content = runRecords[run][i].content
              /\ ledgerView[run][i].hash = runRecords[run][i].hash
              /\ runRecords[run][i] \in StoredRecord
<1> DEFINE n == Len(runRecords[run])
           view == [i \in 1..n |->
                      [content   |-> runRecords[run][i].content,
                       prev_hash |-> runRecords[run][i].prev_hash,
                       hash      |-> runRecords[run][i].hash]]
<1>1. runRecords[run] \in Seq(StoredRecord)
  BY DEF TypeOK
<1>2. /\ n \in Nat /\ DOMAIN runRecords[run] = 1..n
      /\ \A i \in 1..n : runRecords[run][i] \in StoredRecord
  BY <1>1
<1>3. ledgerView[run] = view
  BY <1>2 DEF ledgerView
<1>4. \A i \in 1..n : view[i] \in Ledger!StoredEvent
  BY <1>2 DEF StoredRecord, Ledger!StoredEvent
<1> HIDE DEF n
<1>5. view \in Seq(Ledger!StoredEvent) /\ Len(view) = n /\ DOMAIN view = 1..n
  BY <1>2, <1>4
<1> QED
  BY <1>1, <1>2, <1>3, <1>5 DEF n

\* Times of records are times, and so numbers.
LEMMA RecordTimes ==
  ASSUME TypeOK, NEW run \in Runs, NEW i \in DOMAIN runRecords[run]
  PROVE  runRecords[run][i].content.timestamp \in Times
<1>1. runRecords[run][i] \in StoredRecord
  BY ViewShape
<1>2. runRecords[run][i].content \in Ledger!Content
  BY <1>1 DEF StoredRecord
<1> QED
  BY <1>2 DEF Ledger!Content

\* What a thread in an append holds.
LEMMA InCallType ==
  ASSUME TypeOK, NEW thread \in Threads, call[thread].pc # "idle"
  PROVE  /\ call[thread] \in InCall
         /\ call[thread].content \in Ledger!Content
         /\ call[thread].prev_hash \in Ledger!Hashes
         /\ RunOf(thread) \in Runs
<1>1. call[thread] \in InCall \cup {Idle} /\ call[thread] # Idle
  BY DEF TypeOK, Idle
<1>2. /\ call[thread] \in InCall
      /\ call[thread].content \in Ledger!Content
      /\ call[thread].prev_hash \in Ledger!Hashes
  BY <1>1 DEF InCall
<1> QED
  BY <1>2 DEF Ledger!Content, RunOf

\* What is read off a run's records stays when they do.
LEMMA SameRecords ==
  ASSUME runRecords' = runRecords
  PROVE  /\ ledgerView' = ledgerView
         /\ \A run \in Runs : Ids(run)' = Ids(run) /\ TimesOf(run)' = TimesOf(run)
BY DEF ledgerView, Ids, TimesOf

\* The thread that steps, and the others.
LEMMA CallOfOne ==
  ASSUME TypeOK, NEW thread \in Threads, NEW new \in InCall \cup {Idle},
         call' = [call EXCEPT ![thread] = new]
  PROVE  /\ call' \in [Threads -> InCall \cup {Idle}]
         /\ call'[thread] = new
         /\ \A t \in Threads : t # thread => call'[t] = call[t]
BY DEF TypeOK

\* On a run that two appends have not met on, a thread's append is the only one.
LEMMA Alone ==
  ASSUME IInv, NEW thread \in Threads, NEW run \in Runs, AppendsTo(thread, run),
         met[run] = Never
  PROVE  OnlyAppender(thread, run) /\ Progress(thread, run)
BY DEF IInv, RunInv, OnlyAppender

\* A step of one thread disturbs one run only.
LEMMA OneRunChanges ==
  ASSUME IInv, NEW thread \in Threads, NEW run \in Runs,
         TypeOK', NumbersLeft', MetBefore',
         \A t \in Threads : t # thread => call'[t] = call[t],
         \A r \in Runs : r # run =>
           /\ runRecords'[r] = runRecords[r]
           /\ idIndex'[r] = idIndex[r]
           /\ lastTimestamp'[r] = lastTimestamp[r]
           /\ lastHash'[r] = lastHash[r]
           /\ met'[r] = met[r]
           /\ ~ AppendsTo(thread, r)
           /\ ~ AppendsTo(thread, r)',
         met'[run] = Never => RunInv(run)'
  PROVE  IInv'
<1> SUFFICES ASSUME NEW r \in Runs, r # run, met'[r] = Never PROVE RunInv(r)'
  BY DEF IInv
<1>1. /\ RunInv(r)
      /\ ~ AppendsTo(thread, r) /\ ~ AppendsTo(thread, r)'
  BY DEF IInv
<1>2. /\ ledgerView'[r] = ledgerView[r]
      /\ Ids(r)' = Ids(r) /\ TimesOf(r)' = TimesOf(r)
  BY DEF ledgerView, Ids, TimesOf
<1>3. \A t \in Threads : AppendsTo(t, r)' <=> AppendsTo(t, r)
  BY <1>1 DEF AppendsTo, At, RunOf
<1>4. CASE (\A t \in Threads : ~ AppendsTo(t, r)) /\ Settled(r)
  <2>1. Settled(r)'
    BY <1>2, <1>4 DEF Settled, Ledger!LastHash
  <2> QED
    BY <1>3, <1>4, <2>1 DEF RunInv
<1>5. ASSUME NEW t \in Threads, OnlyAppender(t, r), Progress(t, r)
      PROVE  RunInv(r)'
  <2>1. call'[t] = call[t]
    BY <1>1, <1>5 DEF OnlyAppender
  <2>2. OnlyAppender(t, r)'
    BY <1>3, <1>5 DEF OnlyAppender
  <2>3. NewRecord(t)' = NewRecord(t) /\ At(t, "publish")' = At(t, "publish")
        /\ At(t, "record")' = At(t, "record")
    BY <2>1 DEF NewRecord, At
  <2>4. Recorded(t, r) => Recorded(t, r)'
    BY <1>2, <2>3 DEF Recorded, Ledger!LastHash
  <2>5. Begun(t, r) => Begun(t, r)'
    BY <1>2, <2>1, <2>3 DEF Begun, Ledger!LastHash, Ledger!OlderThanStored
  <2> QED
    BY <1>5, <2>2, <2>3, <2>4, <2>5 DEF Progress, RunInv
<1> QED
  BY <1>1, <1>4, <1>5 DEF RunInv

\* The runs that a thread's append is not to.
LEMMA OneRun ==
  ASSUME TypeOK, NEW thread \in Threads, NEW run \in Runs, AppendsTo(thread, run)
  PROVE  \A r \in Runs : r # run => ~ AppendsTo(thread, r)
BY DEF AppendsTo

--------------------------------------------------------------------------------
\* A store without records.
LEMMA InitIInv == Init => IInv
<1> SUFFICES ASSUME Init PROVE IInv
  OBVIOUS
<1>1. \A thread \in Threads : call[thread] = Idle /\ call[thread].pc = "idle"
  BY DEF Init, Idle
<1>2. \A run \in Runs : runRecords[run] = << >> /\ ledgerView[run] = << >>
  BY DEF Init, ledgerView
<1>3. TypeOK
  BY InMemoryAssumption DEF Init, TypeOK, Ledger!NoHash, Ledger!Hashes
<1>4. NumbersLeft
  <2>1. InFlight = {}
    BY <1>1 DEF InFlight
  <2>2. IsFiniteSet(InFlight) /\ Cardinality(InFlight) = 0
    BY <2>1, FS_EmptySet
  <2> QED
    BY <1>1, <2>2, InMemoryAssumption DEF Init, NumbersLeft
<1>5. MetBefore
  BY DEF Init, MetBefore
<1>6. \A run \in Runs : RunInv(run)
  <2> SUFFICES ASSUME NEW run \in Runs PROVE Settled(run)
    BY <1>1 DEF RunInv, AppendsTo, At
  <2>1. Ids(run) = {} /\ TimesOf(run) = {}
    BY <1>2 DEF Ids, TimesOf
  <2> QED
    BY <1>2, <2>1 DEF Init, Settled, IsNewest, Ledger!LastHash
<1> QED
  BY <1>3, <1>4, <1>5, <1>6 DEF IInv

\* Whether an event is out of order is whether its run has seen a newer one.
LEMMA OutOfOrderIsOlder ==
  ASSUME TypeOK, NEW run \in Runs, NEW timestamp \in Times, Settled(run)
  PROVE  OutOfOrder(run, timestamp) <=> Ledger!OlderThanStored(ledgerView[run], timestamp)
<1>1. \A t \in TimesOf(run) : t \in Times /\ t \in Int
  BY RecordTimes, InMemoryAssumption DEF TimesOf
<1>2. Ledger!OlderThanStored(ledgerView[run], timestamp)
        <=> \E t \in TimesOf(run) : timestamp < t
  BY ViewShape DEF Ledger!OlderThanStored, TimesOf
<1>3. timestamp \in Int
  BY InMemoryAssumption
<1>4. CASE TimesOf(run) = {}
  BY <1>2, <1>4 DEF Settled, IsNewest, OutOfOrder
<1>5. CASE TimesOf(run) # {}
  <2>1. /\ lastTimestamp[run] \in TimesOf(run)
        /\ \A t \in TimesOf(run) : t <= lastTimestamp[run]
    BY <1>5 DEF Settled, IsNewest
  <2>2. lastTimestamp[run] # NoTime
    BY <1>1, <2>1, InMemoryAssumption
  <2>3. OutOfOrder(run, timestamp) <=> timestamp < lastTimestamp[run]
    BY <2>2 DEF OutOfOrder
  <2> QED
    BY <1>1, <1>2, <1>3, <2>1, <2>3
<1> QED
  BY <1>4, <1>5

--------------------------------------------------------------------------------
\* An append begins: its run has seen its time, and nothing else has changed.
LEMMA BeginKeepsIInv ==
  ASSUME IInv, NEW thread \in Threads, NEW run \in Runs, NEW id \in EventIds,
         NEW timestamp \in Times, NEW payload \in Payloads,
         Begin(thread, run, id, timestamp, payload)
  PROVE  IInv'
<1> DEFINE content == [run |-> run, id |-> id, timestamp |-> timestamp, payload |-> payload,
                       integrity_warning |-> OutOfOrder(run, timestamp)]
           new == [pc |-> "link", content |-> content, prev_hash |-> Ledger!NoHash,
                   sequence |-> 0]
<1>1. TypeOK /\ call[thread].pc = "idle"
  BY DEF IInv, Begin, At
<1>2. content \in Ledger!Content
  BY DEF Ledger!Content, OutOfOrder
<1>3. new \in InCall
  BY <1>2, InMemoryAssumption DEF InCall, Steps, Ledger!NoHash, Ledger!Hashes
<1>4. /\ new.pc = "link" /\ new.content = content
      /\ content.run = run /\ content.id = id /\ content.timestamp = timestamp
      /\ content.integrity_warning = OutOfOrder(run, timestamp)
  OBVIOUS
<1>5. call' = [call EXCEPT ![thread] = new]
  BY DEF Begin
<1> HIDE DEF new, content
<1>6. /\ call' \in [Threads -> InCall \cup {Idle}]
      /\ call'[thread] = new
      /\ \A t \in Threads : t # thread => call'[t] = call[t]
  BY <1>1, <1>3, <1>5, CallOfOne
<1>7. /\ UNCHANGED <<sequence, idIndex, runRecords, lastHash>>
      /\ id \notin idIndex[run]
      /\ lastTimestamp' = IF OutOfOrder(run, timestamp) THEN lastTimestamp
                          ELSE [lastTimestamp EXCEPT ![run] = timestamp]
      /\ sequence + Cardinality(InFlight) < MaxSequence
      /\ met' = IF met[run] = Never /\ \E other \in Threads \ {thread} : AppendsTo(other, run)
                THEN [met EXCEPT ![run] = Len(runRecords[run])] ELSE met
  BY DEF Begin, Meet
<1>8. /\ ledgerView' = ledgerView
      /\ \A r \in Runs : Ids(r)' = Ids(r) /\ TimesOf(r)' = TimesOf(r)
  BY <1>7, SameRecords
<1>9. Len(runRecords[run]) \in Nat /\ Len(runRecords[run]) # Never
  BY <1>1, ViewShape DEF Never
<1>10. TypeOK'
  <2>1. lastTimestamp' \in [Runs -> Times \cup {NoTime}]
    BY <1>1, <1>7 DEF TypeOK
  <2>2. met' \in [Runs -> Nat \cup {Never}]
    BY <1>1, <1>7, <1>9 DEF TypeOK
  <2> QED
    BY <1>1, <1>6, <1>7, <2>1, <2>2 DEF TypeOK
<1>11. NumbersLeft'
  <2>1. InFlight' = InFlight \cup {thread} /\ thread \notin InFlight
    BY <1>1, <1>4, <1>6 DEF InFlight
  <2>2. IsFiniteSet(InFlight) /\ Cardinality(InFlight) \in Nat
    BY FS_CardinalityType DEF IInv, NumbersLeft
  <2>3. /\ IsFiniteSet(InFlight \cup {thread})
        /\ Cardinality(InFlight \cup {thread}) = Cardinality(InFlight) + 1
    BY <2>1, <2>2, FS_AddElement
  <2>4. IsFiniteSet(InFlight') /\ sequence' + Cardinality(InFlight') <= MaxSequence
    BY <1>1, <1>7, <2>1, <2>2, <2>3, InMemoryAssumption DEF TypeOK
  <2>5. \A t \in Threads : call'[t].pc \in {"index", "record", "publish"}
                             => call'[t].sequence > 0
    BY <1>4, <1>6 DEF IInv, NumbersLeft
  <2> QED
    BY <2>4, <2>5 DEF NumbersLeft, InFlight
<1>12. MetBefore'
  BY <1>1, <1>7, <1>9 DEF IInv, MetBefore, TypeOK
<1>13. \A r \in Runs : ~ AppendsTo(thread, r) /\ (AppendsTo(thread, r)' <=> r = run)
  BY <1>1, <1>4, <1>6 DEF AppendsTo, At, RunOf
<1>14. ASSUME met'[run] = Never PROVE RunInv(run)'
  <2>1. /\ met[run] = Never
        /\ \A other \in Threads : ~ AppendsTo(other, run)
    BY <1>1, <1>7, <1>9, <1>13, <1>14 DEF TypeOK
  <2>2. Settled(run)
    BY <2>1 DEF IInv, RunInv, OnlyAppender
  <2>3. OnlyAppender(thread, run)'
    BY <1>6, <1>13, <2>1 DEF OnlyAppender, AppendsTo, At, RunOf
  <2>4. id \notin Ids(run)
    BY <1>7, <2>2 DEF Settled
  <2>5. OutOfOrder(run, timestamp) <=> Ledger!OlderThanStored(ledgerView[run], timestamp)
    BY <1>1, <2>2, OutOfOrderIsOlder
  <2>6. IsNewest(lastTimestamp'[run], TimesOf(run) \cup {timestamp})
    <3>1. \A t \in TimesOf(run) : t \in Times /\ t \in Int
      BY <1>1, RecordTimes, InMemoryAssumption DEF TimesOf
    <3>2. timestamp \in Int
      BY InMemoryAssumption
    <3>3. lastTimestamp'[run] = IF OutOfOrder(run, timestamp) THEN lastTimestamp[run]
                                ELSE timestamp
      BY <1>1, <1>7 DEF TypeOK
    <3>4. OutOfOrder(run, timestamp) => TimesOf(run) # {}
      BY <2>2 DEF Settled, IsNewest, OutOfOrder
    <3>5. TimesOf(run) # {} => lastTimestamp[run] # NoTime
      BY <2>2, <3>1, InMemoryAssumption DEF Settled, IsNewest
    <3> QED
      BY <2>2, <3>1, <3>2, <3>3, <3>4, <3>5 DEF Settled, IsNewest, OutOfOrder
  <2>7. ~ At(thread, "record")' /\ ~ At(thread, "publish")'
    BY <1>4, <1>6 DEF At
  <2>8. Begun(thread, run)'
    <3>1. /\ call'[thread].content.id = id
          /\ call'[thread].content.timestamp = timestamp
          /\ call'[thread].content.integrity_warning = OutOfOrder(run, timestamp)
          /\ call'[thread].pc = "link"
      BY <1>4, <1>6
    <3>2. Ledger!LastHash(ledgerView[run])' = Ledger!LastHash(ledgerView[run])
      BY <1>8 DEF Ledger!LastHash
    <3>3. Ledger!OlderThanStored(ledgerView[run], call[thread].content.timestamp)'
            <=> Ledger!OlderThanStored(ledgerView[run], timestamp)
      BY <1>8, <3>1 DEF Ledger!OlderThanStored
    <3>4. (idIndex[run] = Ids(run) \cup (IF At(thread, "record")
                                         THEN {call[thread].content.id} ELSE {}))'
      BY <1>7, <1>8, <2>2, <3>1 DEF Settled, At
    <3>5. (lastHash[run] = Ledger!LastHash(ledgerView[run]))'
      BY <1>7, <2>2, <3>2 DEF Settled
    <3>6. (IsNewest(lastTimestamp[run], TimesOf(run) \cup {call[thread].content.timestamp}))'
      BY <1>8, <2>6, <3>1 DEF IsNewest
    <3>7. (call[thread].content.integrity_warning
            <=> Ledger!OlderThanStored(ledgerView[run], call[thread].content.timestamp))'
      BY <2>5, <3>1, <3>3
    <3>8. (call[thread].content.id \notin Ids(run))'
      BY <1>8, <2>4, <3>1
    <3> QED
      BY <3>1, <3>4, <3>5, <3>6, <3>7, <3>8 DEF Begun
  <2> QED
    BY <2>3, <2>7, <2>8 DEF RunInv, Progress
<1>15. \A r \in Runs : r # run => /\ lastTimestamp'[r] = lastTimestamp[r]
                                  /\ met'[r] = met[r]
  BY <1>1, <1>7 DEF TypeOK
<1> QED
  BY <1>6, <1>7, <1>10, <1>11, <1>12, <1>13, <1>14, <1>15, OneRunChanges

\* An append that has begun stays so while the records of its run do.
LEMMA BegunStays ==
  ASSUME NEW thread \in Threads, NEW run \in Runs, Begun(thread, run),
         ledgerView' = ledgerView,
         Ids(run)' = Ids(run), TimesOf(run)' = TimesOf(run),
         call'[thread].content = call[thread].content,
         call'[thread].pc # "link"
           => call'[thread].prev_hash = Ledger!LastHash(ledgerView[run]),
         idIndex'[run] = Ids(run) \cup (IF At(thread, "record")'
                                        THEN {call[thread].content.id} ELSE {}),
         lastHash'[run] = lastHash[run], lastTimestamp'[run] = lastTimestamp[run]
  PROVE  Begun(thread, run)'
<1>1. Ledger!LastHash(ledgerView[run])' = Ledger!LastHash(ledgerView[run])
  BY DEF Ledger!LastHash
<1>2. Ledger!OlderThanStored(ledgerView[run], call[thread].content.timestamp)'
        <=> Ledger!OlderThanStored(ledgerView[run], call[thread].content.timestamp)
  BY DEF Ledger!OlderThanStored
<1>3. (call[thread].content.id \notin Ids(run))'
  BY DEF Begun
<1>4. (call[thread].content.integrity_warning
        <=> Ledger!OlderThanStored(ledgerView[run], call[thread].content.timestamp))'
  BY <1>2 DEF Begun
<1>5. (IsNewest(lastTimestamp[run], TimesOf(run) \cup {call[thread].content.timestamp}))'
  BY DEF Begun, IsNewest
<1> QED
  BY <1>1, <1>3, <1>4, <1>5 DEF Begun

\* A step on the way to the record leaves the event, and what the run has seen, alone.
LEMMA OnTheWay ==
  ASSUME IInv, NEW thread \in Threads, NEW run \in Runs, AppendsTo(thread, run),
         NEW new \in InCall,
         call' = [call EXCEPT ![thread] = new],
         UNCHANGED <<runRecords, lastTimestamp, lastHash, met>>,
         call[thread].pc \in {"link", "number", "index"},
         new.pc \in {"number", "index", "record"},
         new.content = call[thread].content,
         met[run] = Never => new.prev_hash = Ledger!LastHash(ledgerView[run]),
         idIndex' \in [Runs -> SUBSET EventIds],
         \A r \in Runs : idIndex'[r] = IF r = run /\ new.pc = "record"
                                       THEN idIndex[r] \cup {call[thread].content.id}
                                       ELSE idIndex[r],
         sequence' \in 0..MaxSequence,
         NumbersLeft'
  PROVE  IInv'
<1>1. TypeOK
  BY DEF IInv
<1>2. /\ call' \in [Threads -> InCall \cup {Idle}]
      /\ call'[thread] = new
      /\ \A t \in Threads : t # thread => call'[t] = call[t]
  BY <1>1, CallOfOne
<1>3. /\ ledgerView' = ledgerView
      /\ \A r \in Runs : Ids(r)' = Ids(r) /\ TimesOf(r)' = TimesOf(r)
  BY SameRecords
<1>4. TypeOK' /\ MetBefore'
  BY <1>1, <1>2 DEF IInv, TypeOK, MetBefore
<1>5. \A r \in Runs : AppendsTo(thread, r)' <=> AppendsTo(thread, r)
  BY <1>2 DEF AppendsTo, At, RunOf
<1>6. ASSUME met'[run] = Never PROVE RunInv(run)'
  <2>1. OnlyAppender(thread, run) /\ Progress(thread, run)
    BY <1>6, Alone
  <2>2. Begun(thread, run) /\ ~ At(thread, "record")
    BY <2>1 DEF Progress, At
  <2>3. OnlyAppender(thread, run)'
    BY <1>2, <1>5, <2>1 DEF OnlyAppender, AppendsTo, At, RunOf
  <2>4. Begun(thread, run)' /\ ~ At(thread, "publish")'
    <3>1. At(thread, "record")' <=> new.pc = "record"
      BY <1>2 DEF At
    <3>2. idIndex'[run] = Ids(run) \cup (IF At(thread, "record")'
                                        THEN {call[thread].content.id} ELSE {})
      BY <2>2, <3>1 DEF Begun
    <3>3. Begun(thread, run)'
      BY <1>2, <1>3, <1>6, <2>2, <3>2, BegunStays
    <3> QED
      BY <1>2, <3>3 DEF At
  <2> QED
    BY <2>3, <2>4 DEF RunInv, Progress
<1> QED
  BY <1>1, <1>2, <1>4, <1>5, <1>6, OneRun, OneRunChanges

\* A step of an append that neither takes a number nor ends leaves the others theirs.
LEMMA SameNumbers ==
  ASSUME IInv, NEW thread \in Threads, NEW new \in InCall,
         call' = [call EXCEPT ![thread] = new],
         sequence' = sequence,
         new.sequence = call[thread].sequence,
         \/ call[thread].pc = "link" /\ new.pc = "number"
         \/ call[thread].pc \in {"index", "record"} /\ new.pc \in {"record", "publish"}
  PROVE  NumbersLeft'
<1>1. /\ call'[thread] = new
      /\ \A t \in Threads : t # thread => call'[t] = call[t]
  BY CallOfOne DEF IInv
<1>2. InFlight' = InFlight
  BY <1>1 DEF InFlight
<1> QED
  BY <1>1, <1>2 DEF IInv, NumbersLeft

\* The append reads its link: the digest of the run's last record.
LEMMA ReadLinkKeepsIInv ==
  ASSUME IInv, NEW thread \in Threads, ReadLink(thread)
  PROVE  IInv'
<1>1. TypeOK /\ call[thread].pc = "link" /\ call[thread] \in InCall
  BY InCallType DEF IInv, ReadLink, At
<1>2. PICK run \in Runs : RunOf(thread) = run
  BY <1>1, InCallType
<1> DEFINE new == [call[thread] EXCEPT !.pc = "number", !.prev_hash = lastHash[run]]
<1>3. /\ call' = [call EXCEPT ![thread] = new]
      /\ UNCHANGED <<sequence, idIndex, runRecords, lastTimestamp, lastHash, met>>
  BY <1>2 DEF ReadLink
<1>4. lastHash[run] \in Ledger!Hashes
  BY <1>1 DEF TypeOK
<1>5. /\ new \in InCall /\ new.pc = "number" /\ new.content = call[thread].content
      /\ new.prev_hash = lastHash[run] /\ new.sequence = call[thread].sequence
  BY <1>1, <1>4 DEF InCall, Steps
<1> HIDE DEF new
<1>6. AppendsTo(thread, run)
  BY <1>1, <1>2 DEF AppendsTo, At
<1>7. met[run] = Never => new.prev_hash = Ledger!LastHash(ledgerView[run])
  BY <1>1, <1>5, <1>6, Alone DEF Progress, Begun, At
<1>8. NumbersLeft'
  BY <1>1, <1>3, <1>5, SameNumbers
<1> QED
  BY <1>1, <1>3, <1>5, <1>6, <1>7, <1>8, OnTheWay DEF TypeOK

\* The append takes a number, of which there is one left for it.
LEMMA NumberKeepsIInv ==
  ASSUME IInv, NEW thread \in Threads, Number(thread)
  PROVE  IInv'
<1> DEFINE new == [call[thread] EXCEPT !.pc = "index", !.sequence = sequence']
<1>1. TypeOK /\ call[thread].pc = "number" /\ call[thread] \in InCall
  BY InCallType DEF IInv, Number, At
<1>2. PICK run \in Runs : RunOf(thread) = run
  BY <1>1, InCallType
<1>3. /\ call' = [call EXCEPT ![thread] = new]
      /\ sequence' = sequence + 1
      /\ UNCHANGED <<idIndex, runRecords, lastTimestamp, lastHash, met>>
  BY DEF Number
<1>4. /\ IsFiniteSet(InFlight \ {thread})
      /\ Cardinality(InFlight \ {thread}) = Cardinality(InFlight) - 1
      /\ Cardinality(InFlight) \in Nat
      /\ Cardinality(InFlight \ {thread}) \in Nat
  <2>1. thread \in InFlight /\ IsFiniteSet(InFlight)
    BY <1>1 DEF InFlight, IInv, NumbersLeft
  <2> QED
    BY <2>1, FS_RemoveElement, FS_CardinalityType
<1>5. sequence' \in 0..MaxSequence /\ sequence' > 0
  BY <1>1, <1>3, <1>4, InMemoryAssumption DEF IInv, NumbersLeft, TypeOK
<1>6. /\ new \in InCall /\ new.pc = "index" /\ new.content = call[thread].content
      /\ new.prev_hash = call[thread].prev_hash /\ new.sequence = sequence'
  BY <1>1, <1>5 DEF InCall, Steps
<1> HIDE DEF new
<1>7. AppendsTo(thread, run)
  BY <1>1, <1>2 DEF AppendsTo, At
<1>8. met[run] = Never => new.prev_hash = Ledger!LastHash(ledgerView[run])
  BY <1>1, <1>6, <1>7, Alone DEF Progress, Begun, At
<1>9. NumbersLeft'
  <2>1. /\ call'[thread] = new
        /\ \A t \in Threads : t # thread => call'[t] = call[t]
    BY <1>1, <1>3, <1>6, CallOfOne
  <2>2. InFlight' = InFlight \ {thread}
    BY <1>6, <2>1 DEF InFlight
  <2>3. IsFiniteSet(InFlight') /\ sequence' + Cardinality(InFlight') <= MaxSequence
    BY <1>1, <1>3, <1>4, <2>2, InMemoryAssumption DEF IInv, NumbersLeft, TypeOK
  <2>4. \A t \in Threads : call'[t].pc \in {"index", "record", "publish"}
                             => call'[t].sequence > 0
    BY <1>5, <1>6, <2>1 DEF IInv, NumbersLeft
  <2> QED
    BY <2>3, <2>4 DEF NumbersLeft, InFlight
<1> QED
  BY <1>1, <1>3, <1>5, <1>6, <1>7, <1>8, <1>9, OnTheWay DEF TypeOK

\* The id index goes ahead of the records by one id.
LEMMA IndexKeepsIInv ==
  ASSUME IInv, NEW thread \in Threads, Index(thread)
  PROVE  IInv'
<1> DEFINE new == [call[thread] EXCEPT !.pc = "record"]
<1>1. /\ TypeOK /\ call[thread].pc = "index" /\ call[thread] \in InCall
      /\ call[thread].content \in Ledger!Content
  BY InCallType DEF IInv, Index, At
<1>2. PICK run \in Runs : RunOf(thread) = run
  BY <1>1, InCallType
<1>3. /\ call' = [call EXCEPT ![thread] = new]
      /\ idIndex' = [idIndex EXCEPT ![run] = @ \cup {call[thread].content.id}]
      /\ UNCHANGED <<sequence, runRecords, lastTimestamp, lastHash, met>>
  BY <1>2 DEF Index
<1>4. /\ new \in InCall /\ new.pc = "record" /\ new.content = call[thread].content
      /\ new.prev_hash = call[thread].prev_hash /\ new.sequence = call[thread].sequence
  BY <1>1 DEF InCall, Steps
<1> HIDE DEF new
<1>5. AppendsTo(thread, run)
  BY <1>1, <1>2 DEF AppendsTo, At
<1>6. met[run] = Never => new.prev_hash = Ledger!LastHash(ledgerView[run])
  BY <1>1, <1>4, <1>5, Alone DEF Progress, Begun, At
<1>7. NumbersLeft'
  BY <1>1, <1>3, <1>4, SameNumbers
<1>8. call[thread].content.id \in EventIds
  BY <1>1 DEF Ledger!Content
<1>9. /\ idIndex' \in [Runs -> SUBSET EventIds]
      /\ \A r \in Runs : idIndex'[r] = IF r = run /\ new.pc = "record"
                                       THEN idIndex[r] \cup {call[thread].content.id}
                                       ELSE idIndex[r]
  BY <1>1, <1>3, <1>4, <1>8 DEF TypeOK
<1>10. sequence' \in 0..MaxSequence
  BY <1>1, <1>3 DEF TypeOK
<1>11. UNCHANGED <<runRecords, lastTimestamp, lastHash, met>>
  BY <1>3
<1>12. /\ new \in InCall
       /\ call' = [call EXCEPT ![thread] = new]
       /\ call[thread].pc \in {"link", "number", "index"}
       /\ new.pc \in {"number", "index", "record"}
       /\ new.content = call[thread].content
  BY <1>1, <1>3, <1>4
<1> QED
  BY ONLY IInv, thread \in Threads, run \in Runs, <1>5, <1>6, <1>7, <1>9, <1>10, <1>11, <1>12,
          OnTheWay

\* The record of an append is the receipt that the ledger would store.
LEMMA RecordView ==
  ASSUME TypeOK, NEW thread \in Threads, Record(thread)
  PROVE  /\ NewRecord(thread) \in [sequence: 0..MaxSequence, content: Ledger!Content,
                                   prev_hash: Ledger!Hashes, hash: Ledger!Hashes]
         /\ RunOf(thread) \in Runs
         /\ ledgerView' = [ledgerView EXCEPT ![RunOf(thread)] =
              Append(@, Ledger!NewStoredEvent(call[thread].content, call[thread].prev_hash))]
         /\ \A run \in Runs : run # RunOf(thread) => runRecords'[run] = runRecords[run]
         /\ runRecords'[RunOf(thread)] = Append(runRecords[RunOf(thread)], NewRecord(thread))
<1> DEFINE run == RunOf(thread)
           record == NewRecord(thread)
           event == Ledger!NewStoredEvent(call[thread].content, call[thread].prev_hash)
           n == Len(runRecords[run])
<1>1. /\ run \in Runs /\ call[thread] \in InCall
      /\ call[thread].content \in Ledger!Content /\ call[thread].prev_hash \in Ledger!Hashes
  BY InCallType DEF Record, At
<1>2. call[thread].sequence \in 0..MaxSequence
  BY <1>1 DEF InCall
<1>3. Append(call[thread].prev_hash, call[thread].content) \in Ledger!Hashes
  BY <1>1 DEF Ledger!Hashes
<1>4. /\ record \in [sequence: 0..MaxSequence, content: Ledger!Content,
                     prev_hash: Ledger!Hashes, hash: Ledger!Hashes]
      /\ event = [content |-> record.content, prev_hash |-> record.prev_hash,
                  hash |-> record.hash]
  BY <1>1, <1>2, <1>3 DEF NewRecord, Ledger!NewStoredEvent, Ledger!BuildEventHash
<1>5. runRecords' = [runRecords EXCEPT ![run] = Append(@, record)]
  BY DEF Record
<1>6. /\ runRecords'[run] = Append(runRecords[run], record)
      /\ \A r \in Runs : r # run => runRecords'[r] = runRecords[r]
  BY <1>1, <1>5 DEF TypeOK
<1> HIDE DEF record, event, run
<1>7. /\ ledgerView'[run] = Append(ledgerView[run], event)
      /\ \A r \in Runs : r # run => ledgerView'[r] = ledgerView[r]
  <2>1. \A r \in Runs :
          ledgerView'[r] = [i \in DOMAIN runRecords'[r] |->
                              [content   |-> runRecords'[r][i].content,
                               prev_hash |-> runRecords'[r][i].prev_hash,
                               hash      |-> runRecords'[r][i].hash]]
    BY DEF ledgerView
  <2>2. /\ n \in Nat /\ DOMAIN runRecords[run] = 1..n
        /\ runRecords[run] \in Seq(StoredRecord)
        /\ ledgerView[run] \in Seq(Ledger!StoredEvent) /\ Len(ledgerView[run]) = n
    BY <1>1, ViewShape
  <2>3. \A i \in 1..n :
          ledgerView[run][i] = [content   |-> runRecords[run][i].content,
                                prev_hash |-> runRecords[run][i].prev_hash,
                                hash      |-> runRecords[run][i].hash]
    BY <1>1, <2>2 DEF ledgerView
  <2>4. /\ DOMAIN runRecords'[run] = 1..(n + 1)
        /\ \A i \in 1..n : runRecords'[run][i] = runRecords[run][i]
        /\ runRecords'[run][n + 1] = record
    BY <1>6, <2>2
  <2>5. /\ Append(ledgerView[run], event) = [i \in 1..(n + 1) |->
                                               IF i = n + 1 THEN event
                                               ELSE ledgerView[run][i]]
    BY <2>2
  <2>6. ASSUME NEW i \in 1..(n + 1)
        PROVE  [content   |-> runRecords'[run][i].content,
                prev_hash |-> runRecords'[run][i].prev_hash,
                hash      |-> runRecords'[run][i].hash]
                 = IF i = n + 1 THEN event ELSE ledgerView[run][i]
    <3>1. CASE i = n + 1
      BY <1>4, <2>4, <3>1
    <3>2. CASE i # n + 1
      <4>1. i \in 1..n
        BY <2>2, <3>2
      <4> QED
        BY <2>3, <2>4, <3>2, <4>1
    <3> QED
      BY <3>1, <3>2
  <2>7. ledgerView'[run] = Append(ledgerView[run], event)
    BY <1>1, <2>1, <2>4, <2>5, <2>6
  <2>8. \A r \in Runs : r # run => ledgerView'[r] = ledgerView[r]
    BY <1>6, <2>1 DEF ledgerView
  <2> QED
    BY <2>7, <2>8
<1>8. ledgerView' = [ledgerView EXCEPT ![run] = Append(@, event)]
  <2>1. /\ ledgerView = [r \in Runs |-> ledgerView[r]]
        /\ ledgerView' = [r \in Runs |-> ledgerView'[r]]
    BY DEF ledgerView
  <2> QED
    BY <1>1, <1>7, <2>1
<1> QED
  BY <1>1, <1>4, <1>6, <1>8 DEF record, event, run

\* What is appended to a sequence is its last element.
LEMMA AppendedLast ==
  ASSUME NEW S, NEW s \in Seq(S), NEW e
  PROVE  /\ Append(s, e) # << >>
         /\ Append(s, e)[Len(Append(s, e))] = e
<1>1. Len(s) \in Nat /\ Len(Append(s, e)) = Len(s) + 1 /\ Append(s, e)[Len(s) + 1] = e
  OBVIOUS
<1>2. Len(<< >>) = 0
  OBVIOUS
<1> QED
  BY <1>1, <1>2

\* The record: the run has one more receipt, with the id that the index already has.
LEMMA RecordKeepsIInv ==
  ASSUME IInv, NEW thread \in Threads, Record(thread)
  PROVE  IInv'
<1> DEFINE new == [call[thread] EXCEPT !.pc = "publish"]
           record == NewRecord(thread)
<1>1. /\ TypeOK /\ call[thread].pc = "record" /\ call[thread] \in InCall
      /\ call[thread].content \in Ledger!Content
  BY InCallType DEF IInv, Record, At
<1>0. PICK run \in Runs : RunOf(thread) = run
  BY <1>1, InCallType
<1> DEFINE n == Len(runRecords[run])
<1>2. /\ call' = [call EXCEPT ![thread] = new]
      /\ UNCHANGED <<sequence, idIndex, lastTimestamp, lastHash, met>>
  BY DEF Record
<1>3. /\ new \in InCall /\ new.pc = "publish" /\ new.content = call[thread].content
      /\ new.prev_hash = call[thread].prev_hash /\ new.sequence = call[thread].sequence
  BY <1>1 DEF InCall, Steps
<1> HIDE DEF new
<1>4. /\ call' \in [Threads -> InCall \cup {Idle}]
      /\ call'[thread] = new
      /\ \A t \in Threads : t # thread => call'[t] = call[t]
  BY <1>1, <1>2, <1>3, CallOfOne
<1>5. /\ runRecords'[run] = Append(runRecords[run], record)
      /\ \A r \in Runs : r # run => runRecords'[r] = runRecords[r]
  BY <1>1, <1>0, RecordView
<1>6. record \in StoredRecord
  <2>1. call[thread].sequence > 0
    BY <1>1 DEF IInv, NumbersLeft
  <2>2. record.sequence = call[thread].sequence
    BY DEF NewRecord
  <2>3. record \in [sequence: 0..MaxSequence, content: Ledger!Content,
                    prev_hash: Ledger!Hashes, hash: Ledger!Hashes]
    BY <1>1, <1>0, RecordView
  <2> QED
    BY <2>1, <2>2, <2>3, InMemoryAssumption DEF StoredRecord
<1>7. record.content = call[thread].content
  BY DEF NewRecord
<1>8. NewRecord(thread)' = record
  BY <1>3, <1>4 DEF NewRecord
<1> HIDE DEF record
<1>9. /\ runRecords[run] \in Seq(StoredRecord) /\ n \in Nat
      /\ DOMAIN runRecords[run] = 1..n
      /\ runRecords'[run] \in Seq(StoredRecord)
      /\ Len(runRecords'[run]) = n + 1
      /\ DOMAIN runRecords'[run] = 1..(n + 1)
      /\ \A i \in 1..n : runRecords'[run][i] = runRecords[run][i]
      /\ runRecords'[run][n + 1] = record
  BY <1>1, <1>5, <1>6 DEF TypeOK
<1>10. TypeOK'
  <2>1. runRecords' \in [Runs -> Seq(StoredRecord)]
    BY <1>1, <1>0, <1>9 DEF TypeOK, Record
  <2> QED
    BY <1>1, <1>2, <1>4, <2>1 DEF TypeOK
<1>11. NumbersLeft'
  BY <1>1, <1>2, <1>3, SameNumbers
<1>12. MetBefore'
  <2>1. met[run] # Never => met[run] \in Nat /\ met[run] <= n
    BY <1>1 DEF IInv, MetBefore, TypeOK
  <2> QED
    BY <1>2, <1>5, <1>9, <2>1 DEF IInv, MetBefore
<1>13. \A i \in 1..(n + 1) : i \in 1..n \/ i = n + 1
  BY <1>9
<1>14. \A i \in 1..n : i \in 1..(n + 1)
  BY <1>9
<1>15. n + 1 \in 1..(n + 1)
  BY <1>9
<1>16. /\ Ids(run)' = Ids(run) \cup {call[thread].content.id}
       /\ TimesOf(run)' = TimesOf(run) \cup {call[thread].content.timestamp}
  <2>1. Ids(run)' = Ids(run) \cup {call[thread].content.id}
    BY <1>7, <1>9, <1>13, <1>14, <1>15 DEF Ids
  <2>2. TimesOf(run)' = TimesOf(run) \cup {call[thread].content.timestamp}
    BY <1>7, <1>9, <1>13, <1>14, <1>15 DEF TimesOf
  <2> QED
    BY <2>1, <2>2
<1>17. Ledger!LastHash(ledgerView[run])' = record.hash
  <2>1. ledgerView[run] \in Seq(Ledger!StoredEvent) /\ Len(ledgerView[run]) = n
    BY <1>1, ViewShape
  <2> DEFINE event == Ledger!NewStoredEvent(call[thread].content, call[thread].prev_hash)
  <2>2. event.hash = record.hash
    BY DEF record, NewRecord, Ledger!NewStoredEvent
  <2>3. ledgerView'[run] = Append(ledgerView[run], event)
    <3>1. DOMAIN ledgerView = Runs
      BY DEF ledgerView
    <3> QED
      BY <1>1, <1>0, <3>1, RecordView
  <2> HIDE DEF event
  <2> QED
    BY <2>1, <2>2, <2>3, AppendedLast DEF Ledger!LastHash
<1>18. AppendsTo(thread, run) /\ \A r \in Runs : AppendsTo(thread, r)' <=> AppendsTo(thread, r)
  BY <1>1, <1>0, <1>3, <1>4 DEF AppendsTo, At, RunOf
<1>19. ASSUME met'[run] = Never PROVE RunInv(run)'
  <2>1. OnlyAppender(thread, run) /\ Progress(thread, run)
    BY <1>2, <1>18, <1>19, Alone
  <2>2. Begun(thread, run) /\ At(thread, "record")
    BY <1>1, <2>1 DEF Progress, At
  <2>3. OnlyAppender(thread, run)'
    BY <1>4, <1>18, <2>1 DEF OnlyAppender, AppendsTo, At, RunOf
  <2>4. idIndex'[run] = Ids(run)' /\ IsNewest(lastTimestamp'[run], TimesOf(run)')
    BY <1>2, <1>16, <2>2 DEF Begun
  <2>5. NewRecord(thread)'.hash = Ledger!LastHash(ledgerView[run])'
    BY <1>8, <1>17
  <2>6. Recorded(thread, run)' /\ At(thread, "publish")'
    BY <1>3, <1>4, <2>4, <2>5 DEF Recorded, At
  <2> QED
    BY <2>3, <2>6 DEF RunInv, Progress
<1> QED
  BY <1>1, <1>2, <1>4, <1>5, <1>10, <1>11, <1>12, <1>18, <1>19, OneRun, OneRunChanges

\* The publication: the last digest is that of the records again.
LEMMA PublishKeepsIInv ==
  ASSUME IInv, NEW thread \in Threads, Publish(thread)
  PROVE  IInv'
<1>1. TypeOK /\ call[thread].pc = "publish"
  BY DEF IInv, Publish, At
<1>0. PICK run \in Runs : RunOf(thread) = run
  BY <1>1, InCallType
<1>2. /\ lastHash' = [lastHash EXCEPT ![run] = NewRecord(thread).hash]
      /\ call' = [call EXCEPT ![thread] = Idle]
      /\ UNCHANGED <<sequence, idIndex, runRecords, lastTimestamp, met>>
  BY <1>0 DEF Publish
<1>3. /\ call' \in [Threads -> InCall \cup {Idle}]
      /\ call'[thread] = Idle /\ Idle.pc = "idle"
      /\ \A t \in Threads : t # thread => call'[t] = call[t]
  BY <1>1, <1>2, CallOfOne DEF Idle
<1>4. /\ ledgerView' = ledgerView
      /\ \A r \in Runs : Ids(r)' = Ids(r) /\ TimesOf(r)' = TimesOf(r)
  BY <1>2, SameRecords
<1>5. AppendsTo(thread, run) /\ \A r \in Runs : ~ AppendsTo(thread, r)'
  BY <1>1, <1>0, <1>3 DEF AppendsTo, At
<1>6. TypeOK'
  <2>1. NewRecord(thread).hash \in Ledger!Hashes
    <3>1. /\ call[thread].content \in Ledger!Content
          /\ call[thread].prev_hash \in Ledger!Hashes
      BY <1>1, InCallType
    <3> QED
      BY <3>1 DEF NewRecord, Ledger!BuildEventHash, Ledger!Hashes
  <2> QED
    BY <1>1, <1>2, <1>3, <2>1 DEF TypeOK
<1>7. NumbersLeft'
  <2>1. InFlight' = InFlight
    BY <1>1, <1>3 DEF InFlight
  <2> QED
    BY <1>2, <1>3, <2>1 DEF IInv, NumbersLeft
<1>8. MetBefore'
  BY <1>2 DEF IInv, MetBefore
<1>9. ASSUME met'[run] = Never PROVE RunInv(run)'
  <2>1. OnlyAppender(thread, run) /\ Progress(thread, run)
    BY <1>2, <1>5, <1>9, Alone
  <2>2. Recorded(thread, run)
    BY <1>1, <2>1 DEF Progress, At
  <2>3. \A t \in Threads : ~ AppendsTo(t, run)'
    BY <1>3, <1>5, <2>1 DEF OnlyAppender, AppendsTo, At, RunOf
  <2>4. lastHash'[run] = NewRecord(thread).hash
    BY <1>1, <1>2 DEF TypeOK
  <2>5. Settled(run)'
    BY <1>2, <1>4, <2>2, <2>4 DEF Settled, Recorded, Ledger!LastHash
  <2> QED
    BY <2>3, <2>5 DEF RunInv
<1>10. \A r \in Runs : r # run => lastHash'[r] = lastHash[r]
  BY <1>1, <1>2 DEF TypeOK
<1> QED
  BY <1>1, <1>2, <1>3, <1>5, <1>6, <1>7, <1>8, <1>9, <1>10, OneRun, OneRunChanges

\* Every step of any thread keeps the inductive invariant.
LEMMA NextIInv == IInv /\ [Next]_vars => IInv'
<1> SUFFICES ASSUME IInv, [Next]_vars PROVE IInv'
  OBVIOUS
<1>1. ASSUME NEW thread \in Threads, NEW run \in Runs, NEW id \in EventIds,
             NEW timestamp \in Times, NEW payload \in Payloads,
             Begin(thread, run, id, timestamp, payload)
      PROVE  IInv'
  BY <1>1, BeginKeepsIInv
<1>2. ASSUME NEW thread \in Threads, ReadLink(thread) PROVE IInv'
  BY <1>2, ReadLinkKeepsIInv
<1>3. ASSUME NEW thread \in Threads, Number(thread) PROVE IInv'
  BY <1>3, NumberKeepsIInv
<1>4. ASSUME NEW thread \in Threads, Index(thread) PROVE IInv'
  BY <1>4, IndexKeepsIInv
<1>5. ASSUME NEW thread \in Threads, Record(thread) PROVE IInv'
  BY <1>5, RecordKeepsIInv
<1>6. ASSUME NEW thread \in Threads, Publish(thread) PROVE IInv'
  BY <1>6, PublishKeepsIInv
<1>7. CASE UNCHANGED vars
  <2> USE <1>7 DEF vars
  <2>1. /\ ledgerView' = ledgerView
        /\ \A r \in Runs : Ids(r)' = Ids(r) /\ TimesOf(r)' = TimesOf(r)
    BY SameRecords
  <2>2. TypeOK' /\ NumbersLeft' /\ MetBefore'
    BY DEF IInv, TypeOK, NumbersLeft, InFlight, MetBefore
  <2>3. \A run \in Runs : Settled(run)' <=> Settled(run)
    BY <2>1 DEF Settled, Ledger!LastHash
  <2>4. \A t \in Threads : \A run \in Runs :
          OnlyAppender(t, run)' <=> OnlyAppender(t, run)
    BY DEF OnlyAppender, AppendsTo, At, RunOf
  <2>5. \A t \in Threads : \A run \in Runs : AppendsTo(t, run)' <=> AppendsTo(t, run)
    BY DEF AppendsTo, At, RunOf
  <2>6. \A t \in Threads : \A run \in Runs : Recorded(t, run)' <=> Recorded(t, run)
    BY <2>1 DEF Recorded, NewRecord, Ledger!LastHash
  <2>7. ASSUME NEW t \in Threads, NEW run \in Runs, Begun(t, run) PROVE Begun(t, run)'
    <3>1. At(t, "record")' <=> At(t, "record")
      BY DEF At
    <3>2. /\ idIndex[run] = Ids(run) \cup (IF At(t, "record") THEN {call[t].content.id}
                                            ELSE {})
          /\ call[t].pc # "link" => call[t].prev_hash = Ledger!LastHash(ledgerView[run])
      BY <2>7 DEF Begun
    <3> QED
      BY <2>1, <2>7, <3>1, <3>2, BegunStays
  <2>8. \A t \in Threads : \A run \in Runs : Progress(t, run) => Progress(t, run)'
    BY <2>6, <2>7 DEF Progress, At
  <2>9. \A run \in Runs : RunInv(run) => RunInv(run)'
    BY <2>3, <2>4, <2>5, <2>8 DEF RunInv
  <2> QED
    BY <2>2, <2>9 DEF IInv
<1> QED
  BY <1>1, <1>2, <1>3, <1>4, <1>5, <1>6, <1>7 DEF Next

--------------------------------------------------------------------------------
\* What the refinement shows of a run: its receipts until two appends met.
LEMMA ApartShape ==
  ASSUME IInv, NEW run \in Runs
  PROVE  /\ met[run] = Never => apartView[run] = ledgerView[run]
         /\ met[run] # Never =>
              /\ met[run] \in 0..Len(ledgerView[run])
              /\ apartView[run] = SubSeq(ledgerView[run], 1, met[run])
<1>1. Len(ledgerView[run]) = Len(runRecords[run]) /\ Len(runRecords[run]) \in Nat
  BY ViewShape DEF IInv
<1>2. met[run] \in Nat \cup {Never}
  BY DEF IInv, TypeOK
<1> QED
  BY <1>1, <1>2 DEF IInv, MetBefore, apartView

\* A receipt stored after two appends have met does not show.
LEMMA AppendHidden ==
  ASSUME NEW S, NEW s \in Seq(S), NEW e, NEW n \in 0..Len(s)
  PROVE  SubSeq(Append(s, e), 1, n) = SubSeq(s, 1, n)
<1>1. Len(s) \in Nat /\ n \in Nat /\ n <= Len(s)
  OBVIOUS
<1>2. \A i \in 1..n : i \in 1..Len(s) /\ Append(s, e)[i] = s[i]
  BY <1>1
<1>3. /\ SubSeq(Append(s, e), 1, n) = [i \in 1..n |-> Append(s, e)[i]]
      /\ SubSeq(s, 1, n) = [i \in 1..n |-> s[i]]
  BY <1>1
<1> QED
  BY <1>2, <1>3

\* Until two appends to its run meet, the record of an append is the ledger's append.
LEMMA RecordImplementsAppend ==
  ASSUME IInv, IInv', NEW thread \in Threads, Record(thread)
  PROVE  [Apart!Next]_apartView
<1>1. TypeOK /\ call[thread].pc = "record" /\ met' = met
  BY DEF IInv, Record, At
<1>2. PICK run \in Runs : RunOf(thread) = run
  BY <1>1, InCallType
<1> DEFINE content == call[thread].content
           event == Ledger!NewStoredEvent(content, call[thread].prev_hash)
<1>3. /\ ledgerView[run] \in Seq(Ledger!StoredEvent)
      /\ ledgerView'[run] = Append(ledgerView[run], event)
      /\ \A r \in Runs : r # run => ledgerView'[r] = ledgerView[r]
  <2>1. DOMAIN ledgerView = Runs
    BY DEF ledgerView
  <2> QED
    BY <1>1, <1>2, <2>1, RecordView, ViewShape
<1>4. \A r \in Runs : r # run => apartView'[r] = apartView[r]
  BY <1>1, <1>3 DEF apartView
<1>5. /\ apartView = [r \in Runs |-> apartView[r]]
      /\ apartView' = [r \in Runs |-> apartView'[r]]
  BY DEF apartView
<1>6. CASE met[run] # Never
  <2>1. met[run] \in 0..Len(ledgerView[run])
    BY <1>6, ApartShape
  <2>2. SubSeq(ledgerView'[run], 1, met[run]) = SubSeq(ledgerView[run], 1, met[run])
    BY <1>3, <2>1, AppendHidden
  <2>3. apartView'[run] = apartView[run]
    BY <1>1, <1>6, <2>2 DEF apartView
  <2> QED
    BY <1>4, <1>5, <2>3
<1>7. CASE met[run] = Never
  <2>1. apartView[run] = ledgerView[run] /\ apartView'[run] = ledgerView'[run]
    BY <1>1, <1>7 DEF apartView
  <2>2. content \in Ledger!Content
    BY <1>1, InCallType
  <2>3. /\ content.id \in EventIds /\ content.timestamp \in Times
        /\ content.payload \in Payloads /\ content.run = run
        /\ content = [run |-> content.run, id |-> content.id,
                      timestamp |-> content.timestamp, payload |-> content.payload,
                      integrity_warning |-> content.integrity_warning]
        /\ content.integrity_warning \in BOOLEAN
    BY <1>2, <2>2 DEF Ledger!Content, RunOf
  <2>4. AppendsTo(thread, run)
    BY <1>1, <1>2 DEF AppendsTo, At
  <2>5. Begun(thread, run)
    BY <1>1, <1>7, <2>4, Alone DEF Progress, At
  <2>6. /\ content.id \notin Ids(run)
        /\ content.integrity_warning
             <=> Ledger!OlderThanStored(ledgerView[run], content.timestamp)
        /\ call[thread].prev_hash = Ledger!LastHash(ledgerView[run])
    BY <1>1, <2>5 DEF Begun
  <2>7. ~ Apart!HasId(ledgerView[run], content.id)
    BY <1>1, <2>6, ViewShape DEF Apart!HasId, Ids
  <2>8. content.integrity_warning = Apart!OlderThanStored(ledgerView[run], content.timestamp)
    BY <2>3, <2>6 DEF Ledger!OlderThanStored, Apart!OlderThanStored
  <2>9. event = Apart!NewStoredEvent(content, Apart!LastHash(ledgerView[run]))
    BY <2>6 DEF Ledger!NewStoredEvent, Apart!NewStoredEvent, Ledger!LastHash, Apart!LastHash,
       Ledger!BuildEventHash, Apart!BuildEventHash, Ledger!NoHash, Apart!NoHash
  <2> HIDE DEF content, event
  <2>10. apartView' = [apartView EXCEPT ![run] =
           Append(@, Apart!NewStoredEvent(content, Apart!LastHash(@)))]
    BY <1>3, <1>4, <1>5, <2>1, <2>9
  <2>11. Apart!AppendEvent(run, content.id, content.timestamp, content.payload)
    BY <2>1, <2>3, <2>7, <2>8, <2>10 DEF Apart!AppendEvent
  <2> QED
    BY <2>3, <2>11 DEF Apart!Next
<1> QED
  BY <1>6, <1>7

\* When two appends meet, the run shows what it has and will show nothing more.
LEMMA BeginShowsNothing ==
  ASSUME IInv, NEW thread \in Threads, NEW run \in Runs, NEW id \in EventIds,
         NEW timestamp \in Times, NEW payload \in Payloads,
         Begin(thread, run, id, timestamp, payload)
  PROVE  apartView' = apartView
<1>1. TypeOK
  BY DEF IInv
<1>2. /\ ledgerView' = ledgerView
      /\ met' = met \/ (met[run] = Never
                          /\ met' = [met EXCEPT ![run] = Len(runRecords[run])])
  BY SameRecords DEF Begin, Meet
<1>3. CASE met' = met
  BY <1>2, <1>3 DEF apartView
<1>4. CASE met[run] = Never /\ met' = [met EXCEPT ![run] = Len(runRecords[run])]
  <2>1. /\ ledgerView[run] \in Seq(Ledger!StoredEvent)
        /\ Len(ledgerView[run]) = Len(runRecords[run])
        /\ Len(runRecords[run]) \in Nat
    BY <1>1, ViewShape
  <2>2. /\ met'[run] = Len(runRecords[run]) /\ met'[run] # Never
        /\ \A r \in Runs : r # run => met'[r] = met[r]
    BY <1>1, <1>4, <2>1 DEF TypeOK, Never
  <2>3. SubSeq(ledgerView[run], 1, Len(ledgerView[run])) = ledgerView[run]
    BY <2>1
  <2>4. \A r \in Runs : apartView'[r] = apartView[r]
    <3>1. \A r \in Runs : r # run => apartView'[r] = apartView[r]
      BY <1>2, <2>2 DEF apartView
    <3>2. /\ apartView[run] = ledgerView[run]
          /\ apartView'[run] = SubSeq(ledgerView[run], 1, met'[run])
      BY <1>2, <1>4, <2>2 DEF apartView
    <3> QED
      BY <2>1, <2>2, <2>3, <3>1, <3>2
  <2>5. /\ apartView = [r \in Runs |-> apartView[r]]
        /\ apartView' = [r \in Runs |-> apartView'[r]]
    BY DEF apartView
  <2> QED
    BY <2>4, <2>5
<1> QED
  BY <1>2, <1>3, <1>4

\* Every step of the store is an append of the ledger, or one that does not show.
LEMMA NextImplements == IInv /\ IInv' /\ [Next]_vars => [Apart!Next]_apartView
<1> SUFFICES ASSUME IInv, IInv', [Next]_vars PROVE [Apart!Next]_apartView
  OBVIOUS
<1>1. ASSUME NEW thread \in Threads, NEW run \in Runs, NEW id \in EventIds,
             NEW timestamp \in Times, NEW payload \in Payloads,
             Begin(thread, run, id, timestamp, payload)
      PROVE  [Apart!Next]_apartView
  BY <1>1, BeginShowsNothing
<1>2. ASSUME NEW thread \in Threads, Record(thread)
      PROVE  [Apart!Next]_apartView
  BY <1>2, RecordImplementsAppend
<1>3. CASE UNCHANGED <<runRecords, met>>
  BY <1>3, SameRecords DEF apartView
<1>4. ASSUME NEW thread \in Threads,
             ReadLink(thread) \/ Number(thread) \/ Index(thread) \/ Publish(thread)
      PROVE  UNCHANGED <<runRecords, met>>
  BY <1>4 DEF ReadLink, Number, Index, Publish
<1> QED
  BY <1>1, <1>2, <1>3, <1>4 DEF Next, vars

\* The inductive invariant holds throughout, for any number of threads.
THEOREM InMemoryInvariant == Spec => []IInv
BY InitIInv, NextIInv, PTL DEF Spec

\* The store keeps its types, and every append under way finds a number, whatever
\* threads meet.
THEOREM InMemoryTypeOK == Spec => []TypeOK
<1>1. IInv => TypeOK
  BY DEF IInv
<1> QED
  BY <1>1, InMemoryInvariant, PTL

\* Whenever no append to a run is under way and no two ever were at once, the id index,
\* the last timestamp and the last digest of the run are those of its records, whatever
\* threads append to other runs.
THEOREM InMemoryIndexesAgree == Spec => []IndexesAgree
<1>1. IInv => IndexesAgree
  <2> SUFFICES ASSUME IInv, NEW run \in Runs, met[run] = Never,
                      \A thread \in Threads : ~ AppendsTo(thread, run)
               PROVE  /\ idIndex[run] = Ids(run)
                      /\ lastHash[run] = Ledger!LastHash(ledgerView[run])
                      /\ IsNewest(lastTimestamp[run], TimesOf(run))
    BY DEF IndexesAgree, Ids, TimesOf, IsNewest
  <2> QED
    BY DEF IInv, RunInv, OnlyAppender, Settled
<1> QED
  BY <1>1, InMemoryInvariant, PTL

\* Until two appends to a run are under way at once, the six steps of each append
\* implement the atomic append of the ledger, for any number of threads, runs and records.
THEOREM InMemoryImplementsLedger == Spec => ImplementsLedger
<1>1. Init => Apart!Init
  <2> SUFFICES ASSUME Init PROVE apartView = [run \in Runs |-> << >>]
    BY DEF Apart!Init
  <2>1. \A run \in Runs : DOMAIN runRecords[run] = {} /\ met[run] = Never
    BY DEF Init
  <2>2. \A run \in Runs : ledgerView[run] = << >>
    BY DEF Init, ledgerView
  <2> QED
    BY <2>1, <2>2 DEF apartView
<1> QED
  BY <1>1, InMemoryInvariant, NextImplements, PTL DEF Spec, ImplementsLedger, Apart!Spec
================================================================================
