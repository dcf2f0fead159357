--------------------------- MODULE SqliteStoreProofs ---------------------------
(***************************************************************************)
(* What the SQLite store keeps under every interleaving of any number of   *)
(* threads and crashes.                                                    *)
(*                                                                         *)
(* None of the properties is inductive as it stands: that a row's id is    *)
(* new and that its predecessor exists is known of the append under way    *)
(* before it is known of the row.  IInv adds what the threads know.        *)
(***************************************************************************)
EXTENDS SqliteStore, FiniteSetTheorems, TLAPS

\* Only one thread holds the write lock.
LockExclusive ==
  \A t, u \in Threads : call[t].pc = "commit" /\ call[u].pc = "commit" => t = u

\* The id of an inserted row that is not yet committed is not in its run.
InsertedIsNew ==
  \A t \in Threads : call[t].pc = "commit" =>
    \A i \in DOMAIN rows[call[t].content.run] :
      rows[call[t].content.run][i].content.id # call[t].content.id

\* The digest an append has read is none, or that of a committed row of its run.
LinkCommitted ==
  \A t \in Threads : call[t].pc # "idle" =>
    \/ call[t].prev_hash = Ledger!NoHash
    \/ \E j \in DOMAIN rows[call[t].content.run] :
         rows[call[t].content.run][j].hash = call[t].prev_hash

\* The row that has digest h is newer than the time given.
LinkIsNewer(events, h, timestamp) ==
  \E j \in DOMAIN events : events[j].hash = h /\ timestamp < events[j].content.timestamp

\* An append has found its event out of order exactly if the row whose digest it has
\* read is newer.
WarningJustified ==
  \A t \in Threads : call[t].pc # "idle" =>
    (call[t].content.integrity_warning
       <=> LinkIsNewer(rows[call[t].content.run], call[t].prev_hash,
                       call[t].content.timestamp))

\* The inductive invariant: the properties of the rows and of the threads.
IInv ==
  /\ TypeOK
  /\ LockExclusive
  /\ InsertedIsNew
  /\ LinkCommitted
  /\ WarningJustified
  /\ UniqueEventIds
  /\ AncestorLinked
  /\ WarningsByLink

--------------------------------------------------------------------------------
\* What a thread that is not idle holds.
LEMMA InCallType ==
  ASSUME TypeOK, NEW t \in Threads, call[t].pc # "idle"
  PROVE  /\ call[t] \in InCall
         /\ call[t].content \in Ledger!Content
         /\ call[t].prev_hash \in Ledger!Hashes
         /\ call[t].content.run \in Runs
<1>1. call[t] \in InCall \cup {Idle} /\ call[t] # Idle
  BY DEF TypeOK, Idle
<1>2. /\ call[t] \in InCall
      /\ call[t].content \in Ledger!Content
      /\ call[t].prev_hash \in Ledger!Hashes
  BY <1>1 DEF InCall
<1> QED
  BY <1>2 DEF Ledger!Content

\* The digest an append reads is none or that of a committed row.
LEMMA LastHashCommitted ==
  ASSUME TypeOK, NEW run \in Runs
  PROVE  /\ Ledger!LastHash(rows[run]) \in Ledger!Hashes
         /\ \/ Ledger!LastHash(rows[run]) = Ledger!NoHash
            \/ \E j \in DOMAIN rows[run] : rows[run][j].hash = Ledger!LastHash(rows[run])
<1>1. rows[run] \in Seq(Ledger!StoredEvent)
  BY DEF TypeOK
<1>2. CASE rows[run] = << >>
  BY <1>2 DEF Ledger!Hashes, Ledger!LastHash, Ledger!NoHash
<1>3. CASE rows[run] # << >>
  <2>1. Len(rows[run]) \in DOMAIN rows[run]
    BY <1>1, <1>3
  <2>2. rows[run][Len(rows[run])] \in Ledger!StoredEvent
    BY <1>1, <2>1
  <2>3. rows[run][Len(rows[run])].hash \in Ledger!Hashes
    BY <2>2 DEF Ledger!StoredEvent
  <2> QED
    BY <1>3, <2>1, <2>3 DEF Ledger!LastHash
<1> QED
  BY <1>2, <1>3

\* Two digests are the same only if they are of the same content.
LEMMA DigestOfOneContent ==
  ASSUME NEW p \in Ledger!Hashes, NEW q \in Ledger!Hashes,
         NEW c \in Ledger!Content, NEW d \in Ledger!Content,
         Ledger!BuildEventHash(c, p) = Ledger!BuildEventHash(d, q)
  PROVE  c = d
<1>1. p \in Seq(Ledger!Content) /\ q \in Seq(Ledger!Content) /\ Append(p, c) = Append(q, d)
  BY DEF Ledger!Hashes, Ledger!BuildEventHash
<1>2. Len(Append(p, c)) = Len(p) + 1 /\ Len(Append(q, d)) = Len(q) + 1
  BY <1>1
<1>3. Append(p, c)[Len(p) + 1] = c /\ Append(q, d)[Len(q) + 1] = d
  BY <1>1
<1>4. Len(p) + 1 = Len(q) + 1
  BY <1>1, <1>2
<1> QED
  BY <1>1, <1>3, <1>4

\* No digest is the null one.
LEMMA DigestNotNull ==
  ASSUME NEW p \in Ledger!Hashes, NEW c \in Ledger!Content
  PROVE  Ledger!BuildEventHash(c, p) # Ledger!NoHash
<1>1. p \in Seq(Ledger!Content)
  BY DEF Ledger!Hashes
<1>2. Len(Append(p, c)) = Len(p) + 1 /\ Len(p) \in Nat
  BY <1>1
<1>3. Append(p, c) # << >>
  BY <1>2
<1> QED
  BY <1>3 DEF Ledger!BuildEventHash, Ledger!NoHash

\* Rows with one digest have one content, and none has the null digest.
LEMMA RowDigests ==
  ASSUME TypeOK, AncestorLinked, NEW run \in Runs, NEW i \in DOMAIN rows[run]
  PROVE  /\ rows[run][i].content \in Ledger!Content
         /\ rows[run][i].prev_hash \in Ledger!Hashes
         /\ rows[run][i].hash =
              Ledger!BuildEventHash(rows[run][i].content, rows[run][i].prev_hash)
         /\ rows[run][i].hash # Ledger!NoHash
<1>1. rows[run] \in Seq(Ledger!StoredEvent)
  BY DEF TypeOK
<1>2. rows[run][i] \in Ledger!StoredEvent
  BY <1>1
<1>3. /\ rows[run][i].content \in Ledger!Content
      /\ rows[run][i].prev_hash \in Ledger!Hashes
  BY <1>2 DEF Ledger!StoredEvent
<1>4. rows[run][i].hash =
        Ledger!BuildEventHash(rows[run][i].content, rows[run][i].prev_hash)
  BY DEF AncestorLinked
<1> QED
  BY <1>3, <1>4, DigestNotNull

\* What is found out of order against the last row is older than the row it links to.
LEMMA WarningSeesLink ==
  ASSUME TypeOK, AncestorLinked, NEW run \in Runs, NEW timestamp \in Times
  PROVE  OlderThanLastRow(rows[run], timestamp)
           <=> LinkIsNewer(rows[run], Ledger!LastHash(rows[run]), timestamp)
<1> DEFINE n == Len(rows[run])
<1>1. rows[run] \in Seq(Ledger!StoredEvent)
  BY DEF TypeOK
<1>2. CASE rows[run] = << >>
  BY <1>2 DEF OlderThanLastRow, LinkIsNewer
<1>3. CASE rows[run] # << >>
  <2>1. n \in DOMAIN rows[run] /\ Ledger!LastHash(rows[run]) = rows[run][n].hash
    BY <1>1, <1>3 DEF Ledger!LastHash
  <2>2. ASSUME NEW j \in DOMAIN rows[run], rows[run][j].hash = rows[run][n].hash
        PROVE  rows[run][j].content = rows[run][n].content
    <3>1. Ledger!BuildEventHash(rows[run][j].content, rows[run][j].prev_hash)
            = Ledger!BuildEventHash(rows[run][n].content, rows[run][n].prev_hash)
      BY <2>1, <2>2, RowDigests
    <3> QED
      BY <2>1, <3>1, RowDigests, DigestOfOneContent
  <2> QED
    BY <1>3, <2>1, <2>2 DEF OlderThanLastRow, LinkIsNewer
<1> QED
  BY <1>2, <1>3

--------------------------------------------------------------------------------
\* Nothing is stored and no append is under way at the start.
LEMMA InitIInv == Init => IInv
<1> SUFFICES ASSUME Init PROVE IInv
  OBVIOUS
<1>1. TypeOK
  BY DEF Init, TypeOK
<1>2. \A t \in Threads : call[t].pc = "idle"
  BY DEF Init, Idle
<1>3. \A run \in Runs : rows[run] = << >>
  BY DEF Init
<1>4. UniqueEventIds /\ AncestorLinked /\ WarningsByLink
  BY <1>3 DEF UniqueEventIds, Ledger!UniqueEventIds, AncestorLinked, WarningsByLink
<1> QED
  BY <1>1, <1>2, <1>4
  DEF IInv, LockExclusive, InsertedIsNew, LinkCommitted, WarningJustified

\* A thread that reads the last row takes from it what it is asked to justify.
LEMMA ReadKeepsIInv ==
  ASSUME IInv, NEW t \in Threads, NEW run \in Runs, NEW id \in EventIds,
         NEW timestamp \in Times, NEW payload \in Payloads,
         ReadLastRow(t, run, id, timestamp, payload)
  PROVE  IInv'
<1> USE DEF IInv
<1> DEFINE content == [run |-> run, id |-> id, timestamp |-> timestamp, payload |-> payload,
                       integrity_warning |-> OlderThanLastRow(rows[run], timestamp)]
           started == [pc |-> "insert", content |-> content,
                       prev_hash |-> Ledger!LastHash(rows[run])]
<1>1. /\ rows' = rows
      /\ call' = [call EXCEPT ![t] = started]
  BY DEF ReadLastRow
<1>2. started \in InCall
  <2>1. content \in Ledger!Content
    BY DEF Ledger!Content, OlderThanLastRow
  <2> QED
    BY <2>1, LastHashCommitted DEF InCall
<1>3. TypeOK'
  BY <1>1, <1>2 DEF TypeOK
<1>4. call'[t] = started /\ \A u \in Threads : u # t => call'[u] = call[u]
  BY <1>1 DEF TypeOK
<1>5. UniqueEventIds' /\ AncestorLinked' /\ WarningsByLink'
  BY <1>1 DEF UniqueEventIds, Ledger!UniqueEventIds, AncestorLinked, WarningsByLink
<1>6. LockExclusive'
  BY <1>4 DEF LockExclusive
<1>7. InsertedIsNew'
  BY <1>1, <1>4 DEF InsertedIsNew
<1>8. LinkCommitted'
  <2> SUFFICES ASSUME NEW u \in Threads, call'[u].pc # "idle"
               PROVE  \/ call'[u].prev_hash = Ledger!NoHash
                      \/ \E j \in DOMAIN rows[call'[u].content.run] :
                           rows[call'[u].content.run][j].hash = call'[u].prev_hash
    BY <1>1 DEF LinkCommitted
  <2>1. CASE u = t
    <3>1. call'[u].prev_hash = Ledger!LastHash(rows[run]) /\ call'[u].content.run = run
      BY <1>4, <2>1
    <3> QED
      BY <3>1, LastHashCommitted
  <2>2. CASE u # t
    BY <1>4, <2>2 DEF LinkCommitted
  <2> QED
    BY <2>1, <2>2
<1>9. WarningJustified'
  <2> SUFFICES ASSUME NEW u \in Threads, call'[u].pc # "idle"
               PROVE  call'[u].content.integrity_warning
                        <=> LinkIsNewer(rows[call'[u].content.run], call'[u].prev_hash,
                                        call'[u].content.timestamp)
    BY <1>1 DEF WarningJustified, LinkIsNewer
  <2>1. CASE u = t
    <3>1. /\ call'[u].content.run = run
          /\ call'[u].content.timestamp = timestamp
          /\ call'[u].prev_hash = Ledger!LastHash(rows[run])
          /\ call'[u].content.integrity_warning = OlderThanLastRow(rows[run], timestamp)
      BY <1>4, <2>1
    <3>2. OlderThanLastRow(rows[run], timestamp) \in BOOLEAN
      BY DEF OlderThanLastRow
    <3> QED
      BY <3>1, <3>2, WarningSeesLink
  <2>2. CASE u # t
    BY <1>4, <2>2 DEF WarningJustified
  <2> QED
    BY <2>1, <2>2
<1> QED
  BY <1>3, <1>5, <1>6, <1>7, <1>8, <1>9

\* Taking the lock, with the row's id found to be new.
LEMMA InsertKeepsIInv ==
  ASSUME IInv, NEW t \in Threads, Insert(t)
  PROVE  IInv'
<1> USE DEF IInv
<1>1. /\ rows' = rows
      /\ call[t].pc = "insert"
      /\ call' = [call EXCEPT ![t].pc = "commit"]
      /\ \A u \in Threads : call[u].pc # "commit"
  BY DEF Insert, TakesLock, Locked
<1>2. call[t] \in InCall
  BY <1>1, InCallType
<1>3. /\ call'[t] = [call[t] EXCEPT !.pc = "commit"]
      /\ \A u \in Threads : u # t => call'[u] = call[u]
  BY <1>1 DEF TypeOK
<1>4. call'[t] \in InCall /\ call'[t].pc = "commit"
      /\ call'[t].content = call[t].content /\ call'[t].prev_hash = call[t].prev_hash
  BY <1>2, <1>3 DEF InCall
<1>5. TypeOK'
  BY <1>1, <1>4 DEF TypeOK
<1>6. UniqueEventIds' /\ AncestorLinked' /\ WarningsByLink'
  BY <1>1 DEF UniqueEventIds, Ledger!UniqueEventIds, AncestorLinked, WarningsByLink
<1>7. LockExclusive'
  BY <1>1, <1>3 DEF LockExclusive
<1>8. InsertedIsNew'
  <2>1. ~ Ledger!HasId(rows[call[t].content.run], call[t].content.id)
    BY DEF Insert
  <2>2. ASSUME NEW u \in Threads, call'[u].pc = "commit"
        PROVE  ~ Ledger!HasId(rows[call'[u].content.run], call'[u].content.id)
    <3>1. CASE u = t
      BY <1>4, <2>1, <3>1
    <3>2. CASE u # t
      BY <1>1, <1>3, <2>2, <3>2
    <3> QED
      BY <3>1, <3>2
  <2> QED
    BY <1>1, <2>2 DEF InsertedIsNew, Ledger!HasId
<1>9. LinkCommitted'
  <2> SUFFICES ASSUME NEW u \in Threads, call'[u].pc # "idle"
               PROVE  \/ call'[u].prev_hash = Ledger!NoHash
                      \/ \E j \in DOMAIN rows[call'[u].content.run] :
                           rows[call'[u].content.run][j].hash = call'[u].prev_hash
    BY <1>1 DEF LinkCommitted
  <2>1. /\ call[u].pc # "idle"
        /\ call'[u].prev_hash = call[u].prev_hash
        /\ call'[u].content = call[u].content
    BY <1>1, <1>3, <1>4
  <2> QED
    BY <2>1 DEF LinkCommitted
<1>10. WarningJustified'
  <2> SUFFICES ASSUME NEW u \in Threads, call'[u].pc # "idle"
               PROVE  call'[u].content.integrity_warning
                        <=> LinkIsNewer(rows[call'[u].content.run], call'[u].prev_hash,
                                        call'[u].content.timestamp)
    BY <1>1 DEF WarningJustified, LinkIsNewer
  <2>1. /\ call[u].pc # "idle"
        /\ call'[u].prev_hash = call[u].prev_hash
        /\ call'[u].content = call[u].content
    BY <1>1, <1>3, <1>4
  <2> QED
    BY <2>1 DEF WarningJustified
<1> QED
  BY <1>5, <1>6, <1>7, <1>8, <1>9, <1>10

\* An append that ends without storing anything, by an error or a crash.
LEMMA AbandonKeepsIInv ==
  ASSUME IInv, rows' = rows, NEW T \in SUBSET Threads,
         call' = [u \in Threads |-> IF u \in T THEN Idle ELSE call[u]]
  PROVE  IInv'
<1> USE DEF IInv
<1>1. \A u \in Threads : call'[u].pc # "idle" => call'[u] = call[u]
  BY DEF Idle
<1>2. TypeOK'
  BY DEF TypeOK
<1>3. UniqueEventIds' /\ AncestorLinked' /\ WarningsByLink'
  BY DEF UniqueEventIds, Ledger!UniqueEventIds, AncestorLinked, WarningsByLink
<1>4. LockExclusive'
  BY <1>1 DEF LockExclusive
<1>5. InsertedIsNew'
  BY <1>1 DEF InsertedIsNew
<1>6. LinkCommitted'
  <2> SUFFICES ASSUME NEW u \in Threads, call'[u].pc # "idle"
               PROVE  \/ call'[u].prev_hash = Ledger!NoHash
                      \/ \E j \in DOMAIN rows[call'[u].content.run] :
                           rows[call'[u].content.run][j].hash = call'[u].prev_hash
    BY DEF LinkCommitted
  <2> QED
    BY <1>1 DEF LinkCommitted
<1>7. WarningJustified'
  BY <1>1 DEF WarningJustified, LinkIsNewer
<1> QED
  BY <1>2, <1>3, <1>4, <1>5, <1>6, <1>7

\* The row of a commit comes after all others of its run, which stay as they are.
LEMMA CommitShape ==
  ASSUME TypeOK, NEW t \in Threads, Commit(t)
  PROVE  LET run   == call[t].content.run
             event == Ledger!NewStoredEvent(call[t].content, call[t].prev_hash)
             n     == Len(rows[run])
         IN  /\ run \in Runs
             /\ n \in Nat
             /\ event \in Ledger!StoredEvent
             /\ event.content = call[t].content
             /\ event.prev_hash = call[t].prev_hash
             /\ event.hash = Ledger!BuildEventHash(call[t].content, call[t].prev_hash)
             /\ rows' \in [Runs -> Seq(Ledger!StoredEvent)]
             /\ \A r \in Runs : r # run => rows'[r] = rows[r]
             /\ DOMAIN rows[run] = 1..n
             /\ DOMAIN rows'[run] = 1..(n + 1)
             /\ \A i \in 1..n : rows'[run][i] = rows[run][i]
             /\ rows'[run][n + 1] = event
<1> DEFINE run   == call[t].content.run
           event == Ledger!NewStoredEvent(call[t].content, call[t].prev_hash)
<1>1. /\ run \in Runs
      /\ call[t].content \in Ledger!Content
      /\ call[t].prev_hash \in Ledger!Hashes
  BY InCallType DEF Commit
<1>2. Ledger!BuildEventHash(call[t].content, call[t].prev_hash) \in Ledger!Hashes
  BY <1>1 DEF Ledger!BuildEventHash, Ledger!Hashes
<1>3. /\ event \in Ledger!StoredEvent
      /\ event.content = call[t].content
      /\ event.prev_hash = call[t].prev_hash
      /\ event.hash = Ledger!BuildEventHash(call[t].content, call[t].prev_hash)
  BY <1>1, <1>2 DEF Ledger!NewStoredEvent, Ledger!StoredEvent
<1> HIDE DEF event
<1>4. rows' = [rows EXCEPT ![run] = Append(rows[run], event)]
  BY DEF Commit, event
<1>5. rows \in [Runs -> Seq(Ledger!StoredEvent)]
  BY DEF TypeOK
<1>6. /\ rows'[run] = Append(rows[run], event)
      /\ \A r \in Runs : r # run => rows'[r] = rows[r]
      /\ rows[run] \in Seq(Ledger!StoredEvent)
      /\ rows' \in [Runs -> Seq(Ledger!StoredEvent)]
  <2>1. run \in Runs /\ event \in Ledger!StoredEvent /\ rows[run] \in Seq(Ledger!StoredEvent)
    BY ONLY <1>1, <1>3, <1>5
  <2>2. Append(rows[run], event) \in Seq(Ledger!StoredEvent)
    BY ONLY <2>1
  <2> QED
    BY ONLY <1>4, <1>5, <2>1, <2>2
<1>7. /\ Len(rows[run]) \in Nat
      /\ DOMAIN rows[run] = 1..Len(rows[run])
      /\ DOMAIN rows'[run] = 1..(Len(rows[run]) + 1)
      /\ \A i \in 1..Len(rows[run]) : rows'[run][i] = rows[run][i]
      /\ rows'[run][Len(rows[run]) + 1] = event
  BY <1>6
<1> QED
  BY <1>1, <1>3, <1>6, <1>7 DEF event

\* What the thread knew of its row becomes true of the row.
LEMMA CommitKeepsIInv ==
  ASSUME IInv, NEW t \in Threads, Commit(t)
  PROVE  IInv'
<1> USE DEF IInv
<1> DEFINE run   == call[t].content.run
           event == Ledger!NewStoredEvent(call[t].content, call[t].prev_hash)
           n     == Len(rows[run])
<1>1. /\ run \in Runs
      /\ n \in Nat
      /\ event.content = call[t].content
      /\ event.prev_hash = call[t].prev_hash
      /\ event.hash = Ledger!BuildEventHash(call[t].content, call[t].prev_hash)
      /\ rows' \in [Runs -> Seq(Ledger!StoredEvent)]
      /\ \A r \in Runs : r # run => rows'[r] = rows[r]
      /\ DOMAIN rows[run] = 1..n
      /\ DOMAIN rows'[run] = 1..(n + 1)
      /\ \A i \in 1..n : rows'[run][i] = rows[run][i]
      /\ rows'[run][n + 1] = event
  BY CommitShape
<1>2. call[t].pc = "commit" /\ call' = [call EXCEPT ![t] = Idle]
  BY DEF Commit
<1>3. \A u \in Threads : call'[u].pc # "idle" => u # t /\ call'[u] = call[u]
  BY <1>2 DEF TypeOK, Idle
<1> HIDE DEF event, run, n
<1>4. \A r \in Runs : \A i \in DOMAIN rows[r] : i \in DOMAIN rows'[r] /\ rows'[r][i] = rows[r][i]
  BY <1>1
<1>5. TypeOK'
  BY <1>1, <1>2 DEF TypeOK
<1>6. LockExclusive'
  BY <1>3 DEF LockExclusive
<1>7. InsertedIsNew'
  BY <1>2, <1>3 DEF InsertedIsNew, LockExclusive
<1>8. LinkCommitted'
  <2> SUFFICES ASSUME NEW u \in Threads, call'[u].pc # "idle"
               PROVE  \/ call'[u].prev_hash = Ledger!NoHash
                      \/ \E j \in DOMAIN rows'[call'[u].content.run] :
                           rows'[call'[u].content.run][j].hash = call'[u].prev_hash
    BY DEF LinkCommitted
  <2>1. call'[u] = call[u] /\ call[u].content.run \in Runs
    BY <1>3, InCallType
  <2> QED
    BY <1>4, <2>1 DEF LinkCommitted
<1>9. WarningJustified'
  <2> SUFFICES ASSUME NEW u \in Threads, call'[u].pc # "idle"
               PROVE  call'[u].content.integrity_warning
                        <=> LinkIsNewer(rows'[call'[u].content.run], call'[u].prev_hash,
                                        call'[u].content.timestamp)
    BY DEF WarningJustified, LinkIsNewer
  <2> DEFINE mine == call[u].content
             h == call[u].prev_hash
  <2>1. call'[u] = call[u] /\ call[u].pc # "idle" /\ mine.run \in Runs
    BY <1>3, InCallType
  <2>2. mine.integrity_warning <=> LinkIsNewer(rows[mine.run], h, mine.timestamp)
    BY <2>1 DEF WarningJustified
  <2>3. CASE mine.run # run
    BY <1>1, <2>1, <2>2, <2>3
  <2>4. CASE mine.run = run
    <3>1. ASSUME event.hash = h
          PROVE  \E j \in DOMAIN rows[run] : rows[run][j].hash = h
                                             /\ rows[run][j].content = event.content
      <4>1. call[t].content \in Ledger!Content /\ call[t].prev_hash \in Ledger!Hashes
        BY <1>2, InCallType
      <4>2. h # Ledger!NoHash
        BY <1>1, <3>1, <4>1, DigestNotNull
      <4>3. PICK j \in DOMAIN rows[run] : rows[run][j].hash = h
        BY <2>1, <2>4, <4>2 DEF LinkCommitted
      <4>4. Ledger!BuildEventHash(rows[run][j].content, rows[run][j].prev_hash)
              = Ledger!BuildEventHash(call[t].content, call[t].prev_hash)
        BY <1>1, <3>1, <4>3, RowDigests
      <4>5. rows[run][j].content = call[t].content
        BY <1>1, <4>1, <4>3, <4>4, RowDigests, DigestOfOneContent
      <4> QED
        BY <1>1, <4>3, <4>5
    <3>2. LinkIsNewer(rows'[run], h, mine.timestamp)
            <=> LinkIsNewer(rows[run], h, mine.timestamp)
      <4>1. ASSUME LinkIsNewer(rows[run], h, mine.timestamp)
            PROVE  LinkIsNewer(rows'[run], h, mine.timestamp)
        <5>1. PICK j \in 1..n : rows[run][j].hash = h
                                 /\ mine.timestamp < rows[run][j].content.timestamp
          BY <1>1, <4>1 DEF LinkIsNewer
        <5>2. j \in DOMAIN rows'[run] /\ rows'[run][j] = rows[run][j]
          BY <1>1
        <5> QED
          BY <5>1, <5>2 DEF LinkIsNewer
      <4>2. ASSUME LinkIsNewer(rows'[run], h, mine.timestamp)
            PROVE  LinkIsNewer(rows[run], h, mine.timestamp)
        <5>1. PICK j \in 1..(n + 1) : rows'[run][j].hash = h
                                 /\ mine.timestamp < rows'[run][j].content.timestamp
          BY <1>1, <4>2 DEF LinkIsNewer
        <5>2. CASE j \in 1..n
          BY <1>1, <5>1, <5>2 DEF LinkIsNewer
        <5>3. CASE j = n + 1
          <6>1. event.hash = h /\ mine.timestamp < event.content.timestamp
            BY <1>1, <5>1, <5>3
          <6> QED
            BY <3>1, <6>1 DEF LinkIsNewer
        <5> QED
          BY <1>1, <5>2, <5>3
      <4> QED
        BY <4>1, <4>2
    <3> QED
      BY <2>1, <2>2, <2>4, <3>2
  <2> QED
    BY <2>3, <2>4
<1>10. \A r \in Runs : \A i \in DOMAIN rows'[r] :
         \/ i \in DOMAIN rows[r]
         \/ r = run /\ i = n + 1
  BY <1>1
<1>11. UniqueEventIds'
  <2> SUFFICES ASSUME NEW r \in Runs, NEW i \in DOMAIN rows'[r], NEW j \in DOMAIN rows'[r],
                      rows'[r][i].content.id = rows'[r][j].content.id
               PROVE  i = j
    BY DEF UniqueEventIds, Ledger!UniqueEventIds
  <2>1. \A k \in DOMAIN rows[run] : rows[run][k].content.id # event.content.id
    <3>1. \A k \in DOMAIN rows[run] : rows[run][k].content.id # call[t].content.id
      BY <1>2 DEF InsertedIsNew, run
    <3> QED
      BY <1>1, <3>1
  <2>2. CASE i \in DOMAIN rows[r] /\ j \in DOMAIN rows[r]
    <3>1. rows[r][i].content.id = rows[r][j].content.id
      BY <1>4, <2>2
    <3> QED
      BY <2>2, <3>1 DEF UniqueEventIds, Ledger!UniqueEventIds
  <2>3. CASE i \in DOMAIN rows[r] /\ r = run /\ j = n + 1
    BY <1>1, <1>4, <2>1, <2>3
  <2>4. CASE j \in DOMAIN rows[r] /\ r = run /\ i = n + 1
    BY <1>1, <1>4, <2>1, <2>4
  <2> QED
    BY <1>10, <2>2, <2>3, <2>4
<1>12. AncestorLinked'
  <2> SUFFICES ASSUME NEW r \in Runs, NEW i \in DOMAIN rows'[r]
               PROVE  /\ \/ rows'[r][i].prev_hash = Ledger!NoHash
                         \/ \E j \in 1..(i - 1) : rows'[r][j].hash = rows'[r][i].prev_hash
                      /\ rows'[r][i].hash =
                           Ledger!BuildEventHash(rows'[r][i].content, rows'[r][i].prev_hash)
    BY DEF AncestorLinked
  <2>1. CASE i \in DOMAIN rows[r]
    <3>1. \A j \in 1..(i - 1) : j \in DOMAIN rows[r]
      BY <2>1 DEF TypeOK
    <3> QED
      BY <1>4, <2>1, <3>1 DEF AncestorLinked
  <2>2. CASE r = run /\ i = n + 1
    <3>1. \/ event.prev_hash = Ledger!NoHash
          \/ \E j \in 1..n : rows[run][j].hash = event.prev_hash
      BY <1>1, <1>2 DEF LinkCommitted, run
    <3> QED
      BY <1>1, <2>2, <3>1
  <2> QED
    BY <1>10, <2>1, <2>2
<1>13. WarningsByLink'
  <2> SUFFICES ASSUME NEW r \in Runs, NEW i \in DOMAIN rows'[r]
               PROVE  rows'[r][i].content.integrity_warning
                        <=> \E j \in 1..(i - 1) :
                              /\ rows'[r][j].hash = rows'[r][i].prev_hash
                              /\ rows'[r][i].content.timestamp < rows'[r][j].content.timestamp
    BY DEF WarningsByLink
  <2>1. CASE i \in DOMAIN rows[r]
    <3>1. \A j \in 1..(i - 1) : j \in DOMAIN rows[r]
      BY <2>1 DEF TypeOK
    <3> QED
      BY <1>4, <2>1, <3>1 DEF WarningsByLink
  <2>2. CASE r = run /\ i = n + 1
    <3>1. event.content.integrity_warning
            <=> \E j \in 1..n : /\ rows[run][j].hash = event.prev_hash
                                /\ event.content.timestamp < rows[run][j].content.timestamp
      <4>1. call[t].content.integrity_warning
              <=> LinkIsNewer(rows[run], call[t].prev_hash, call[t].content.timestamp)
        <5>1. WarningJustified /\ call[t].pc # "idle"
          BY <1>2
        <5> QED
          BY ONLY <5>1, Zenon DEF WarningJustified, run
      <4> HIDE DEF event, run, n
      <4> QED
        BY <1>1, <4>1 DEF LinkIsNewer
    <3>2. rows'[r][i] = event /\ i - 1 = n
      BY <1>1, <2>2
    <3>3. \A j \in 1..n : rows'[r][j] = rows[run][j]
      BY <1>1, <2>2
    <3> HIDE DEF event, n
    <3> QED
      BY <3>1, <3>2, <3>3
  <2> QED
    BY <1>10, <2>1, <2>2
<1> QED
  BY <1>5, <1>6, <1>7, <1>8, <1>9, <1>11, <1>12, <1>13

--------------------------------------------------------------------------------
\* IInv is inductive: one case per action.
LEMMA StepKeepsIInv == IInv /\ [Next]_vars => IInv'
<1> SUFFICES ASSUME IInv, [Next]_vars PROVE IInv'
  OBVIOUS
<1>1. ASSUME NEW t \in Threads, NEW run \in Runs, NEW id \in EventIds,
             NEW timestamp \in Times, NEW payload \in Payloads,
             ReadLastRow(t, run, id, timestamp, payload)
      PROVE  IInv'
  BY <1>1, ReadKeepsIInv
<1>2. ASSUME NEW t \in Threads, Insert(t) PROVE IInv'
  BY <1>2, InsertKeepsIInv
<1>3. ASSUME NEW t \in Threads, RefuseDuplicate(t) \/ TimeOutOnLock(t) PROVE IInv'
  <2>1. rows' = rows /\ call' = [u \in Threads |-> IF u \in {t} THEN Idle ELSE call[u]]
    BY <1>3 DEF RefuseDuplicate, TimeOutOnLock, IInv, TypeOK
  <2> QED
    BY <2>1, AbandonKeepsIInv
<1>4. ASSUME NEW t \in Threads, Commit(t) PROVE IInv'
  BY <1>4, CommitKeepsIInv
<1>5. CASE Crash
  <2>1. rows' = rows /\ call' = [u \in Threads |-> IF u \in Threads THEN Idle ELSE call[u]]
    BY <1>5 DEF Crash
  <2> QED
    BY <2>1, AbandonKeepsIInv
<1>6. CASE UNCHANGED vars
  <2>1. rows' = rows /\ call' = [u \in Threads |-> IF u \in {} THEN Idle ELSE call[u]]
    BY <1>6 DEF vars, IInv, TypeOK
  <2>2. {} \in SUBSET Threads
    OBVIOUS
  <2> QED
    BY <2>1, <2>2, AbandonKeepsIInv
<1> QED
  BY <1>1, <1>2, <1>3, <1>4, <1>5, <1>6 DEF Next

\* The inductive invariant holds of every state the store reaches: what each append
\* under way has read is still found among its run's rows.
THEOREM SqliteIInv == Spec => []IInv
BY InitIInv, StepKeepsIInv, PTL DEF Spec

\* A run of the SQLite store never holds two rows with one event id, however
\* many threads append to it and whenever the process crashes.
THEOREM SqliteUniqueEventIds == Spec => []UniqueEventIds
BY SqliteIInv, PTL DEF IInv

\* Every row links to a row committed before it, or to none.
THEOREM SqliteAncestorLinked == Spec => []AncestorLinked
BY SqliteIInv, PTL DEF IInv

\* A row is marked out of order exactly when it is older than the row it links to.
THEOREM SqliteWarningsByLink == Spec => []WarningsByLink
BY SqliteIInv, PTL DEF IInv

\* The rows and the appends under way keep their types.
THEOREM SqliteTypeOK == Spec => []TypeOK
BY SqliteIInv, PTL DEF IInv

\* No step, a crash included, changes or removes a committed row.
THEOREM SqliteAppendOnly == Spec => AppendOnly
<1> DEFINE Kept == \A run \in Runs :
                     /\ Len(rows[run]) <= Len(rows'[run])
                     /\ \A i \in DOMAIN rows[run] : rows'[run][i] = rows[run][i]
<1>1. TypeOK /\ [Next]_vars => [Kept]_rows
  <2> SUFFICES ASSUME TypeOK, [Next]_vars, rows' # rows PROVE Kept
    OBVIOUS
  <2>1. PICK t \in Threads : Commit(t)
    BY DEF Next, vars, ReadLastRow, Insert, RefuseDuplicate, TimeOutOnLock, Crash
  <2> DEFINE run == call[t].content.run
  <2>2. /\ run \in Runs
        /\ Len(rows[run]) \in Nat
        /\ rows' \in [Runs -> Seq(Ledger!StoredEvent)]
        /\ \A r \in Runs : r # run => rows'[r] = rows[r]
        /\ DOMAIN rows[run] = 1..Len(rows[run])
        /\ DOMAIN rows'[run] = 1..(Len(rows[run]) + 1)
        /\ \A i \in 1..Len(rows[run]) : rows'[run][i] = rows[run][i]
    BY <2>1, CommitShape
  <2>3. Len(rows'[run]) = Len(rows[run]) + 1
    BY <2>2
  <2> HIDE DEF run
  <2>4. SUFFICES ASSUME NEW r \in Runs
                 PROVE  /\ Len(rows[r]) <= Len(rows'[r])
                        /\ \A i \in DOMAIN rows[r] : rows'[r][i] = rows[r][i]
    OBVIOUS
  <2>5. CASE r = run
    BY <2>2, <2>3, <2>5
  <2>6. CASE r # run
    <3>1. rows'[r] = rows[r] /\ rows[r] \in Seq(Ledger!StoredEvent)
      BY <2>2, <2>6 DEF TypeOK
    <3> QED
      BY <3>1
  <2> QED
    BY <2>5, <2>6
<1> QED
  BY <1>1, SqliteTypeOK, PTL DEF Spec, AppendOnly, Ledger!AppendOnly

--------------------------------------------------------------------------------
(* How wide the chain can fork.  A row adds to the rows that share its predecessor, *)
(* but the thread that appends it has read that predecessor, and nobody reads one   *)
(* any more once a row follows it: the writers there can ever be are those that     *)
(* have already read it.                                                            *)

\* The rows of a run that name h as their predecessor.
LinkedRows(run, h) == {i \in DOMAIN rows[run] : rows[run][i].prev_hash = h}

\* The threads about to append one that does.
Linking(run, h) ==
  {t \in Threads : call[t].pc # "idle" /\ call[t].content.run = run /\ call[t].prev_hash = h}

\* The rows that share a predecessor and those still to come are no more than the threads.
ForkBounded ==
  \A run \in Runs, h \in Ledger!Hashes :
    Cardinality(LinkedRows(run, h)) + Cardinality(Linking(run, h)) <= Cardinality(Threads)

\* The sets the bound counts are finite.
LEMMA LinksFinite ==
  ASSUME TypeOK, NEW run \in Runs, NEW h
  PROVE  /\ IsFiniteSet(LinkedRows(run, h)) /\ Cardinality(LinkedRows(run, h)) \in Nat
         /\ IsFiniteSet(Linking(run, h)) /\ Cardinality(Linking(run, h)) \in Nat
         /\ Cardinality(Linking(run, h)) <= Cardinality(Threads)
         /\ Cardinality(Threads) \in Nat
<1>1. /\ rows[run] \in Seq(Ledger!StoredEvent)
      /\ Len(rows[run]) \in Nat
      /\ DOMAIN rows[run] = 1..Len(rows[run])
  BY DEF TypeOK
<1>2. IsFiniteSet(1..Len(rows[run]))
  BY <1>1, FS_Interval
<1>3. LinkedRows(run, h) \in SUBSET (1..Len(rows[run]))
  BY <1>1 DEF LinkedRows
<1>4. IsFiniteSet(LinkedRows(run, h))
  BY <1>2, <1>3, FS_Subset
<1>5. IsFiniteSet(Threads) /\ Linking(run, h) \in SUBSET Threads
  BY SqliteAssumption DEF Linking
<1>6. IsFiniteSet(Linking(run, h)) /\ Cardinality(Linking(run, h)) <= Cardinality(Threads)
  BY <1>5, FS_Subset
<1> QED
  BY <1>4, <1>5, <1>6, FS_CardinalityType

\* Nobody has linked to the digest that a thread reads: a row that did would follow
\* the row of that digest, which is the last one.
LEMMA LastHashUnlinked ==
  ASSUME IInv, NEW run \in Runs
  PROVE  LinkedRows(run, Ledger!LastHash(rows[run])) = {}
<1> DEFINE h == Ledger!LastHash(rows[run])
           n == Len(rows[run])
<1>1. rows[run] \in Seq(Ledger!StoredEvent) /\ n \in Nat /\ DOMAIN rows[run] = 1..n
  BY DEF IInv, TypeOK
<1>2. SUFFICES ASSUME NEW i \in 1..n, rows[run][i].prev_hash = h PROVE FALSE
  BY <1>1 DEF LinkedRows
<1>3. h = rows[run][n].hash
  BY <1>1, <1>2 DEF Ledger!LastHash
<1>4. \A j \in 1..n : /\ rows[run][j].content \in Ledger!Content
                      /\ rows[run][j].prev_hash \in Seq(Ledger!Content)
                      /\ rows[run][j].hash =
                           Append(rows[run][j].prev_hash, rows[run][j].content)
  <2>1. \A j \in 1..n : rows[run][j] \in Ledger!StoredEvent
    BY <1>1
  <2> QED
    BY <1>1, <2>1
    DEF IInv, AncestorLinked, Ledger!BuildEventHash, Ledger!StoredEvent, Ledger!Hashes
<1>5. h # Ledger!NoHash
  <2>1. /\ n \in 1..n
        /\ h = Append(rows[run][n].prev_hash, rows[run][n].content)
        /\ rows[run][n].prev_hash \in Seq(Ledger!Content)
    <3>1. n \in 1..n
      BY ONLY <1>1, <1>2
    <3> QED
      BY ONLY <1>3, <1>4, <3>1
  <2> HIDE DEF h
  <2>2. Len(h) = Len(rows[run][n].prev_hash) + 1 /\ Len(rows[run][n].prev_hash) \in Nat
    BY <2>1
  <2> QED
    BY <2>2 DEF Ledger!NoHash
<1>6. PICK j \in 1..(i - 1) : rows[run][j].hash = h
  BY <1>1, <1>2, <1>5 DEF IInv, AncestorLinked
<1>7. j \in 1..n /\ n \in 1..n /\ j # n
  BY <1>1, <1>2
<1>8. rows[run][j].content = rows[run][n].content
  <2>1. Append(rows[run][j].prev_hash, rows[run][j].content)
          = Append(rows[run][n].prev_hash, rows[run][n].content)
    BY <1>3, <1>4, <1>6, <1>7
  <2> DEFINE p == rows[run][j].prev_hash
             q == rows[run][n].prev_hash
             c == rows[run][j].content
             d == rows[run][n].content
  <2>2. /\ p \in Seq(Ledger!Content) /\ q \in Seq(Ledger!Content)
        /\ c \in Ledger!Content /\ d \in Ledger!Content
        /\ Append(p, c) = Append(q, d)
    BY <1>4, <1>7, <2>1
  <2> HIDE DEF p, q, c, d
  <2>3. Len(Append(p, c)) = Len(p) + 1 /\ Len(Append(q, d)) = Len(q) + 1
    BY <2>2
  <2>4. Append(p, c)[Len(p) + 1] = c /\ Append(q, d)[Len(q) + 1] = d
    BY <2>2
  <2>5. Len(p) = Len(q)
    BY <2>2, <2>3
  <2>6. c = d
    BY <2>2, <2>4, <2>5
  <2> QED
    BY <2>6 DEF c, d
<1> QED
  BY <1>1, <1>7, <1>8 DEF IInv, UniqueEventIds, Ledger!UniqueEventIds

\* A thread that starts is the first to follow the last row, with those that have
\* read it as well.
LEMMA ReadKeepsForkBounded ==
  ASSUME IInv, ForkBounded, NEW t \in Threads, NEW run \in Runs, NEW id \in EventIds,
         NEW timestamp \in Times, NEW payload \in Payloads,
         ReadLastRow(t, run, id, timestamp, payload)
  PROVE  ForkBounded'
<1>1. rows' = rows /\ TypeOK /\ TypeOK'
  BY ReadKeepsIInv DEF ReadLastRow, IInv
<1>2. /\ \A u \in Threads : u # t => call'[u] = call[u]
      /\ call[t].pc = "idle"
      /\ call'[t].content.run = run
      /\ call'[t].prev_hash = Ledger!LastHash(rows[run])
  BY <1>1 DEF ReadLastRow, TypeOK
<1> SUFFICES ASSUME NEW r \in Runs, NEW h \in Ledger!Hashes
             PROVE  Cardinality(LinkedRows(r, h)') + Cardinality(Linking(r, h)')
                      <= Cardinality(Threads)
  BY DEF ForkBounded
<1>3. LinkedRows(r, h)' = LinkedRows(r, h)
  BY <1>1 DEF LinkedRows
<1>4. CASE r = run /\ h = Ledger!LastHash(rows[run])
  <2>1. Cardinality(LinkedRows(r, h)') = 0
    BY <1>3, <1>4, LastHashUnlinked, FS_EmptySet
  <2>2. Linking(r, h)' \in SUBSET Threads /\ IsFiniteSet(Threads)
    BY SqliteAssumption DEF Linking
  <2>3. /\ Cardinality(Linking(r, h)') <= Cardinality(Threads)
        /\ IsFiniteSet(Linking(r, h)')
    BY <2>2, FS_Subset
  <2>4. Cardinality(Linking(r, h)') \in Nat /\ Cardinality(Threads) \in Nat
    BY <2>2, <2>3, FS_CardinalityType
  <2> QED
    BY <2>1, <2>3, <2>4
<1>5. CASE ~ (r = run /\ h = Ledger!LastHash(rows[run]))
  <2>1. Linking(r, h)' = Linking(r, h)
    BY <1>2, <1>5 DEF Linking
  <2> QED
    BY <1>3, <2>1 DEF ForkBounded
<1> QED
  BY <1>4, <1>5

\* A step that stores nothing and lets nobody start adds nothing to either count.
LEMMA AbandonKeepsForkBounded ==
  ASSUME TypeOK, ForkBounded, rows' = rows,
         \A u \in Threads : call'[u].pc # "idle" =>
           /\ call[u].pc # "idle"
           /\ call'[u].content = call[u].content
           /\ call'[u].prev_hash = call[u].prev_hash
  PROVE  ForkBounded'
<1> SUFFICES ASSUME NEW r \in Runs, NEW h \in Ledger!Hashes
             PROVE  Cardinality(LinkedRows(r, h)') + Cardinality(Linking(r, h)')
                      <= Cardinality(Threads)
  BY DEF ForkBounded
<1>1. LinkedRows(r, h)' = LinkedRows(r, h)
  BY DEF LinkedRows
<1>2. Linking(r, h)' \in SUBSET Linking(r, h) /\ IsFiniteSet(Linking(r, h))
  BY LinksFinite DEF Linking
<1>3. /\ Cardinality(Linking(r, h)') <= Cardinality(Linking(r, h))
      /\ IsFiniteSet(Linking(r, h)')
  BY <1>2, FS_Subset
<1>4. /\ Cardinality(Linking(r, h)') \in Nat /\ Cardinality(Linking(r, h)) \in Nat
      /\ Cardinality(LinkedRows(r, h)) \in Nat /\ Cardinality(Threads) \in Nat
  BY <1>3, LinksFinite, FS_CardinalityType
<1>5. Cardinality(LinkedRows(r, h)) + Cardinality(Linking(r, h)) <= Cardinality(Threads)
  BY DEF ForkBounded
<1> QED
  BY <1>1, <1>3, <1>4, <1>5

\* A commit turns a thread into a row.
LEMMA CommitKeepsForkBounded ==
  ASSUME IInv, ForkBounded, NEW t \in Threads, Commit(t)
  PROVE  ForkBounded'
<1> DEFINE run   == call[t].content.run
           event == Ledger!NewStoredEvent(call[t].content, call[t].prev_hash)
           n     == Len(rows[run])
<1>1. TypeOK
  BY DEF IInv
<1>2. /\ run \in Runs
      /\ n \in Nat
      /\ event.prev_hash = call[t].prev_hash
      /\ \A r \in Runs : r # run => rows'[r] = rows[r]
      /\ DOMAIN rows[run] = 1..n
      /\ DOMAIN rows'[run] = 1..(n + 1)
      /\ \A i \in 1..n : rows'[run][i] = rows[run][i]
      /\ rows'[run][n + 1] = event
  BY <1>1, CommitShape
<1>3. /\ \A u \in Threads : u # t => call'[u] = call[u]
      /\ call'[t].pc = "idle"
      /\ call[t].pc # "idle"
  BY <1>1 DEF Commit, TypeOK, Idle
<1> SUFFICES ASSUME NEW r \in Runs, NEW h \in Ledger!Hashes
             PROVE  Cardinality(LinkedRows(r, h)') + Cardinality(Linking(r, h)')
                      <= Cardinality(Threads)
  BY DEF ForkBounded
<1>4. Cardinality(LinkedRows(r, h)) + Cardinality(Linking(r, h)) <= Cardinality(Threads)
  BY DEF ForkBounded
<1> HIDE DEF event
<1>5. CASE r = run /\ h = call[t].prev_hash
  <2>1. LinkedRows(r, h)' = LinkedRows(r, h) \cup {n + 1}
    <3>1. \A i : i \in 1..(n + 1) <=> i \in 1..n \/ i = n + 1
      BY <1>2
    <3>2. rows'[run][n + 1].prev_hash = h
      BY <1>2, <1>5
    <3> HIDE DEF n
    <3> QED
      BY <1>2, <1>5, <3>1, <3>2 DEF LinkedRows
  <2>2. n + 1 \notin LinkedRows(r, h)
    BY <1>2, <1>5 DEF LinkedRows
  <2>3. Linking(r, h)' = Linking(r, h) \ {t} /\ t \in Linking(r, h)
    BY <1>3, <1>5 DEF Linking
  <2>4. /\ IsFiniteSet(LinkedRows(r, h)) /\ Cardinality(LinkedRows(r, h)) \in Nat
        /\ IsFiniteSet(Linking(r, h)) /\ Cardinality(Linking(r, h)) \in Nat
    BY <1>1, LinksFinite
  <2>5. Cardinality(LinkedRows(r, h)') = Cardinality(LinkedRows(r, h)) + 1
    BY <2>1, <2>2, <2>4, FS_AddElement
  <2>6. Cardinality(Linking(r, h)') = Cardinality(Linking(r, h)) - 1
    BY <2>3, <2>4, FS_RemoveElement
  <2> QED
    BY <1>4, <2>4, <2>5, <2>6
<1>6. CASE ~ (r = run /\ h = call[t].prev_hash)
  <2>1. LinkedRows(r, h)' = LinkedRows(r, h)
    <3>1. CASE r # run
      BY <1>2, <3>1 DEF LinkedRows
    <3>2. CASE r = run /\ h # call[t].prev_hash
      <4>1. \A i : i \in 1..(n + 1) <=> i \in 1..n \/ i = n + 1
        BY <1>2
      <4>2. rows'[run][n + 1].prev_hash # h
        BY <1>2, <3>2
      <4> HIDE DEF n
      <4> QED
        BY <1>2, <3>2, <4>1, <4>2 DEF LinkedRows
    <3> QED
      BY <1>6, <3>1, <3>2
  <2>2. Linking(r, h)' = Linking(r, h)
    BY <1>3, <1>6 DEF Linking
  <2> QED
    BY <1>4, <2>1, <2>2
<1> QED
  BY <1>5, <1>6

\* At no time do the rows that share a predecessor, those about to be stored
\* included, outnumber the threads.
THEOREM SqliteForkBounded == Spec => []ForkBounded
<1>1. Init => ForkBounded
  <2> SUFFICES ASSUME Init, NEW r \in Runs, NEW h \in Ledger!Hashes
               PROVE  Cardinality(LinkedRows(r, h)) + Cardinality(Linking(r, h))
                        <= Cardinality(Threads)
    BY DEF ForkBounded
  <2>1. LinkedRows(r, h) = {} /\ Linking(r, h) = {}
    BY DEF Init, Idle, LinkedRows, Linking
  <2>2. Cardinality(Threads) \in Nat
    BY SqliteAssumption, FS_CardinalityType
  <2> QED
    BY <2>1, <2>2, FS_EmptySet
<1>2. IInv /\ ForkBounded /\ [Next]_vars => ForkBounded'
  <2> SUFFICES ASSUME IInv, ForkBounded, [Next]_vars PROVE ForkBounded'
    OBVIOUS
  <2>1. TypeOK
    BY DEF IInv
  <2>2. ASSUME NEW t \in Threads, NEW run \in Runs, NEW id \in EventIds,
               NEW timestamp \in Times, NEW payload \in Payloads,
               ReadLastRow(t, run, id, timestamp, payload)
        PROVE  ForkBounded'
    BY <2>2, ReadKeepsForkBounded
  <2>3. ASSUME NEW t \in Threads, Insert(t) PROVE ForkBounded'
    <3>1. call[t] \in InCall /\ rows' = rows
      BY <2>1, <2>3, InCallType DEF Insert, TakesLock
    <3>2. /\ \A u \in Threads : u # t => call'[u] = call[u]
          /\ call'[t] = [call[t] EXCEPT !.pc = "commit"]
          /\ call[t].pc # "idle"
      BY <2>1, <2>3 DEF Insert, TakesLock, TypeOK
    <3>3. call'[t].content = call[t].content /\ call'[t].prev_hash = call[t].prev_hash
      BY <3>1, <3>2 DEF InCall
    <3> QED
      BY <2>1, <3>1, <3>2, <3>3, AbandonKeepsForkBounded
  <2>4. ASSUME NEW t \in Threads, RefuseDuplicate(t) \/ TimeOutOnLock(t) PROVE ForkBounded'
    <3>1. rows' = rows /\ \A u \in Threads : call'[u].pc # "idle" => call'[u] = call[u]
      BY <2>1, <2>4 DEF RefuseDuplicate, TimeOutOnLock, TypeOK, Idle
    <3> QED
      BY <2>1, <3>1, AbandonKeepsForkBounded
  <2>5. ASSUME NEW t \in Threads, Commit(t) PROVE ForkBounded'
    BY <2>5, CommitKeepsForkBounded
  <2>6. CASE Crash
    BY <2>1, <2>6, AbandonKeepsForkBounded DEF Crash, Idle
  <2>7. CASE UNCHANGED vars
    BY <2>1, <2>7, AbandonKeepsForkBounded DEF vars
  <2> QED
    BY <2>2, <2>3, <2>4, <2>5, <2>6, <2>7 DEF Next
<1> QED
  BY <1>1, <1>2, SqliteIInv, PTL DEF Spec

\* A predecessor is shared by at most as many rows as there are threads: with one
\* writer the chain never forks, and it forks no wider than the writers race.
THEOREM SqliteForkWidth == Spec => []ForkWidth
<1>1. TypeOK /\ ForkBounded => ForkWidth
  <2> SUFFICES ASSUME TypeOK, ForkBounded, NEW run \in Runs, NEW i \in DOMAIN rows[run]
               PROVE  LET h == rows[run][i].prev_hash
                      IN  Cardinality({k \in DOMAIN rows[run] : rows[run][k].prev_hash = h})
                            <= Cardinality(Threads)
    BY DEF ForkWidth
  <2> DEFINE h == rows[run][i].prev_hash
  <2>1. h \in Ledger!Hashes
    <3>1. rows[run] \in Seq(Ledger!StoredEvent)
      BY DEF TypeOK
    <3>2. rows[run][i] \in Ledger!StoredEvent
      BY <3>1
    <3> QED
      BY <3>2 DEF Ledger!StoredEvent
  <2>2. Cardinality(LinkedRows(run, h)) + Cardinality(Linking(run, h)) <= Cardinality(Threads)
    BY <2>1 DEF ForkBounded
  <2>3. /\ Cardinality(LinkedRows(run, h)) \in Nat /\ Cardinality(Linking(run, h)) \in Nat
        /\ Cardinality(Threads) \in Nat
    BY LinksFinite
  <2>4. Cardinality(LinkedRows(run, h)) <= Cardinality(Threads)
    BY <2>2, <2>3
  <2> QED
    BY <2>4 DEF LinkedRows
<1> QED
  BY <1>1, SqliteTypeOK, SqliteForkBounded, PTL
================================================================================
