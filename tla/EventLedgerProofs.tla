--------------------------- MODULE EventLedgerProofs ---------------------------
(***************************************************************************)
(* The promises of the event store, proved of the atomic append for every  *)
(* set of runs, event ids, payloads and timestamps and for ledgers of any  *)
(* length; then that the audit export is a reader of such a store, what of *)
(* a damaged storage it exports, and which undamaged runs.                 *)
(***************************************************************************)
EXTENDS AuditExport, SharedLemmas

\* What an append does to the run it is for: one receipt at the end.
LEMMA AppendShape ==
  ASSUME TypeOK, NEW run \in Runs, NEW id \in EventIds, NEW timestamp \in Times,
         NEW payload \in Payloads, AppendEvent(run, id, timestamp, payload)
  PROVE  \E content \in Content :
           LET event == NewStoredEvent(content, LastHash(ledger[run]))
           IN  /\ content.run = run
               /\ content.id = id
               /\ content.timestamp = timestamp
               /\ content.integrity_warning = OlderThanStored(ledger[run], timestamp)
               /\ event \in StoredEvent
               /\ ledger' = [ledger EXCEPT ![run] = Append(ledger[run], event)]
<1> DEFINE content == [run |-> run, id |-> id, timestamp |-> timestamp,
                       payload |-> payload,
                       integrity_warning |-> OlderThanStored(ledger[run], timestamp)]
<1>1. content \in Content
  BY DEF Content, OlderThanStored
<1>2. LastHash(ledger[run]) \in Hashes
  <2>1. ledger[run] \in Seq(StoredEvent)
    BY DEF TypeOK
  <2>2. ASSUME ledger[run] # << >>
        PROVE  ledger[run][Len(ledger[run])] \in StoredEvent
    BY <2>1, <2>2
  <2> QED
    BY <2>1, <2>2 DEF LastHash, StoredEvent, NoHash, Hashes
<1>3. NewStoredEvent(content, LastHash(ledger[run])) \in StoredEvent
  <2>1. Append(LastHash(ledger[run]), content) \in Hashes
    BY <1>1, <1>2 DEF Hashes
  <2> QED
    BY <1>1, <1>2, <2>1 DEF NewStoredEvent, BuildEventHash, StoredEvent
<1>4. ledger' = [ledger EXCEPT ![run] =
                   Append(ledger[run], NewStoredEvent(content, LastHash(ledger[run])))]
  BY DEF AppendEvent, TypeOK
<1> QED
  BY <1>1, <1>3, <1>4

\* The store's state is always a list of receipts per run.
THEOREM LedgerTypeOK == Spec => []TypeOK
<1>1. Init => TypeOK
  BY DEF Init, TypeOK
<1>2. TypeOK /\ [Next]_ledger => TypeOK'
  <2> SUFFICES ASSUME TypeOK, Next PROVE TypeOK'
    BY DEF TypeOK
  <2>1. PICK run \in Runs, id \in EventIds, timestamp \in Times, payload \in Payloads :
          AppendEvent(run, id, timestamp, payload)
    BY DEF Next
  <2>2. PICK event \in StoredEvent :
          ledger' = [ledger EXCEPT ![run] = Append(ledger[run], event)]
    BY <2>1, AppendShape
  <2> QED
    BY <2>2 DEF TypeOK
<1> QED
  BY <1>1, <1>2, PTL DEF Spec

--------------------------------------------------------------------------------
(* What holds after an append holds of the old receipts because they are where *)
(* they were, and of the new one by what the append computed.                  *)

\* The positions of a run after an append: the old ones, unchanged, and one more.
LEMMA AppendPositions ==
  ASSUME TypeOK, NEW run \in Runs, NEW event \in StoredEvent,
         ledger' = [ledger EXCEPT ![run] = Append(ledger[run], event)]
  PROVE  /\ \A r \in Runs : r # run => ledger'[r] = ledger[r]
         /\ Len(ledger[run]) \in Nat
         /\ DOMAIN ledger[run] = 1..Len(ledger[run])
         /\ DOMAIN ledger'[run] = 1..(Len(ledger[run]) + 1)
         /\ \A i \in 1..Len(ledger[run]) : ledger'[run][i] = ledger[run][i]
         /\ ledger'[run][Len(ledger[run]) + 1] = event
<1>1. ledger[run] \in Seq(StoredEvent)
  BY DEF TypeOK
<1>2. ledger'[run] = Append(ledger[run], event)
  BY DEF TypeOK
<1>3. \A r \in Runs : r # run => ledger'[r] = ledger[r]
  BY DEF TypeOK
<1> QED
  BY <1>1, <1>2, <1>3

\* A run never holds two receipts with one event id.
THEOREM LedgerUniqueEventIds == Spec => []UniqueEventIds
<1>1. Init => UniqueEventIds
  BY DEF Init, UniqueEventIds
<1>2. TypeOK /\ UniqueEventIds /\ [Next]_ledger => UniqueEventIds'
  <2> SUFFICES ASSUME TypeOK, UniqueEventIds, Next PROVE UniqueEventIds'
    BY DEF UniqueEventIds
  <2>1. PICK run \in Runs, id \in EventIds, timestamp \in Times, payload \in Payloads :
          AppendEvent(run, id, timestamp, payload)
    BY DEF Next
  <2>2. PICK content \in Content :
          LET event == NewStoredEvent(content, LastHash(ledger[run]))
          IN  /\ content.id = id
              /\ event \in StoredEvent
              /\ ledger' = [ledger EXCEPT ![run] = Append(ledger[run], event)]
    BY <2>1, AppendShape
  <2> DEFINE event == NewStoredEvent(content, LastHash(ledger[run]))
  <2>3. event.content.id = id
    BY <2>2 DEF NewStoredEvent
  <2>4. \A i \in DOMAIN ledger[run] : ledger[run][i].content.id # id
    BY <2>1 DEF AppendEvent, HasId
  <2> HIDE DEF event
  <2>5. SUFFICES ASSUME NEW r \in Runs, NEW i \in DOMAIN ledger'[r],
                        NEW j \in DOMAIN ledger'[r],
                        ledger'[r][i].content.id = ledger'[r][j].content.id
                 PROVE  i = j
    BY DEF UniqueEventIds
  <2>6. CASE r # run
    BY <2>2, <2>5, <2>6, AppendPositions DEF UniqueEventIds, event
  <2>7. CASE r = run
    BY <2>2, <2>3, <2>4, <2>5, <2>7, AppendPositions DEF UniqueEventIds, event
  <2> QED
    BY <2>6, <2>7
<1> QED
  BY <1>1, <1>2, LedgerTypeOK, PTL DEF Spec

\* Every receipt links to the one appended before it.
THEOREM LedgerChainLinked == Spec => []ChainLinked
<1>1. Init => ChainLinked
  BY DEF Init, ChainLinked
<1>2. TypeOK /\ ChainLinked /\ [Next]_ledger => ChainLinked'
  <2> SUFFICES ASSUME TypeOK, ChainLinked, Next PROVE ChainLinked'
    BY DEF ChainLinked
  <2>1. PICK run \in Runs, id \in EventIds, timestamp \in Times, payload \in Payloads :
          AppendEvent(run, id, timestamp, payload)
    BY DEF Next
  <2>2. PICK content \in Content :
          LET event == NewStoredEvent(content, LastHash(ledger[run]))
          IN  /\ event \in StoredEvent
              /\ ledger' = [ledger EXCEPT ![run] = Append(ledger[run], event)]
    BY <2>1, AppendShape
  <2> DEFINE event == NewStoredEvent(content, LastHash(ledger[run]))
             n == Len(ledger[run])
  <2>3. /\ event.prev_hash = IF n = 0 THEN NoHash ELSE ledger[run][n].hash
        /\ event.hash = BuildEventHash(event.content, event.prev_hash)
    <3>1. ledger[run] = << >> <=> n = 0
      BY DEF TypeOK
    <3> QED
      BY <3>1 DEF NewStoredEvent, LastHash
  <2> HIDE DEF event
  <2>4. SUFFICES ASSUME NEW r \in Runs, NEW i \in DOMAIN ledger'[r]
                 PROVE  /\ ledger'[r][i].prev_hash =
                             IF i = 1 THEN NoHash ELSE ledger'[r][i - 1].hash
                        /\ ledger'[r][i].hash =
                             BuildEventHash(ledger'[r][i].content, ledger'[r][i].prev_hash)
    BY DEF ChainLinked
  <2>5. CASE r # run
    BY <2>2, <2>4, <2>5, AppendPositions DEF ChainLinked, event
  <2>6. CASE r = run /\ i <= n
    <3>1. i \in DOMAIN ledger[run] /\ ledger'[run][i] = ledger[run][i]
      BY <2>2, <2>4, <2>6, AppendPositions DEF event
    <3>2. i # 1 => ledger'[run][i - 1] = ledger[run][i - 1]
      BY <2>2, <2>4, <2>6, AppendPositions DEF event
    <3> QED
      BY <2>6, <3>1, <3>2 DEF ChainLinked
  <2>7. CASE r = run /\ i = n + 1
    <3>1. ledger'[run][i] = event
      BY <2>2, <2>7, AppendPositions DEF event
    <3>2. n # 0 => ledger'[run][i - 1] = ledger[run][n]
      BY <2>2, <2>7, AppendPositions DEF event
    <3>3. n \in Nat
      BY DEF TypeOK
    <3> QED
      BY <2>3, <2>7, <3>1, <3>2, <3>3
  <2>8. r = run => i <= n \/ i = n + 1
    BY <2>2, <2>4, AppendPositions DEF event
  <2> QED
    BY <2>5, <2>6, <2>7, <2>8
<1> QED
  BY <1>1, <1>2, LedgerTypeOK, PTL DEF Spec

\* The digest of a receipt commits to all receipts up to it, in append order.
THEOREM LedgerHashCommitsToHistory == Spec => []HashCommitsToHistory
<1>1. Init => HashCommitsToHistory
  BY DEF Init, HashCommitsToHistory
<1>2. TypeOK /\ HashCommitsToHistory /\ [Next]_ledger => HashCommitsToHistory'
  <2>0. ASSUME HashCommitsToHistory, ledger' = ledger PROVE HashCommitsToHistory'
    <3>1. SUFFICES ASSUME NEW r \in Runs, NEW i \in DOMAIN ledger'[r]
                   PROVE  ledger'[r][i].hash = [k \in 1..i |-> ledger'[r][k].content]
      BY DEF HashCommitsToHistory
    <3> QED
      BY <2>0 DEF HashCommitsToHistory
  <2> SUFFICES ASSUME TypeOK, HashCommitsToHistory, Next PROVE HashCommitsToHistory'
    BY <2>0
  <2>1. PICK run \in Runs, id \in EventIds, timestamp \in Times, payload \in Payloads :
          AppendEvent(run, id, timestamp, payload)
    BY DEF Next
  <2>2. PICK content \in Content :
          LET event == NewStoredEvent(content, LastHash(ledger[run]))
          IN  /\ event \in StoredEvent
              /\ ledger' = [ledger EXCEPT ![run] = Append(ledger[run], event)]
    BY <2>1, AppendShape
  <2> DEFINE event == NewStoredEvent(content, LastHash(ledger[run]))
             n == Len(ledger[run])
  <2>3. LastHash(ledger[run]) = [k \in 1..n |-> ledger[run][k].content]
    <3>1. ledger[run] \in Seq(StoredEvent)
      BY DEF TypeOK
    <3>2. CASE n = 0
      BY <3>1, <3>2 DEF LastHash, NoHash
    <3>3. CASE n # 0
      BY <3>1, <3>3 DEF LastHash, HashCommitsToHistory
    <3> QED
      BY <3>2, <3>3
  <2>4. n \in Nat /\ LastHash(ledger[run]) \in Seq(Content)
    <3>1. ledger[run] \in Seq(StoredEvent)
      BY DEF TypeOK
    <3>2. \A k \in 1..n : ledger[run][k] \in StoredEvent
      BY <3>1
    <3>3. \A k \in 1..n : ledger[run][k].content \in Content
      BY <3>2 DEF StoredEvent
    <3> QED
      BY <2>3, <3>1, <3>3
  <2>5. event.content = content /\ event.hash = Append(LastHash(ledger[run]), content)
    BY DEF NewStoredEvent, BuildEventHash
  <2>6. event.hash = [k \in 1..(n + 1) |-> IF k = n + 1 THEN content
                                           ELSE ledger[run][k].content]
    <3>1. Len(LastHash(ledger[run])) = n
      BY <2>3, <2>4
    <3>2. event.hash = [k \in 1..(n + 1) |-> IF k = n + 1 THEN content
                                             ELSE LastHash(ledger[run])[k]]
      BY <2>4, <2>5, <3>1
    <3>3. \A k \in 1..(n + 1) : k # n + 1 =>
            LastHash(ledger[run])[k] = ledger[run][k].content
      BY <2>3, <2>4
    <3> QED
      BY <3>2, <3>3
  <2> HIDE DEF event
  <2>7. SUFFICES ASSUME NEW r \in Runs, NEW i \in DOMAIN ledger'[r]
                 PROVE  ledger'[r][i].hash = [k \in 1..i |-> ledger'[r][k].content]
    BY DEF HashCommitsToHistory
  <2>8. CASE r # run
    BY <2>2, <2>7, <2>8, AppendPositions DEF HashCommitsToHistory, event
  <2>9. CASE r = run /\ i <= n
    <3>1. i \in DOMAIN ledger[run] /\ i \in Nat
      BY <2>2, <2>7, <2>9, AppendPositions DEF event
    <3>2. \A k \in 1..i : ledger'[run][k] = ledger[run][k]
      BY <2>2, <2>9, <3>1, AppendPositions DEF event
    <3> QED
      BY <2>9, <3>1, <3>2 DEF HashCommitsToHistory
  <2>10. CASE r = run /\ i = n + 1
    <3>1. ledger'[run][n + 1] = event
      BY <2>2, AppendPositions DEF event
    <3>2. \A k \in 1..n : ledger'[run][k] = ledger[run][k]
      BY <2>2, AppendPositions DEF event
    <3>3. \A k \in 1..(n + 1) : ledger'[run][k].content =
                                  IF k = n + 1 THEN content ELSE ledger[run][k].content
      BY <2>4, <2>5, <3>1, <3>2
    <3> QED
      BY <2>6, <2>10, <3>1, <3>3
  <2>11. r = run => i <= n \/ i = n + 1
    BY <2>2, <2>7, AppendPositions DEF event
  <2> QED
    BY <2>8, <2>9, <2>10, <2>11
<1> QED
  BY <1>1, <1>2, LedgerTypeOK, PTL DEF Spec

\* A receipt is marked out of order exactly when a newer one preceded it.
THEOREM LedgerWarningsExact == Spec => []WarningsExact
<1>1. Init => WarningsExact
  BY DEF Init, WarningsExact
<1>2. TypeOK /\ WarningsExact /\ [Next]_ledger => WarningsExact'
  <2> SUFFICES ASSUME TypeOK, WarningsExact, Next PROVE WarningsExact'
    BY DEF WarningsExact
  <2>1. PICK run \in Runs, id \in EventIds, timestamp \in Times, payload \in Payloads :
          AppendEvent(run, id, timestamp, payload)
    BY DEF Next
  <2>2. PICK content \in Content :
          LET event == NewStoredEvent(content, LastHash(ledger[run]))
          IN  /\ content.timestamp = timestamp
              /\ content.integrity_warning = OlderThanStored(ledger[run], timestamp)
              /\ event \in StoredEvent
              /\ ledger' = [ledger EXCEPT ![run] = Append(ledger[run], event)]
    BY <2>1, AppendShape
  <2> DEFINE event == NewStoredEvent(content, LastHash(ledger[run]))
             n == Len(ledger[run])
  <2>3. event.content = content
    BY DEF NewStoredEvent
  <2> HIDE DEF event
  <2>4. SUFFICES ASSUME NEW r \in Runs, NEW i \in DOMAIN ledger'[r]
                 PROVE  ledger'[r][i].content.integrity_warning <=>
                          \E j \in 1..(i - 1) : ledger'[r][i].content.timestamp
                                                  < ledger'[r][j].content.timestamp
    BY DEF WarningsExact
  <2>5. CASE r # run
    BY <2>2, <2>4, <2>5, AppendPositions DEF WarningsExact, event
  <2>6. CASE r = run /\ i <= n
    <3>1. i \in DOMAIN ledger[run] /\ i \in Nat
      BY <2>2, <2>4, <2>6, AppendPositions DEF event
    <3>2. \A k \in 1..i : ledger'[run][k] = ledger[run][k]
      BY <2>2, <2>6, <3>1, AppendPositions DEF event
    <3>3. ledger[run][i].content.integrity_warning <=>
            \E j \in 1..(i - 1) :
              ledger[run][i].content.timestamp < ledger[run][j].content.timestamp
      BY <3>1 DEF WarningsExact
    <3>4. \A j \in 1..(i - 1) : j \in 1..i
      BY <3>1
    <3>5. i \in 1..i
      BY <2>2, <2>4, <2>6, <3>1, AppendPositions
    <3> QED
      BY ONLY <2>6, <3>2, <3>3, <3>4, <3>5
  <2>7. CASE r = run /\ i = n + 1
    <3>1. ledger'[run][n + 1] = event /\ n \in Nat
      BY <2>2, AppendPositions DEF event
    <3>2. \A k \in 1..n : ledger'[run][k] = ledger[run][k]
      BY <2>2, AppendPositions DEF event
    <3>3. content.integrity_warning <=>
            \E j \in 1..n : content.timestamp < ledger[run][j].content.timestamp
      BY <2>2 DEF OlderThanStored, TypeOK
    <3>4. \A j \in 1..(i - 1) : j \in 1..n /\ ledger'[r][j] = ledger[run][j]
      BY <2>7, <3>1, <3>2
    <3>5. ledger'[r][i].content = content /\ 1..(i - 1) = 1..n
      BY <2>3, <2>7, <3>1
    <3> QED
      BY <3>3, <3>4, <3>5
  <2>8. r = run => i <= n \/ i = n + 1
    BY <2>2, <2>4, AppendPositions DEF event
  <2> QED
    BY <2>5, <2>6, <2>7, <2>8
<1> QED
  BY <1>1, <1>2, LedgerTypeOK, PTL DEF Spec

--------------------------------------------------------------------------------
(* The audit export.  Damage aside, the storage is a ledger: what is proved above *)
(* holds of what the program has appended.                                        *)

\* Damage is not done by the program.
LEMMA CorruptIsOutside == Corrupt => UNCHANGED ledger
BY DEF Corrupt, LoseRow, RewriteRow, Damage

\* The program's part of the storage behaves as an event ledger.
THEOREM AuditImplementsLedger == AuditSpec => Spec
<1>1. AuditInit => Init
  BY DEF AuditInit
<1>2. [AuditNext]_vars => [Next]_ledger
  <2>1. CASE Store
    BY <2>1 DEF Store, Next
  <2>2. CASE Corrupt
    BY <2>2, CorruptIsOutside
  <2> QED
    BY <2>1, <2>2 DEF AuditNext, vars
<1> QED
  BY <1>1, <1>2, PTL DEF AuditSpec, Spec

\* A one-to-one map of a finite set to itself reaches every element.
LEMMA InjectiveIsOnto ==
  ASSUME NEW S, IsFiniteSet(S), NEW f \in [S -> S],
         \A x, y \in S : f[x] = f[y] => x = y, NEW z \in S
  PROVE  \E x \in S : f[x] = z
<1>1. SUFFICES ASSUME \A x \in S : f[x] # z PROVE FALSE
  OBVIOUS
<1>2. f \in [S -> S \ {z}]
  BY <1>1
<1>3. /\ IsFiniteSet(S \ {z})
      /\ Cardinality(S \ {z}) = Cardinality(S) - 1
      /\ Cardinality(S) \in Nat
  BY FS_RemoveElement, FS_CardinalityType
<1>4. Cardinality(S \ {z}) < Cardinality(S)
  BY <1>3
<1>5. \E x, y \in S : x # y /\ f[x] = f[y]
  BY <1>2, <1>3, <1>4, FS_PigeonHole
<1> QED
  BY <1>5

\* Receipts have integer timestamps, so any two of a run are listed one before the other.
LEMMA ListingIsTotal ==
  ASSUME NEW events \in Seq(StoredEvent)
  PROVE  /\ \A i, j \in DOMAIN events :
              i # j => ListedBefore(events, i, j) \/ ListedBefore(events, j, i)
         /\ \A i, j \in DOMAIN events :
              ~ (ListedBefore(events, i, j) /\ ListedBefore(events, j, i))
         /\ \A i, j, k \in DOMAIN events :
              ListedBefore(events, i, j) /\ ListedBefore(events, j, k)
                => ListedBefore(events, i, k)
<1>1. \A i \in DOMAIN events : i \in Int /\ events[i].content.timestamp \in Int
  <2>1. \A i \in DOMAIN events : events[i] \in StoredEvent /\ i \in Int
    OBVIOUS
  <2> QED
    BY <2>1, TimesAssumption DEF StoredEvent, Content
<1> QED
  BY <1>1 DEF ListedBefore

\* The receipts of a run can be listed: the place of a receipt is the number of those
\* listed before it, and one more.
LEMMA ListingExists ==
  ASSUME NEW events \in Seq(StoredEvent)
  PROVE  \E order \in [DOMAIN events -> DOMAIN events] :
           \A k, l \in DOMAIN events :
             k < l => ListedBefore(events, order[k], order[l])
<1> DEFINE n == Len(events)
           D == DOMAIN events
           before(i) == {j \in D : ListedBefore(events, j, i)}
           rank == [i \in D |-> Cardinality(before(i)) + 1]
<1>1. n \in Nat /\ D = 1..n /\ IsFiniteSet(D) /\ Cardinality(D) = n
  <2>1. n \in Nat /\ D = 1..n
    OBVIOUS
  <2>2. IsFiniteSet(1..n) /\ Cardinality(1..n) = n
    BY <2>1, FS_Interval
  <2> HIDE DEF n, D
  <2> QED
    BY <2>1, <2>2
<1>2. /\ \A i, j \in D : i # j => ListedBefore(events, i, j) \/ ListedBefore(events, j, i)
      /\ \A i, j \in D : ~ (ListedBefore(events, i, j) /\ ListedBefore(events, j, i))
      /\ \A i, j, k \in D : ListedBefore(events, i, j) /\ ListedBefore(events, j, k)
                              => ListedBefore(events, i, k)
  BY ListingIsTotal
<1> HIDE DEF n, D
<1>3. ASSUME NEW i \in D
      PROVE  /\ IsFiniteSet(before(i)) /\ Cardinality(before(i)) \in Nat
             /\ Cardinality(before(i)) < n
  <2>1. before(i) \in SUBSET D /\ i \notin before(i)
    BY <1>2
  <2>2. before(i) # D
    BY <2>1
  <2> HIDE DEF before
  <2>3. /\ IsFiniteSet(before(i)) /\ Cardinality(before(i)) <= Cardinality(D)
        /\ (Cardinality(D) = Cardinality(before(i)) => D = before(i))
    BY <1>1, <2>1, FS_Subset
  <2>4. Cardinality(before(i)) \in Nat
    BY <2>3, FS_CardinalityType
  <2> QED
    BY <1>1, <2>2, <2>3, <2>4
<1>4. ASSUME NEW i \in D, NEW j \in D, ListedBefore(events, i, j)
      PROVE  Cardinality(before(i)) < Cardinality(before(j))
  <2>1. before(i) \in SUBSET before(j) /\ i \in before(j) /\ i \notin before(i)
    BY <1>2, <1>4
  <2> HIDE DEF before
  <2>2. before(i) # before(j)
    BY <2>1
  <2>3. /\ Cardinality(before(i)) <= Cardinality(before(j))
        /\ (Cardinality(before(j)) = Cardinality(before(i)) => before(j) = before(i))
    BY <1>3, <2>1, FS_Subset
  <2> QED
    BY <1>3, <2>2, <2>3
<1> HIDE DEF before
<1>5. rank \in [D -> D]
  <2>1. \A i \in D : Cardinality(before(i)) + 1 \in D
    BY <1>1, <1>3
  <2> QED
    BY <2>1
<1>6. \A i, j \in D : ListedBefore(events, i, j) => rank[i] < rank[j]
  BY <1>3, <1>4
<1> HIDE DEF rank
<1>7. \A i, j \in D : rank[i] = rank[j] => i = j
  <2>1. \A i \in D : rank[i] \in Nat
    BY <1>1, <1>5
  <2> QED
    BY <1>2, <1>6, <2>1
<1>8. ASSUME NEW k \in D PROVE \E i \in D : rank[i] = k
  <2>1. IsFiniteSet(D)
    BY <1>1
  <2> QED
    BY <1>5, <1>7, <2>1, InjectiveIsOnto
<1> DEFINE order == [k \in D |-> CHOOSE i \in D : rank[i] = k]
<1>9. order \in [D -> D] /\ \A k \in D : rank[order[k]] = k
  BY <1>8
<1> HIDE DEF order
<1>10. ASSUME NEW k \in D, NEW l \in D, k < l
       PROVE  ListedBefore(events, order[k], order[l])
  <2>1. order[k] \in D /\ order[l] \in D /\ rank[order[k]] = k /\ rank[order[l]] = l
        /\ k \in Int /\ l \in Int
    BY <1>1, <1>9
  <2>2. order[k] # order[l]
    BY <1>10, <2>1
  <2>3. ~ ListedBefore(events, order[l], order[k])
    <3>1. SUFFICES ASSUME ListedBefore(events, order[l], order[k]) PROVE FALSE
      OBVIOUS
    <3>2. rank[order[l]] < rank[order[k]]
      BY <1>6, <2>1, <3>1
    <3>3. l < k
      BY <2>1, <3>2
    <3> QED
      BY <1>10, <2>1, <3>3
  <2> QED
    BY <1>2, <2>1, <2>2, <2>3
<1> QED
  BY <1>9, <1>10 DEF D

\* A listing is in listing order and has every receipt of the run.
LEMMA ListingProperties ==
  ASSUME NEW events \in Seq(StoredEvent)
  PROVE  LET order == ListingOrder(events)
             D     == DOMAIN events
         IN  /\ order \in [D -> D]
             /\ \A k, l \in D : k < l => ListedBefore(events, order[k], order[l])
             /\ \A k, l \in D : ListedBefore(events, order[k], order[l]) => k < l
             /\ \A i \in D : \E k \in D : order[k] = i
             /\ DOMAIN ListByRunId(events) = D
             /\ \A k \in D : ListByRunId(events)[k] = events[order[k]]
<1> DEFINE order == ListingOrder(events)
           D == DOMAIN events
<1>1. order \in [D -> D] /\ \A k, l \in D : k < l => ListedBefore(events, order[k], order[l])
  BY ListingExists DEF ListingOrder
<1>2. DOMAIN ListByRunId(events) = D /\ \A k \in D : ListByRunId(events)[k] = events[order[k]]
  BY DEF ListByRunId
<1> HIDE DEF order
<1>3. D = 1..Len(events) /\ Len(events) \in Nat
  OBVIOUS
<1>4. \A i, j \in D : ~ (ListedBefore(events, i, j) /\ ListedBefore(events, j, i))
  BY ListingIsTotal
<1> HIDE DEF D
<1>5. \A k, l \in D : k < l \/ l < k \/ k = l
  BY <1>3
<1>6. \A k, l \in D : ListedBefore(events, order[k], order[l]) => k < l
  BY <1>1, <1>4, <1>5
<1>7. \A k, l \in D : order[k] = order[l] => k = l
  BY <1>1, <1>4, <1>5
<1>8. IsFiniteSet(D)
  BY <1>3, FS_Interval
<1>9. \A i \in D : \E k \in D : order[k] = i
  BY <1>1, <1>7, <1>8, InjectiveIsOnto
<1> QED
  BY <1>1, <1>2, <1>6, <1>9 DEF D, order

\* The damage that can be done to a receipt: one column of it is another.
Damaged(old, new) ==
  /\ new # old
  /\ \/ new = [old EXCEPT !.content = new.content]
     \/ new = [old EXCEPT !.prev_hash = new.prev_hash]
     \/ new = [old EXCEPT !.hash = new.hash]

\* Rows that the program has written for the run, and rows damaged since.
AsWritten(run, row) == \E j \in DOMAIN ledger[run] : row = ledger[run][j]

DamagedSince(row) ==
  \E r \in Runs : \E j \in DOMAIN ledger[r] : Damaged(ledger[r][j], row)

Accounted(run, row) == AsWritten(run, row) \/ DamagedSince(row)

RowsAccounted ==
  \A run \in Runs : \A i \in DOMAIN stored[run] : Accounted(run, stored[run][i])

\* A receipt names the run it was appended to.
OfTheirRun ==
  \A run \in Runs : \A i \in DOMAIN ledger[run] : ledger[run][i].content.run = run

\* The runs that have receipts are finitely many.
RunsFinite == IsFiniteSet({run \in Runs : stored[run] # << >>})

AuditInv ==
  /\ TypeOK
  /\ OfTheirRun
  /\ stored \in [Runs -> Seq(StoredEvent)]
  /\ damages \in Nat
  /\ damages = 0 => stored = ledger
  /\ RowsAccounted
  /\ RunsFinite

\* The rows left when one is taken out are rows there were.
LEMMA RemovePositions ==
  ASSUME NEW S, NEW list \in Seq(S), NEW i \in DOMAIN list
  PROVE  /\ RemoveAt(list, i) \in Seq(S)
         /\ \A k \in DOMAIN RemoveAt(list, i) :
              \E m \in DOMAIN list : RemoveAt(list, i)[k] = list[m]
<1> DEFINE n == Len(list)
           head == SubSeq(list, 1, i - 1)
           tail == SubSeq(list, i + 1, n)
<1>1. n \in Nat /\ i \in 1..n /\ DOMAIN list = 1..n /\ \A k \in 1..n : list[k] \in S
  OBVIOUS
<1>2. /\ head \in Seq(S) /\ Len(head) = i - 1
      /\ \A k \in 1..(i - 1) : head[k] = list[k]
  BY <1>1
<1>3. /\ tail \in Seq(S) /\ Len(tail) = n - i
      /\ \A k \in 1..(n - i) : tail[k] = list[i + k]
  <2> DEFINE j == i + 1
  <2>1. j \in 1..(n + 1)
    BY <1>1
  <2> HIDE DEF j
  <2>2. /\ SubSeq(list, j, n) \in Seq(S) /\ Len(SubSeq(list, j, n)) = n + 1 - j
        /\ \A k \in 1..(n + 1 - j) : SubSeq(list, j, n)[k] = list[j + k - 1]
    BY <1>1, <2>1
  <2>3. n + 1 - j = n - i /\ \A k \in 1..(n - i) : j + k - 1 = i + k
    BY <1>1 DEF j
  <2> QED
    BY <2>2, <2>3 DEF j
<1>4. RemoveAt(list, i) = head \o tail
  BY DEF RemoveAt
<1> HIDE DEF head, tail, n
<1>5. /\ head \o tail \in Seq(S) /\ Len(head \o tail) = n - 1
      /\ DOMAIN (head \o tail) = 1..(n - 1)
  <2>0. head \in Seq(S) /\ tail \in Seq(S)
    BY <1>2, <1>3
  <2>1. head \o tail \in Seq(S) /\ Len(head \o tail) = Len(head) + Len(tail)
    BY <2>0
  <2>2. Len(head) + Len(tail) = n - 1
    BY <1>1, <1>2, <1>3
  <2> QED
    BY <2>1, <2>2
<1>6. \A k \in 1..(n - 1) : (head \o tail)[k] = IF k < i THEN list[k] ELSE list[k + 1]
  <2>1. SUFFICES ASSUME NEW k \in 1..(n - 1)
                 PROVE  (head \o tail)[k] = IF k < i THEN list[k] ELSE list[k + 1]
    OBVIOUS
  <2>2. CASE k < i
    BY <1>1, <1>2, <1>3, <2>2
  <2>3. CASE ~ (k < i)
    <3>1. k - (i - 1) \in 1..(n - i) /\ i + (k - (i - 1)) = k + 1
      BY <1>1, <2>3
    <3>2. (head \o tail)[k] = tail[k - (i - 1)]
      BY <1>1, <1>2, <1>3, <2>3
    <3> QED
      BY <1>3, <2>3, <3>1, <3>2
  <2> QED
    BY <2>2, <2>3
<1>7. \A k \in 1..(n - 1) : k \in 1..n /\ k + 1 \in 1..n
  BY <1>1
<1> QED
  BY <1>1, <1>4, <1>5, <1>6, <1>7

\* A row that is put in is there, and so are the others, and nothing else.
LEMMA InsertRows ==
  ASSUME NEW S, NEW list \in Seq(S), NEW new \in S, NEW i \in 1..(Len(list) + 1)
  PROVE  /\ InsertAt(list, i, new) \in Seq(S)
         /\ \A k \in DOMAIN InsertAt(list, i, new) :
              \/ InsertAt(list, i, new)[k] = new
              \/ \E m \in DOMAIN list : InsertAt(list, i, new)[k] = list[m]
<1> DEFINE n == Len(list)
           landed == Inserted(list, i, new)
<1>1. InsertAt(list, i, new) = landed
  BY DEF InsertAt, Inserted
<1>2. /\ n \in Nat
      /\ DOMAIN list = 1..n
      /\ DOMAIN landed = 1..(n + 1)
      /\ landed \in Seq(S)
      /\ landed[i] = new
      /\ \A k \in 1..n : k < i => landed[k] = list[k]
      /\ \A k \in 1..(n + 1) : k > i => k - 1 \in 1..n /\ landed[k] = list[k - 1]
  BY InsertPositions
<1> HIDE DEF landed, n
<1>3. \A k \in 1..(n + 1) : \/ k = i
                            \/ k < i /\ k \in 1..n
                            \/ k > i
  BY <1>2 DEF n
<1> QED
  BY <1>1, <1>2, <1>3

\* Whatever column is rewritten, the result is a row, the same or a damaged one.
LEMMA RewritingsAreDamage ==
  ASSUME TypeOK, stored \in [Runs -> Seq(StoredEvent)], NEW old \in StoredEvent,
         NEW new \in Rewritings(old)
  PROVE  new \in StoredEvent /\ (new = old \/ Damaged(old, new))
<1>1. old.content \in Content /\ old.prev_hash \in Hashes /\ old.hash \in Hashes
  BY DEF StoredEvent
<1>2. Digests \subseteq Hashes
  <2>1. ASSUME NEW at \in StoredPositions PROVE stored[at[1]][at[2]].hash \in Hashes
    <3>1. at[1] \in Runs /\ at[2] \in DOMAIN stored[at[1]]
      BY DEF StoredPositions
    <3>2. stored[at[1]] \in Seq(StoredEvent)
      BY <3>1
    <3>3. stored[at[1]][at[2]] \in StoredEvent
      BY <3>1, <3>2
    <3> QED
      BY <3>3 DEF StoredEvent
  <2>2. NoHash \in Hashes
    BY DEF NoHash, Hashes
  <2> QED
    BY <2>1, <2>2 DEF Digests
<1>3. ASSUME NEW c \in Content, new = [old EXCEPT !.content = c]
      PROVE  new \in StoredEvent /\ (new = old \/ Damaged(old, new))
  <2>1. new.content = c
    BY <1>3 DEF StoredEvent
  <2> QED
    BY <1>3, <2>1 DEF StoredEvent, Damaged
<1>4. ASSUME NEW h \in Hashes,
             new = [old EXCEPT !.prev_hash = h] \/ new = [old EXCEPT !.hash = h]
      PROVE  new \in StoredEvent /\ (new = old \/ Damaged(old, new))
  <2>1. CASE new = [old EXCEPT !.prev_hash = h]
    <3>1. new.prev_hash = h
      BY <2>1 DEF StoredEvent
    <3> QED
      BY <2>1, <3>1 DEF StoredEvent, Damaged
  <2>2. CASE new = [old EXCEPT !.hash = h]
    <3>1. new.hash = h
      BY <2>2 DEF StoredEvent
    <3> QED
      BY <2>2, <3>1 DEF StoredEvent, Damaged
  <2> QED
    BY <1>4, <2>1, <2>2
<1>5. CASE \E r \in Runs : new = [old EXCEPT !.content.run = r]
  <2>1. PICK r \in Runs : new = [old EXCEPT !.content.run = r]
    BY <1>5
  <2>2. /\ [old.content EXCEPT !.run = r] \in Content
        /\ new = [old EXCEPT !.content = [old.content EXCEPT !.run = r]]
    BY <1>1, <2>1 DEF Content, StoredEvent
  <2> QED
    BY <1>3, <2>2
<1>6. CASE \E e \in EventIds : new = [old EXCEPT !.content.id = e]
  <2>1. PICK e \in EventIds : new = [old EXCEPT !.content.id = e]
    BY <1>6
  <2>2. /\ [old.content EXCEPT !.id = e] \in Content
        /\ new = [old EXCEPT !.content = [old.content EXCEPT !.id = e]]
    BY <1>1, <2>1 DEF Content, StoredEvent
  <2> QED
    BY <1>3, <2>2
<1>7. CASE \E t \in Times : new = [old EXCEPT !.content.timestamp = t]
  <2>1. PICK t \in Times : new = [old EXCEPT !.content.timestamp = t]
    BY <1>7
  <2>2. /\ [old.content EXCEPT !.timestamp = t] \in Content
        /\ new = [old EXCEPT !.content = [old.content EXCEPT !.timestamp = t]]
    BY <1>1, <2>1 DEF Content, StoredEvent
  <2> QED
    BY <1>3, <2>2
<1>8. CASE \E p \in Payloads : new = [old EXCEPT !.content.payload = p]
  <2>1. PICK p \in Payloads : new = [old EXCEPT !.content.payload = p]
    BY <1>8
  <2>2. /\ [old.content EXCEPT !.payload = p] \in Content
        /\ new = [old EXCEPT !.content = [old.content EXCEPT !.payload = p]]
    BY <1>1, <2>1 DEF Content, StoredEvent
  <2> QED
    BY <1>3, <2>2
<1>9. CASE \E w \in BOOLEAN : new = [old EXCEPT !.content.integrity_warning = w]
  <2>1. PICK w \in BOOLEAN : new = [old EXCEPT !.content.integrity_warning = w]
    BY <1>9
  <2>2. /\ [old.content EXCEPT !.integrity_warning = w] \in Content
        /\ new = [old EXCEPT !.content = [old.content EXCEPT !.integrity_warning = w]]
    BY <1>1, <2>1 DEF Content, StoredEvent
  <2> QED
    BY <1>3, <2>2
<1>10. CASE \E h \in Digests : new = [old EXCEPT !.prev_hash = h]
                               \/ new = [old EXCEPT !.hash = h]
  BY <1>2, <1>4, <1>10
<1> QED
  BY <1>5, <1>6, <1>7, <1>8, <1>9, <1>10 DEF Rewritings

\* A loss or a rewriting leaves rows that are accounted for.
LEMMA CorruptKeepsAccounts ==
  ASSUME AuditInv, Corrupt
  PROVE  AuditInv'
<1>1. ledger' = ledger /\ damages' = damages + 1 /\ damages \in Nat
  BY DEF Corrupt, LoseRow, RewriteRow, Damage, AuditInv
<1>2. TypeOK' /\ OfTheirRun'
  BY <1>1 DEF AuditInv, TypeOK, OfTheirRun
<1>3. SUFFICES /\ stored' \in [Runs -> Seq(StoredEvent)]
               /\ \A r \in Runs : \A k \in DOMAIN stored'[r] : Accounted(r, stored'[r][k])
               /\ \E r \in Runs : {q \in Runs : stored'[q] # << >>}
                                   \subseteq {q \in Runs : stored[q] # << >>} \cup {r}
  <2>1. PICK r \in Runs : {q \in Runs : stored'[q] # << >>}
                           \subseteq {q \in Runs : stored[q] # << >>} \cup {r}
    BY <1>3
  <2>2. IsFiniteSet({q \in Runs : stored[q] # << >>} \cup {r})
    BY FS_AddElement DEF AuditInv, RunsFinite
  <2>3. RunsFinite'
    BY <2>1, <2>2, FS_Subset DEF RunsFinite
  <2>4. RowsAccounted'
    BY <1>1, <1>3 DEF RowsAccounted, Accounted, AsWritten, DamagedSince
  <2> QED
    BY <1>1, <1>2, <1>3, <2>3, <2>4 DEF AuditInv
<1>4. PICK run \in Runs : \E i \in DOMAIN stored[run] :
        \/ LoseRow(run, i)
        \/ \E row \in Rewritings(stored[run][i]) : RewriteRow(run, i, row)
  BY DEF Corrupt
<1>5. PICK i \in DOMAIN stored[run] :
        \/ LoseRow(run, i)
        \/ \E row \in Rewritings(stored[run][i]) : RewriteRow(run, i, row)
  BY <1>4
<1> DEFINE left == Without(run, i)
<1>6. stored[run] \in Seq(StoredEvent) /\ stored \in [Runs -> Seq(StoredEvent)]
  BY DEF AuditInv
<1>7. /\ left \in [Runs -> Seq(StoredEvent)]
      /\ \A r \in Runs : \A k \in DOMAIN left[r] : Accounted(r, left[r][k])
      /\ {q \in Runs : left[q] # << >>} \subseteq {q \in Runs : stored[q] # << >>} \cup {run}
  <2>1. /\ RemoveAt(stored[run], i) \in Seq(StoredEvent)
        /\ \A k \in DOMAIN RemoveAt(stored[run], i) :
             \E m \in DOMAIN stored[run] : RemoveAt(stored[run], i)[k] = stored[run][m]
    BY <1>5, <1>6, RemovePositions
  <2> DEFINE fewer == RemoveAt(stored[run], i)
  <2>2. left = [stored EXCEPT ![run] = fewer]
    BY <1>6 DEF Without
  <2> HIDE DEF fewer, left
  <2>3. left[run] = fewer /\ \A r \in Runs : r # run => left[r] = stored[r]
    BY <1>6, <2>2
  <2>4. ASSUME NEW r \in Runs, NEW k \in DOMAIN left[r] PROVE Accounted(r, left[r][k])
    <3>1. \E m \in DOMAIN stored[r] : left[r][k] = stored[r][m]
      BY <2>1, <2>3, <2>4 DEF fewer
    <3> QED
      BY <3>1 DEF AuditInv, RowsAccounted
  <2>5. left \in [Runs -> Seq(StoredEvent)]
    BY <1>6, <2>1, <2>2 DEF fewer
  <2> QED
    BY <2>3, <2>4, <2>5
<1>8. CASE LoseRow(run, i)
  BY <1>7, <1>8 DEF LoseRow
<1>9. CASE \E row \in Rewritings(stored[run][i]) : RewriteRow(run, i, row)
  <2>1. PICK row \in Rewritings(stored[run][i]) : RewriteRow(run, i, row)
    BY <1>9
  <2> DEFINE to == row.content.run
  <2>2. PICK j \in DOMAIN ledger[run] : stored[run][i] = ledger[run][j]
    BY <2>1 DEF RewriteRow
  <2>3. stored[run][i] \in StoredEvent
    BY <1>5, <1>6
  <2>4. row \in StoredEvent /\ (row = stored[run][i] \/ Damaged(stored[run][i], row))
    BY <2>1, <2>3, RewritingsAreDamage DEF AuditInv
  <2>5. to \in Runs
    BY <2>4 DEF StoredEvent, Content
  <2>6. Accounted(to, row)
    <3>1. CASE row = stored[run][i]
      <4>1. row = ledger[run][j] /\ to = run
        BY <2>2, <3>1 DEF AuditInv, OfTheirRun
      <4> QED
        BY <4>1 DEF Accounted, AsWritten
    <3>2. CASE Damaged(stored[run][i], row)
      BY <2>2, <3>2 DEF Accounted, DamagedSince
    <3> QED
      BY <2>4, <3>1, <3>2
  <2> HIDE DEF to, left
  <2>7. PICK k \in 1..(Len(left[to]) + 1) :
          stored' = [left EXCEPT ![to] = InsertAt(left[to], k, row)]
    <3>1. PICK k \in 1..(Len(left[to]) + 1) :
            stored' = [left EXCEPT ![to] = InsertAt(@, k, row)]
      BY <2>1 DEF RewriteRow, left, to
    <3> QED
      BY <1>7, <2>5, <3>1
  <2>8. left[to] \in Seq(StoredEvent)
    BY <1>7, <2>5
  <2> DEFINE more == InsertAt(left[to], k, row)
  <2>9. /\ more \in Seq(StoredEvent)
        /\ \A m \in DOMAIN more :
             more[m] = row \/ \E l \in DOMAIN left[to] : more[m] = left[to][l]
    BY <2>4, <2>8, InsertRows
  <2> HIDE DEF more
  <2>10. /\ stored' \in [Runs -> Seq(StoredEvent)]
         /\ stored'[to] = more
         /\ \A r \in Runs : r # to => stored'[r] = left[r]
    BY <1>7, <2>5, <2>7, <2>9 DEF more
  <2>11. ASSUME NEW r \in Runs, NEW m \in DOMAIN stored'[r] PROVE Accounted(r, stored'[r][m])
    BY <1>7, <2>5, <2>6, <2>9, <2>10, <2>11
  <2>12. {q \in Runs : stored'[q] # << >>} \subseteq {q \in Runs : stored[q] # << >>} \cup {to}
    <3>1. CASE left[run] # << >>
      <4>1. stored[run] # << >>
        BY <1>5, <1>6
      <4> QED
        BY <1>7, <2>10, <4>1
    <3>2. CASE left[run] = << >>
      BY <1>7, <2>10, <3>2
    <3> QED
      BY <3>1, <3>2
  <2> QED
    BY <2>5, <2>10, <2>11, <2>12
<1> QED
  BY <1>5, <1>8, <1>9

\* Every row of the storage is one the program wrote or one with a column rewritten,
\* however many rows are lost or rewritten.
THEOREM AuditRowsAccounted == AuditSpec => []AuditInv
<1>1. AuditInit => AuditInv
  <2> SUFFICES ASSUME AuditInit PROVE AuditInv
    OBVIOUS
  <2>1. TypeOK /\ stored = ledger /\ stored \in [Runs -> Seq(StoredEvent)]
        /\ ledger = [run \in Runs |-> << >>]
    BY DEF AuditInit, Init, TypeOK
  <2>2. {run \in Runs : stored[run] # << >>} = {}
    BY <2>1
  <2>3. OfTheirRun /\ RowsAccounted
    BY <2>1 DEF OfTheirRun, RowsAccounted
  <2> QED
    BY <2>1, <2>2, <2>3, FS_EmptySet DEF AuditInit, AuditInv, RunsFinite
<1>2. AuditInv /\ [AuditNext]_vars => AuditInv'
  <2> SUFFICES ASSUME AuditInv, [AuditNext]_vars PROVE AuditInv'
    OBVIOUS
  <2>1. CASE UNCHANGED vars
    BY <2>1 DEF vars, AuditInv, TypeOK, OfTheirRun, RowsAccounted, RunsFinite, Accounted,
                AsWritten, DamagedSince
  <2>2. CASE Store
    <3>1. PICK run \in Runs, id \in EventIds, timestamp \in Times, payload \in Payloads :
            AppendEvent(run, id, timestamp, payload)
      BY <2>2 DEF Store
    <3>2. PICK content \in Content :
            LET event == NewStoredEvent(content, LastHash(ledger[run]))
            IN  /\ content.run = run
                /\ event \in StoredEvent
                /\ ledger' = [ledger EXCEPT ![run] = Append(ledger[run], event)]
      BY <3>1, AppendShape DEF AuditInv
    <3> DEFINE event == NewStoredEvent(content, LastHash(ledger[run]))
    <3>3. event \in StoredEvent /\ event.content.run = run
          /\ ledger' = [ledger EXCEPT ![run] = Append(ledger[run], event)]
      BY <3>2 DEF NewStoredEvent
    <3> HIDE DEF event
    <3>4. /\ damages = 0 /\ damages' = damages
          /\ stored = ledger /\ stored' = ledger'
      BY <2>2 DEF Store, AuditInv
    <3>5. TypeOK /\ TypeOK'
      BY <3>3 DEF AuditInv, TypeOK
    <3>6. stored' \in [Runs -> Seq(StoredEvent)]
      BY <3>4, <3>5 DEF TypeOK
    <3>7. OfTheirRun'
      <4>1. ASSUME NEW r \in Runs, NEW i \in DOMAIN ledger'[r]
            PROVE  ledger'[r][i].content.run = r
        <5>1. CASE r # run
          BY <3>3, <3>5, <4>1, <5>1, AppendPositions DEF AuditInv, OfTheirRun
        <5>2. CASE r = run
          BY <3>3, <3>5, <4>1, <5>2, AppendPositions DEF AuditInv, OfTheirRun
        <5> QED
          BY <5>1, <5>2
      <4> QED
        BY <4>1 DEF OfTheirRun
    <3>8. RowsAccounted'
      BY <3>4 DEF RowsAccounted, Accounted, AsWritten
    <3> DEFINE used == {r \in Runs : stored[r] # << >>}
               later == {r \in Runs : stored'[r] # << >>}
    <3>9. IsFiniteSet(used \cup {run})
      BY FS_AddElement DEF AuditInv, RunsFinite
    <3>10. later \in SUBSET (used \cup {run})
      BY <3>3, <3>4 DEF AuditInv, TypeOK
    <3> HIDE DEF used
    <3>11. IsFiniteSet(later)
      BY <3>9, <3>10, FS_Subset
    <3> QED
      BY <3>4, <3>5, <3>6, <3>7, <3>8, <3>11 DEF AuditInv, RunsFinite
  <2>3. CASE Corrupt
    BY <2>3, CorruptKeepsAccounts
  <2> QED
    BY <2>1, <2>2, <2>3 DEF AuditNext
<1> QED
  BY <1>1, <1>2, PTL DEF AuditSpec

\* The export of a decision that one run records is the outcome of its hash chain.
LEMMA ExportOfOneRun ==
  ASSUME NEW decision, NEW run, RunsOf(decision) = {run}
  PROVE  ExportDecisionAudit(decision) = "EXPORTED" <=> VerifyHashChain(ListByRunId(stored[run]))
<1>1. Cardinality({run}) = 1 /\ {run} # {} /\ (CHOOSE r \in {run} : TRUE) = run
  BY FS_Singleton
<1> QED
  BY <1>1 DEF ExportDecisionAudit

\* A decision that is exported is recorded in one run.
LEMMA ExportNeedsOneRun ==
  ASSUME AuditInv, NEW decision, ExportDecisionAudit(decision) = "EXPORTED"
  PROVE  \E run \in Runs : RunsOf(decision) = {run}
<1> DEFINE runs == RunsOf(decision)
<1>1. runs # {} /\ ~ (Cardinality(runs) > 1)
  BY DEF ExportDecisionAudit
<1>2. runs \in SUBSET {run \in Runs : stored[run] # << >>}
  BY DEF RunsOf
<1>3. IsFiniteSet(runs)
  BY <1>2, FS_Subset DEF AuditInv, RunsFinite
<1>4. runs \subseteq Runs
  BY <1>2
<1> HIDE DEF runs
<1>5. Cardinality(runs) \in Nat /\ (Cardinality(runs) = 0 <=> runs = {})
  BY <1>3, FS_CardinalityType, FS_EmptySet
<1>6. Cardinality(runs) = 1
  BY <1>1, <1>5
<1>7. PICK run : runs = {run}
  BY <1>3, <1>6, FS_Singleton
<1> QED
  BY <1>4, <1>7 DEF runs

\* Two digests are the same only if they are of the same content and predecessor.
LEMMA DigestInjective ==
  ASSUME NEW p \in Hashes, NEW q \in Hashes, NEW c \in Content, NEW d \in Content,
         BuildEventHash(c, p) = BuildEventHash(d, q)
  PROVE  c = d /\ p = q
<1>1. p \in Seq(Content) /\ q \in Seq(Content) /\ Append(p, c) = Append(q, d)
  BY DEF Hashes, BuildEventHash
<1>2. Len(Append(p, c)) = Len(p) + 1 /\ Len(Append(q, d)) = Len(q) + 1
  BY <1>1
<1>3. Len(p) = Len(q) /\ Len(p) \in Nat
  BY <1>1, <1>2
<1>4. Append(p, c)[Len(p) + 1] = c /\ Append(q, d)[Len(q) + 1] = d
  BY <1>1
<1>5. \A k \in 1..Len(p) : Append(p, c)[k] = p[k] /\ Append(q, d)[k] = q[k]
  BY <1>1, <1>3
<1>6. c = d
  BY <1>1, <1>3, <1>4
<1>7. \A k \in 1..Len(p) : p[k] = q[k]
  BY <1>1, <1>5
<1>8. p = [k \in 1..Len(p) |-> p[k]] /\ q = [k \in 1..Len(q) |-> q[k]]
  BY <1>1
<1>9. p = q
  BY <1>3, <1>7, <1>8
<1> QED
  BY <1>6, <1>9

\* Every receipt of a verified listing has the digest of its content and predecessor.
LEMMA VerifiedDigests ==
  ASSUME NEW events \in Seq(StoredEvent), VerifyHashChain(ListByRunId(events)),
         NEW i \in DOMAIN events
  PROVE  events[i].hash = BuildEventHash(events[i].content, events[i].prev_hash)
<1> DEFINE listed == ListByRunId(events)
           order == ListingOrder(events)
<1>1. PICK k \in DOMAIN events : order[k] = i
  BY ListingProperties
<1>2. listed[k] = events[i] /\ k \in DOMAIN listed
  BY <1>1, ListingProperties
<1>3. /\ listed[k].prev_hash = PreviousHash(listed, k)
      /\ listed[k].hash = BuildEventHash(listed[k].content, PreviousHash(listed, k))
  BY <1>2 DEF VerifyHashChain
<1> QED
  BY <1>2, <1>3

\* A receipt with its digest right has not been damaged.
LEMMA DamageShows ==
  ASSUME NEW old \in StoredEvent, NEW new \in StoredEvent, Damaged(old, new),
         old.hash = BuildEventHash(old.content, old.prev_hash)
  PROVE  new.hash # BuildEventHash(new.content, new.prev_hash)
<1>1. /\ old.content \in Content /\ old.prev_hash \in Hashes
      /\ new.content \in Content /\ new.prev_hash \in Hashes
  BY DEF StoredEvent
<1>2. old = [content |-> old.content, prev_hash |-> old.prev_hash, hash |-> old.hash]
      /\ new = [content |-> new.content, prev_hash |-> new.prev_hash, hash |-> new.hash]
  BY DEF StoredEvent
<1>3. SUFFICES ASSUME new.hash = BuildEventHash(new.content, new.prev_hash) PROVE FALSE
  OBVIOUS
<1>4. CASE new = [old EXCEPT !.content = new.content]
           \/ new = [old EXCEPT !.prev_hash = new.prev_hash]
  <2>1. new.hash = old.hash
    BY <1>4 DEF StoredEvent
  <2>2. BuildEventHash(new.content, new.prev_hash) = BuildEventHash(old.content, old.prev_hash)
    BY <1>3, <2>1
  <2>3. new.content = old.content /\ new.prev_hash = old.prev_hash
    BY ONLY <1>1, <2>2, DigestInjective
  <2> QED
    BY <1>2, <2>1, <2>3 DEF Damaged
<1>5. CASE new = [old EXCEPT !.hash = new.hash]
  <2>1. new.content = old.content /\ new.prev_hash = old.prev_hash
    BY <1>5 DEF StoredEvent
  <2>2. new.hash = old.hash
    BY <1>3, <2>1
  <2> QED
    BY <1>2, <2>1, <2>2 DEF Damaged
<1> QED
  BY <1>4, <1>5 DEF Damaged

\* A sequence of positions that starts at one and goes up by one is the identity.
LEMMA CountsUp ==
  ASSUME NEW n \in Nat, NEW order,
         1 \in 1..n => order[1] = 1,
         \A k \in 1..n : k + 1 \in 1..n => order[k + 1] = order[k] + 1
  PROVE  \A k \in 1..n : order[k] = k
<1> DEFINE S == {k \in Nat : k + 1 \in 1..n => order[k + 1] = k + 1}
<1>1. 0 \in S
  OBVIOUS
<1>2. ASSUME NEW k \in Nat, k \in S PROVE k + 1 \in S
  <2>1. SUFFICES ASSUME (k + 1) + 1 \in 1..n PROVE order[(k + 1) + 1] = (k + 1) + 1
    OBVIOUS
  <2>2. k + 1 \in 1..n
    BY <2>1
  <2>3. order[k + 1] = k + 1
    BY <1>2, <2>2
  <2> QED
    BY <2>1, <2>2, <2>3
<1>3. ASSUME NEW k \in 1..n, k - 1 \in S PROVE order[k] = k
  <2>1. (k - 1) + 1 = k
    OBVIOUS
  <2> QED
    BY <1>3, <2>1
<1> HIDE DEF S
<1>4. Nat \subseteq S
  BY <1>1, <1>2, NatSetInduction
<1>5. \A k \in 1..n : k - 1 \in Nat
  OBVIOUS
<1> QED
  BY <1>3, <1>4, <1>5

\* The length of a digest is the append position of its receipt.
LEMMA DigestLengths ==
  ASSUME TypeOK, ChainLinked, HashCommitsToHistory, NEW run \in Runs
  PROVE  \A i \in DOMAIN ledger[run] : /\ Len(ledger[run][i].hash) = i
                                       /\ Len(ledger[run][i].prev_hash) = i - 1
<1> DEFINE events == ledger[run]
           n == Len(events)
<1>1. events \in Seq(StoredEvent)
  BY DEF TypeOK
<1>2. DOMAIN events = 1..n /\ n \in Nat
  BY <1>1
<1>3. \A i \in 1..n : events[i].prev_hash = IF i = 1 THEN NoHash ELSE events[i - 1].hash
  BY <1>2 DEF ChainLinked
<1>4. \A i \in 1..n : events[i].hash = [k \in 1..i |-> events[k].content]
  BY <1>2 DEF HashCommitsToHistory
<1>5. \A i \in 1..n : Len(events[i].hash) = i
  <2>1. ASSUME NEW i \in 1..n PROVE Len([k \in 1..i |-> events[k].content]) = i
    <3>1. DOMAIN [k \in 1..i |-> events[k].content] = 1..i /\ i \in Nat
      OBVIOUS
    <3>2. [k \in 1..i |-> events[k].content] \in Seq(Content)
      <4>1. \A k \in 1..i : events[k] \in StoredEvent
        BY <1>1, <1>2
      <4> QED
        BY <4>1 DEF StoredEvent
    <3> QED
      BY <3>1, <3>2
  <2> QED
    BY <1>4, <2>1
<1>6. Len(NoHash) = 0
  BY DEF NoHash
<1>7. ASSUME NEW i \in 1..n PROVE Len(events[i].prev_hash) = i - 1
  <2>1. CASE i # 1
    <3>1. i - 1 \in 1..n /\ events[i].prev_hash = events[i - 1].hash
      BY <1>2, <1>3, <2>1
    <3> HIDE DEF events, n
    <3> QED
      BY <1>5, <3>1
  <2>2. CASE i = 1
    BY <1>3, <1>6, <2>2
  <2> QED
    BY <2>1, <2>2
<1> QED
  BY <1>2, <1>5, <1>7

\* A trace is exported only from a listing that is the beginning of what the program
\* wrote.  A damaged row fails the check of its own digest, wherever it is listed; rows
\* that are as written have digests whose lengths are their append positions, so links
\* that agree leave no gap and no other order.
THEOREM AuditExportedOnlyHistory == AuditSpec => []ExportedOnlyHistory
<1>1. AuditInv /\ ChainLinked /\ HashCommitsToHistory => ExportedOnlyHistory
  <2> SUFFICES ASSUME AuditInv, ChainLinked, HashCommitsToHistory, NEW decision \in Decisions,
                      ExportDecisionAudit(decision) = "EXPORTED", NEW run \in RunsOf(decision)
               PROVE  IsPrefix(ListByRunId(stored[run]), ledger[run])
    BY DEF ExportedOnlyHistory
  <2>1. run \in Runs /\ RunsOf(decision) = {run}
    BY ExportNeedsOneRun
  <2> DEFINE events == stored[run]
             written == ledger[run]
             listed == ListByRunId(events)
             order == ListingOrder(events)
             n == Len(events)
  <2>2. VerifyHashChain(listed) /\ events \in Seq(StoredEvent)
    BY <2>1, ExportOfOneRun DEF AuditInv
  <2>3. DOMAIN events = 1..n /\ n \in Nat
    BY <2>2
  <2>4. \A i \in 1..n : events[i].hash = BuildEventHash(events[i].content, events[i].prev_hash)
    BY <2>2, <2>3, VerifiedDigests
  <2>5. \A i \in 1..n : \E j \in DOMAIN written : events[i] = written[j]
    <3>1. SUFFICES ASSUME NEW i \in 1..n, DamagedSince(events[i]) PROVE FALSE
      BY <2>1, <2>3 DEF AuditInv, RowsAccounted, Accounted, AsWritten
    <3>2. PICK r \in Runs : \E j \in DOMAIN ledger[r] : Damaged(ledger[r][j], events[i])
      BY <3>1 DEF DamagedSince
    <3>3. PICK j \in DOMAIN ledger[r] : Damaged(ledger[r][j], events[i])
      BY <3>2
    <3>4. ledger[r] \in Seq(StoredEvent)
      BY DEF AuditInv, TypeOK
    <3>5. ledger[r][j] \in StoredEvent /\ events[i] \in StoredEvent
      BY <2>2, <2>3, <3>4
    <3>6. ledger[r][j].hash = BuildEventHash(ledger[r][j].content, ledger[r][j].prev_hash)
      BY DEF ChainLinked
    <3> HIDE DEF events, n
    <3> QED
      BY <2>4, <3>3, <3>5, <3>6, DamageShows
  <2>6. /\ order \in [1..n -> 1..n]
        /\ DOMAIN listed = 1..n
        /\ \A k \in 1..n : listed[k] = events[order[k]]
    BY <2>2, <2>3, ListingProperties
  <2>7. /\ \A k \in 1..n : listed[k].prev_hash = IF k = 1 THEN NoHash ELSE listed[k - 1].hash
        /\ Len(NoHash) = 0
    BY <2>2, <2>6 DEF VerifyHashChain, PreviousHash, NoHash
  <2>8. \A j \in DOMAIN written : /\ Len(written[j].hash) = j
                                  /\ Len(written[j].prev_hash) = j - 1
    BY <2>1, DigestLengths DEF AuditInv
  <2>9. written \in Seq(StoredEvent) /\ Len(written) \in Nat /\ DOMAIN written = 1..Len(written)
    BY <2>1 DEF AuditInv, TypeOK
  <2> DEFINE place == [k \in 1..n |-> CHOOSE j \in DOMAIN written : listed[k] = written[j]]
  <2> HIDE DEF events, listed, order, written, n
  <2>10. \A k \in 1..n : place[k] \in DOMAIN written /\ listed[k] = written[place[k]]
    BY <2>5, <2>6
  <2> HIDE DEF place
  <2>11. 1 \in 1..n => place[1] = 1
    <3>1. SUFFICES ASSUME 1 \in 1..n PROVE place[1] = 1
      OBVIOUS
    <3>2. Len(listed[1].prev_hash) = 0 /\ place[1] \in DOMAIN written
          /\ listed[1] = written[place[1]]
      BY <2>7, <2>10, <3>1
    <3>3. place[1] - 1 = 0 /\ place[1] \in Int
      BY <2>8, <2>9, <3>2
    <3> QED
      BY <3>3
  <2>12. ASSUME NEW k \in 1..n, k + 1 \in 1..n PROVE place[k + 1] = place[k] + 1
    <3>1. k + 1 # 1 /\ (k + 1) - 1 = k
      BY <2>3
    <3>2. listed[k + 1].prev_hash = listed[k].hash
      BY <2>7, <2>12, <3>1
    <3>3. /\ place[k] \in DOMAIN written /\ listed[k] = written[place[k]]
          /\ place[k + 1] \in DOMAIN written /\ listed[k + 1] = written[place[k + 1]]
      BY <2>10, <2>12
    <3>4. place[k + 1] - 1 = place[k] /\ place[k + 1] \in Int
      BY <2>8, <2>9, <3>2, <3>3
    <3> QED
      BY <3>4
  <2>13. \A k \in 1..n : place[k] = k
    BY ONLY <2>3, <2>11, <2>12, CountsUp
  <2>14. \A k \in 1..n : k \in DOMAIN written /\ listed[k] = written[k]
    BY <2>10, <2>13
  <2>15. n <= Len(written)
    <3>1. CASE n = 0
      BY <2>9, <3>1
    <3>2. CASE n # 0
      <4>1. n \in 1..n
        BY <2>3, <3>2
      <4> QED
        BY <2>9, <2>14, <4>1
    <3> QED
      BY <3>1, <3>2
  <2>16. listed \in Seq(StoredEvent) /\ Len(listed) = n
    <3>1. listed = [k \in 1..n |-> listed[k]]
      BY <2>6 DEF listed, ListByRunId
    <3>2. \A k \in 1..n : listed[k] \in StoredEvent
      BY <2>9, <2>14
    <3> QED
      BY <2>3, <3>1, <3>2
  <2>17. SubSeq(listed, 1, n) = SubSeq(written, 1, n)
    <3>1. SubSeq(listed, 1, n) = [k \in 1..n |-> listed[k]]
      BY <2>3, <2>16
    <3>2. SubSeq(written, 1, n) = [k \in 1..n |-> written[k]]
      BY <2>3, <2>9, <2>15
    <3> QED
      BY <2>14, <3>1, <3>2
  <2>18. IsPrefix(listed, written)
    BY <2>15, <2>16, <2>17 DEF IsPrefix
  <2> QED
    BY <2>18 DEF listed, events, written
<1>2. AuditSpec => [](ChainLinked /\ HashCommitsToHistory)
  BY AuditImplementsLedger, LedgerChainLinked, LedgerHashCommitsToHistory, PTL
<1> QED
  BY <1>1, <1>2, AuditRowsAccounted, PTL

\* The listing is the append order exactly when no receipt of the run is marked.
LEMMA ListedInOrderIffUnmarked ==
  ASSUME TypeOK, WarningsExact, NEW run \in Runs
  PROVE  LET events == ledger[run]
         IN  (\A k \in DOMAIN events : ListingOrder(events)[k] = k)
               <=> (\A i \in DOMAIN events : ~ events[i].content.integrity_warning)
<1> DEFINE events == ledger[run]
           order == ListingOrder(events)
           n == Len(events)
           Time(i) == events[i].content.timestamp
<1>1. events \in Seq(StoredEvent)
  BY DEF TypeOK
<1>2. DOMAIN events = 1..n /\ n \in Nat
  BY <1>1
<1>3. /\ order \in [1..n -> 1..n]
      /\ \A k, l \in 1..n : k < l => ListedBefore(events, order[k], order[l])
      /\ \A k, l \in 1..n : ListedBefore(events, order[k], order[l]) => k < l
      /\ \A i \in 1..n : \E k \in 1..n : order[k] = i
  <2>1. LET D == DOMAIN events
        IN  /\ order \in [D -> D]
            /\ \A k, l \in D : k < l => ListedBefore(events, order[k], order[l])
            /\ \A k, l \in D : ListedBefore(events, order[k], order[l]) => k < l
            /\ \A i \in D : \E k \in D : order[k] = i
    BY ONLY <1>1, ListingProperties
  <2> QED
    BY ONLY <1>2, <2>1
<1>4. \A i \in 1..n : Time(i) \in Int
  <2>1. \A i \in 1..n : events[i] \in StoredEvent
    BY <1>1, <1>2
  <2> QED
    BY <2>1, TimesAssumption DEF StoredEvent, Content
<1>5. \A i \in 1..n : events[i].content.integrity_warning
                        <=> \E j \in 1..(i - 1) : Time(i) < Time(j)
  BY <1>2 DEF WarningsExact
<1>6. \A i, j \in 1..n : ListedBefore(events, i, j) <=> \/ Time(i) < Time(j)
                                                        \/ Time(i) = Time(j) /\ i < j
  BY DEF ListedBefore
<1> HIDE DEF order, Time, events, n
<1>7. ASSUME \A k \in 1..n : order[k] = k, NEW i \in 1..n
      PROVE  ~ events[i].content.integrity_warning
  <2>1. SUFFICES ASSUME NEW j \in 1..(i - 1), Time(i) < Time(j) PROVE FALSE
    BY <1>5
  <2>2. j \in 1..n /\ j < i /\ i \in Int
    BY <1>2
  <2>3. ListedBefore(events, order[i], order[j])
    BY <1>6, <1>7, <2>1, <2>2
  <2>4. i < j
    BY <1>3, <2>2, <2>3
  <2> QED
    BY <2>2, <2>4
<1>8. ASSUME \A i \in 1..n : ~ events[i].content.integrity_warning
      PROVE  \A k \in 1..n : order[k] = k
  <2>1. ASSUME NEW i \in 1..n, NEW j \in 1..n, i < j PROVE ListedBefore(events, i, j)
    <3>1. i \in 1..(j - 1)
      BY <2>1
    <3>2. ~ (Time(j) < Time(i))
      BY <1>5, <1>8, <3>1
    <3> QED
      BY <1>4, <1>6, <2>1, <3>2
  <2>2. \A k, l \in 1..n : order[k] < order[l] => k < l
    BY <1>3, <2>1
  <2>3. \A k \in 1..n : order[k] \in Int /\ k \in Int
    BY <1>3
  <2>4. \A k, l \in 1..n : order[k] = order[l] => k = l
    <3>1. SUFFICES ASSUME NEW k \in 1..n, NEW l \in 1..n, order[k] = order[l], k < l
                   PROVE  FALSE
      BY <2>3
    <3>2. ListedBefore(events, order[k], order[k])
      BY <1>3, <3>1
    <3> QED
      BY <1>3, <2>3, <3>2
  <2>5. \A k, l \in 1..n : k < l => order[k] < order[l]
    <3>1. SUFFICES ASSUME NEW k \in 1..n, NEW l \in 1..n, k < l, ~ (order[k] < order[l])
                   PROVE  FALSE
      OBVIOUS
    <3>2. order[l] < order[k] \/ order[k] = order[l]
      BY <2>3, <3>1
    <3> QED
      BY <2>2, <2>3, <2>4, <3>1, <3>2
  <2>6. ASSUME 1 \in 1..n PROVE order[1] = 1
    <3>1. PICK m \in 1..n : order[m] = 1
      BY <1>3, <2>6
    <3>2. CASE 1 < m
      <4>1. order[1] < 1
        BY <2>5, <2>6, <3>1, <3>2
      <4>2. order[1] \in 1..n
        BY <1>3, <2>6
      <4> QED
        BY <4>1, <4>2
    <3>3. CASE m = 1
      BY <3>1, <3>3
    <3> QED
      BY <3>2, <3>3
  <2>7. ASSUME NEW k \in 1..n, k + 1 \in 1..n PROVE order[k + 1] = order[k] + 1
    <3>1. order[k] < order[k + 1] /\ order[k] \in 1..n /\ order[k + 1] \in 1..n
      <4>1. k < k + 1
        OBVIOUS
      <4>2. order[k] < order[k + 1]
        BY <2>5, <2>7, <4>1
      <4> QED
        BY <1>3, <2>7, <4>2
    <3>2. order[k] + 1 \in 1..n
      BY <1>2, <3>1
    <3>3. PICK m \in 1..n : order[m] = order[k] + 1
      BY <1>3, <3>2
    <3>4. k < m
      BY <2>2, <2>3, <3>3
    <3>5. CASE k + 1 < m
      <4>1. order[k + 1] < order[k] + 1
        BY <2>5, <2>7, <3>3, <3>5
      <4> QED
        BY <3>1, <4>1
    <3>6. CASE k + 1 = m
      BY <3>3, <3>6
    <3> QED
      BY <3>4, <3>5, <3>6
  <2> QED
    BY ONLY <1>2, <1>3, <2>6, <2>7, CountsUp
<1> QED
  BY <1>2, <1>7, <1>8 DEF events, order

\* An undamaged run verifies exactly when its listing is its append order: the length of
\* a digest is the append position of its receipt, so links that agree force the order.
LEMMA VerifiesIffListedInOrder ==
  ASSUME TypeOK, ChainLinked, HashCommitsToHistory, NEW run \in Runs
  PROVE  LET events == ledger[run]
         IN  VerifyHashChain(ListByRunId(events))
               <=> (\A k \in DOMAIN events : ListingOrder(events)[k] = k)
<1> DEFINE events == ledger[run]
           order == ListingOrder(events)
           listed == ListByRunId(events)
           n == Len(events)
<1>1. events \in Seq(StoredEvent)
  BY DEF TypeOK
<1>2. DOMAIN events = 1..n /\ n \in Nat
  BY <1>1
<1>3. /\ order \in [1..n -> 1..n]
      /\ DOMAIN listed = 1..n
      /\ \A k \in 1..n : listed[k] = events[order[k]]
  BY <1>1, <1>2, ListingProperties
<1>4. \A i \in 1..n :
        /\ events[i].prev_hash = IF i = 1 THEN NoHash ELSE events[i - 1].hash
        /\ events[i].hash = BuildEventHash(events[i].content, events[i].prev_hash)
  BY <1>2 DEF ChainLinked
<1>5. \A i \in 1..n : Len(events[i].hash) = i /\ Len(events[i].prev_hash) = i - 1
  BY <1>2, DigestLengths
<1>8. VerifyHashChain(listed) <=>
        \A k \in 1..n :
          /\ listed[k].prev_hash = IF k = 1 THEN NoHash ELSE listed[k - 1].hash
          /\ listed[k].hash = BuildEventHash(listed[k].content,
                                IF k = 1 THEN NoHash ELSE listed[k - 1].hash)
  BY <1>3 DEF VerifyHashChain, PreviousHash
<1> HIDE DEF order, listed, events, n
<1>9. ASSUME \A k \in 1..n : order[k] = k PROVE VerifyHashChain(listed)
  <2>1. \A k \in 1..n : listed[k] = events[k]
    BY <1>3, <1>9
  <2>2. \A k \in 1..n : k # 1 => k - 1 \in 1..n
    BY <1>2
  <2>3. \A k \in 1..n :
          events[k].prev_hash = IF k = 1 THEN NoHash ELSE listed[k - 1].hash
    BY <1>4, <2>1, <2>2
  <2> QED
    BY <1>4, <1>8, <2>1, <2>3
<1>10. ASSUME VerifyHashChain(listed) PROVE \A k \in 1..n : order[k] = k
  <2>1. ASSUME 1 \in 1..n PROVE order[1] = 1
    <3>1. listed[1].prev_hash = NoHash
      BY <1>8, <1>10, <2>1
    <3>2. order[1] \in 1..n /\ events[order[1]].prev_hash = NoHash
      BY <1>3, <2>1, <3>1
    <3>3. order[1] - 1 = 0
      BY <1>5, <3>2 DEF NoHash
    <3> QED
      BY <3>2, <3>3
  <2>2. ASSUME NEW k \in 1..n, k + 1 \in 1..n PROVE order[k + 1] = order[k] + 1
    <3>1. k + 1 # 1 /\ (k + 1) - 1 = k
      OBVIOUS
    <3>2. listed[k + 1].prev_hash = listed[k].hash
      BY <1>8, <1>10, <2>2, <3>1
    <3>3. /\ order[k] \in 1..n /\ order[k + 1] \in 1..n
          /\ events[order[k + 1]].prev_hash = events[order[k]].hash
      BY <1>3, <2>2, <3>2
    <3>4. order[k + 1] - 1 = order[k]
      BY <1>5, <3>3
    <3> QED
      BY <3>3, <3>4
  <2> QED
    BY ONLY <1>2, <1>3, <2>1, <2>2, CountsUp
<1> QED
  BY <1>2, <1>9, <1>10 DEF events, order, listed

\* Of undamaged storage the export fails exactly for the runs with a receipt that came
\* out of order: the chain is built in append order and verified in listing order.
THEOREM AuditExportedIffNoWarning == AuditSpec => []ExportedIffNoWarning
<1>1. AuditInv /\ ChainLinked /\ HashCommitsToHistory /\ WarningsExact => ExportedIffNoWarning
  <2> SUFFICES ASSUME AuditInv, ChainLinked, HashCommitsToHistory, WarningsExact,
                      stored = ledger, NEW decision \in Decisions, NEW run \in Runs,
                      RunsOf(decision) = {run}
               PROVE  ExportDecisionAudit(decision) = "EXPORTED"
                        <=> \A i \in DOMAIN stored[run] :
                              ~ stored[run][i].content.integrity_warning
    BY DEF ExportedIffNoWarning
  <2>1. ExportDecisionAudit(decision) = "EXPORTED" <=> VerifyHashChain(ListByRunId(stored[run]))
    BY ExportOfOneRun
  <2>2. TypeOK
    BY DEF AuditInv
  <2>3. VerifyHashChain(ListByRunId(ledger[run]))
          <=> (\A k \in DOMAIN ledger[run] : ListingOrder(ledger[run])[k] = k)
    BY <2>2, VerifiesIffListedInOrder
  <2>4. (\A k \in DOMAIN ledger[run] : ListingOrder(ledger[run])[k] = k)
          <=> (\A i \in DOMAIN ledger[run] : ~ ledger[run][i].content.integrity_warning)
    BY <2>2, ListedInOrderIffUnmarked
  <2> QED
    BY <2>1, <2>3, <2>4
<1> QED
  BY <1>1, AuditRowsAccounted, AuditImplementsLedger, LedgerChainLinked,
     LedgerHashCommitsToHistory, LedgerWarningsExact, PTL
================================================================================
