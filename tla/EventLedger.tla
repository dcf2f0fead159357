------------------------------ MODULE EventLedger ------------------------------
(***************************************************************************)
(* What an event store of NightLedger promises (the EventStore protocol of *)
(* services/event_store.py): every run is an append-only list of receipts, *)
(* an event id is used once per run, a receipt that is older than one the  *)
(* run already holds is kept and marked, and the receipts of a run form a  *)
(* hash chain in append order.  An append is one atomic step here; the     *)
(* modules InMemoryStore and SqliteStore split it the way the two backends *)
(* do.                                                                     *)
(*                                                                         *)
(* SHA-256 is taken to be collision free, so a digest is represented by    *)
(* what it was computed from: the digest of a receipt with content c whose *)
(* predecessor has digest p is the sequence Append(p, c), and the null     *)
(* digest is the empty sequence.                                           *)
(***************************************************************************)
EXTENDS Integers, Sequences

CONSTANTS
  Runs,       \* run ids
  EventIds,   \* event ids a client may use
  Payloads,   \* what the rest of an event can say
  Times       \* timestamps, normalised to UTC by the schema

ASSUME TimesAssumption == Times \subseteq Int

VARIABLE ledger   \* for each run, its receipts in append order

--------------------------------------------------------------------------------
(* Digests and receipts. *)

Content ==
  [run: Runs, id: EventIds, timestamp: Times, payload: Payloads,
   integrity_warning: BOOLEAN]

Hashes == Seq(Content)

NoHash == << >>

\* Wrong: the digest leaves the predecessor out.
HashOfContentOnly(content, prev) == <<content>>

BuildEventHash(content, prev) == Append(prev, content)

StoredEvent ==
  [content: Content, prev_hash: Hashes, hash: Hashes]

\* Wrong: the digest of the oldest receipt (ORDER BY sequence ASC).
FirstHash(events) == IF events = << >> THEN NoHash ELSE events[1].hash

\* Wrong: the digest is computed again, without its predecessor, not read.
RehashedLast(events) ==
  IF events = << >> THEN NoHash
  ELSE BuildEventHash(events[Len(events)].content, NoHash)

LastHash(events) ==
  IF events = << >> THEN NoHash ELSE events[Len(events)].hash

\* Wrong: only the last receipt is compared.
HasIdInLast(events, id) == events # << >> /\ events[Len(events)].content.id = id

HasId(events, id) ==
  \E i \in DOMAIN events : events[i].content.id = id

\* Wrong: only the last receipt is compared.
OlderThanLastStored(events, timestamp) ==
  events # << >> /\ timestamp < events[Len(events)].content.timestamp

\* The run already holds a receipt with a later timestamp.
OlderThanStored(events, timestamp) ==
  \E i \in DOMAIN events : timestamp < events[i].content.timestamp

\* The receipt an append stores, given what it took to be the digest of the
\* run's last receipt and whether it found the event out of order.
NewStoredEvent(content, prev) ==
  [content |-> content, prev_hash |-> prev, hash |-> BuildEventHash(content, prev)]

--------------------------------------------------------------------------------
Init == ledger = [run \in Runs |-> << >>]

AppendEvent(run, id, timestamp, payload) ==
  /\ ~ HasId(ledger[run], id)
  /\ LET content == [run |-> run, id |-> id, timestamp |-> timestamp,
                     payload |-> payload,
                     integrity_warning |-> OlderThanStored(ledger[run], timestamp)]
     IN  ledger' = [ledger EXCEPT
                      ![run] = Append(@, NewStoredEvent(content, LastHash(@)))]

Next ==
  \E run \in Runs, id \in EventIds, timestamp \in Times, payload \in Payloads :
    AppendEvent(run, id, timestamp, payload)

Spec == Init /\ [][Next]_ledger

--------------------------------------------------------------------------------
(* What a reader sees. *)

\* Wrong: of receipts with one timestamp the newest comes first.
ListedBeforeTiesReversed(events, i, j) ==
  \/ events[i].content.timestamp < events[j].content.timestamp
  \/ events[i].content.timestamp = events[j].content.timestamp /\ i > j

\* Receipt i of a run comes before receipt j in a listing: by timestamp, and by
\* insertion sequence when the timestamps are equal.
ListedBefore(events, i, j) ==
  \/ events[i].content.timestamp < events[j].content.timestamp
  \/ /\ events[i].content.timestamp = events[j].content.timestamp
     /\ i < j

\* The append positions of a run's receipts in listing order.
ListingOrder(events) ==
  CHOOSE order \in [DOMAIN events -> DOMAIN events] :
    \A k, l \in DOMAIN events :
      k < l => ListedBefore(events, order[k], order[l])

ListByRunId(events) ==
  LET order == ListingOrder(events)
  IN  [k \in DOMAIN events |-> events[order[k]]]

--------------------------------------------------------------------------------
(* Properties of a store, as predicates of the ledger. *)

TypeOK == ledger \in [Runs -> Seq(StoredEvent)]

\* No run holds two receipts with the same event id (RULE-CORE-003).
UniqueEventIds ==
  \A run \in Runs : \A i, j \in DOMAIN ledger[run] :
    ledger[run][i].content.id = ledger[run][j].content.id => i = j

\* Every receipt names its predecessor in append order, the first one none, and
\* its own digest is that of its content and that predecessor (RULE-CORE-010).
ChainLinked ==
  \A run \in Runs : \A i \in DOMAIN ledger[run] :
    LET event == ledger[run][i]
    IN  /\ event.prev_hash = IF i = 1 THEN NoHash ELSE ledger[run][i - 1].hash
        /\ event.hash = BuildEventHash(event.content, event.prev_hash)

\* The digest of a receipt commits to the content of every receipt up to it, in
\* append order: to know one digest is to know the whole history before it.
HashCommitsToHistory ==
  \A run \in Runs : \A i \in DOMAIN ledger[run] :
    ledger[run][i].hash = [k \in 1..i |-> ledger[run][k].content]

\* A receipt is marked out of order exactly when the run held a later timestamp
\* at the time it was appended (RULE-CORE-005).
WarningsExact ==
  \A run \in Runs : \A i \in DOMAIN ledger[run] :
    ledger[run][i].content.integrity_warning
      <=> \E j \in 1..(i - 1) :
            ledger[run][i].content.timestamp < ledger[run][j].content.timestamp

\* A stored receipt is never changed, moved or removed by a step of the store.
AppendOnly ==
  [][\A run \in Runs :
       /\ Len(ledger[run]) <= Len(ledger'[run])
       /\ \A i \in DOMAIN ledger[run] : ledger'[run][i] = ledger[run][i]]_ledger
================================================================================
