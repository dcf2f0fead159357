----------------------------- MODULE InMemoryStore -----------------------------
(***************************************************************************)
(* InMemoryAppendOnlyEventStore (services/event_store.py), the default     *)
(* backend.  FastAPI runs the synchronous handlers in a pool of threads    *)
(* and the store takes no lock, so append is split at the calls in its     *)
(* body, where the interpreter may switch threads:                         *)
(*   Begin    the duplicate check and the out-of-order check               *)
(*   ReadLink after model_dump: the run's last digest is read and the      *)
(*            receipt's own digest computed                                *)
(*   Number   after hashing: the sequence number, the record               *)
(*   Index    the event id enters the id index                             *)
(*   Record   the record enters the run's list                             *)
(*   Publish  the run's last digest is overwritten                         *)
(*                                                                         *)
(* As long as no two appends to a run are under way at once, the run is a  *)
(* run of EventLedger, whatever other threads do to other runs.  From the  *)
(* first time they are, it is not: the variable met, which the code does   *)
(* not have, says when that was.                                           *)
(***************************************************************************)
EXTENDS Integers, Sequences, FiniteSets

CONSTANTS
  Runs, EventIds, Payloads, Times,   \* as in EventLedger
  Threads,                           \* worker threads that serve requests
  MaxSequence,                       \* bound on the records stored
  NoTime                             \* absent from last_timestamp_by_run

ASSUME InMemoryAssumption ==
  /\ Times \subseteq Int
  /\ NoTime \notin Times
  /\ MaxSequence \in Nat

VARIABLES
  sequence,         \* the last sequence number given out
  idIndex,          \* for each run, the event ids it knows
  runRecords,       \* for each run, its records in append order
  lastTimestamp,    \* for each run, the largest timestamp seen, or NoTime
  lastHash,         \* for each run, the digest of the last record
  call,             \* for each thread, the append it executes
  met               \* for each run, how many records it held when two appends to
                    \* it were first under way at once, or Never

vars == <<sequence, idIndex, runRecords, lastTimestamp, lastHash, call, met>>

Never == -1

\* The records as the ledger's receipts: the sequence number is dropped.
ledgerView ==
  [run \in Runs |->
    [i \in DOMAIN runRecords[run] |->
      [content   |-> runRecords[run][i].content,
       prev_hash |-> runRecords[run][i].prev_hash,
       hash      |-> runRecords[run][i].hash]]]

Ledger == INSTANCE EventLedger WITH ledger <- ledgerView

\* The receipts of every run up to the point where two appends to it met.
apartView ==
  [run \in Runs |-> IF met[run] = Never THEN ledgerView[run]
                    ELSE SubSeq(ledgerView[run], 1, met[run])]

Apart == INSTANCE EventLedger WITH ledger <- apartView

--------------------------------------------------------------------------------
Steps == {"idle", "link", "number", "index", "record", "publish"}

\* A thread between two calls of append: it holds no receipt.
Idle == [pc |-> "idle"]

\* An append under way: the receipt built so far.
InCall ==
  [pc: Steps \ {"idle"}, content: Ledger!Content, prev_hash: Ledger!Hashes,
   sequence: 0..MaxSequence]

At(thread, pc) == call[thread].pc = pc

RunOf(thread) == call[thread].content.run

\* The thread executes an append to the run.
AppendsTo(thread, run) == ~ At(thread, "idle") /\ RunOf(thread) = run

InFlight == {thread \in Threads : call[thread].pc \in {"link", "number"}}

Init ==
  /\ sequence = 0
  /\ idIndex = [run \in Runs |-> {}]
  /\ runRecords = [run \in Runs |-> << >>]
  /\ lastTimestamp = [run \in Runs |-> NoTime]
  /\ lastHash = [run \in Runs |-> Ledger!NoHash]
  /\ call = [thread \in Threads |-> Idle]
  /\ met = [run \in Runs |-> Never]

\* Another append to the run is under way when this one begins.
Meet(thread, run) ==
  met' = IF met[run] = Never /\ \E other \in Threads \ {thread} : AppendsTo(other, run)
         THEN [met EXCEPT ![run] = Len(runRecords[run])] ELSE met

\* Wrong: an event as old as the newest one is marked too.
NotNewer(run, timestamp) ==
  lastTimestamp[run] # NoTime /\ timestamp <= lastTimestamp[run]

\* The event is older than the newest one the run has seen.
OutOfOrder(run, timestamp) ==
  lastTimestamp[run] # NoTime /\ timestamp < lastTimestamp[run]

\* Wrong: the run's last timestamp goes back with a late event.
BeginForgettingNewest(thread, run, id, timestamp, payload) ==
  /\ At(thread, "idle")
  /\ sequence + Cardinality(InFlight) < MaxSequence
  /\ id \notin idIndex[run]
  /\ lastTimestamp' = [lastTimestamp EXCEPT ![run] = timestamp]
  /\ call' = [call EXCEPT ![thread] =
                [pc        |-> "link",
                 content   |-> [run |-> run, id |-> id, timestamp |-> timestamp,
                                payload |-> payload,
                                integrity_warning |-> OutOfOrder(run, timestamp)],
                 prev_hash |-> Ledger!NoHash,
                 sequence  |-> 0]]
  /\ Meet(thread, run)
  /\ UNCHANGED <<sequence, idIndex, runRecords, lastHash>>

\* A duplicate id is refused here and nothing changes.
Begin(thread, run, id, timestamp, payload) ==
  /\ At(thread, "idle")
  /\ sequence + Cardinality(InFlight) < MaxSequence
  /\ id \notin idIndex[run]
  /\ lastTimestamp' = IF OutOfOrder(run, timestamp) THEN lastTimestamp
                      ELSE [lastTimestamp EXCEPT ![run] = timestamp]
  /\ call' = [call EXCEPT ![thread] =
                [pc        |-> "link",
                 content   |-> [run |-> run, id |-> id, timestamp |-> timestamp,
                                payload |-> payload,
                                integrity_warning |-> OutOfOrder(run, timestamp)],
                 prev_hash |-> Ledger!NoHash,
                 sequence  |-> 0]]
  /\ Meet(thread, run)
  /\ UNCHANGED <<sequence, idIndex, runRecords, lastHash>>

ReadLink(thread) ==
  /\ At(thread, "link")
  /\ call' = [call EXCEPT ![thread].pc = "number",
                          ![thread].prev_hash = lastHash[RunOf(thread)]]
  /\ UNCHANGED <<sequence, idIndex, runRecords, lastTimestamp, lastHash, met>>

\* Wrong: the number is taken before it is counted up.
NumberThenCount(thread) ==
  /\ At(thread, "number")
  /\ sequence' = sequence + 1
  /\ call' = [call EXCEPT ![thread].pc = "index", ![thread].sequence = sequence]
  /\ UNCHANGED <<idIndex, runRecords, lastTimestamp, lastHash, met>>

Number(thread) ==
  /\ At(thread, "number")
  /\ sequence' = sequence + 1
  /\ call' = [call EXCEPT ![thread].pc = "index", ![thread].sequence = sequence']
  /\ UNCHANGED <<idIndex, runRecords, lastTimestamp, lastHash, met>>

Index(thread) ==
  /\ At(thread, "index")
  /\ idIndex' = [idIndex EXCEPT ![RunOf(thread)] = @ \cup {call[thread].content.id}]
  /\ call' = [call EXCEPT ![thread].pc = "record"]
  /\ UNCHANGED <<sequence, runRecords, lastTimestamp, lastHash, met>>

NewRecord(thread) ==
  [sequence  |-> call[thread].sequence,
   content   |-> call[thread].content,
   prev_hash |-> call[thread].prev_hash,
   hash      |-> Ledger!BuildEventHash(call[thread].content, call[thread].prev_hash)]

Record(thread) ==
  /\ At(thread, "record")
  /\ runRecords' = [runRecords EXCEPT ![RunOf(thread)] = Append(@, NewRecord(thread))]
  /\ call' = [call EXCEPT ![thread].pc = "publish"]
  /\ UNCHANGED <<sequence, idIndex, lastTimestamp, lastHash, met>>

Publish(thread) ==
  /\ At(thread, "publish")
  /\ lastHash' = [lastHash EXCEPT ![RunOf(thread)] = NewRecord(thread).hash]
  /\ call' = [call EXCEPT ![thread] = Idle]
  /\ UNCHANGED <<sequence, idIndex, runRecords, lastTimestamp, met>>

Next ==
  \E thread \in Threads :
    \/ \E run \in Runs, id \in EventIds, timestamp \in Times, payload \in Payloads :
         Begin(thread, run, id, timestamp, payload)
    \/ ReadLink(thread)
    \/ Number(thread)
    \/ Index(thread)
    \/ Record(thread)
    \/ Publish(thread)

Spec == Init /\ [][Next]_vars

--------------------------------------------------------------------------------
StoredRecord ==
  [sequence: 1..MaxSequence, content: Ledger!Content, prev_hash: Ledger!Hashes,
   hash: Ledger!Hashes]

\* Types of the store's indexes and of the appends under way.
TypeOK ==
  /\ sequence \in 0..MaxSequence
  /\ idIndex \in [Runs -> SUBSET EventIds]
  /\ runRecords \in [Runs -> Seq(StoredRecord)]
  /\ lastTimestamp \in [Runs -> Times \cup {NoTime}]
  /\ lastHash \in [Runs -> Ledger!Hashes]
  /\ call \in [Threads -> InCall \cup {Idle}]
  /\ met \in [Runs -> Nat \cup {Never}]

\* Until two appends to a run are under way at once, the six steps of each append
\* implement the one atomic append of the ledger, among any steps of threads that
\* append to other runs: same refusals, same warnings, same links, same digests.
ImplementsLedger == Apart!Spec

\* Whenever no append to a run is under way, and no two ever were at once, the three
\* indexes say what a scan of the run's records would say: its ids, its largest
\* timestamp, its last digest.
IndexesAgree ==
  \A run \in Runs :
    met[run] = Never /\ (\A thread \in Threads : ~ AppendsTo(thread, run)) =>
      LET records == runRecords[run]
          times   == {records[i].content.timestamp : i \in DOMAIN records}
      IN  /\ idIndex[run] = {records[i].content.id : i \in DOMAIN records}
          /\ lastHash[run] = Ledger!LastHash(ledgerView[run])
          /\ IF times = {} THEN lastTimestamp[run] = NoTime
             ELSE /\ lastTimestamp[run] \in times
                  /\ \A t \in times : t <= lastTimestamp[run]

\* RULE-CORE-003: an id that already exists in a run is refused, so a run never
\* holds two receipts with one id.
UniqueEventIds == Ledger!UniqueEventIds

\* RULE-CORE-010: prev_hash is the digest of the prior event in append order.
ChainLinked == Ledger!ChainLinked
================================================================================
