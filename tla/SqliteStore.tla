------------------------------ MODULE SqliteStore ------------------------------
(***************************************************************************)
(* SQLiteAppendOnlyEventStore (services/event_store.py).  Each append      *)
(* opens a connection of its own.  It reads the run's last row in          *)
(* autocommit mode; the transaction begins only with the INSERT, which     *)
(* takes the database's one write lock, and ends with the commit at the    *)
(* exit of the with block.  So the row that was read may no longer be the  *)
(* last one when the new row is stored.                                    *)
(*                                                                         *)
(* The threads are those of one server or of several that share the file.  *)
(* A crash of the process rolls an open transaction back and keeps what    *)
(* was committed.                                                          *)
(***************************************************************************)
EXTENDS Integers, Sequences, FiniteSets

CONSTANTS
  Runs, EventIds, Payloads, Times,   \* as in EventLedger
  Threads,                           \* threads that may append
  MaxRows                            \* bound on the rows stored

ASSUME SqliteAssumption ==
  /\ Times \subseteq Int
  /\ IsFiniteSet(Threads)
  /\ MaxRows \in Nat

VARIABLES
  rows,   \* for each run, its committed rows by sequence
  call    \* for each thread, the append it executes

vars == <<rows, call>>

Ledger == INSTANCE EventLedger WITH ledger <- rows

--------------------------------------------------------------------------------
Idle == [pc |-> "idle"]

\* An append that has read the last row ("insert") and one that holds the write
\* lock with its row inserted and not yet committed ("commit").
InCall == [pc: {"insert", "commit"}, content: Ledger!Content, prev_hash: Ledger!Hashes]

Locked == \E thread \in Threads : call[thread].pc = "commit"

Init ==
  /\ rows = [run \in Runs |-> << >>]
  /\ call = [thread \in Threads |-> Idle]

\* Wrong: an event as old as the last one is marked too.
NotNewerThanLastRow(events, timestamp) ==
  events # << >> /\ timestamp <= events[Len(events)].content.timestamp

\* The out-of-order check looks at the last row only.
OlderThanLastRow(events, timestamp) ==
  events # << >> /\ timestamp < events[Len(events)].content.timestamp

ReadLastRow(thread, run, id, timestamp, payload) ==
  /\ call[thread].pc = "idle"
  /\ call' = [call EXCEPT ![thread] =
                [pc        |-> "insert",
                 content   |-> [run |-> run, id |-> id, timestamp |-> timestamp,
                                payload |-> payload,
                                integrity_warning |-> OlderThanLastRow(rows[run], timestamp)],
                 prev_hash |-> Ledger!LastHash(rows[run])]]
  /\ UNCHANGED rows

TakesLock(thread) ==
  /\ call[thread].pc = "insert"
  /\ ~ Locked

\* Wrong: no UNIQUE(run_id, event_id).
InsertUnchecked(thread) ==
  /\ TakesLock(thread)
  /\ Len(rows[call[thread].content.run]) < MaxRows
  /\ call' = [call EXCEPT ![thread].pc = "commit"]
  /\ UNCHANGED rows

Insert(thread) ==
  /\ TakesLock(thread)
  /\ Len(rows[call[thread].content.run]) < MaxRows
  /\ ~ Ledger!HasId(rows[call[thread].content.run], call[thread].content.id)
  /\ call' = [call EXCEPT ![thread].pc = "commit"]
  /\ UNCHANGED rows

\* Wrong: INSERT OR REPLACE.
ReplaceDuplicate(thread) ==
  /\ TakesLock(thread)
  /\ LET content == call[thread].content
         new == Ledger!NewStoredEvent(content, call[thread].prev_hash)
     IN  /\ Ledger!HasId(rows[content.run], content.id)
         /\ rows' = [rows EXCEPT ![content.run] =
                       [i \in DOMAIN @ |-> IF @[i].content.id = content.id THEN new ELSE @[i]]]
  /\ call' = [call EXCEPT ![thread] = Idle]

\* UNIQUE(run_id, event_id) fails: DuplicateEventError, nothing stored.
RefuseDuplicate(thread) ==
  /\ TakesLock(thread)
  /\ Ledger!HasId(rows[call[thread].content.run], call[thread].content.id)
  /\ call' = [call EXCEPT ![thread] = Idle]
  /\ UNCHANGED rows

\* Another connection holds the write lock for longer than the busy timeout.
TimeOutOnLock(thread) ==
  /\ call[thread].pc = "insert"
  /\ Locked
  /\ call' = [call EXCEPT ![thread] = Idle]
  /\ UNCHANGED rows

\* Wrong: the connection is returned with its receipt still in it.
CommitKeepingReceipt(thread) ==
  /\ call[thread].pc = "commit"
  /\ rows' = [rows EXCEPT ![call[thread].content.run] =
                Append(@, Ledger!NewStoredEvent(call[thread].content, call[thread].prev_hash))]
  /\ call' = [call EXCEPT ![thread].pc = "idle"]

Commit(thread) ==
  /\ call[thread].pc = "commit"
  /\ rows' = [rows EXCEPT ![call[thread].content.run] =
                Append(@, Ledger!NewStoredEvent(call[thread].content, call[thread].prev_hash))]
  /\ call' = [call EXCEPT ![thread] = Idle]

\* The process dies: every append under way is lost with its transaction.
Crash ==
  /\ call' = [thread \in Threads |-> Idle]
  /\ UNCHANGED rows

Next ==
  \/ \E thread \in Threads :
       \/ \E run \in Runs, id \in EventIds, timestamp \in Times, payload \in Payloads :
            ReadLastRow(thread, run, id, timestamp, payload)
       \/ Insert(thread)
       \/ RefuseDuplicate(thread)
       \/ TimeOutOnLock(thread)
       \/ Commit(thread)
  \/ Crash

Spec == Init /\ [][Next]_vars

--------------------------------------------------------------------------------
\* Types of the rows and of the appends under way.
TypeOK ==
  /\ rows \in [Runs -> Seq(Ledger!StoredEvent)]
  /\ call \in [Threads -> InCall \cup {Idle}]

\* Whatever the threads and crashes do, a run holds one row per event id
\* (RULE-CORE-003): a client that retries an append it got no answer to never
\* has it stored twice.
UniqueEventIds == Ledger!UniqueEventIds

\* Every row links to none or to a row of its run that was committed before it,
\* and its digest is that of its content and that link.
AncestorLinked ==
  \A run \in Runs : \A i \in DOMAIN rows[run] :
    LET event == rows[run][i]
    IN  /\ \/ event.prev_hash = Ledger!NoHash
           \/ \E j \in 1..(i - 1) : rows[run][j].hash = event.prev_hash
        /\ event.hash = Ledger!BuildEventHash(event.content, event.prev_hash)

\* A row is marked out of order exactly when it is older than the row it links to:
\* never without a newer row before it, but a late row that follows a late one, or
\* that raced with a newer one, is not marked (RULE-CORE-005 compares it with the
\* latest stored event of the run).
WarningsByLink ==
  \A run \in Runs : \A i \in DOMAIN rows[run] :
    rows[run][i].content.integrity_warning
      <=> \E j \in 1..(i - 1) :
            /\ rows[run][j].hash = rows[run][i].prev_hash
            /\ rows[run][i].content.timestamp < rows[run][j].content.timestamp

\* A predecessor is shared by at most as many rows as there are threads: the
\* chain forks no wider than the writers race, and one writer never forks it.
ForkWidth ==
  \A run \in Runs :
    LET links == {rows[run][i].prev_hash : i \in DOMAIN rows[run]}
    IN  \A h \in links :
          Cardinality({i \in DOMAIN rows[run] : rows[run][i].prev_hash = h})
            <= Cardinality(Threads)

\* A committed row is never changed, moved or removed, by a crash included.
AppendOnly == Ledger!AppendOnly

\* RULE-CORE-010: prev_hash is the digest of the prior event in append order.
ChainLinked == Ledger!ChainLinked
================================================================================
