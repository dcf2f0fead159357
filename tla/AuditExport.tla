------------------------------ MODULE AuditExport ------------------------------
(***************************************************************************)
(* The audit export of a decision (services/audit_export_service.py) over  *)
(* the event ledger.  The payload of an event is reduced to its decision   *)
(* id, which is all the export reads of it.                                *)
(*                                                                         *)
(* The export promises tamper evidence, so the storage may be damaged      *)
(* behind the program's back (a damaged or edited SQLite file): rows are   *)
(* lost, or one column of a row is rewritten.  The variable ledger is what *)
(* the program appended, stored is what the export reads back.             *)
(***************************************************************************)
EXTENDS EventLedger, FiniteSets, SequencesExt

CONSTANTS
  NoDecision,   \* an event whose approval carries no decision id
  MaxEvents,    \* bound on the receipts stored, over all runs
  MaxDamages    \* bound on the rows lost or rewritten

ASSUME AuditAssumption ==
  /\ NoDecision \in Payloads
  /\ MaxEvents \in Nat
  /\ MaxDamages \in Nat

VARIABLES
  stored,   \* for each run, the rows that name it, by sequence
  damages   \* how many rows have been lost or rewritten

vars == <<ledger, stored, damages>>

Decisions == Payloads \ {NoDecision}

StoredPositions == UNION {{run} \X DOMAIN stored[run] : run \in Runs}

--------------------------------------------------------------------------------
(* _verify_hash_chain: the chain is followed over the events as listed. *)

PreviousHash(events, k) == IF k = 1 THEN NoHash ELSE events[k - 1].hash

\* Wrong: links are compared, digests are not computed again.
VerifyLinksOnly(events) ==
  \A k \in DOMAIN events : events[k].prev_hash = PreviousHash(events, k)

VerifyHashChain(events) ==
  \A k \in DOMAIN events :
    /\ events[k].prev_hash = PreviousHash(events, k)
    /\ events[k].hash = BuildEventHash(events[k].content, PreviousHash(events, k))

RunsOf(decision) ==
  {run \in Runs : \E i \in DOMAIN stored[run] :
                    stored[run][i].content.payload = decision}

\* The answer of export_decision_audit: the run whose trace is returned, or the
\* error code.
ExportDecisionAudit(decision) ==
  LET runs == RunsOf(decision)
      run  == CHOOSE r \in runs : TRUE
  IN  CASE runs = {}                                   -> "APPROVAL_NOT_FOUND"
        [] Cardinality(runs) > 1                       -> "CROSS_RUN_DECISION_TRACE"
        [] Cardinality(runs) = 1 /\ ~ VerifyHashChain(ListByRunId(stored[run]))
                                                       -> "HASH_CHAIN_BROKEN"
        [] OTHER                                       -> "EXPORTED"

--------------------------------------------------------------------------------
AuditInit ==
  /\ Init
  /\ stored = ledger
  /\ damages = 0

\* The program appends; once the storage is damaged it only reads.
Store ==
  /\ damages = 0
  /\ \E run \in Runs, id \in EventIds, timestamp \in Times, payload \in Payloads :
       /\ Cardinality(StoredPositions) < MaxEvents
       /\ AppendEvent(run, id, timestamp, payload)
  /\ stored' = ledger'
  /\ UNCHANGED damages

Damage ==
  /\ damages < MaxDamages
  /\ damages' = damages + 1
  /\ UNCHANGED ledger

Without(run, i) == [stored EXCEPT ![run] = RemoveAt(@, i)]

LoseRow(run, i) ==
  /\ Damage
  /\ stored' = Without(run, i)

Digests == {NoHash} \cup {stored[at[1]][at[2]].hash : at \in StoredPositions}

\* A row with one column rewritten, the run it names among them.
Rewritings(row) ==
  UNION {{[row EXCEPT !.content.run = r] : r \in Runs},
         {[row EXCEPT !.content.id = e] : e \in EventIds},
         {[row EXCEPT !.content.timestamp = t] : t \in Times},
         {[row EXCEPT !.content.payload = p] : p \in Payloads},
         {[row EXCEPT !.content.integrity_warning = w] : w \in BOOLEAN},
         {[row EXCEPT !.prev_hash = h] : h \in Digests},
         {[row EXCEPT !.hash = h] : h \in Digests}}

\* A row that is as the program wrote it is rewritten.  It then belongs to the run it
\* names; where it stands among that run's rows is another only if it is another run
\* or if the column rewritten is the row's sequence number.
RewriteRow(run, i, row) ==
  /\ Damage
  /\ \E j \in DOMAIN ledger[run] : stored[run][i] = ledger[run][j]
  /\ \E k \in 1..(Len(Without(run, i)[row.content.run]) + 1) :
       /\ row.content.run = run /\ row # stored[run][i] => k = i
       /\ stored' = [Without(run, i) EXCEPT ![row.content.run] = InsertAt(@, k, row)]

Corrupt ==
  \E run \in Runs : \E i \in DOMAIN stored[run] :
    \/ LoseRow(run, i)
    \/ \E row \in Rewritings(stored[run][i]) : RewriteRow(run, i, row)

AuditNext == Store \/ Corrupt

AuditSpec == AuditInit /\ [][AuditNext]_vars

--------------------------------------------------------------------------------
\* A trace is exported only from a listing that is what the program wrote, from the
\* run's first receipt on and in append order: a receipt that was rewritten in any
\* column, moved to another run or another place, or lost from among the others, is
\* found (RULE-CORE-010).  Receipts lost from the end of a run are not.
ExportedOnlyHistory ==
  \A decision \in Decisions :
    ExportDecisionAudit(decision) = "EXPORTED"
      => \A run \in RunsOf(decision) : IsPrefix(ListByRunId(stored[run]), ledger[run])

\* On undamaged storage, a decision recorded in one run is exported exactly when
\* no receipt of that run carries the integrity warning.
ExportedIffNoWarning ==
  stored = ledger =>
    \A decision \in Decisions : \A run \in Runs :
      RunsOf(decision) = {run} =>
        (ExportDecisionAudit(decision) = "EXPORTED"
           <=> \A i \in DOMAIN stored[run] : ~ stored[run][i].content.integrity_warning)

\* What RULE-CORE-010 asks of the export: the chain is defined in append order, so
\* storage that nobody touched never fails with HASH_CHAIN_BROKEN.
UntouchedChainVerifies ==
  stored = ledger =>
    \A decision \in Decisions : ExportDecisionAudit(decision) # "HASH_CHAIN_BROKEN"
================================================================================
