# A verification project for NightLedger

NightLedger records what autonomous agents do: agents post events ("receipts")
to runs, risky steps wait for a person's approval, an allowed or approved
purchase gets a short-lived token, and an auditor exports the receipts of a
decision with their hash chain. This directory holds TLA+ models of that
program, the TLC runs that check them and the proofs that TLAPS checks. Paths
below are relative to the repository unless they name a module here.

## 1. The system

| Component | Source (`src/nightledger_api/`) | State | Operations |
|---|---|---|---|
| event store, in memory (default) | `services/event_store.py` 60-136 | id index, records, last timestamp and last hash of each run; no lock | `append`, `list_by_run_id`, `list_all` |
| event store, SQLite | `services/event_store.py` 139-284 | table `events`, `UNIQUE(run_id, event_id)` | the same |
| business rules | `services/business_rules_service.py` | none | `validate_event_business_rules` |
| run status | `services/run_status_service.py` | none | `project_run_status`: fold of a timeline |
| approvals | `services/approval_service.py` | none of its own | register, resolve (by event, by decision), list, get; the demo's orchestration |
| audit export | `services/audit_export_service.py` | none | `export_decision_audit` |
| execution gate | `services/execution_token_service.py`, `services/execution_replay_store.py` | table `used_execution_tokens` | mint, verify, `consume_once` |
| policy | `services/authorize_action_service.py` | the rules file, parsed, with its modification time; no lock | load the rules, `evaluate_authorize_action`, `get_policy_catalog` |
| HTTP endpoints | `controllers/events_controller.py`, `main.py` | the store and the replay store, global | one function per endpoint |
| journal | `services/journal_projection_service.py` | none | projection of a timeline for display |
| MCP servers | `mcp_server.py`, `mcp_remote_server.py`, `mcp_protocol.py` | remote: table of sessions | initialize, tools, delete |
| web page | `apps/web` | loaded events, pending list, submissions under way | poll, show the last answer, submit a verdict |
| error presenters | `presenters/` | none | formatting |
| scripts | `tasks/` | none | shell scripts around the server |

How they interact. Every endpoint is a synchronous function, which FastAPI runs
in a pool of threads; the handlers share the store, the replay store and the
rules cache. A handler that writes to a run first reads the run (sometimes all
runs), decides, and appends in a later call of the store. Nothing locks the two
together, and the stores differ in what they lock themselves. Clients choose
event ids and timestamps; listings are by timestamp, the hash chain and the
SQLite warnings go by append order.

What is hard in this code: threads between the check and the append; order by
timestamp against order of appending; a crash or a lock timeout within an
append; clock seconds between verification, purge and insertion of a token; an
orchestration of three appends any of which may fail; sequences of legal calls
after which a run can no longer be read; rules edited between the two requests of an agent; lists that reach the
page out of order, and answers that do not reach it. `PROJECT.json` lists each of these
under `hazards`, at its line.

What makes the components correct:

- store: an id once per run, nothing stored ever changes, one chain in append
  order, warnings on late receipts. The two stores do not mean the same by late:
  in memory a receipt is compared with the newest one of its run, in SQLite with
  the one stored last;
- audit: an export is what the program wrote, from the first receipt on, and what
  the program wrote can be exported;
- run status: exactly the ill-formed timelines are refused, and the status is
  what the timeline means;
- approvals: registered once, given once, given only to the request that holds
  the run up, and always possible to give;
- execution gate: a token buys once, across threads and restarts, and each
  purchase has an allowance or an approval behind it;
- journal: it shows as waiting for a person what the status says is pending;
- policy: the strictest matching rule decides, on what the rules say now, and an
  agent that sends what the catalog asks for is never told that a field is missing;
- web page: a person decides once, and what is decided leaves the page;
- the whole: an agent that asks for a purchase is not left waiting.

## 2. The modules

| Module | Models | Proofs |
|---|---|---|
| `EventLedger` | the promise of a store: an atomic `append`, the listing, the hash chain | `EventLedgerProofs` |
| `InMemoryStore` | the in-memory `append`, in six steps | `InMemoryStoreProofs` |
| `SqliteStore` | the SQLite `append`: read, locked insert, commit, timeout, crash | `SqliteStoreProofs` |
| `AuditExport` | the export over the ledger, with rows of the storage lost or rewritten | `EventLedgerProofs` |
| `RunStatus` | the operators of the status projection | |
| `Journal` | the operators of the journal projection | |
| `ScanRun` | the projection's loop as a machine, against a declarative reading; the journal against the status | `ScanRunProofs` |
| `ApprovalGate` | all writers of timelines: ingestion with its rules, approvals, receipts, orchestration | `ApprovalGateProofs` |
| `ApprovalRaces` | the same, watched for requests that run into each other | `ApprovalGateProofs` |
| `ExecutionGate` | decision, mint, verification, consumption, receipts, clock, restarts, either event store | `ExecutionGateProofs` |
| `RuleEngine` | the operators of the policy: conditions, parser, decision, catalog | `PurchaseLoopProofs` |
| `RulesCache` | the cache of the rules file, under threads and edits | `PurchaseLoopProofs` |
| `TimelineController` | the web page: polling, answers in any order, submissions | `PurchaseLoopProofs` |
| `PurchaseLoop` | a purchase from catalog to token: agent, policy, approvals, person, page | `PurchaseLoopProofs` |

`SharedLemmas` holds what several proofs need: induction over the naturals for a set,
the least and the greatest of a set of naturals, and where the entries of a sequence
are after an insertion. The module `MCx` instantiates `x` for TLC. `InMemoryStore` and `SqliteStore`
instantiate `EventLedger` with their own records in place of `ledger`, so both
speak of the same properties. `AuditExport` extends `EventLedger`; `ScanRun` and
`ApprovalGate` extend `RunStatus`, `ScanRun` through `Journal`, and `ApprovalRaces`
extends `ApprovalGate`. `PurchaseLoop`
composes `RulesCache` and `RuleEngine` with `ApprovalGate` and
`TimelineController`, of which it takes the actions as they are.

Each module also holds definitions marked "Wrong:". They are plausible mistakes
in the definition that follows them and are used by no specification; putting
one in the place of the right definition must make the property named for it in
`PROJECT.json` fail.

### Stores

`EventLedger` keeps, per run, the receipts in append order. A digest is
represented by what it was computed from: SHA-256 is taken to be collision free,
so the digest of a receipt is the sequence of the contents hashed into it.
`AppendEvent` is the in-memory `append` as one step; a duplicate id leaves the
ledger as it is.

`InMemoryStore` splits that `append` at the calls in its body (`Begin` 68-83,
`ReadLink` 85-94, `Number` 96-106, `Index` 107, `Record` 108, `Publish` 109-110).
The refinement mapping drops the sequence numbers; the run's record list is the
ledger, so `Record` is the step that implements `AppendEvent`.

The store has no lock, so two threads that append to one run at once may store an
id twice or fork the chain (`inmemory_threads`). Nothing keeps this from happening,
and nothing more can be promised after it. The history variable `met` therefore
records, for every run, how many records it had when two appends to it were first
under way at once; no step reads it. The properties of the store speak of every run
up to that point (`apartView`), with any number of threads that append to the other
runs and share the counter with it.

`SqliteStore` has the read of the last row in autocommit mode (149-164), the
`INSERT` that takes the write lock and checks uniqueness (176-201), and the
commit. A thread that finds the lock taken waits (stutters) or times out. A
crash drops all appends under way: SQLite rolls back the open transaction.

### Audit export

The variable `ledger` is what the program appended and `stored` what the storage
returns: for each run, the rows that name it. The payload is reduced to the decision
id, the only part the export reads. The storage is damaged behind the program's back
in one of two ways, up to `MaxDamages` times: `LoseRow` takes a row out, and
`RewriteRow` changes one column of a row that is as the program wrote it. If that
column is `run_id` then the row is listed among those of another run from then on,
and if it is the sequence number then at another place. So the export is only asked
for what is true of it: a trace it returns is the beginning of what the program wrote
(`ExportedOnlyHistory`). The beginning, because a chain whose last rows are lost, or
moved to another run, is a shorter chain and verifies; the export keeps nothing
outside the chain that would tell. A row of which several columns are rewritten, its digest among
them, is outside this model.

### Run status and journal

An event is the fields the projection reads. The seven event types that the
projection does not single out are one, `"action"`; steps other than the four
terminal ones are `"other"`; approver and resolution time are present or not.
`ProjectStep` is one turn of the loop, with the checks in the order of the code.
`ScanRun` compares the loop with `WellFormed` and `Meaning`, which look at the
whole timeline at once. `Journal` has the entries of a run with their approval
indicator, and the endpoint's guard: a receipt, evidence for risky actions, and a
timeline that projects. The page shows "waiting" from these entries, so
`JournalTellsPending` says that the request which no later entry follows with a
mark of its own is the one the status reports.

### Writers of timelines

In `ApprovalGate` a timeline is in the order in which it is read. A handler is
two steps: the check on the timeline it has read, which leaves the event it is
about to append in `call`, and `StoreEvent`. The services take a timestamp after
the last event they have read, so their event lands after it; a client's event
lands anywhere. `StoreFails` is a taken id or a failing storage. The demo's gate
(`evt_triage_inbox_003` of `run_triage_inbox_demo_1`), when approved, makes the
handler go on to `"resume"` and `"complete"`, and on failure to `"error"`.

The id of a verdict contains the id of its target
(`apr_`, then target, verdict, time and a random part, joined by `_`). The field `answers` stands for that;
`IdPrefixes` says which ids begin with another one and an underscore, which is
what `_was_event_resolved` compares. The services draw an id that no receipt or
append has; `IdsLeft` is the bound that there is one, as `uuid4` never runs out.

Requests to one run do run into each other, and then some of the checks are out of
date when the event is stored: `approval_threads` shows one case. `ApprovalRaces`
adds three history variables, which no step of the program reads, and says with
them up to where the checks decide:

- `overtaken`: the threads whose run has changed since their handler read it, or since
  its own last append. `ResolutionLegal`, `ContinuationLegal` and
  `IngestKeepsReadable` are about appends of the other threads, among any requests
  to other runs and any failing ones to the same run.
- `answeredAtOnce`: the requests for which two answers have been under way at once.
  `ResolvedOnceApart` says that no other request is answered twice.
- `registeredAtOnce`: the same for the registrations of a decision and
  `RegisteredOnceApart`, over all runs.

`Addressable` needs none of them. `Unguarded` lists what the rules of ingestion accept
and the projection refuses; `IngestKeepsReadable` says that this is all.

### Execution gate

`now` is the wall clock in seconds, as the handlers compare it; it never goes
back. A request holds its token verified (`"purge"`), purged (`"insert"`), then
consumed (`"executed"`) or refused (`"blocked"`). The two uses of the replay
store's lock in `consume_once` are two steps. The policy's verdict is a free
choice; a decision id stands for the request it is a hash of. Of the stored
approvals only one thing is read here, whether `get_approval_decision_state`
answers approved: `approved` gains a decision when a verdict is stored
(`Approve`) and loses it when a later one is posted to `/v1/events`
(`Supersede`). `receipts` is the sequence of all that the gate and the approvals
have appended, the verdicts among them; their run and time do not matter.
`ReceiptFails` is a storage error at a receipt.

The replay store is always a file. The event store is one if it is configured so
(`backend`) and in memory otherwise, which is the default. `Restart` loses the
requests under way; of a store in memory it also loses the receipts and with them
the approvals, while clients keep their tokens and the replay store its rows.
`receipts` is not cut then, `lost` says how many of them the store no longer has. So
`PurchaseTrail` can say two things at once: whatever is configured, a purchase comes
after a mint for its decision and that after an allowance or an approval; and a store
in a file still has all three. A rejection after the mint does not take the token back,
which is why an approval that has once been given counts.

### Policy

In `RuleEngine` the condition of a rule is the tree `ast.parse` makes of it:
literals, `context.x` and `run.x`, `not`, `and`, `or`, and the comparisons `==`
and `>`. The tree is the list of its nodes, children before their parents, and a
parent names its children by their places; so `_eval` is a recursive function over
these places, and theorems can speak of it. An outcome is a value or a failure with
the code of the error raised. `Eval` gives every node its outcome from those of its
children, with the order of the code inside a node (`EvalTerms`, `CompareValues`), so
that it matters which term raises; the outcome of a term that the code never looks at
is in the table too, and no parent uses it. `ParseRulesCatalog` refuses the whole file for one
rule in error; `Decide` is the loop over the rules and `WinnerRule`.

`RulesCache` is `UserRulesRepository`: a text stands for the rules parsed from it
and for the version of its catalog, which is a hash of it. A load looks at the
file's time (`StatFile`), reads (`ReadFile`), and stores the time (`SetMtime`) and
the rules (`SetLoaded`); other threads step in between. The history variable
`raced` marks a cache whose time and rules come from two loads that interleaved
these assignments: the code admits this, and until the next edit the old rules
then stay under the new time. `CachedRulesCurrent` says that nothing else can make
the cache stale.

### Web page

`TimelineController` has the page's `pendingApprovals`, whether they are shown or
hidden behind "loading" or a message (`ready`), and `pendingSubmissionByEventId`
(`submitting`). Each request is in one of the slots `Lists` and `Posts` from being
sent until its answer is used, so answers come in any order. `PostFails` is a
connection that breaks before or after the server has the submission. After an
accepted submission the page reloads, and the item is submitting until that list
has come (`for` of a list request). The reload of the journal beside it changes
nothing here.

### A purchase from end to end

`PurchaseLoop` joins the components as the endpoints do. A request holds a thread
(`job`) from its start to its answer:

- `FetchCatalog` and `AnswerCatalog`: `GET /v1/policy/catalog`; `ReadCatalog` and
  `AnswerReader` are the same for other clients.
- `Authorize`, the steps of `RulesCache`, `AnswerAuthorize`, `StoreForBot`, and on
  an allowance `Mint`: `POST /v1/mcp/authorize_action`. The run facts are read
  before the rules are loaded; the version the agent names is compared after.
- `Register`: `POST /v1/approvals/requests`; `Poll`: the state of the decision;
  `Mint` and `RefuseToMint`: the token of an approved decision.
- `ListPending` and `ListUnreadable`: `GET /v1/approvals/pending`, over all runs.
- `Resolve`, `RefuseToResolve`, `StoreForPage`: the verdict by decision id.

The agent is a client that follows `docs/TECHNICAL_GUIDE.md`: it pins the catalog
version it has seen, sends the fields that catalog asks for, and starts over when
told that the version has changed. It is not part of the server; it polls without
giving up. In state `"bought"` it has its token; spending it is `ExecutionGate`'s.
`Judgements` is the table of the policy's answers, a set of records so that TLC
computes it once.

`VerdictIsStrictestMatch` compares what the code answers with `Policy`, which reads
the rules in ordinary logic, without order or short circuit and with the whole
purchase at hand. `OneVerdictUnlessBroken` relates a page that shows old lists, its
guard against a second click and the server's check before the append: together
they let two verdicts through only when a connection or an append has failed.

## 3. The runs

| Run | Question | Result |
|---|---|---|
| `audit_export` | ledger and export over storage with a row lost or rewritten | holds |
| `audit_out_of_order` | does untouched storage always verify? | no |
| `inmemory_apart` | does the in-memory store implement the ledger, up to where two appends to a run meet? | yes |
| `inmemory_threads` | ids once per run, with two threads? | no |
| `sqlite_threads` | what the SQLite store keeps under threads and crashes | holds |
| `sqlite_chain_fork` | one chain, with two threads? | no |
| `scan_run` | projection and journal against the meaning of a timeline | holds |
| `approval_gate` | ingestion, approvals, receipts, orchestration, up to where requests run into each other | holds |
| `approval_threads` | approvals given once, with two threads? | no |
| `execution_gate` | tokens used once, purchases accounted for, with either event store | holds |
| `execution_slow` | the same when two seconds may pass within a request | no |
| `purchase_loop` | policy, cache, approvals and page under edits and faults; does it end? | holds |

The five runs that end in a violation are disagreements of the code with its
documents; `PROJECT.json` quotes both under `findings`:

- two threads store one id twice in memory (RULE-CORE-003);
- two threads fork the SQLite hash chain (RULE-CORE-010);
- a late receipt, which is accepted with a warning, makes every later export of
  its run fail with `HASH_CHAIN_BROKEN`, since the chain is verified in timestamp
  order;
- two threads approve and reject one approval, after which the run is unreadable
  (RULE-GATE-003);
- a token is accepted twice when its row is purged while another request holds
  it verified.

Bounds.

- `audit_export`: two runs, four ids, three timestamps, four receipts, one row lost
  or rewritten. Four receipts of one run give a late receipt, a second late one,
  equal timestamps and damage at the start, in the middle and at the end of a chain;
  two runs give a row that moves to the other one. More damages are left to the proof.
- `inmemory_apart`: two threads, two runs, three ids, three timestamps, three records:
  a run can refuse a duplicate after a late record, two appends to different runs
  share one counter, and two appends to one run meet after a record and go on.
- `sqlite_threads`: one run (runs share nothing but the lock), two threads, four
  ids and rows, two timestamps. `ForkWidth` needs more rows than threads.
- `scan_run`: every timeline of up to five receipts of sixteen shapes and two
  ids. Two approvals, their verdicts and an event after them fit in five. Among
  the shapes are a verdict without its approver, a risky action without evidence
  and a receipt that carries a verdict without being one.
- `approval_gate`: two runs, four events in all, two threads (1.9 million states, two
  minutes). The demo's gate, its verdict and both continuations are four events; so
  are two requests of a run and their verdicts. Eight client events, one for each
  shape the rules or the projection single out, among them a second request whose id
  begins with the first one's. `Room` bounds the requests under way by the events
  there is room for.
- `execution_gate`: two decisions, two tokens, two threads, a token that lives
  one second, two seconds, either event store, any number of restarts, four receipts
  (approval or allowance, mint and purchase are the shortest trail; the fourth lets
  a rejection or a refusal come in between). Verdicts that are not `allow` have one
  effect, so `deny` stands for both. `MaxReceipts` bounds the list, as the receipts
  are never read.
- `purchase_loop`: one agent with one purchase, two threads, one edit out of four
  (to rules that ask for approval, to and from rules that read the run and compare
  texts, to a file in error), five receipts, two list requests and two
  submissions in flight, one fault. A purchase with an approval and one verdict
  has four receipts (judgement, request, verdict, token), and the fifth is a second
  verdict. One edit can fall between any two of the steps of a load or between the agent's
  two requests; two lists are what a stale answer needs; two submissions are what
  a lost answer and a second click need. Two bounds keep phases apart that share
  no state: the file is edited until the policy has answered (`PolicyInPlay`), and
  the page is opened once a request is registered or about to be (`PageOpen`).

Symmetry is used on ids, runs, tokens and threads where no `CHOOSE` depends on
them and no liveness is checked. Deadlock is not checked: every model stops at its
bounds, and a server that has nothing to do is no error.

Fairness. Only `purchase_loop` assumes any, for `BotEnds` (the agent gets its token
or learns that it may not have one) and `ResolvedLeavesPage` (a decided approval
leaves the page for good):

- weak fairness of each thread's handler: the server schedules its threads, and a
  handler waits for nobody;
- strong fairness of the agent's steps and of each submission: requests wait in a
  queue for a thread of the pool, which other clients keep busy now and then;
- weak fairness of the page's timer and of each list request: the timer fires every
  three seconds, and a request is answered or fails;
- strong fairness of a click on an approval: a person who is shown the request
  again and again decides in the end. It must be strong, as every refresh hides the
  list while it loads.

Edits, other clients and faults need not happen and are not fair. Each of these
conjuncts is needed: without any one of them TLC finds one of the two properties
violated.

## 4. What is proved

TLAPS proves the following for every value of the constants, so for any number
of runs, threads, tokens and receipts.

`EventLedgerProofs`: type, `UniqueEventIds`, `ChainLinked`,
`HashCommitsToHistory`, `WarningsExact`, from `Times \subseteq Int`. Each is
inductive together with the type; `HashCommitsToHistory` rests on `ChainLinked`.

The audit export is in the same module. `AuditImplementsLedger` says that what the
program appends under the export is a ledger, so that the theorems above hold of it;
`AuditRowsAccounted` gives the inductive invariant of the storage: each row is one the
program wrote for its run or one with a single column rewritten, however many rows are
lost or rewritten.

- The listing is defined by `CHOOSE`, so first one has to exist (`ListingExists`): the
  place of a receipt is one more than the number of receipts listed before it. These
  places are different and as many as the receipts, so all are taken
  (`InjectiveIsOnto`). A listing is then in order and holds each receipt
  (`ListingProperties`).
- `ExportedOnlyHistory`: digests are injective, so a row with one column rewritten
  whose digest was right has a digest that is not; verification recomputes the
  digest of every listed row, so all of them are as written. The length of such a
  digest is its append position (by `HashCommitsToHistory`), and links that agree make
  it one more than that of the row before: the listing has neither a gap nor another
  order than the program's, and starts where the run does.
- `ExportedIffNoWarning`: for the same reason links that agree along the listing force it to be the
  append order (`VerifiesIffListedInOrder`); and it is the append order exactly if no
  receipt is late (`ListedInOrderIffUnmarked`, with `WarningsExact`). This is why the
  runs of `audit_out_of_order` cannot be exported.

`SqliteStoreProofs`: type, `UniqueEventIds`, `AncestorLinked`, `WarningsByLink`,
`AppendOnly`. None is inductive alone, since an append stores what it read
earlier. `IInv` adds what is still true of an append under way: at most one
holds the lock (`LockExclusive`), the id of the one that does is new
(`InsertedIsNew`), its link is none or a stored row (`LinkCommitted`), and it is
marked exactly if the row it links to is newer (`WarningJustified`).

`ForkWidth`, that at most as many rows share a predecessor as there are threads, is
not inductive. `ForkBounded` counts with those rows the appends under way that will
link to the same predecessor. A commit moves one from the second count to the
first. A thread that reads a link reads the last row's digest, to which no row links
yet (`LastHashUnlinked`), so there only appends count, one per thread.

`ApprovalGateProofs`. The status is a fold over the timeline; `Loop` recovers from the
library's definition of the fold, by `NatSetInduction`, that the status of a timeline
with one more event is a turn of the loop from the status without it
(`ProjectAppend`). By another induction the pending request is a request of
the timeline, with its decision and no answer after it (`ProjectionKnows`).

- For any number of threads: type; `OrderInv`, that ids are used once per run (the
  store refuses others) and that an answer stands after its request, since the
  services take a time after the events they read, and events are inserted but never
  moved; and from it `Addressable`, that the request which holds a run up can be
  answered by its id: it is pending at the end of the run, so no answer follows it,
  and an answer elsewhere would.
- What is stored once, for any number of threads: `ApprovalOnceInv` is inductive. An
  answer or a registration under way is the first (`AnswersNew`, `RegistersNew`): its
  handler has looked, and if another has stored one since, both were under way at once,
  which `answeredAtOnce` and `registeredAtOnce` have noted (`AtOnce`). `ResolvedOnceApart`
  and `RegisteredOnceApart` follow.
- What an append does to its run, for any number of threads: `ApprovalUndisturbed` says
  that what a handler has read (`UpToDate`) is still so until it is overtaken. So an
  answer is for the request that is pending now, and as it lands last it takes the run
  on (`ResolutionLegal`); the demo's continuation finds its run approved, then
  running (`ContinuationLegal`); and an event that the rules accept is one that the
  loop takes, but for the four kinds in `Unguarded` (`IngestKeepsReadable`).

`SharedLemmas`: `NatSetInduction`. If a set holds zero and all successors of what it
holds but lacks `n`, then adding one maps its part up to `n`, which is finite,
one to one into that part without zero, against the pigeonhole principle
(`FS_PigeonHole`). `LeastOf` and `GreatestOf` follow from it, and give the `CHOOSE` of a
first or last place its meaning.

`ExecutionGateProofs`: type and `PurchaseTrail` without further assumptions;
`SingleUse` and `RememberedWhileValid` from `MaxLatency <= 1`, the assumption
`execution_slow` shows to be needed. `PurchaseTrail` rests on `TrailInv`: a request
which may mint has a receipt that entitles its decision, a token about to be issued
too, and an issued one has behind it, in this order, such a receipt and that of its
mint; what `get_approval_decision_state` calls approved is on record; and receipts
are only added, and lost only by a store in memory.
`SingleUse` needs that a token counts once
over its executions and the threads about to execute it, and that a token which
was consumed is still in the replay store whenever a thread that has verified it
can still insert it: verified before its expiry, with at most one second passed,
so no later than the expiry itself, where the purge does not take it yet.

`InMemoryStoreProofs`: type, `IndexesAgree` and the refinement `ImplementsLedger`, for
any number of threads. `IInv` says of every run on which no two appends have met that
either none is under way and the indexes agree with the records (`Settled`), or one is
(`OnlyAppender`), and then what it has found out is what the ledger would find at the
moment it is recorded: that the id is new, the warning and, once read, the link
(`Begun`). The indexes are not the records meanwhile: the last timestamp knows the event
from the beginning, the id index from before the record on, and the last hash is behind
until it is published (`Recorded`). A step of another thread to another run leaves all this alone, one to
the same run sets `met`. From then on the run is the ledger's up to its record number `met`, which no
step changes; so each step is an `AppendEvent` of the ledger or leaves `apartView` as it is.

`ScanRunProofs`: type, `RejectsExactlyIllFormed`, `ProjectionCorrect` and
`PendingIffPaused` without further assumptions, and `JournalTellsPending` from
`RequestsPending`, RULE-GATE-001, which ingestion enforces. The invariant says what
the loop's variables stand for (`Tracks`): a terminal receipt has been seen, a
refusal has, `pending` is the one open request. The legality of the receipts read
so far does not depend on the next one (`LegalPrefix`), and the check the loop makes
on the next one is exactly its legality (`StepErrorIsIllegality`).

`PurchaseLoopProofs`: every invariant of `purchase_loop`, for any rules, conditions,
purchases, threads, requests in flight and faults. The proof has these parts.

- The cache on its own (`CacheSpec`, whose requests may start at any time): type and
  `CachedRulesCurrent`. It needs that a load whose time is that of the file has read
  what is in the file (`LoadedIsCurrent`), as an edit between its look at the time and
  its reading has moved the file's time on; so no time in the cache or in a load is
  ahead of the file's (`TimesPast`). `LoopImplementsCache`: each step of the loop is a
  step of the cache or leaves it alone, so this holds in the loop (`LoopCacheCurrent`).
- The timelines: `LoopImplementsApprovals` is the refinement `Spec => Gate!Spec`, so
  that the endpoints of the loop do nothing that `ApprovalGate` does not have.
  `GateInv` keeps the types, an id once per run, and that an answer names a request of
  its run with the same decision. Such a request has a service's id and the demo's gate
  a client's, so no answer here starts the demo's continuation (`NothingFollows`).
- The policy. `EvaluateMeans` says what a condition's evaluation returns: the value that
  it means on the whole purchase, or a syntax or type error, or that an input is missing,
  and then the condition names one that was not sent. Node by node (`NodeMeans`), `all`
  and `any` are the delicate ones (`TermsMean`): what they return does not depend on the
  terms they skip. That the tables of outcomes and meanings are what their recursive
  definitions describe is proved by `NatSetInduction` (`EvalTable`, `MeaningTable`), and
  so is that the loop of `_winner_rule` ends with a matched rule that none outranks
  (`WinnerOutranked`). `DecideMeans` joins them. `LoopVerdictStrictest` follows once
  it is known that the stored answer is the policy's (`BotInv`): under the rules of
  the version the agent has pinned, on the facts of its run. `LoopFieldsSuffice` too,
  since every name that could be missing is one the catalog lists.
- `ServingInv`: a client is served by one thread, and an append under way is that of the
  submission its thread serves or of the agent, in a state in which it waits for one.
- `BuyInv`: an agent about to mint, or with its token, was allowed, or its decision has
  an answer of a person that says approved. `BoughtByRulesOrPerson` follows, as events stay.
- `OneVerdictUnlessBroken` combines the page and the server. `SubmissionsInv`: while
  nothing has broken, a submission in flight is one the page waits for and the only one
  for its item, and so is the list that reloads the page after it; so no second click
  gets through, whatever old lists show. `VerdictInv`: an answer under way is that of
  the submission its thread serves, and its decision has none yet. The handler has
  looked (`ResolveKeepsVerdicts`), and no other submission for the decision can store
  one in between (`StoreKeepsVerdicts`).

Assumptions: `RulesAssumption`, `PurchasesAssumption`, `LoopAssumption` (shapes and
distinctness of the constants; TLC evaluates them in every run that uses them). The
bounds `PolicyInPlay` and `PageOpen` are guards of the specification and so hold in
the theorems too: the policy is asked before anything stands in the agent's run
(`Resting`), which is why its run facts are those of an empty run.
`LoopFieldsSuffice` has the hypothesis `RulesReadKnownNames`, that the rules name only
fields an agent can send and facts of a run: the parser does not look at the names, and
a rule that asks for `context.nothing` fails for everyone. `MCPurchaseLoop` asserts it
of the rules it uses.

Model-checked only:

- the two liveness properties of `PurchaseLoop`, which need fairness;
- the five violations, which are counterexamples.

So every invariant and action property of a passing run is also a theorem.

Out of this prover's reach: liveness under fairness, `ENABLED`, and `RECURSIVE`
operators, of which the project has none. Induction with an operator for the predicate
is too, but a recursive function or a fold can be reasoned about with
`NatSetInduction`.

## 5. What is not modelled

- MCP servers: they decode a message, call `evaluate_authorize_action` and encode
  the answer. The only state is the table of remote sessions, to which `initialize`
  adds and from which `DELETE` removes.
- Error presenters: formatting without state. Errors are told apart by code where
  the program does so.
- The demo's `reset-seed` and the creation of the store on first use.
- The page of the run `demo`, which edits its own list, and all rendering.
- The agent's time limit on polling: it belongs to the client.
- Comparisons other than `==` and `>`; they evaluate both sides first, like these.
- Token signing and its configuration: a token was signed here or it was not.
- Schema validation beyond the shapes that pass it; RULE-RISK-005 (evidence) at
  ingestion. Its mirror in the journal is modelled.
- The migration of old SQLite schemas; scripts under `tasks/`.

## 6. Plan

Done, in this order: `EventLedger`, the two stores, `AuditExport`, `RunStatus` and
`ScanRun`, `ExecutionGate`, `ApprovalGate`, the proofs of the ledger, the SQLite
store and the gate; then `RuleEngine`, `RulesCache`, `TimelineController`, their
composition `PurchaseLoop` with its liveness, `Journal`, and the proofs of the
in-memory store's refinement, of the projection and of the cache; then the proofs of
`ForkWidth`, of the audit export and of `ApprovalGate`, and those of the policy and of
`PurchaseLoop`.

Left:

1. The demo's reset and the creation of the store, with requests under way.
2. Run facts over MCP, which are empty, against those over HTTP, which are not.
3. A run for two registrations of one decision at once, which `RegisteredOnceApart`
   leaves out: both are stored, by the same race as that of `approval_threads`.
