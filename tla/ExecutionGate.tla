----------------------------- MODULE ExecutionGate -----------------------------
(***************************************************************************)
(* The way from a decision to a purchase: authorize_action and the mint    *)
(* endpoint sign a token, the executor verifies it, consumes its jti in    *)
(* the replay store (services/execution_replay_store.py) and leaves        *)
(* receipts.  Handlers run in server threads; a step is what a handler     *)
(* does between two points where another one can change what it has read.  *)
(*                                                                         *)
(* Time is the wall clock in whole seconds, as the handlers compare it,    *)
(* and never goes back.  MaxLatency bounds how many times its second       *)
(* changes between the verification of a token and the insertion of its    *)
(* jti: nothing in the code bounds it.                                     *)
(*                                                                         *)
(* The event store is in memory or an SQLite file, as the server was       *)
(* configured; the replay store is always a file.  The variable receipts   *)
(* is all that was ever appended to the event store, in order; of it the   *)
(* store holds what comes after the first lost of them.                    *)
(***************************************************************************)
EXTENDS Integers, Sequences

CONSTANTS
  Decisions,     \* decision ids
  Payloads,      \* payload hashes of purchases
  Verdicts,      \* of the policy: "allow", "requires_approval", "deny"
  Request,       \* the request of each decision: its id is a hash of it
  Tokens,        \* token ids (jti)
  Threads,       \* server threads
  Ttl,           \* seconds a token is valid
  MaxLatency,    \* see above
  MaxTime,       \* bound on the clock
  MaxReceipts,   \* bound on the receipts
  None           \* no token, no decision

Actions == {"purchase.create", "other"}

Claims ==
  [decision: Decisions, action: Actions, payload: Payloads, nbf: Nat, exp: Nat]

ASSUME GateAssumption ==
  /\ Request \in [Decisions -> [action: Actions, payload: Payloads]]
  /\ None \notin Claims \cup Decisions
  /\ Ttl \in Nat \ {0}
  /\ MaxLatency \in Nat
  /\ MaxTime \in Nat
  /\ MaxReceipts \in Nat

VARIABLES
  now,        \* the clock
  backend,    \* of the event store: "memory" or "sqlite"
  approved,   \* the decisions that get_approval_decision_state calls approved
  tokens,     \* for each jti, the claims signed under it, or None
  issued,     \* the tokens a client has been given
  used,       \* the rows of used_execution_tokens
  receipts,   \* the receipts of the gate and the verdicts, in append order
  lost,       \* how many of them the event store no longer holds
  executed,   \* for each token, how many "executed" responses it got
  call        \* for each thread, the request it handles

vars == <<now, backend, approved, tokens, issued, used, receipts, lost, executed, call>>

--------------------------------------------------------------------------------
Receipt ==
  [step: {"authorize_action_decision", "approval_resolved", "execution_token_minted",
          "purchase_executed", "execution_blocked"},
   decision: Decisions \cup {None},
   state: Verdicts \cup {"approved", "rejected", None}]

\* What a handler holds: a decision it may mint for ("mint"), a token whose
\* receipt is due ("issue"), a verified token before and after the purge
\* ("purge", "insert"), one it has consumed ("executed"), a refusal ("blocked").
Idle == [pc |-> "idle"]

Call ==
  {Idle}
    \cup [pc: {"mint"}, decision: Decisions, action: Actions, payload: Payloads]
    \cup [pc: {"issue", "executed"}, token: Tokens]
    \cup [pc: {"purge", "insert"}, token: Tokens, since: Nat]
    \cup [pc: {"blocked"}, decision: Decisions \cup {None}]

ReceiptOf(step, decision, state) == [step |-> step, decision |-> decision, state |-> state]

AppendReceipt(receipt) ==
  /\ Len(receipts) < MaxReceipts
  /\ receipts' = Append(receipts, receipt)

Become(thread, state) == call' = [call EXCEPT ![thread] = state]

Init ==
  /\ now = 0
  /\ backend \in {"memory", "sqlite"}
  /\ approved = {}
  /\ tokens = [token \in Tokens |-> None]
  /\ issued = {}
  /\ used = {}
  /\ receipts = << >>
  /\ lost = 0
  /\ executed = [token \in Tokens |-> 0]
  /\ call = [thread \in Threads |-> Idle]

--------------------------------------------------------------------------------
(* Decisions *)

\* An approval is stored, by the resolution of a request or by POST /v1/events,
\* and is the last verdict on its decision.  ApprovalGate has the writes in detail.
Approve(decision) ==
  /\ AppendReceipt(ReceiptOf("approval_resolved", decision, "approved"))
  /\ approved' = approved \cup {decision}
  /\ UNCHANGED <<now, backend, tokens, issued, used, lost, executed, call>>

\* Another verdict, posted with a later timestamp, is now the last one.
Supersede(decision) ==
  /\ decision \in approved
  /\ AppendReceipt(ReceiptOf("approval_resolved", decision, "rejected"))
  /\ approved' = approved \ {decision}
  /\ UNCHANGED <<now, backend, tokens, issued, used, lost, executed, call>>

\* POST /v1/mcp/authorize_action up to the receipt of the decision; state is the
\* verdict of the policy.
AuthorizeAction(thread, decision, state) ==
  /\ call[thread].pc = "idle"
  /\ AppendReceipt(ReceiptOf("authorize_action_decision", decision, state))
  /\ Become(thread, IF state = "allow"
                    THEN [pc |-> "mint", decision |-> decision,
                          action |-> Request[decision].action,
                          payload |-> Request[decision].payload]
                    ELSE Idle)
  /\ UNCHANGED <<now, backend, approved, tokens, issued, used, lost, executed>>

\* Wrong: the state of the decision is not looked at.
MintForAnyDecision(thread, decision, payload) ==
  /\ call[thread].pc = "idle"
  /\ Become(thread, [pc |-> "mint", decision |-> decision, action |-> "purchase.create",
                     payload |-> payload])
  /\ UNCHANGED <<now, backend, approved, tokens, issued, used, receipts, lost, executed>>

\* POST /v1/approvals/decisions/{decision_id}/execution-token: the state is read
\* here, the token signed in a later step, for the payload the caller names, even
\* if the approval has been superseded in between.
MintForDecision(thread, decision, payload) ==
  /\ call[thread].pc = "idle"
  /\ decision \in approved
  /\ Become(thread, [pc |-> "mint", decision |-> decision, action |-> "purchase.create",
                     payload |-> payload])
  /\ UNCHANGED <<now, backend, approved, tokens, issued, used, receipts, lost, executed>>

\* Wrong: the token is dated back for clients whose clock is slow.
MintDatedBack(thread, token) ==
  /\ call[thread].pc = "mint"
  /\ tokens[token] = None
  /\ tokens' = [tokens EXCEPT ![token] =
                  [decision |-> call[thread].decision, action |-> call[thread].action,
                   payload |-> call[thread].payload, nbf |-> now - 1, exp |-> now + Ttl]]
  /\ Become(thread, [pc |-> "issue", token |-> token])
  /\ UNCHANGED <<now, backend, approved, issued, used, receipts, lost, executed>>

\* mint_execution_token, under a jti never used before.
MintExecutionToken(thread, token) ==
  /\ call[thread].pc = "mint"
  /\ tokens[token] = None
  /\ tokens' = [tokens EXCEPT ![token] =
                  [decision |-> call[thread].decision, action |-> call[thread].action,
                   payload |-> call[thread].payload, nbf |-> now, exp |-> now + Ttl]]
  /\ Become(thread, [pc |-> "issue", token |-> token])
  /\ UNCHANGED <<now, backend, approved, issued, used, receipts, lost, executed>>

\* The receipt of the mint, and the answer that hands the token over.
IssueToken(thread) ==
  /\ call[thread].pc = "issue"
  /\ AppendReceipt(ReceiptOf("execution_token_minted",
                             tokens[call[thread].token].decision, None))
  /\ issued' = issued \cup {call[thread].token}
  /\ Become(thread, Idle)
  /\ UNCHANGED <<now, backend, approved, tokens, used, lost, executed>>

--------------------------------------------------------------------------------
(* POST /v1/executors/purchase.create *)

Verifies(claims, payload) ==
  /\ claims.nbf <= now
  /\ claims.action = "purchase.create"
  /\ claims.payload = payload
  /\ now < claims.exp

VerifyExecutionToken(thread, token, payload) ==
  /\ call[thread].pc = "idle"
  /\ Become(thread, IF Verifies(tokens[token], payload)
                    THEN [pc |-> "purge", token |-> token, since |-> now]
                    ELSE [pc |-> "blocked", decision |-> None])
  /\ UNCHANGED <<now, backend, approved, tokens, issued, used, receipts, lost, executed>>

\* A token that is malformed or not signed with a configured key.
RefuseForeignToken(thread) ==
  /\ call[thread].pc = "idle"
  /\ Become(thread, [pc |-> "blocked", decision |-> None])
  /\ UNCHANGED <<now, backend, approved, tokens, issued, used, receipts, lost, executed>>

\* Wrong: rows go in the second in which their token expires.
PurgeAtExpiry(thread) ==
  /\ call[thread].pc = "purge"
  /\ used' = {token \in used : now < tokens[token].exp}
  /\ Become(thread, [call[thread] EXCEPT !.pc = "insert"])
  /\ UNCHANGED <<now, backend, approved, tokens, issued, receipts, lost, executed>>

\* consume_once takes the store's lock twice: for the purge, then for the row.
PurgeExpired(thread) ==
  /\ call[thread].pc = "purge"
  /\ used' = {token \in used : ~ tokens[token].exp < now}
  /\ Become(thread, [call[thread] EXCEPT !.pc = "insert"])
  /\ UNCHANGED <<now, backend, approved, tokens, issued, receipts, lost, executed>>

InsertOrIgnore(thread) ==
  LET token == call[thread].token
  IN  /\ call[thread].pc = "insert"
      /\ used' = used \cup {token}
      /\ Become(thread, IF token \in used
                        THEN [pc |-> "blocked", decision |-> tokens[token].decision]
                        ELSE [pc |-> "executed", token |-> token])
      /\ UNCHANGED <<now, backend, approved, tokens, issued, receipts, lost, executed>>

RecordExecution(thread) ==
  /\ call[thread].pc = "executed"
  /\ AppendReceipt(ReceiptOf("purchase_executed",
                             tokens[call[thread].token].decision, None))
  /\ executed' = [executed EXCEPT ![call[thread].token] = @ + 1]
  /\ Become(thread, Idle)
  /\ UNCHANGED <<now, backend, approved, tokens, issued, used, lost>>

RecordBlock(thread) ==
  /\ call[thread].pc = "blocked"
  /\ AppendReceipt(ReceiptOf("execution_blocked", call[thread].decision, None))
  /\ Become(thread, Idle)
  /\ UNCHANGED <<now, backend, approved, tokens, issued, used, lost, executed>>

\* The append of a receipt fails: the request ends with a storage error, and what
\* was minted or consumed stays so.
ReceiptFails(thread) ==
  /\ call[thread].pc \in {"issue", "executed", "blocked"}
  /\ Become(thread, Idle)
  /\ UNCHANGED <<now, backend, approved, tokens, issued, used, receipts, lost, executed>>

--------------------------------------------------------------------------------
\* The next second, unless a verified token has waited MaxLatency of them.
Tick ==
  /\ now < MaxTime
  /\ \A thread \in Threads : call[thread].pc \in {"purge", "insert"} =>
       now < call[thread].since + MaxLatency
  /\ now' = now + 1
  /\ UNCHANGED <<backend, approved, tokens, issued, used, receipts, lost, executed, call>>

\* The server restarts: requests are lost, the replay database is kept, tokens are with
\* the clients.  The event store is kept if it is a file and starts empty if it is not.
Restart ==
  /\ call' = [thread \in Threads |-> Idle]
  /\ approved' = IF backend = "sqlite" THEN approved ELSE {}
  /\ lost' = IF backend = "sqlite" THEN lost ELSE Len(receipts)
  /\ UNCHANGED <<now, backend, tokens, issued, used, receipts, executed>>

Decide ==
  \E decision \in Decisions :
    \/ Approve(decision)
    \/ Supersede(decision)

Mint(thread) ==
  \/ \E decision \in Decisions :
       \/ \E state \in Verdicts :
            AuthorizeAction(thread, decision, state)
       \/ \E payload \in Payloads : MintForDecision(thread, decision, payload)
  \/ \E token \in Tokens : MintExecutionToken(thread, token)
  \/ IssueToken(thread)

Execute(thread) ==
  \/ \E token \in issued, payload \in Payloads : VerifyExecutionToken(thread, token, payload)
  \/ RefuseForeignToken(thread)
  \/ PurgeExpired(thread)
  \/ InsertOrIgnore(thread)
  \/ RecordExecution(thread)
  \/ RecordBlock(thread)
  \/ ReceiptFails(thread)

Next ==
  \/ Decide
  \/ \E thread \in Threads : Mint(thread) \/ Execute(thread)
  \/ Tick
  \/ Restart

Spec == Init /\ [][Next]_vars

--------------------------------------------------------------------------------
\* Types of the clock, the tokens, the stores and the requests under way.
TypeOK ==
  /\ now \in Nat
  /\ backend \in {"memory", "sqlite"}
  /\ approved \in SUBSET Decisions
  /\ tokens \in [Tokens -> Claims \cup {None}]
  /\ issued \in SUBSET Tokens
  /\ used \in SUBSET Tokens
  /\ receipts \in Seq(Receipt)
  /\ lost \in 0..Len(receipts)
  /\ executed \in [Tokens -> Nat]
  /\ call \in [Threads -> Call]

\* A token buys once, whatever threads present it, across restarts and after its
\* row in the replay store has been purged.
SingleUse == \A token \in Tokens : executed[token] <= 1

\* The replay store remembers a token that has bought for as long as the token
\* would still verify, restarts included.
RememberedWhileValid ==
  \A token \in Tokens :
    executed[token] > 0 /\ now <= tokens[token].exp => token \in used

\* What entitles a decision to a token: that the policy has allowed it, or that a
\* person has approved it.
Entitles(receipt, decision) ==
  receipt \in {ReceiptOf("authorize_action_decision", decision, "allow"),
              ReceiptOf("approval_resolved", decision, "approved")}

\* Behind every receipt of a purchase stands an earlier receipt of a token for the same
\* decision, and behind that one an allowance or an approval: a denied, rejected or
\* undecided decision never buys.  A store in a file holds all three, so the timeline
\* shows why there was a purchase; a store in memory may have lost the older ones in a
\* restart that the token outlived.
PurchaseTrail ==
  \A i \in DOMAIN receipts : receipts[i].step = "purchase_executed" =>
    \E j \in 1..(i - 1) : \E k \in 1..(j - 1) :
      /\ receipts[j].step = "execution_token_minted"
      /\ receipts[j].decision = receipts[i].decision
      /\ Entitles(receipts[k], receipts[i].decision)
      /\ backend = "sqlite" => k > lost
================================================================================
