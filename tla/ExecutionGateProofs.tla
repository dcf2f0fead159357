-------------------------- MODULE ExecutionGateProofs --------------------------
(***************************************************************************)
(* A token buys once, for any number of threads, tokens and restarts, if   *)
(* the clock's second changes at most once between the verification of a   *)
(* token and the insertion of its jti.                                     *)
(*                                                                         *)
(* The argument: a token that is about to be inserted has verified at      *)
(* least a second before it expires, so it has not passed its expiry yet;  *)
(* and the row of a token that has not passed its expiry is not purged.    *)
(* UseInv says this of the threads; PurchaseTrail needs another invariant, *)
(* TrailInv, on what entitled the tokens.                                  *)
(***************************************************************************)
EXTENDS ExecutionGate, TLAPS

Minted(token) == tokens[token] # None

InFlight == {"purge", "insert"}

Held == {"issue", "purge", "insert", "executed"}

\* Every token a client or a handler has is minted: its claims exist.
IssuedMinted == \A token \in issued : Minted(token)

HeldMinted == \A t \in Threads : call[t].pc \in Held => Minted(call[t].token)

TypeInv == TypeOK /\ IssuedMinted /\ HeldMinted

\* A verified token verified before it expired and at most MaxLatency seconds ago.
VerifiedInTime ==
  \A t \in Threads : call[t].pc \in InFlight =>
    /\ call[t].since <= now
    /\ now <= call[t].since + MaxLatency
    /\ call[t].since < tokens[call[t].token].exp

\* A token that has bought, or is about to be recorded as bought, is remembered
\* until it has passed its expiry.
Spent(token) ==
  \/ executed[token] > 0
  \/ \E t \in Threads : call[t].pc = "executed" /\ call[t].token = token

SpentRemembered ==
  \A token \in Tokens : Spent(token) =>
    /\ Minted(token)
    /\ token \in used \/ tokens[token].exp < now

\* Only one thread holds a consumed token, and it has not bought before.
ConsumedOnce ==
  \A t \in Threads : call[t].pc = "executed" =>
    /\ executed[call[t].token] = 0
    /\ \A u \in Threads : call[u].pc = "executed" /\ call[u].token = call[t].token => u = t

UseInv ==
  /\ TypeInv
  /\ VerifiedInTime
  /\ SpentRemembered
  /\ ConsumedOnce
  /\ SingleUse

--------------------------------------------------------------------------------
\* The fields a handler holds, by the point it has reached.
LEMMA CallType ==
  ASSUME TypeOK, NEW t \in Threads
  PROVE  /\ call[t].pc \in Held => call[t].token \in Tokens
         /\ call[t].pc \in InFlight => call[t].since \in Nat
         /\ call[t].pc = "mint" => /\ call[t].decision \in Decisions
                                   /\ call[t].action \in Actions
                                   /\ call[t].payload \in Payloads
         /\ call[t].pc = "blocked" => call[t].decision \in Decisions \cup {None}
<1>1. call[t] \in Call
  BY DEF TypeOK
<1> QED
  BY <1>1 DEF Call, Idle, InFlight, Held

\* A verified token under way.
LEMMA InFlightType ==
  ASSUME TypeOK, NEW t \in Threads, call[t].pc \in InFlight
  PROVE  call[t] \in [pc: {"purge", "insert"}, token: Tokens, since: Nat]
<1>1. call[t] \in Call
  BY DEF TypeOK
<1> QED
  BY <1>1 DEF Call, Idle, InFlight

\* The claims of a minted token.
LEMMA MintedType ==
  ASSUME TypeOK, NEW token \in Tokens, Minted(token)
  PROVE  tokens[token] \in Claims /\ tokens[token].exp \in Nat
                                  /\ tokens[token].decision \in Decisions
BY DEF TypeOK, Minted, Claims

\* The thread that moves, and the others, after a step that keeps the tokens.
LEMMA BecomeKeepsHeld ==
  ASSUME TypeInv, NEW t \in Threads, NEW state \in Call, Become(t, state),
         tokens' = tokens,
         state.pc \in Held => Minted(state.token)
  PROVE  /\ call' \in [Threads -> Call]
         /\ HeldMinted'
<1>1. /\ call' \in [Threads -> Call]
      /\ call'[t] = state
      /\ \A u \in Threads : u # t => call'[u] = call[u]
  BY DEF TypeInv, TypeOK, Become
<1>2. HeldMinted'
  BY <1>1 DEF TypeInv, HeldMinted, Minted
<1> QED
  BY <1>1, <1>2

\* An idle handler holds nothing.
LEMMA IdleIsCall == Idle \in Call /\ Idle.pc = "idle" /\ Idle.pc \notin Held
BY DEF Idle, Call, Held

\* Appending a receipt keeps the type of the receipts, and loses none.
LEMMA ReceiptType ==
  ASSUME TypeOK, NEW receipt \in Receipt, AppendReceipt(receipt)
  PROVE  receipts' \in Seq(Receipt) /\ lost \in 0..Len(receipts')
BY DEF TypeOK, AppendReceipt

\* Nothing is minted at the start.
LEMMA InitTypeInv == Init => TypeInv
BY DEF Init, TypeInv, TypeOK, Call, Idle, IssuedMinted, HeldMinted, Held

\* A verdict leaves a receipt and touches the approvals.
LEMMA DecideType == TypeInv /\ Decide => TypeInv'
<1> SUFFICES ASSUME TypeInv, NEW decision \in Decisions,
                    Approve(decision) \/ Supersede(decision)
             PROVE  TypeInv'
  BY DEF Decide
<1>1. /\ approved' \in SUBSET Decisions
      /\ UNCHANGED <<now, backend, tokens, issued, used, lost, executed, call>>
  BY DEF TypeInv, TypeOK, Approve, Supersede
<1>2. PICK receipt \in Receipt : AppendReceipt(receipt)
  BY DEF Approve, Supersede, ReceiptOf, Receipt
<1>3. receipts' \in Seq(Receipt) /\ lost \in 0..Len(receipts')
  BY <1>2, ReceiptType DEF TypeInv
<1> QED
  BY <1>1, <1>3 DEF TypeInv, TypeOK, IssuedMinted, HeldMinted, Minted

\* Minting puts a token with claims into the hands of the handler.
LEMMA MintType ==
  ASSUME TypeInv, NEW t \in Threads, Mint(t)
  PROVE  TypeInv'
<1>1. ASSUME NEW decision \in Decisions,
             NEW state \in Verdicts,
             AuthorizeAction(t, decision, state)
      PROVE  TypeInv'
  <2> DEFINE next == IF state = "allow"
                     THEN [pc |-> "mint", decision |-> decision,
                           action |-> Request[decision].action,
                           payload |-> Request[decision].payload]
                     ELSE Idle
  <2>1. next \in Call /\ next.pc \notin Held
    <3>1. Request[decision].action \in Actions /\ Request[decision].payload \in Payloads
      BY GateAssumption
    <3> QED
      BY <3>1 DEF Call, Idle, Held
  <2>2. ReceiptOf("authorize_action_decision", decision, state) \in Receipt
    BY DEF ReceiptOf, Receipt
  <2>3. receipts' \in Seq(Receipt) /\ lost \in 0..Len(receipts')
    BY <1>1, <2>2, ReceiptType DEF AuthorizeAction, TypeInv
  <2>4. call' \in [Threads -> Call] /\ HeldMinted'
    BY <1>1, <2>1, BecomeKeepsHeld DEF AuthorizeAction
  <2> QED
    BY <1>1, <2>3, <2>4 DEF TypeInv, TypeOK, IssuedMinted, Minted, AuthorizeAction
<1>2. ASSUME NEW decision \in Decisions, NEW payload \in Payloads,
             MintForDecision(t, decision, payload)
      PROVE  TypeInv'
  <2> DEFINE next == [pc |-> "mint", decision |-> decision, action |-> "purchase.create",
                      payload |-> payload]
  <2>1. next \in Call /\ next.pc \notin Held
    BY DEF Call, Actions, Held
  <2>2. call' \in [Threads -> Call] /\ HeldMinted'
    BY <1>2, <2>1, BecomeKeepsHeld DEF MintForDecision
  <2> QED
    BY <1>2, <2>2 DEF TypeInv, TypeOK, IssuedMinted, Minted, MintForDecision
<1>3. ASSUME NEW token \in Tokens, MintExecutionToken(t, token)
      PROVE  TypeInv'
  <2> DEFINE claims == [decision |-> call[t].decision, action |-> call[t].action,
                        payload |-> call[t].payload, nbf |-> now, exp |-> now + Ttl]
  <2>1. claims \in Claims /\ claims # None
    BY <1>3, CallType, GateAssumption DEF MintExecutionToken, Claims, TypeInv, TypeOK
  <2> HIDE DEF claims
  <2>2. tokens' = [tokens EXCEPT ![token] = claims]
    BY <1>3 DEF MintExecutionToken, claims
  <2>3. /\ tokens' \in [Tokens -> Claims \cup {None}]
        /\ tokens'[token] # None
        /\ \A x \in Tokens : tokens[x] # None => tokens'[x] # None
    BY <2>1, <2>2 DEF TypeInv, TypeOK
  <2>4. [pc |-> "issue", token |-> token] \in Call
    BY DEF Call
  <2>5. /\ call' \in [Threads -> Call]
        /\ call'[t] = [pc |-> "issue", token |-> token]
        /\ \A u \in Threads : u # t => call'[u] = call[u]
    BY <1>3, <2>4 DEF TypeInv, TypeOK, Become, MintExecutionToken
  <2>6. HeldMinted'
    <3> SUFFICES ASSUME NEW u \in Threads, call'[u].pc \in Held
                 PROVE  tokens'[call'[u].token] # None
      BY DEF HeldMinted, Minted
    <3>1. CASE u = t
      BY <2>3, <2>5, <3>1
    <3>2. CASE u # t
      <4>1. call'[u] = call[u] /\ call[u].token \in Tokens
        BY <2>5, <3>2, CallType DEF TypeInv
      <4> QED
        BY <2>3, <4>1 DEF TypeInv, HeldMinted, Minted
    <3> QED
      BY <3>1, <3>2
  <2>7. IssuedMinted' /\ issued' \in SUBSET Tokens
    BY <1>3, <2>3 DEF MintExecutionToken, TypeInv, TypeOK, IssuedMinted, Minted
  <2> QED
    BY <1>3, <2>3, <2>5, <2>6, <2>7 DEF TypeInv, TypeOK, MintExecutionToken
<1>4. CASE IssueToken(t)
  <2> DEFINE token == call[t].token
  <2>1. token \in Tokens /\ Minted(token)
    BY <1>4, CallType DEF IssueToken, TypeInv, HeldMinted, Held
  <2>2. call' \in [Threads -> Call] /\ HeldMinted'
    BY <1>4, IdleIsCall, BecomeKeepsHeld DEF IssueToken
  <2>3. ReceiptOf("execution_token_minted", tokens[token].decision, None) \in Receipt
    BY <2>1, MintedType DEF TypeInv, ReceiptOf, Receipt
  <2>4. receipts' \in Seq(Receipt) /\ lost \in 0..Len(receipts')
    BY <1>4, <2>3, ReceiptType DEF IssueToken, TypeInv
  <2>5. issued' \in SUBSET Tokens /\ IssuedMinted'
    BY <1>4, <2>1 DEF IssueToken, TypeInv, TypeOK, IssuedMinted, Minted
  <2> QED
    BY <1>4, <2>2, <2>4, <2>5 DEF TypeInv, TypeOK, IssueToken
<1> QED
  BY <1>1, <1>2, <1>3, <1>4 DEF Mint

\* The executor handles only tokens that clients were given.
LEMMA ExecuteType ==
  ASSUME TypeInv, NEW t \in Threads, Execute(t)
  PROVE  TypeInv'
<1>1. ASSUME NEW token \in issued, NEW payload \in Payloads,
             VerifyExecutionToken(t, token, payload)
      PROVE  TypeInv'
  <2> DEFINE next == IF Verifies(tokens[token], payload)
                     THEN [pc |-> "purge", token |-> token, since |-> now]
                     ELSE [pc |-> "blocked", decision |-> None]
  <2>1. token \in Tokens /\ Minted(token) /\ now \in Nat
    BY DEF TypeInv, TypeOK, IssuedMinted
  <2>2. next \in Call /\ (next.pc \in Held => Minted(next.token))
    BY <2>1 DEF Call, Held
  <2>3. call' \in [Threads -> Call] /\ HeldMinted'
    BY <1>1, <2>2, BecomeKeepsHeld DEF VerifyExecutionToken
  <2> QED
    BY <1>1, <2>3 DEF TypeInv, TypeOK, IssuedMinted, Minted, VerifyExecutionToken
<1>2. CASE RefuseForeignToken(t)
  <2>1. [pc |-> "blocked", decision |-> None] \in Call
    BY DEF Call
  <2>2. call' \in [Threads -> Call] /\ HeldMinted'
    BY <1>2, <2>1, BecomeKeepsHeld DEF RefuseForeignToken, Held
  <2> QED
    BY <1>2, <2>2 DEF TypeInv, TypeOK, IssuedMinted, Minted, RefuseForeignToken
<1>3. CASE PurgeExpired(t)
  <2> DEFINE next == [call[t] EXCEPT !.pc = "insert"]
  <2>1. call[t] \in [pc: {"purge", "insert"}, token: Tokens, since: Nat]
    BY <1>3, InFlightType DEF PurgeExpired, TypeInv, InFlight
  <2>2. next \in Call /\ next.token = call[t].token
    BY <2>1 DEF Call
  <2>3. Minted(next.token)
    BY <1>3, <2>2 DEF PurgeExpired, TypeInv, HeldMinted, Held
  <2>4. call' \in [Threads -> Call] /\ HeldMinted'
    BY <1>3, <2>2, <2>3, BecomeKeepsHeld DEF PurgeExpired
  <2> QED
    BY <1>3, <2>4 DEF TypeInv, TypeOK, IssuedMinted, Minted, PurgeExpired
<1>4. CASE InsertOrIgnore(t)
  <2> DEFINE token == call[t].token
             next == IF token \in used
                     THEN [pc |-> "blocked", decision |-> tokens[token].decision]
                     ELSE [pc |-> "executed", token |-> token]
  <2>1. token \in Tokens /\ Minted(token)
    BY <1>4, CallType DEF InsertOrIgnore, TypeInv, HeldMinted, Held
  <2>2. tokens[token].decision \in Decisions
    BY <2>1, MintedType DEF TypeInv
  <2>3. next \in Call /\ (next.pc \in Held => Minted(next.token))
    BY <2>1, <2>2 DEF Call, Held
  <2>4. call' \in [Threads -> Call] /\ HeldMinted'
    BY <1>4, <2>3, BecomeKeepsHeld DEF InsertOrIgnore
  <2> QED
    BY <1>4, <2>1, <2>4 DEF TypeInv, TypeOK, IssuedMinted, Minted, InsertOrIgnore
<1>5. CASE RecordExecution(t)
  <2> DEFINE token == call[t].token
  <2>1. token \in Tokens /\ Minted(token)
    BY <1>5, CallType DEF RecordExecution, TypeInv, HeldMinted, Held
  <2>2. call' \in [Threads -> Call] /\ HeldMinted'
    BY <1>5, IdleIsCall, BecomeKeepsHeld DEF RecordExecution
  <2>3. ReceiptOf("purchase_executed", tokens[token].decision, None) \in Receipt
    BY <2>1, MintedType DEF TypeInv, ReceiptOf, Receipt
  <2>4. receipts' \in Seq(Receipt) /\ lost \in 0..Len(receipts')
    BY <1>5, <2>3, ReceiptType DEF RecordExecution, TypeInv
  <2>5. executed' \in [Tokens -> Nat]
    BY <1>5, <2>1 DEF RecordExecution, TypeInv, TypeOK
  <2> QED
    BY <1>5, <2>2, <2>4, <2>5 DEF TypeInv, TypeOK, IssuedMinted, Minted, RecordExecution
<1>6. CASE RecordBlock(t)
  <2>1. call' \in [Threads -> Call] /\ HeldMinted'
    BY <1>6, IdleIsCall, BecomeKeepsHeld DEF RecordBlock
  <2>2. ReceiptOf("execution_blocked", call[t].decision, None) \in Receipt
    BY <1>6, CallType DEF RecordBlock, TypeInv, ReceiptOf, Receipt
  <2>3. receipts' \in Seq(Receipt) /\ lost \in 0..Len(receipts')
    BY <1>6, <2>2, ReceiptType DEF RecordBlock, TypeInv
  <2> QED
    BY <1>6, <2>1, <2>3 DEF TypeInv, TypeOK, IssuedMinted, Minted, RecordBlock
<1>7. CASE ReceiptFails(t)
  <2>1. call' \in [Threads -> Call] /\ HeldMinted'
    BY <1>7, IdleIsCall, BecomeKeepsHeld DEF ReceiptFails
  <2> QED
    BY <1>7, <2>1 DEF TypeInv, TypeOK, IssuedMinted, Minted, ReceiptFails
<1> QED
  BY <1>1, <1>2, <1>3, <1>4, <1>5, <1>6, <1>7 DEF Execute

\* TypeInv is inductive.
LEMMA StepTypeInv == TypeInv /\ [Next]_vars => TypeInv'
<1> SUFFICES ASSUME TypeInv, [Next]_vars PROVE TypeInv'
  OBVIOUS
<1>1. CASE Tick
  BY <1>1 DEF Tick, TypeInv, TypeOK, IssuedMinted, HeldMinted, Minted
<1>2. CASE Restart
  BY <1>2, IdleIsCall DEF Restart, TypeInv, TypeOK, IssuedMinted, HeldMinted, Minted
<1>3. CASE UNCHANGED vars
  BY <1>3 DEF vars, TypeInv, TypeOK, IssuedMinted, HeldMinted, Minted
<1> QED
  BY <1>1, <1>2, <1>3, DecideType, MintType, ExecuteType DEF Next

\* Types, and claims behind every token in use, for every reachable state.
THEOREM GateTypeInv == Spec => []TypeInv
BY InitTypeInv, StepTypeInv, PTL DEF Spec

\* The clock, the stores, the tokens and the requests under way keep their types.
THEOREM GateTypeOK == Spec => []TypeOK
BY GateTypeInv, PTL DEF TypeInv

--------------------------------------------------------------------------------
(* A token buys once. *)

\* A step that verifies, purges, inserts and records nothing, and passes no time,
\* keeps UseInv: every step but five is one, for every thread.
LEMMA QuietStep ==
  ASSUME UseInv, TypeInv', UNCHANGED <<now, used, executed>>,
         \A token \in Tokens : Minted(token) => tokens'[token] = tokens[token],
         \A t \in Threads : \/ call'[t] = call[t]
                            \/ call'[t].pc \notin InFlight \cup {"executed"}
  PROVE  UseInv'
<1>1. \A t \in Threads : call'[t].pc \in InFlight \cup {"executed"} =>
        /\ call'[t] = call[t]
        /\ call[t].token \in Tokens
        /\ Minted(call[t].token)
        /\ tokens'[call[t].token] = tokens[call[t].token]
  BY CallType DEF UseInv, TypeInv, HeldMinted, InFlight, Held
<1>2. VerifiedInTime'
  BY <1>1 DEF UseInv, VerifiedInTime
<1>3. SpentRemembered'
  <2> SUFFICES ASSUME NEW token \in Tokens, Spent(token)'
               PROVE  Minted(token)' /\ (token \in used' \/ tokens'[token].exp < now')
    BY DEF SpentRemembered
  <2>1. Spent(token)
    BY <1>1 DEF Spent
  <2>2. Minted(token) /\ (token \in used \/ tokens[token].exp < now)
    BY <2>1 DEF UseInv, SpentRemembered
  <2> QED
    BY <2>2 DEF Minted
<1>4. ConsumedOnce'
  BY <1>1 DEF UseInv, ConsumedOnce
<1>5. SingleUse'
  BY DEF UseInv, SingleUse
<1> QED
  BY <1>2, <1>3, <1>4, <1>5 DEF UseInv

\* The thread that becomes quiet, and the others.
LEMMA BecomeQuiet ==
  ASSUME UseInv, NEW t \in Threads, NEW state, Become(t, state),
         state.pc \notin InFlight \cup {"executed"}
  PROVE  \A u \in Threads : \/ call'[u] = call[u]
                            \/ call'[u].pc \notin InFlight \cup {"executed"}
BY DEF UseInv, TypeInv, TypeOK, Become

\* Minting takes a jti that nothing has been bought with.
LEMMA MintKeepsUse ==
  ASSUME UseInv, TypeInv', NEW t \in Threads, Mint(t)
  PROVE  UseInv'
<1> USE DEF InFlight
<1>1. ASSUME NEW decision \in Decisions,
             NEW state \in Verdicts,
             AuthorizeAction(t, decision, state)
      PROVE  UseInv'
  <2> DEFINE next == IF state = "allow"
                     THEN [pc |-> "mint", decision |-> decision,
                           action |-> Request[decision].action,
                           payload |-> Request[decision].payload]
                     ELSE Idle
  <2>1. next.pc \notin InFlight \cup {"executed"} /\ Become(t, next)
    BY <1>1 DEF Idle, AuthorizeAction
  <2> HIDE DEF next
  <2> QED
    BY <1>1, <2>1, BecomeQuiet, QuietStep DEF AuthorizeAction
<1>2. ASSUME NEW decision \in Decisions, NEW payload \in Payloads,
             MintForDecision(t, decision, payload)
      PROVE  UseInv'
  BY <1>2, BecomeQuiet, QuietStep DEF MintForDecision
<1>3. ASSUME NEW token \in Tokens, MintExecutionToken(t, token)
      PROVE  UseInv'
  <2>1. \A x \in Tokens : Minted(x) => tokens'[x] = tokens[x]
    BY <1>3 DEF MintExecutionToken, UseInv, TypeInv, TypeOK, Minted
  <2> QED
    BY <1>3, <2>1, BecomeQuiet, QuietStep DEF MintExecutionToken
<1>4. CASE IssueToken(t)
  BY <1>4, BecomeQuiet, QuietStep DEF IssueToken, Idle
<1> QED
  BY <1>1, <1>2, <1>3, <1>4 DEF Mint

\* A token that verifies has a second left at least.
LEMMA VerifyKeepsUse ==
  ASSUME UseInv, TypeInv', NEW t \in Threads, NEW token \in issued, NEW payload \in Payloads,
         VerifyExecutionToken(t, token, payload)
  PROVE  UseInv'
<1>1. CASE ~ Verifies(tokens[token], payload)
  BY <1>1, BecomeQuiet, QuietStep DEF VerifyExecutionToken, InFlight
<1>2. CASE Verifies(tokens[token], payload)
  <2>1. /\ UNCHANGED <<now, tokens, used, executed>>
        /\ call'[t] = [pc |-> "purge", token |-> token, since |-> now]
        /\ \A u \in Threads : u # t => call'[u] = call[u]
        /\ now < tokens[token].exp
        /\ now \in Nat
    BY <1>2 DEF VerifyExecutionToken, Become, UseInv, TypeInv, TypeOK, Verifies
  <2>2. VerifiedInTime'
    BY <2>1, GateAssumption DEF UseInv, VerifiedInTime
  <2>3. \A u \in Threads : call'[u].pc = "executed" => call'[u] = call[u]
    BY <2>1
  <2>4. SpentRemembered'
    <3> SUFFICES ASSUME NEW x \in Tokens, Spent(x)'
                 PROVE  Minted(x)' /\ (x \in used' \/ tokens'[x].exp < now')
      BY DEF SpentRemembered
    <3>1. Spent(x)
      BY <2>1, <2>3 DEF Spent
    <3> QED
      BY <2>1, <3>1 DEF UseInv, SpentRemembered, Minted
  <2>5. ConsumedOnce'
    BY <2>1, <2>3 DEF UseInv, ConsumedOnce
  <2>6. SingleUse'
    BY <2>1 DEF UseInv, SingleUse
  <2> QED
    BY <2>2, <2>4, <2>5, <2>6 DEF UseInv
<1> QED
  BY <1>1, <1>2

\* The purge forgets only tokens that have passed their expiry.
LEMMA PurgeKeepsUse ==
  ASSUME UseInv, TypeInv', NEW t \in Threads, PurgeExpired(t)
  PROVE  UseInv'
<1>1. /\ UNCHANGED <<now, tokens, executed>>
      /\ used' = {token \in used : ~ tokens[token].exp < now}
      /\ call[t].pc = "purge"
      /\ call'[t] = [call[t] EXCEPT !.pc = "insert"]
      /\ \A u \in Threads : u # t => call'[u] = call[u]
  BY DEF PurgeExpired, Become, UseInv, TypeInv, TypeOK
<1>2. call[t] \in [pc: {"purge", "insert"}, token: Tokens, since: Nat]
  BY <1>1, InFlightType DEF UseInv, TypeInv, InFlight
<1>3. call'[t].pc = "insert" /\ call'[t].token = call[t].token /\ call'[t].since = call[t].since
  BY <1>1, <1>2
<1>4. VerifiedInTime'
  BY <1>1, <1>3 DEF UseInv, VerifiedInTime, InFlight
<1>5. \A u \in Threads : call'[u].pc = "executed" => call'[u] = call[u]
  BY <1>1, <1>3
<1>6. SpentRemembered'
  <2> SUFFICES ASSUME NEW x \in Tokens, Spent(x)'
               PROVE  Minted(x)' /\ (x \in used' \/ tokens'[x].exp < now')
    BY DEF SpentRemembered
  <2>1. Spent(x)
    BY <1>1, <1>5 DEF Spent
  <2> QED
    BY <1>1, <2>1 DEF UseInv, SpentRemembered, Minted
<1>7. ConsumedOnce'
  BY <1>1, <1>5 DEF UseInv, ConsumedOnce
<1>8. SingleUse'
  BY <1>1 DEF UseInv, SingleUse
<1> QED
  BY <1>4, <1>6, <1>7, <1>8 DEF UseInv

\* The heart of the argument: a token found absent from the store has not been
\* spent, for a spent one would have been purged after its expiry, which a token
\* that verified at most one second ago has not passed.
LEMMA InsertKeepsUse ==
  ASSUME UseInv, TypeInv', NEW t \in Threads, InsertOrIgnore(t), MaxLatency <= 1
  PROVE  UseInv'
<1> DEFINE token == call[t].token
<1>1. /\ UNCHANGED <<now, tokens, executed>>
      /\ used' = used \cup {token}
      /\ call[t].pc = "insert"
      /\ \A u \in Threads : u # t => call'[u] = call[u]
  BY DEF InsertOrIgnore, Become, UseInv, TypeInv, TypeOK
<1>2. token \in Tokens /\ Minted(token) /\ call[t].since \in Nat /\ now \in Nat
  BY <1>1, CallType DEF UseInv, TypeInv, TypeOK, HeldMinted, Held, InFlight
<1>3. tokens[token].exp \in Nat
  BY <1>2, MintedType DEF UseInv, TypeInv
<1>4. ~ tokens[token].exp < now
  BY <1>1, <1>2, <1>3, GateAssumption DEF UseInv, VerifiedInTime, InFlight
<1>5. CASE token \in used
  <2>1. Become(t, [pc |-> "blocked", decision |-> tokens[token].decision]) /\ used' = used
    BY <1>1, <1>5 DEF InsertOrIgnore
  <2> QED
    BY <1>1, <2>1, BecomeQuiet, QuietStep DEF InFlight
<1>6. CASE token \notin used
  <2>1. ~ Spent(token)
    BY <1>2, <1>4, <1>6 DEF UseInv, SpentRemembered
  <2>2. call'[t] = [pc |-> "executed", token |-> token]
    BY <1>6 DEF InsertOrIgnore, Become, UseInv, TypeInv, TypeOK
  <2> HIDE DEF token
  <2>3. VerifiedInTime'
    BY <1>1, <2>2 DEF UseInv, VerifiedInTime, InFlight
  <2>4. SpentRemembered'
    <3> SUFFICES ASSUME NEW x \in Tokens, Spent(x)'
                 PROVE  Minted(x)' /\ (x \in used' \/ tokens'[x].exp < now')
      BY DEF SpentRemembered
    <3>1. CASE x = token
      BY <1>1, <1>2, <3>1 DEF Minted
    <3>2. CASE x # token
      <4>1. Spent(x)
        BY <1>1, <2>2, <3>2 DEF Spent
      <4> QED
        BY <1>1, <4>1 DEF UseInv, SpentRemembered, Minted
    <3> QED
      BY <3>1, <3>2
  <2>5. executed[token] = 0
    BY <1>2, <2>1 DEF Spent, UseInv, TypeInv, TypeOK
  <2>6. \A u \in Threads : u # t /\ call[u].pc = "executed" => call[u].token # token
    BY <2>1 DEF Spent
  <2>7. ConsumedOnce'
    BY <1>1, <2>2, <2>5, <2>6 DEF UseInv, ConsumedOnce
  <2>8. SingleUse'
    BY <1>1 DEF UseInv, SingleUse
  <2> QED
    BY <2>3, <2>4, <2>7, <2>8 DEF UseInv
<1> QED
  BY <1>5, <1>6

\* The one holder of a consumed token records it once.
LEMMA RecordKeepsUse ==
  ASSUME UseInv, TypeInv', NEW t \in Threads, RecordExecution(t)
  PROVE  UseInv'
<1> DEFINE token == call[t].token
<1>1. /\ UNCHANGED <<now, tokens, used>>
      /\ call[t].pc = "executed"
      /\ executed' = [executed EXCEPT ![token] = @ + 1]
      /\ call'[t] = Idle
      /\ \A u \in Threads : u # t => call'[u] = call[u]
  BY DEF RecordExecution, Become, UseInv, TypeInv, TypeOK
<1>2. token \in Tokens
  BY <1>1, CallType DEF UseInv, TypeInv, Held
<1>3. executed[token] = 0 /\ Spent(token)
  BY <1>1 DEF UseInv, ConsumedOnce, Spent
<1>4. executed'[token] = 1 /\ \A x \in Tokens : x # token => executed'[x] = executed[x]
  BY <1>1, <1>2, <1>3 DEF UseInv, TypeInv, TypeOK
<1> HIDE DEF token
<1>5. \A u \in Threads : call'[u].pc \in InFlight \cup {"executed"} =>
        u # t /\ call'[u] = call[u]
  BY <1>1 DEF Idle, InFlight
<1>6. VerifiedInTime'
  BY <1>1, <1>5 DEF UseInv, VerifiedInTime
<1>7. SpentRemembered'
  <2> SUFFICES ASSUME NEW x \in Tokens, Spent(x)'
               PROVE  Minted(x)' /\ (x \in used' \/ tokens'[x].exp < now')
    BY DEF SpentRemembered
  <2>1. Spent(x)
    BY <1>3, <1>4, <1>5 DEF Spent
  <2> QED
    BY <1>1, <2>1 DEF UseInv, SpentRemembered, Minted
<1>8. ConsumedOnce'
  <2> SUFFICES ASSUME NEW u \in Threads, call'[u].pc = "executed"
               PROVE  /\ executed'[call'[u].token] = 0
                      /\ \A v \in Threads :
                           call'[v].pc = "executed" /\ call'[v].token = call'[u].token => v = u
    BY DEF ConsumedOnce
  <2>1. u # t /\ call'[u] = call[u] /\ call[u].token \in Tokens
    BY <1>5, CallType DEF UseInv, TypeInv, Held
  <2>2. call[u].token # token
    BY <1>1, <2>1 DEF UseInv, ConsumedOnce, token
  <2> QED
    BY <1>4, <1>5, <2>1, <2>2 DEF UseInv, ConsumedOnce
<1>9. SingleUse'
  BY <1>4 DEF UseInv, SingleUse
<1> QED
  BY <1>6, <1>7, <1>8, <1>9 DEF UseInv

\* The clock waits for verified tokens, and a purged token stays past its expiry.
LEMMA TickKeepsUse ==
  ASSUME UseInv, TypeInv', Tick
  PROVE  UseInv'
<1>1. /\ UNCHANGED <<tokens, used, executed, call>>
      /\ now' = now + 1
      /\ now \in Nat
      /\ \A t \in Threads : call[t].pc \in InFlight => now < call[t].since + MaxLatency
  BY DEF Tick, InFlight, UseInv, TypeInv, TypeOK
<1>2. VerifiedInTime'
  <2> SUFFICES ASSUME NEW t \in Threads, call[t].pc \in InFlight
               PROVE  /\ call[t].since <= now + 1
                      /\ now + 1 <= call[t].since + MaxLatency
                      /\ call[t].since < tokens[call[t].token].exp
    BY <1>1 DEF VerifiedInTime
  <2>1. call[t].since \in Nat
    BY CallType DEF UseInv, TypeInv
  <2> QED
    BY <1>1, <2>1, GateAssumption DEF UseInv, VerifiedInTime
<1>3. SpentRemembered'
  <2> SUFFICES ASSUME NEW x \in Tokens, Spent(x)
               PROVE  Minted(x)' /\ (x \in used' \/ tokens'[x].exp < now')
    BY <1>1 DEF SpentRemembered, Spent
  <2>1. Minted(x) /\ (x \in used \/ tokens[x].exp < now)
    BY DEF UseInv, SpentRemembered
  <2>2. tokens[x].exp \in Nat
    BY <2>1, MintedType DEF UseInv, TypeInv
  <2> QED
    BY <1>1, <2>1, <2>2 DEF Minted
<1>4. ConsumedOnce' /\ SingleUse'
  BY <1>1 DEF UseInv, ConsumedOnce, SingleUse
<1> QED
  BY <1>2, <1>3, <1>4 DEF UseInv

\* UseInv is inductive: the only place that needs the bound on the latency.
LEMMA StepUseInv ==
  ASSUME MaxLatency <= 1
  PROVE  UseInv /\ [Next]_vars => UseInv'
<1> SUFFICES ASSUME UseInv, [Next]_vars PROVE UseInv'
  OBVIOUS
<1>1. TypeInv'
  BY StepTypeInv DEF UseInv
<1>2. CASE Decide
  BY <1>1, <1>2, QuietStep DEF Decide, Approve, Supersede
<1>3. ASSUME NEW t \in Threads, Execute(t) PROVE UseInv'
  <2>1. CASE RefuseForeignToken(t)
    BY <1>1, <2>1, BecomeQuiet, QuietStep DEF RefuseForeignToken, InFlight
  <2>2. CASE RecordBlock(t) \/ ReceiptFails(t)
    <3>1. Become(t, Idle) /\ UNCHANGED <<now, tokens, used, executed>>
      BY <2>2 DEF RecordBlock, ReceiptFails
    <3> QED
      BY <1>1, <3>1, BecomeQuiet, QuietStep DEF Idle, InFlight
  <2> QED
    BY <1>1, <1>3, <2>1, <2>2, VerifyKeepsUse, PurgeKeepsUse, InsertKeepsUse, RecordKeepsUse
    DEF Execute
<1>4. CASE Restart
  <2>1. \A t \in Threads : call'[t].pc \notin InFlight \cup {"executed"}
    BY <1>4 DEF Restart, Idle, InFlight
  <2> QED
    BY <1>1, <1>4, <2>1, QuietStep DEF Restart
<1>5. CASE UNCHANGED vars
  BY <1>1, <1>5, QuietStep DEF vars
<1> QED
  BY <1>1, <1>2, <1>3, <1>4, <1>5, MintKeepsUse, TickKeepsUse DEF Next

\* Nothing is verified or bought at the start.
LEMMA InitUseInv == Init => UseInv
<1> SUFFICES ASSUME Init PROVE UseInv
  OBVIOUS
<1>1. \A t \in Threads : call[t].pc = "idle"
  BY DEF Init, Idle
<1>2. \A token \in Tokens : executed[token] = 0
  BY DEF Init
<1> QED
  BY <1>1, <1>2, InitTypeInv
  DEF UseInv, VerifiedInTime, SpentRemembered, ConsumedOnce, SingleUse, Spent, InFlight

\* A token's use is exclusive and remembered, under the bound on the latency.
THEOREM GateUseInv ==
  ASSUME MaxLatency <= 1
  PROVE  Spec => []UseInv
BY InitUseInv, StepUseInv, PTL DEF Spec

\* A token never buys twice, if at most one second passes between its verification
\* and the insertion of its jti.
THEOREM GateSingleUse ==
  ASSUME MaxLatency <= 1
  PROVE  Spec => []SingleUse
BY GateUseInv, PTL DEF UseInv

\* Under the same condition the replay store remembers a token that has bought for
\* as long as it would verify.
THEOREM GateRememberedWhileValid ==
  ASSUME MaxLatency <= 1
  PROVE  Spec => []RememberedWhileValid
<1>1. UseInv => RememberedWhileValid
  <2> SUFFICES ASSUME UseInv, NEW token \in Tokens, executed[token] > 0,
                      now <= tokens[token].exp
               PROVE  token \in used
    BY DEF RememberedWhileValid
  <2>1. Minted(token) /\ (token \in used \/ tokens[token].exp < now)
    BY DEF UseInv, SpentRemembered, Spent
  <2>2. tokens[token].exp \in Nat /\ now \in Nat
    BY <2>1, MintedType DEF UseInv, TypeInv, TypeOK
  <2> QED
    BY <2>1, <2>2
<1> QED
  BY <1>1, GateUseInv, PTL

--------------------------------------------------------------------------------
(* Behind every purchase stands a decision that entitles it.  The entitlement   *)
(* is found when a token is minted and used when it has bought: TrailInv        *)
(* carries it from one to the other.                                            *)

\* One of the first n receipts entitles the decision.
Entitled(decision, n) == \E k \in 1..n : Entitles(receipts[k], decision)

TrailBehind(decision, n) ==
  /\ decision \in Decisions
  /\ \E j \in 1..n :
       /\ receipts[j].step = "execution_token_minted"
       /\ receipts[j].decision = decision
       /\ Entitled(decision, j - 1)

PurchasesTrail ==
  \A i \in DOMAIN receipts : receipts[i].step = "purchase_executed" =>
    TrailBehind(receipts[i].decision, i - 1)

IssuedTrail ==
  \A token \in issued : TrailBehind(tokens[token].decision, Len(receipts))

CallTrail(t) ==
  /\ call[t].pc \in {"purge", "insert", "executed"} => call[t].token \in issued
  /\ call[t].pc = "mint" => Entitled(call[t].decision, Len(receipts))
  /\ call[t].pc = "issue" => Entitled(tokens[call[t].token].decision, Len(receipts))

\* A file loses no receipt, and what is approved is on record.
Recorded ==
  /\ backend = "sqlite" => lost = 0
  /\ \A decision \in approved : Entitled(decision, Len(receipts))

TrailInv ==
  /\ TypeInv
  /\ Recorded
  /\ PurchasesTrail
  /\ IssuedTrail
  /\ \A t \in Threads : CallTrail(t)

\* What no step takes back: receipts, the claims of tokens, and that they are issued.
Grows ==
  /\ Len(receipts) <= Len(receipts')
  /\ \A i \in DOMAIN receipts : receipts'[i] = receipts[i]
  /\ \A token \in Tokens : Minted(token) => tokens'[token] = tokens[token]
  /\ issued \subseteq issued'

\* The receipts are a finite sequence.
LEMMA ReceiptsLength ==
  ASSUME TypeOK
  PROVE  /\ Len(receipts) \in Nat
         /\ DOMAIN receipts = 1..Len(receipts)
BY DEF TypeOK

\* An appended receipt is the last one.
LEMMA ReceiptAppended ==
  ASSUME TypeOK, NEW receipt, AppendReceipt(receipt)
  PROVE  /\ Len(receipts') = Len(receipts) + 1
         /\ DOMAIN receipts' = 1..(Len(receipts) + 1)
         /\ receipts'[Len(receipts) + 1] = receipt
         /\ \A i \in DOMAIN receipts : receipts'[i] = receipts[i]
BY DEF TypeOK, AppendReceipt

\* No step takes back a receipt, a claim or an issued token.
LEMMA StepGrows == TypeInv /\ [Next]_vars => Grows
<1> SUFFICES ASSUME TypeInv, [Next]_vars PROVE Grows
  OBVIOUS
<1>2. \/ receipts' = receipts
      \/ \E receipt : AppendReceipt(receipt)
  BY DEF Next, vars, Decide, Mint, Execute, Tick, Restart, Approve, Supersede,
         AuthorizeAction, MintForDecision, MintExecutionToken, IssueToken,
         VerifyExecutionToken, RefuseForeignToken, PurgeExpired, InsertOrIgnore,
         RecordExecution, RecordBlock, ReceiptFails
<1>3. Len(receipts) <= Len(receipts') /\ \A i \in DOMAIN receipts : receipts'[i] = receipts[i]
  BY <1>2, ReceiptsLength, ReceiptAppended DEF TypeInv
<1>4. \A token \in Tokens : Minted(token) => tokens'[token] = tokens[token]
  BY DEF Next, vars, Decide, Mint, Execute, Tick, Restart, Approve, Supersede,
         AuthorizeAction, MintForDecision, MintExecutionToken, IssueToken,
         VerifyExecutionToken, RefuseForeignToken, PurgeExpired, InsertOrIgnore,
         RecordExecution, RecordBlock, ReceiptFails, TypeInv, TypeOK, Minted
<1>5. issued \subseteq issued'
  BY DEF Next, vars, Decide, Mint, Execute, Tick, Restart, Approve, Supersede,
         AuthorizeAction, MintForDecision, MintExecutionToken, IssueToken,
         VerifyExecutionToken, RefuseForeignToken, PurgeExpired, InsertOrIgnore,
         RecordExecution, RecordBlock, ReceiptFails
<1> QED
  BY <1>3, <1>4, <1>5 DEF Grows

\* An entitlement, and a trail that ends in one, stay.
LEMMA EntitledStays ==
  ASSUME TypeInv, TypeInv', Grows, NEW decision \in Decisions, NEW n \in Nat, NEW m \in Nat,
         n <= Len(receipts), n <= m, Entitled(decision, n)
  PROVE  Entitled(decision, m)'
<1>1. \A i \in 1..n : i \in DOMAIN receipts /\ i \in 1..m
  BY ReceiptsLength DEF TypeInv
<1> QED
  BY <1>1 DEF Entitled, Grows

\* A trail stays behind what is appended later.
LEMMA TrailStays ==
  ASSUME TypeInv, TypeInv', Grows, NEW decision \in Decisions, NEW n \in Nat, NEW m \in Nat,
         n <= Len(receipts), n <= m, TrailBehind(decision, n)
  PROVE  TrailBehind(decision, m)'
<1>1. PICK j \in 1..n : /\ receipts[j].step = "execution_token_minted"
                       /\ receipts[j].decision = decision
                       /\ Entitled(decision, j - 1)
  BY DEF TrailBehind
<1>2. j \in 1..m /\ j \in DOMAIN receipts /\ j - 1 \in Nat /\ j - 1 <= Len(receipts)
  BY ReceiptsLength DEF TypeInv
<1>3. Entitled(decision, j - 1)'
  BY <1>1, <1>2, EntitledStays
<1>4. receipts'[j] = receipts[j]
  BY <1>2 DEF Grows
<1> QED
  BY <1>1, <1>2, <1>3, <1>4 DEF TrailBehind

\* A verdict is recorded when it counts, and a store that forgets the receipts
\* forgets the approvals with them.
LEMMA StepRecorded == TypeInv /\ TypeInv' /\ Recorded /\ Grows /\ [Next]_vars => Recorded'
<1> SUFFICES ASSUME TypeInv, TypeInv', Recorded, Grows, [Next]_vars PROVE Recorded'
  OBVIOUS
<1>1. /\ Len(receipts) \in Nat
      /\ Len(receipts') \in Nat
      /\ Len(receipts) <= Len(receipts')
  BY ReceiptsLength DEF TypeInv, TypeOK, Grows
<1>2. \A decision \in approved : Entitled(decision, Len(receipts))'
  <2>1. approved \subseteq Decisions
    BY DEF TypeInv, TypeOK
  <2>2. \A decision \in Decisions : \A m \in Nat :
          Len(receipts) <= m /\ Entitled(decision, Len(receipts)) => Entitled(decision, m)'
    BY <1>1, EntitledStays
  <2> QED
    BY <1>1, <2>1, <2>2 DEF Recorded
<1>3. ASSUME NEW decision \in Decisions, Approve(decision)
      PROVE  Recorded'
  <2> DEFINE receipt == ReceiptOf("approval_resolved", decision, "approved")
  <2>1. /\ AppendReceipt(receipt)
        /\ approved' = approved \cup {decision}
        /\ UNCHANGED <<backend, lost>>
    BY <1>3 DEF Approve
  <2>2. Entitles(receipt, decision)
    BY DEF Entitles
  <2> HIDE DEF receipt
  <2>3. /\ Len(receipts') \in 1..Len(receipts')
        /\ receipts'[Len(receipts')] = receipt
    BY <1>1, <2>1, ReceiptAppended DEF TypeInv
  <2>4. Entitled(decision, Len(receipts))'
    BY <2>2, <2>3 DEF Entitled, Entitles
  <2> QED
    BY <1>2, <2>1, <2>4 DEF Recorded
<1>4. ASSUME NEW decision \in Decisions, Supersede(decision)
      PROVE  Recorded'
  BY <1>2, <1>4 DEF Supersede, Recorded
<1>5. CASE Restart
  BY <1>2, <1>5 DEF Restart, Recorded
<1>6. CASE UNCHANGED <<backend, approved, lost>>
  BY <1>2, <1>6 DEF Recorded
<1>7. ASSUME NEW t \in Threads, Mint(t)
      PROVE  UNCHANGED <<backend, approved, lost>>
  BY <1>7 DEF Mint, AuthorizeAction, MintForDecision, MintExecutionToken, IssueToken
<1>8. ASSUME NEW t \in Threads, Execute(t)
      PROVE  UNCHANGED <<backend, approved, lost>>
  BY <1>8 DEF Execute, VerifyExecutionToken, RefuseForeignToken, PurgeExpired,
              InsertOrIgnore, RecordExecution, RecordBlock, ReceiptFails
<1> QED
  BY <1>3, <1>4, <1>5, <1>6, <1>7, <1>8 DEF Next, Decide, Tick, vars

\* What a step has to show: only what it adds.
LEMMA TrailStep ==
  ASSUME TrailInv, TypeInv', Recorded', Grows,
         \A token \in issued' : \/ token \in issued
                                \/ TrailBehind(tokens[token].decision, Len(receipts))',
         \A t \in Threads : call'[t] = call[t] \/ CallTrail(t)',
         \A i \in DOMAIN receipts' :
           receipts'[i].step = "purchase_executed" =>
             \/ i \in DOMAIN receipts
             \/ TrailBehind(receipts[i].decision, i - 1)'
  PROVE  TrailInv'
<1>1. /\ Len(receipts) \in Nat
      /\ DOMAIN receipts = 1..Len(receipts)
      /\ Len(receipts') \in Nat
      /\ DOMAIN receipts' = 1..Len(receipts')
  BY ReceiptsLength DEF TrailInv, TypeInv, TypeOK
<1>2. PurchasesTrail'
  <2> SUFFICES ASSUME NEW i \in DOMAIN receipts, receipts[i].step = "purchase_executed",
                      receipts'[i] = receipts[i]
               PROVE  TrailBehind(receipts[i].decision, i - 1)'
    BY DEF PurchasesTrail, Grows
  <2>1. TrailBehind(receipts[i].decision, i - 1) /\ receipts[i].decision \in Decisions
    BY DEF TrailInv, PurchasesTrail, TrailBehind
  <2>2. i - 1 \in Nat /\ i - 1 <= Len(receipts)
    BY <1>1
  <2>3. \A decision \in Decisions :
          TrailBehind(decision, i - 1) => TrailBehind(decision, i - 1)'
    BY <2>2, TrailStays DEF TrailInv
  <2> QED
    BY <2>1, <2>3
<1>3. IssuedTrail'
  <2> SUFFICES ASSUME NEW token \in issued
               PROVE  TrailBehind(tokens[token].decision, Len(receipts))'
    BY DEF IssuedTrail
  <2>1. token \in Tokens /\ Minted(token)
    BY DEF TrailInv, TypeInv, TypeOK, IssuedMinted
  <2>2. tokens'[token] = tokens[token] /\ tokens[token].decision \in Decisions
    BY <2>1, MintedType DEF Grows, TrailInv, TypeInv
  <2>3. Len(receipts) <= Len(receipts')
    BY DEF Grows
  <2>4. TrailBehind(tokens[token].decision, Len(receipts))
    BY DEF TrailInv, IssuedTrail
  <2>5. \A m \in Nat : Len(receipts) <= m => TrailBehind(tokens[token].decision, m)'
    BY <1>1, <2>2, <2>4, TrailStays DEF TrailInv
  <2> QED
    BY <1>1, <2>2, <2>3, <2>5
<1>4. \A t \in Threads : CallTrail(t)'
  <2> SUFFICES ASSUME NEW t \in Threads, call'[t] = call[t]
               PROVE  CallTrail(t)'
    OBVIOUS
  <2>1. Len(receipts) <= Len(receipts')
    BY DEF Grows
  <2>2. \A decision \in Decisions : \A n \in Nat :
          Len(receipts) <= n /\ Entitled(decision, Len(receipts)) => Entitled(decision, n)'
    BY <1>1, EntitledStays DEF TrailInv
  <2>3. CASE call[t].pc = "mint"
    <3>1. call[t].decision \in Decisions /\ Entitled(call[t].decision, Len(receipts))
      BY <2>3, CallType DEF TrailInv, TypeInv, CallTrail
    <3> QED
      BY <1>1, <2>1, <2>2, <2>3, <3>1 DEF CallTrail
  <2>4. CASE call[t].pc = "issue"
    <3>1. call[t].token \in Tokens /\ Minted(call[t].token)
      BY <2>4, CallType DEF TrailInv, TypeInv, HeldMinted, Held
    <3>2. /\ tokens'[call[t].token] = tokens[call[t].token]
          /\ tokens[call[t].token].decision \in Decisions
      BY <3>1, MintedType DEF Grows, TrailInv, TypeInv
    <3>3. Entitled(tokens[call[t].token].decision, Len(receipts))
      BY <2>4 DEF TrailInv, CallTrail
    <3> QED
      BY <1>1, <2>1, <2>2, <2>4, <3>2, <3>3 DEF CallTrail
  <2>5. CASE call[t].pc \notin {"mint", "issue"}
    BY <2>5 DEF TrailInv, CallTrail, Grows
  <2> QED
    BY <2>3, <2>4, <2>5
<1> QED
  BY <1>2, <1>3, <1>4 DEF TrailInv

\* A step that issues no token and records no purchase.
LEMMA PlainTrailStep ==
  ASSUME TrailInv, TypeInv', Recorded', Grows, issued' = issued,
         \A t \in Threads : call'[t] = call[t] \/ CallTrail(t)',
         receipts' = receipts \/ \E receipt : receipt.step # "purchase_executed"
                                             /\ AppendReceipt(receipt)
  PROVE  TrailInv'
<1>1. \A i \in DOMAIN receipts' :
        receipts'[i].step = "purchase_executed" => i \in DOMAIN receipts
  BY ReceiptsLength, ReceiptAppended DEF TrailInv, TypeInv
<1> QED
  BY <1>1, TrailStep

\* The thread that moves to a point where nothing is to be shown.
LEMMA BecomePlain ==
  ASSUME TypeInv, NEW t \in Threads, NEW state, Become(t, state),
         state.pc \in {"idle", "blocked"}
  PROVE  \A u \in Threads : call'[u] = call[u] \/ CallTrail(u)'
<1>1. call'[t] = state /\ \A u \in Threads : u # t => call'[u] = call[u]
  BY DEF TypeInv, TypeOK, Become
<1> QED
  BY <1>1 DEF CallTrail

\* The thread that moves, and the others.
LEMMA BecomeType ==
  ASSUME TypeInv, NEW t \in Threads, NEW state, Become(t, state)
  PROVE  call'[t] = state /\ \A u \in Threads : u # t => call'[u] = call[u]
BY DEF TypeInv, TypeOK, Become

\* A token is minted for an entitled decision and issued with its receipt.
LEMMA MintKeepsTrail ==
  ASSUME TrailInv, TypeInv', Recorded', Grows, NEW t \in Threads, Mint(t)
  PROVE  TrailInv'
<1>1. ASSUME NEW decision \in Decisions,
             NEW state \in Verdicts,
             AuthorizeAction(t, decision, state)
      PROVE  TrailInv'
  <2> DEFINE receipt == ReceiptOf("authorize_action_decision", decision, state)
             next == IF state = "allow"
                     THEN [pc |-> "mint", decision |-> decision,
                           action |-> Request[decision].action,
                           payload |-> Request[decision].payload]
                     ELSE Idle
  <2>1. AppendReceipt(receipt) /\ receipt.step # "purchase_executed" /\ issued' = issued
        /\ Become(t, next)
    BY <1>1 DEF AuthorizeAction, ReceiptOf
  <2>2. call'[t] = next /\ \A u \in Threads : u # t => call'[u] = call[u]
    BY <2>1, BecomeType DEF TrailInv
  <2>3. CallTrail(t)'
    <3>1. CASE state = "allow"
      <4>1. /\ Len(receipts') \in DOMAIN receipts'
            /\ DOMAIN receipts' = 1..Len(receipts')
            /\ receipts'[Len(receipts')] = receipt
        BY <2>1, ReceiptsLength, ReceiptAppended DEF TrailInv, TypeInv
      <4>2. Entitled(decision, Len(receipts))'
        BY <3>1, <4>1 DEF Entitled, Entitles
      <4> QED
        BY <2>2, <3>1, <4>2 DEF CallTrail
    <3>2. CASE state # "allow"
      BY <2>2, <3>2 DEF CallTrail, Idle
    <3> QED
      BY <3>1, <3>2
  <2> HIDE DEF receipt, next
  <2> QED
    BY <2>1, <2>2, <2>3, PlainTrailStep
<1>2. ASSUME NEW decision \in Decisions, NEW payload \in Payloads,
             MintForDecision(t, decision, payload)
      PROVE  TrailInv'
  <2>1. /\ decision \in approved'
        /\ issued' = issued
        /\ receipts' = receipts
        /\ Become(t, [pc |-> "mint", decision |-> decision, action |-> "purchase.create",
                      payload |-> payload])
    BY <1>2 DEF MintForDecision
  <2>2. /\ call'[t].pc = "mint" /\ call'[t].decision = decision
        /\ \A u \in Threads : u # t => call'[u] = call[u]
    BY <2>1, BecomeType DEF TrailInv
  <2>3. CallTrail(t)'
    BY <2>1, <2>2 DEF CallTrail, Recorded
  <2> QED
    BY <2>1, <2>2, <2>3, PlainTrailStep
<1>3. ASSUME NEW token \in Tokens, MintExecutionToken(t, token)
      PROVE  TrailInv'
  <2>1. /\ call[t].pc = "mint"
        /\ issued' = issued
        /\ receipts' = receipts
        /\ Become(t, [pc |-> "issue", token |-> token])
    BY <1>3 DEF MintExecutionToken
  <2>2. tokens'[token].decision = call[t].decision
    BY <1>3 DEF MintExecutionToken, TrailInv, TypeInv, TypeOK
  <2>3. /\ call'[t].pc = "issue" /\ call'[t].token = token
        /\ \A u \in Threads : u # t => call'[u] = call[u]
    BY <2>1, BecomeType DEF TrailInv
  <2>4. Entitled(call[t].decision, Len(receipts))
    BY <2>1 DEF TrailInv, CallTrail
  <2>5. CallTrail(t)'
    BY <2>1, <2>2, <2>3, <2>4 DEF CallTrail, Entitled
  <2> QED
    BY <2>1, <2>3, <2>5, PlainTrailStep
<1>4. CASE IssueToken(t)
  <2>1. PICK token \in Tokens : token = call[t].token /\ Minted(token)
    BY <1>4, CallType DEF IssueToken, TrailInv, TypeInv, HeldMinted, Held
  <2>2. PICK decision \in Decisions : decision = tokens[token].decision
    BY <2>1, MintedType DEF TrailInv, TypeInv
  <2> DEFINE receipt == ReceiptOf("execution_token_minted", decision, None)
  <2>3. /\ call[t].pc = "issue"
        /\ AppendReceipt(receipt)
        /\ issued' = issued \cup {token}
        /\ tokens' = tokens
        /\ Become(t, Idle)
    BY <1>4, <2>1, <2>2 DEF IssueToken
  <2>4. /\ Len(receipts) \in Nat
        /\ Len(receipts') = Len(receipts) + 1
        /\ receipts'[Len(receipts) + 1] = receipt
        /\ DOMAIN receipts = 1..Len(receipts)
        /\ DOMAIN receipts' = 1..(Len(receipts) + 1)
    BY <2>3, ReceiptsLength, ReceiptAppended DEF TrailInv, TypeInv
  <2>5. Entitled(decision, Len(receipts))
    BY <2>1, <2>2, <2>3 DEF TrailInv, CallTrail
  <2>6. \A n \in Nat : n = Len(receipts) => Entitled(decision, n)'
    BY <2>4, <2>5, EntitledStays DEF TrailInv
  <2>7. receipt.step = "execution_token_minted" /\ receipt.decision = decision
    BY DEF ReceiptOf
  <2> HIDE DEF receipt
  <2>8. TrailBehind(decision, Len(receipts))'
    <3>1. (Len(receipts) + 1) \in 1..Len(receipts') /\ (Len(receipts) + 1) - 1 = Len(receipts)
      BY <2>4
    <3> QED
      BY <2>4, <2>6, <2>7, <3>1 DEF TrailBehind
  <2>9. \A x \in issued' : x \in issued \/ TrailBehind(tokens[x].decision, Len(receipts))'
    BY <2>2, <2>3, <2>8
  <2>10. \A i \in DOMAIN receipts' :
           receipts'[i].step = "purchase_executed" => i \in DOMAIN receipts
    BY <2>4, <2>7
  <2>11. \A u \in Threads : call'[u] = call[u] \/ CallTrail(u)'
    BY <2>3, BecomePlain DEF Idle, TrailInv
  <2> QED
    BY <2>9, <2>10, <2>11, TrailStep
<1> QED
  BY <1>1, <1>2, <1>3, <1>4 DEF Mint

\* A purchase is recorded for an issued token.
LEMMA ExecuteKeepsTrail ==
  ASSUME TrailInv, TypeInv', Recorded', Grows, NEW t \in Threads, Execute(t)
  PROVE  TrailInv'
<1>1. ASSUME NEW token \in issued, NEW payload \in Payloads,
             VerifyExecutionToken(t, token, payload)
      PROVE  TrailInv'
  <2> DEFINE next == IF Verifies(tokens[token], payload)
                     THEN [pc |-> "purge", token |-> token, since |-> now]
                     ELSE [pc |-> "blocked", decision |-> None]
  <2>1. Become(t, next) /\ issued' = issued /\ receipts' = receipts
    BY <1>1 DEF VerifyExecutionToken
  <2>2. call'[t] = next /\ \A u \in Threads : u # t => call'[u] = call[u]
    BY <2>1, BecomeType DEF TrailInv
  <2>3. CallTrail(t)'
    BY <2>1, <2>2 DEF CallTrail
  <2> QED
    BY <2>1, <2>2, <2>3, PlainTrailStep
<1>2. CASE RefuseForeignToken(t)
  BY <1>2, BecomePlain, PlainTrailStep DEF RefuseForeignToken, TrailInv
<1>3. CASE PurgeExpired(t)
  <2> DEFINE next == [call[t] EXCEPT !.pc = "insert"]
  <2>1. Become(t, next) /\ issued' = issued /\ receipts' = receipts /\ call[t].pc = "purge"
    BY <1>3 DEF PurgeExpired
  <2>2. call[t] \in [pc: {"purge", "insert"}, token: Tokens, since: Nat]
    BY <2>1, InFlightType DEF TrailInv, TypeInv, InFlight
  <2>3. next.pc = "insert" /\ next.token = call[t].token
    BY <2>2
  <2> HIDE DEF next
  <2>4. call'[t] = next /\ \A u \in Threads : u # t => call'[u] = call[u]
    BY <2>1, BecomeType DEF TrailInv
  <2>5. CallTrail(t)'
    BY <2>1, <2>3, <2>4 DEF TrailInv, CallTrail
  <2> QED
    BY <2>1, <2>4, <2>5, PlainTrailStep
<1>4. CASE InsertOrIgnore(t)
  <2> DEFINE token == call[t].token
             next == IF token \in used
                     THEN [pc |-> "blocked", decision |-> tokens[token].decision]
                     ELSE [pc |-> "executed", token |-> token]
  <2>1. /\ Become(t, next)
        /\ issued' = issued
        /\ receipts' = receipts
        /\ call[t].pc = "insert"
    BY <1>4 DEF InsertOrIgnore
  <2>2. call'[t] = next /\ \A u \in Threads : u # t => call'[u] = call[u]
    BY <2>1, BecomeType DEF TrailInv
  <2>3. CallTrail(t)'
    BY <2>1, <2>2 DEF TrailInv, CallTrail
  <2> QED
    BY <2>1, <2>2, <2>3, PlainTrailStep
<1>5. CASE RecordExecution(t)
  <2>1. PICK token \in Tokens : token = call[t].token /\ Minted(token)
    BY <1>5, CallType DEF RecordExecution, TrailInv, TypeInv, HeldMinted, Held
  <2>2. PICK decision \in Decisions : decision = tokens[token].decision
    BY <2>1, MintedType DEF TrailInv, TypeInv
  <2> DEFINE receipt == ReceiptOf("purchase_executed", decision, None)
  <2>3. /\ call[t].pc = "executed"
        /\ AppendReceipt(receipt)
        /\ issued' = issued
        /\ Become(t, Idle)
    BY <1>5, <2>1, <2>2 DEF RecordExecution
  <2>4. /\ Len(receipts) \in Nat
        /\ receipts'[Len(receipts) + 1] = receipt
        /\ DOMAIN receipts = 1..Len(receipts)
        /\ DOMAIN receipts' = 1..(Len(receipts) + 1)
    BY <2>3, ReceiptsLength, ReceiptAppended DEF TrailInv, TypeInv
  <2>5. TrailBehind(decision, Len(receipts))
    BY <2>1, <2>2, <2>3 DEF TrailInv, CallTrail, IssuedTrail
  <2>6. \A n \in Nat : n = Len(receipts) => TrailBehind(decision, n)'
    BY <2>4, <2>5, TrailStays DEF TrailInv
  <2>7. receipt.decision = decision
    BY DEF ReceiptOf
  <2> HIDE DEF receipt
  <2>8. \A i \in DOMAIN receipts' :
          i \in DOMAIN receipts \/ TrailBehind(receipts[i].decision, i - 1)'
    <3> SUFFICES ASSUME NEW i \in DOMAIN receipts', i \notin DOMAIN receipts
                 PROVE  TrailBehind(receipts[i].decision, i - 1)'
      OBVIOUS
    <3>1. i - 1 \in Nat /\ i - 1 = Len(receipts) /\ receipts'[i].decision = decision
      BY <2>4, <2>7
    <3>2. TrailBehind(decision, i - 1)'
      BY <2>6, <3>1
    <3> QED
      BY <3>1, <3>2
  <2>9. \A u \in Threads : call'[u] = call[u] \/ CallTrail(u)'
    BY <2>3, BecomePlain DEF Idle, TrailInv
  <2> QED
    BY <2>3, <2>8, <2>9, TrailStep
<1>6. CASE RecordBlock(t)
  <2>1. ReceiptOf("execution_blocked", call[t].decision, None).step # "purchase_executed"
    BY DEF ReceiptOf
  <2> QED
    BY <1>6, <2>1, BecomePlain, PlainTrailStep DEF RecordBlock, Idle, TrailInv
<1>7. CASE ReceiptFails(t)
  BY <1>7, BecomePlain, PlainTrailStep DEF ReceiptFails, Idle, TrailInv
<1> QED
  BY <1>1, <1>2, <1>3, <1>4, <1>5, <1>6, <1>7 DEF Execute

\* TrailInv is inductive.
LEMMA StepTrailInv == TrailInv /\ [Next]_vars => TrailInv'
<1> SUFFICES ASSUME TrailInv, [Next]_vars PROVE TrailInv'
  OBVIOUS
<1>1. TypeInv' /\ Recorded' /\ Grows
  BY StepTypeInv, StepGrows, StepRecorded DEF TrailInv
<1>2. CASE Decide
  <2>1. /\ issued' = issued
        /\ call' = call
        /\ \E receipt : receipt.step = "approval_resolved" /\ AppendReceipt(receipt)
    BY <1>2 DEF Decide, Approve, Supersede, ReceiptOf
  <2> QED
    BY <1>1, <2>1, PlainTrailStep
<1>3. CASE Tick
  BY <1>1, <1>3, PlainTrailStep DEF Tick
<1>4. CASE Restart
  <2>1. \A t \in Threads : CallTrail(t)'
    BY <1>4 DEF Restart, Idle, CallTrail
  <2> QED
    BY <1>1, <1>4, <2>1, PlainTrailStep DEF Restart
<1>5. CASE UNCHANGED vars
  BY <1>1, <1>5, PlainTrailStep DEF vars
<1> QED
  BY <1>1, <1>2, <1>3, <1>4, <1>5, MintKeepsTrail, ExecuteKeepsTrail DEF Next

\* There is no receipt at the start.
LEMMA InitTrailInv == Init => TrailInv
<1> SUFFICES ASSUME Init PROVE TrailInv
  OBVIOUS
<1>1. /\ receipts = << >>
      /\ issued = {}
      /\ approved = {}
      /\ lost = 0
      /\ \A t \in Threads : call[t].pc = "idle"
  BY DEF Init, Idle
<1> QED
  BY <1>1, InitTypeInv DEF TrailInv, Recorded, PurchasesTrail, IssuedTrail, CallTrail

\* Whatever the latency and the restarts, before every receipt of a purchase comes the
\* receipt of a token for the same decision, and before that one the receipt of an
\* allowance or an approval; if the event store is a file, it still holds all three.
THEOREM GatePurchaseTrail == Spec => []PurchaseTrail
<1>1. TrailInv => PurchaseTrail
  <2> SUFFICES ASSUME TrailInv, NEW i \in DOMAIN receipts,
                      receipts[i].step = "purchase_executed"
               PROVE  \E j \in 1..(i - 1) : \E k \in 1..(j - 1) :
                        /\ receipts[j].step = "execution_token_minted"
                        /\ receipts[j].decision = receipts[i].decision
                        /\ Entitles(receipts[k], receipts[i].decision)
                        /\ backend = "sqlite" => k > lost
    BY DEF PurchaseTrail
  <2>1. TrailBehind(receipts[i].decision, i - 1)
    BY DEF TrailInv, PurchasesTrail
  <2>2. \A k \in Nat : k >= 1 /\ backend = "sqlite" => k > lost
    BY DEF TrailInv, Recorded
  <2> QED
    BY <2>1, <2>2 DEF TrailBehind, Entitled
<1> QED
  BY <1>1, InitTrailInv, StepTrailInv, PTL DEF Spec

================================================================================
