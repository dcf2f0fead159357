------------------------------ MODULE PurchaseLoop ------------------------------
(***************************************************************************)
(* A purchase from end to end, as docs/TECHNICAL_GUIDE.md tells agents to  *)
(* make it: the agent fetches the policy catalog, asks authorize_action    *)
(* with the version it has seen, registers an approval if one is required, *)
(* polls until a person has decided on the web page, and mints the         *)
(* execution token.  Meanwhile others fetch the catalog, the rules file is *)
(* edited, and the page refreshes over a connection that may break.        *)
(* The components are RuleEngine, RulesCache, ApprovalGate (the handlers   *)
(* that write to timelines) and TimelineController; this module holds the  *)
(* endpoints that join them.  The purchase itself, which spends the token, *)
(* is ExecutionGate's.                                                     *)
(***************************************************************************)
EXTENDS RulesCache, RuleEngine, FiniteSets

CONSTANTS
  Runs, EventIds, ClientIds, ServiceIds, DecisionIds, None,
  ClientEvents, IdPrefixes, DemoRun, DemoGate, ResumeId, CompleteId, MaxEvents,
  Lists, Posts, MaxFaults,
  RulesOf,      \* what a text parses to: users and their rules
  Purchases,    \* what the agent may want: a user, an action, all context fields
  Fields,       \* the context fields that an agent can send
  AlwaysSent,   \* those that every request has
  BotRun, BotDecision

ASSUME RulesAssumption ==
  \A text \in ValidTexts :
    /\ ~ IsError(ParseRulesCatalog(RulesOf[text]))
    /\ \A user \in DOMAIN RulesOf[text] :
         /\ IsList(RulesOf[text][user])
         /\ \A i \in DOMAIN RulesOf[text][user] : IsCondition(RulesOf[text][user][i].when)

ASSUME PurchasesAssumption ==
  \A purchase \in Purchases :
    \A field \in Fields \cup AlwaysSent : IsValue(purchase.context[field])

\* Of the constants of the two components, what holds for one is assumed for both.
ASSUME LoopAssumption ==
  /\ None \notin EventIds \cup DecisionIds
  /\ ClientIds \cup ServiceIds \subseteq EventIds
  /\ ClientIds \cap ServiceIds = {}
  /\ {DemoGate, ResumeId, CompleteId} \subseteq ClientIds
  /\ MaxEvents \in Nat
  /\ MaxFaults \in Nat
  /\ BotRun \in Runs
  /\ BotDecision \in DecisionIds
  /\ {None, "bot", "reader"} \cap Posts = {}
  /\ None \notin {"bot", "reader"}

VARIABLES
  timeline, call,                \* ApprovalGate
  page, lists, posts, faults,     \* TimelineController
  job,    \* for each thread, the request it serves
  bot     \* the agent

Gate == INSTANCE ApprovalGate

Page == INSTANCE TimelineController WITH Items <- DecisionIds, Nobody <- None

gateVars == <<timeline, call>>

pageVars == <<page, lists, posts, faults>>

vars == <<file, cache, load, raced, timeline, call, page, lists, posts, faults, job, bot>>

\* "bought" is an agent with its token; one that polls does so without a timeout.
BotDone == {"bought", "denied", "rejected", "failed"}

BotStates == {"catalog", "authorize", "receipt", "register", "poll", "mint"} \cup BotDone

\* RunFacts
Facts ==
  [event_count: {Number(n) : n \in 0..MaxEvents},
   has_pending_approval: {Boolean(FALSE), Boolean(TRUE)}]

\* job: "reader" is another client that fetches the catalog.
LoopTypeOK ==
  /\ job \in [Threads -> {None, "bot", "reader"} \cup Posts]
  /\ bot \in [purchase: Purchases, pc: BotStates, pinned: ValidTexts \cup {NoText},
              facts: Facts \cup {None},
              answer: [text: ValidTexts, outcome: Outcomes] \cup {None}]

LoopInit ==
  /\ job = [thread \in Threads |-> None]
  /\ \E purchase \in Purchases :
       bot = [purchase |-> purchase, pc |-> "catalog", pinned |-> NoText,
              facts |-> None, answer |-> None]

Init ==
  /\ CacheInit
  /\ Gate!Init
  /\ Page!PageInit
  /\ LoopInit

--------------------------------------------------------------------------------
(* The pool of threads *)

Free(thread) == job[thread] = None

Serving(thread, client) == job[thread] = client

Waiting(client) == \A thread \in Threads : ~ Serving(thread, client)

\* Threads are alike: the first free one takes a request.
Begin(thread, client) ==
  /\ Free(thread)
  /\ thread = CHOOSE free \in Threads : Free(free)
  /\ Waiting(client)
  /\ job' = [job EXCEPT ![thread] = client]

End(thread) == job' = [job EXCEPT ![thread] = None]

--------------------------------------------------------------------------------
(* GET /v1/policy/catalog *)

\* Bound: edits and other readers come until the agent has its answer from the policy.
PolicyInPlay == bot.pc \in {"catalog", "authorize"}

ReadCatalog(thread) ==
  /\ PolicyInPlay
  /\ Begin(thread, "reader")
  /\ StartLoad(thread)
  /\ UNCHANGED <<gateVars, pageVars, bot>>

AnswerReader(thread) ==
  /\ Serving(thread, "reader")
  /\ EndLoad(thread)
  /\ End(thread)
  /\ UNCHANGED <<gateVars, pageVars, bot>>

FetchCatalog(thread) ==
  /\ bot.pc = "catalog"
  /\ Begin(thread, "bot")
  /\ StartLoad(thread)
  /\ UNCHANGED <<gateVars, pageVars, bot>>

AnswerCatalog(thread) ==
  /\ Serving(thread, "bot")
  /\ bot.pc = "catalog"
  /\ EndLoad(thread)
  /\ bot' = IF load[thread].pc = "failed" THEN [bot EXCEPT !.pc = "failed"]
            ELSE [bot EXCEPT !.pc = "authorize", !.pinned = load[thread].text]
  /\ End(thread)
  /\ UNCHANGED <<gateVars, pageVars>>

--------------------------------------------------------------------------------
(* POST /v1/mcp/authorize_action *)

\* What the agent sends: the fields that the catalog it has seen asks for.
SentContext(purchase, text) ==
  LET wanted == RequiredContextFields(RulesForUser(RulesOf[text], purchase.user),
                                      purchase.action)
  IN  [field \in (wanted \cap Fields) \cup AlwaysSent |-> purchase.context[field]]

\* _build_run_facts; the run is readable, as nothing but the agent writes to it yet.
RunFacts(run) ==
  [event_count |-> Number(Len(timeline[run])),
   has_pending_approval |-> Boolean(Gate!ProjectRunStatus(timeline[run]).pending # None)]

Authorize(thread) ==
  /\ bot.pc = "authorize"
  /\ Begin(thread, "bot")
  /\ StartLoad(thread)
  /\ bot' = [bot EXCEPT !.facts = RunFacts(BotRun)]
  /\ UNCHANGED <<gateVars, pageVars>>

\* evaluate_authorize_action under the rules of a text, on a request made after the
\* catalog of the text pinned.
Judgements ==
  {[text |-> text, pinned |-> pinned, purchase |-> purchase, facts |-> facts,
    outcome |-> Decide(RulesForUser(RulesOf[text], purchase.user), purchase.action,
                       [context |-> SentContext(purchase, pinned), run |-> facts])]
   : text \in ValidTexts, pinned \in ValidTexts, purchase \in Purchases, facts \in Facts}

Outcome(text) ==
  (CHOOSE j \in Judgements :
     /\ j.text = text
     /\ j.pinned = bot.pinned
     /\ j.purchase = bot.purchase
     /\ j.facts = bot.facts).outcome

EndRequest(thread, agent) ==
  /\ bot' = agent
  /\ End(thread)
  /\ UNCHANGED gateVars

\* A condition that raises ends the request; a verdict leaves a receipt.
Judge(thread, text) ==
  LET answered == [bot EXCEPT !.answer = [text |-> text, outcome |-> Outcome(text)]]
  IN  \/ /\ IsError(Outcome(text))
         /\ EndRequest(thread, [answered EXCEPT !.pc = "failed"])
      \/ /\ ~ IsError(Outcome(text))
         /\ bot' = [answered EXCEPT !.pc = "receipt"]
         /\ Gate!AppendRuntimeReceipt(thread, BotRun, BotDecision)
         /\ UNCHANGED job

\* Wrong: the version that the agent names is not compared.
AnswerAnyVersion(thread) ==
  /\ Serving(thread, "bot")
  /\ bot.pc = "authorize"
  /\ EndLoad(thread)
  /\ \/ /\ load[thread].pc = "failed"
        /\ EndRequest(thread, [bot EXCEPT !.pc = "failed"])
     \/ /\ load[thread].pc = "loaded"
        /\ Judge(thread, load[thread].text)
  /\ UNCHANGED pageVars

\* On another version than it has seen the agent starts over.
AnswerAuthorize(thread) ==
  /\ Serving(thread, "bot")
  /\ bot.pc = "authorize"
  /\ EndLoad(thread)
  /\ \/ /\ load[thread].pc = "failed"
        /\ EndRequest(thread, [bot EXCEPT !.pc = "failed"])
     \/ /\ load[thread].pc = "loaded"
        /\ load[thread].text # bot.pinned
        /\ EndRequest(thread, [bot EXCEPT !.pc = "catalog", !.facts = None])
     \/ /\ load[thread].pc = "loaded"
        /\ load[thread].text = bot.pinned
        /\ Judge(thread, bot.pinned)
  /\ UNCHANGED pageVars

--------------------------------------------------------------------------------
(* The approval: registration, listing, verdict, polling *)

Register(thread) ==
  /\ bot.pc = "register"
  /\ Begin(thread, "bot")
  /\ Gate!RegisterApprovalRequest(thread, BotRun, BotDecision)
  /\ UNCHANGED <<cacheVars, pageVars, bot>>

\* Wrong: an approval is listed also once it is resolved.
RequestedDecisions ==
  {decision \in DecisionIds : Gate!PendingEvents(decision) # {}}

\* The projection of a run, if it holds the run up.
Pausing(run) ==
  {p \in {Gate!ProjectRunStatus(timeline[run])} : p.status = "paused" /\ p.pending # None}

\* list_pending_approvals
PendingDecisions ==
  {decision \in DecisionIds : \E run \in Runs : \E p \in Pausing(run) :
     Gate!EventOf(timeline[run], p.pending).decision_id = decision}

AllReadable == \A run \in Runs : Gate!Readable(timeline[run])

ListPending(list) ==
  /\ lists[list].state = "sent"
  /\ AllReadable
  /\ Page!AnswerList(list, PendingDecisions)
  /\ UNCHANGED <<cacheVars, gateVars, job, bot>>

\* One run that cannot be projected fails the whole list.
ListUnreadable(list) ==
  /\ lists[list].state = "sent"
  /\ ~ AllReadable
  /\ Page!ListFails(list)
  /\ UNCHANGED <<cacheVars, gateVars, faults, job, bot>>

\* POST /v1/approvals/decisions/{decision_id}
Resolve(thread, post) ==
  /\ posts[post].state = "sent"
  /\ Begin(thread, post)
  /\ Gate!ResolveByDecisionId(thread, posts[post].item, posts[post].verdict)
  /\ Page!Served(post)
  /\ UNCHANGED <<cacheVars, page, lists, faults, bot>>

CanResolve(decision) ==
  \E place \in Gate!PendingEvents(decision) :
    /\ Gate!PendingEvents(decision) = {place}
    /\ Gate!Resolvable(place[1], timeline[place[1]][place[2]].id)

RefuseToResolve(post) ==
  /\ posts[post].state = "sent"
  /\ ~ CanResolve(posts[post].item)
  /\ Page!Answered(post, "refused")
  /\ UNCHANGED <<cacheVars, gateVars, page, lists, faults, job, bot>>

\* get_approval_decision_state: the last event of the decision that resolves it, in
\* the one run that it is in here.
DecisionStatus(decision) ==
  LET events    == timeline[BotRun]
      resolving == {i \in DOMAIN events :
                      events[i].decision_id = decision /\ Gate!IsResolutionSignal(events[i])}
  IN  IF resolving = {} THEN "pending"
      ELSE events[CHOOSE i \in resolving : \A k \in resolving : k <= i].status

\* The agent polls; "pending" makes it poll again.
Poll ==
  /\ bot.pc = "poll"
  /\ \/ /\ DecisionStatus(BotDecision) = "approved"
        /\ bot' = [bot EXCEPT !.pc = "mint"]
     \/ /\ DecisionStatus(BotDecision) = "rejected"
        /\ bot' = [bot EXCEPT !.pc = "rejected"]
  /\ UNCHANGED <<cacheVars, gateVars, pageVars, job>>

Allowed == bot.answer.outcome.value = "allow"

\* The token and its receipt: authorize_action goes on to them when it allows, and
\* the endpoint of an approved decision.
Mint(thread) ==
  /\ bot.pc = "mint"
  /\ IF Allowed THEN Serving(thread, "bot") /\ UNCHANGED job
     ELSE Begin(thread, "bot") /\ DecisionStatus(BotDecision) = "approved"
  /\ Gate!AppendRuntimeReceipt(thread, BotRun, BotDecision)
  /\ UNCHANGED <<cacheVars, pageVars, bot>>

\* Not approved any more.
RefuseToMint ==
  /\ bot.pc = "mint"
  /\ ~ Allowed
  /\ Waiting("bot")
  /\ DecisionStatus(BotDecision) # "approved"
  /\ bot' = [bot EXCEPT !.pc = "failed"]
  /\ UNCHANGED <<cacheVars, gateVars, pageVars, job>>

--------------------------------------------------------------------------------
(* The append, after which the handler answers *)

AfterAppend ==
  CASE bot.pc = "receipt" ->
         CASE bot.answer.outcome.value = "allow"             -> "mint"
           [] bot.answer.outcome.value = "requires_approval" -> "register"
           [] OTHER                                          -> "denied"
    [] bot.pc = "register" -> "poll"
    [] OTHER               -> "bought"

StoreForBot(thread) ==
  /\ Serving(thread, "bot")
  /\ Gate!StoreEvent(thread)
  /\ bot' = [bot EXCEPT !.pc = AfterAppend]
  /\ IF AfterAppend = "mint" THEN UNCHANGED job ELSE End(thread)
  /\ UNCHANGED <<cacheVars, pageVars>>

StoreForPage(thread, post) ==
  /\ Serving(thread, post)
  /\ Gate!StoreEvent(thread)
  /\ Page!Answered(post, "accepted")
  /\ End(thread)
  /\ UNCHANGED <<cacheVars, page, lists, faults, bot>>

StoreFails(thread) ==
  /\ Page!Fault
  /\ Gate!StoreFails(thread)
  /\ End(thread)
  /\ IF Serving(thread, "bot")
     THEN bot' = [bot EXCEPT !.pc = "failed"] /\ UNCHANGED posts
     ELSE Page!Answered(job[thread], "refused") /\ UNCHANGED bot
  /\ UNCHANGED <<cacheVars, page, lists>>

--------------------------------------------------------------------------------
ElsewhereUnchanged == UNCHANGED <<gateVars, pageVars, job, bot>>

Edit == PolicyInPlay /\ EditFile /\ ElsewhereUnchanged

LoadRules(thread) == LoadStep(thread) /\ ElsewhereUnchanged

BesidePage == UNCHANGED <<cacheVars, gateVars, job, bot>>

BotStep ==
  \/ Poll
  \/ RefuseToMint
  \/ \E thread \in Threads :
       FetchCatalog(thread) \/ Authorize(thread) \/ Register(thread) \/ Mint(thread)

Handler(thread) ==
  \/ LoadRules(thread)
  \/ AnswerReader(thread)
  \/ AnswerCatalog(thread)
  \/ AnswerAuthorize(thread)
  \/ StoreForBot(thread)
  \/ \E post \in Posts : StoreForPage(thread, post)

PageSends(item) ==
  \E post \in Posts, verdict \in Page!Verdicts : Page!Click(post, item, verdict) /\ BesidePage

\* Bound: the page is opened for a request, with the policy at rest.
PageOpen ==
  /\ Waiting("reader")
  /\ bot.pc = "register" \/ Gate!PendingEvents(BotDecision) # {}

Refresh(list) == PageOpen /\ Page!Refresh(list) /\ BesidePage

ListStep(list) ==
  \/ Page!ListStep(list) /\ BesidePage
  \/ ListPending(list)
  \/ ListUnreadable(list)

PostStep(post) ==
  \/ \E thread \in Threads : Resolve(thread, post)
  \/ RefuseToResolve(post)
  \/ Page!PostStep(post) /\ BesidePage

Breaks ==
  \/ \E thread \in Threads : StoreFails(thread)
  \/ \E post \in Posts : Page!PostFails(post) /\ BesidePage
  \/ \E list \in Lists : Page!Fault /\ Page!ListFails(list) /\ BesidePage

Next ==
  \/ Edit
  \/ \E thread \in Threads : ReadCatalog(thread) \/ Handler(thread)
  \/ BotStep
  \/ \E item \in DecisionIds : PageSends(item)
  \/ \E list \in Lists : Refresh(list) \/ ListStep(list)
  \/ \E post \in Posts : PostStep(post)
  \/ Breaks

\* The server schedules its handlers, and takes waiting requests from a queue, so
\* none is passed over for ever; the page's timer and its promises run; the agent
\* polls; and a person who sees the request again and again decides in the end.
\* Edits, other clients and faults need not happen.
Fairness ==
  /\ \A thread \in Threads : WF_vars(Handler(thread))
  /\ SF_vars(BotStep)
  /\ WF_vars(\E list \in Lists : Refresh(list))
  /\ \A list \in Lists : WF_vars(ListStep(list))
  /\ \A post \in Posts : SF_vars(PostStep(post))
  /\ \A item \in DecisionIds : SF_vars(PageSends(item))

Spec == Init /\ [][Next]_vars /\ Fairness

--------------------------------------------------------------------------------
\* Types of the composed state.
TypeOK ==
  /\ CacheTypeOK
  /\ Gate!TypeOK
  /\ Page!PageTypeOK
  /\ LoopTypeOK

(* What the rules mean, in ordinary logic and without an order among them.  *)

\* What a node says, given what its children say.
Says(node, value, inputs) ==
  LET arg(i) == value[node.args[i]]
      alike  == (arg(1).kind = "text") <=> (arg(2).kind = "text")
  IN  CASE node.op = "literal"   -> node.value
        [] node.op = "attribute" -> inputs[node.of][node.name]
        [] node.op = "not" -> Boolean(~ Truth(arg(1)))
        [] node.op = "and" -> Boolean(\A i \in DOMAIN node.args : Truth(arg(i)))
        [] node.op = "or"  -> Boolean(\E i \in DOMAIN node.args : Truth(arg(i)))
        [] node.op = "=="  -> Boolean(alike /\ arg(1).value = arg(2).value)
        [] OTHER           -> Boolean(alike /\ arg(1).value > arg(2).value)

\* The values of the nodes of a condition, all inputs given.
Meaning(when, inputs) ==
  LET value[k \in 1..Len(when)] == Says(when[k], value, inputs)
  IN  value

Holds(when, inputs) == Truth(Meaning(when, inputs)[Len(when)])

Strictest(rules, action, inputs) ==
  LET matches(verb) ==
        \E i \in Applicable(rules, action) :
          rules[i].action = verb /\ Holds(rules[i].when, inputs)
  IN  IF matches("deny") THEN "deny"
      ELSE IF matches("require_approval") THEN "requires_approval" ELSE "allow"

\* The verdict on the whole purchase, with the facts the request was judged by.
Policy(text) ==
  Strictest(RulesForUser(RulesOf[text], bot.purchase.user), bot.purchase.action,
            [context |-> bot.purchase.context, run |-> bot.facts])

Answered == bot.answer # None

\* authorize_action answers with the strictest of the rules that match, judged on all
\* the purchase, whatever the order of the rules and although it sees only the
\* fields it is sent.
VerdictIsStrictestMatch ==
  Answered /\ ~ IsError(bot.answer.outcome)
    => bot.answer.outcome.value = Policy(bot.answer.text)

\* The rules name only fields that agents can send and what is known of a run.
RulesReadKnownNames ==
  \A text \in ValidTexts : \A user \in DOMAIN RulesOf[text] :
    \A i \in DOMAIN RulesOf[text][user] : \A node \in Nodes(RulesOf[text][user][i].when) :
      /\ node.op = "attribute" /\ node.of = "context" => node.name \in Fields \cup AlwaysSent
      /\ node.op = "attribute" /\ node.of = "run" =>
           node.name \in {"event_count", "has_pending_approval"}

\* An agent that sends the context fields the catalog asks for is never told that
\* one is missing, however the rules are edited between its two requests.
AdvertisedFieldsSuffice ==
  Answered => bot.answer.outcome # Failure("RULE_INPUT_ERROR")

Verdicts(decision) ==
  UNION {{<<run, i>> : i \in {k \in DOMAIN timeline[run] :
            timeline[run][k].decision_id = decision /\ timeline[run][k].answers # None}}
         : run \in Runs}

\* An agent buys only what the rules that it has seen allow, or what a person has
\* approved.
BoughtByRulesOrPerson ==
  bot.pc = "bought" =>
    \/ Policy(bot.pinned) = "allow"
    \/ \E place \in Verdicts(BotDecision) :
         timeline[place[1]][place[2]].status = "approved"

\* The page lets a person decide once: although lists arrive late and the server
\* looks before it appends, a decision has two verdicts only if a connection or an
\* append failed.
OneVerdictUnlessBroken ==
  \A decision \in DecisionIds : Cardinality(Verdicts(decision)) > 1 => faults > 0

\* The agent is not left waiting: it buys, or learns that it may not.
BotEnds == <>(bot.pc \in BotDone)

\* A decided approval leaves the page for good, also when an old list arrives after
\* a newer one; unless two verdicts made the run unreadable, which fails the list.
ResolvedLeavesPage ==
  \A decision \in DecisionIds :
    <>[](Verdicts(decision) # {} /\ AllReadable => decision \notin page.shown)
================================================================================
