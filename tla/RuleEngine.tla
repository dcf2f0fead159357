------------------------------- MODULE RuleEngine -------------------------------
(***************************************************************************)
(* The policy (services/authorize_action_service.py): how a rules file is  *)
(* read, how the condition of a rule is evaluated, which of the matching   *)
(* rules decides, and what the catalog tells an agent to send.  A          *)
(* condition is the list of the nodes of the tree that ast.parse makes of  *)
(* it, children before their parents, so the last node is the root; a      *)
(* parent names its children by their places in the list.  Of the          *)
(* comparisons, which all evaluate both sides first, equality and the      *)
(* order of numbers are modelled, and a chain of comparisons has two       *)
(* operands.                                                               *)
(***************************************************************************)
EXTENDS Integers, Sequences

--------------------------------------------------------------------------------
(* Values and outcomes.  The kind keeps values of different types apart; a       *)
(* boolean counts as a number, and a text is a model value.                      *)

Boolean(b) == [kind |-> "bool", value |-> IF b THEN 1 ELSE 0]

Number(n) == [kind |-> "number", value |-> n]

Text(t) == [kind |-> "text", value |-> t]

Failure(code) == [kind |-> "error", value |-> code]

Verdict(state) == [kind |-> "state", value |-> state]

IsError(outcome) == outcome.kind = "error"

IsValue(outcome) == outcome.kind \in {"bool", "number", "text"}

\* What evaluate_authorize_action returns or raises.
Outcomes ==
  [kind: {"state"}, value: {"allow", "requires_approval", "deny"}]
  \cup [kind: {"error"}, value: {"RULE_INPUT_ERROR", "RULE_EXPRESSION_ERROR"}]

\* bool(value); the texts here are not empty.
Truth(outcome) == outcome.kind = "text" \/ outcome.value # 0

\* _compare_values: texts have no order with numbers, and equality never raises.
CompareValues(left, op, right) ==
  LET comparable == (left.kind = "text") <=> (right.kind = "text")
  IN  CASE op = "=="               -> Boolean(comparable /\ left.value = right.value)
        [] op = ">" /\ comparable  -> Boolean(left.value > right.value)
        [] OTHER                   -> Failure("RULE_EXPRESSION_ERROR")

--------------------------------------------------------------------------------
(* RuleEvaluator.  inputs.context and inputs.run are functions from names.  *)

\* all() and any() over the outcomes of the terms: the first that decides, or raises,
\* is the last one looked at.
EvalTerms(op, terms) ==
  LET last  == {i \in DOMAIN terms : IsError(terms[i]) \/ Truth(terms[i]) # (op = "and")}
      first == CHOOSE i \in last : \A k \in last : i <= k
  IN  IF last = {} THEN Boolean(op = "and")
      ELSE IF IsError(terms[first]) THEN terms[first]
      ELSE Boolean(op # "and")

\* RuleEvaluator._eval of one node, given the outcomes of its children.
EvalNode(node, outcome, inputs) ==
  CASE node.op = "literal" -> node.value
    [] node.op = "attribute" ->
         IF node.of \notin DOMAIN inputs THEN Failure("RULE_EXPRESSION_ERROR")
         ELSE IF node.name \in DOMAIN inputs[node.of] THEN inputs[node.of][node.name]
         ELSE Failure("RULE_INPUT_ERROR")
    [] node.op = "not" ->
         LET arg == outcome[node.args[1]]
         IN  IF IsError(arg) THEN arg ELSE Boolean(~ Truth(arg))
    [] node.op \in {"and", "or"} ->
         EvalTerms(node.op, [i \in DOMAIN node.args |-> outcome[node.args[i]]])
    [] OTHER ->
         LET left  == outcome[node.args[1]]
             right == outcome[node.args[2]]
         IN  IF IsError(left) THEN left
             ELSE IF IsError(right) THEN right
             ELSE CompareValues(left, node.op, right)

\* The outcomes of all nodes; what a term that is never looked at would give is no
\* part of the outcome of its parent.
Eval(when, inputs) ==
  LET outcome[k \in 1..Len(when)] == EvalNode(when[k], outcome, inputs)
  IN  outcome

\* A list, of rules or of the nodes of a condition.
IsList(list) == Len(list) \in Nat /\ DOMAIN list = 1..Len(list)

\* What ast.parse yields.
IsCondition(when) ==
  /\ IsList(when) /\ when # << >>
  /\ \A k \in DOMAIN when :
       LET node == when[k]
       IN  /\ node.op = "literal" => IsValue(node.value)
           /\ node.op \notin {"literal", "attribute"} =>
                /\ IsList(node.args)
                /\ \A i \in DOMAIN node.args : node.args[i] \in 1..(k - 1)
           /\ node.op = "not" => 1 \in DOMAIN node.args
           /\ node.op \in {"==", ">"} => {1, 2} \subseteq DOMAIN node.args

\* ast.walk
Nodes(when) == {when[k] : k \in DOMAIN when}

SupportedOps == {"literal", "attribute", "not", "and", "or", "==", ">"}

\* evaluate: syntax is checked over the whole tree before anything is evaluated, and
\* the result must be a boolean.
Evaluate(when, inputs) ==
  IF \E node \in Nodes(when) : node.op \notin SupportedOps
  THEN Failure("RULE_EXPRESSION_ERROR")
  ELSE LET result == Eval(when, inputs)[Len(when)]
       IN  IF IsError(result) \/ result.kind = "bool" THEN result
           ELSE Failure("RULE_EXPRESSION_ERROR")

--------------------------------------------------------------------------------
(* The rules file.  A file is a function from its users to their rules; a rule   *)
(* is complete if it has the texts the parser asks for.                          *)

RuleActions == {"allow", "require_approval", "deny"}

WellFormedRule(rule) ==
  rule.complete /\ rule.applies_to # {} /\ rule.action \in RuleActions

\* _parse_rules_catalog: one rule in error, of any user, refuses the file.
ParseRulesCatalog(raw) ==
  IF \E user \in DOMAIN raw : \E i \in DOMAIN raw[user] : ~ WellFormedRule(raw[user][i])
  THEN Failure("RULE_CONFIGURATION_ERROR")
  ELSE [kind |-> "rules", value |-> raw]

RulesForUser(catalog, user) == IF user \in DOMAIN catalog THEN catalog[user] ELSE << >>

--------------------------------------------------------------------------------
(* evaluate_authorize_action *)

ActionPriority(action) ==
  CASE action = "deny" -> 3 [] action = "require_approval" -> 2 [] OTHER -> 1

\* Wrong: the last rule that matches decides.
LastRule(rules, matched) == rules[CHOOSE i \in matched : \A k \in matched : k <= i]

\* _winner_rule: the loop over the matched rules, in the order of the file, with the
\* place of the best rule so far; 0 is no rule yet.
WinnerRule(rules, matched) ==
  LET better(i, best) ==
        best = 0 \/ ActionPriority(rules[i].action) > ActionPriority(rules[best].action)
      best[i \in 0..Len(rules)] ==
        IF i = 0 THEN 0
        ELSE IF i \in matched /\ better(i, best[i - 1]) THEN i ELSE best[i - 1]
  IN  rules[best[Len(rules)]]

DecisionStateForAction(action) ==
  IF action = "require_approval" THEN "requires_approval" ELSE action

\* The places of the rules for an action.
Applicable(rules, action) == {i \in DOMAIN rules : action \in rules[i].applies_to}

\* The loop over the rules: the first condition that raises ends the request.
Decide(rules, action, inputs) ==
  LET outcome(i) == Evaluate(rules[i].when, inputs)
      failing == {i \in Applicable(rules, action) : IsError(outcome(i))}
      matched == {i \in Applicable(rules, action) : Truth(outcome(i))}
  IN  IF failing # {} THEN outcome(CHOOSE i \in failing : \A k \in failing : i <= k)
      ELSE IF matched = {} THEN Verdict("allow")
      ELSE Verdict(DecisionStateForAction(WinnerRule(rules, matched).action))

\* Wrong: only the first name in a condition is looked at.
FieldsOfFirstTerms(rules, action) ==
  {node.name : node \in {n \in {rules[i].when[1] : i \in Applicable(rules, action)} :
                           n.op = "attribute" /\ n.of = "context"}}

\* get_policy_catalog: the context fields that the rules for an action name.
RequiredContextFields(rules, action) ==
  {node.name : node \in {n \in UNION {Nodes(rules[i].when) : i \in Applicable(rules, action)} :
                           n.op = "attribute" /\ n.of = "context"}}
================================================================================
