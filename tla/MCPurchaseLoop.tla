----------------------------- MODULE MCPurchaseLoop -----------------------------
(* Small instance of PurchaseLoop for TLC: one agent, one person, four texts of the *)
(* rules file.                                                                      *)
EXTENDS PurchaseLoop, TLC

CONSTANT Ops   \* a text

Attribute(of, name) == [op |-> "attribute", of |-> of, name |-> name]

Literal(value) == [op |-> "literal", value |-> value]

Operator(op, args) == [op |-> op, args |-> args]

Amount == Attribute("context", "amount")

Team == Attribute("context", "team")

Number0 == Literal(Number(0))

Number1 == Literal(Number(1))

Rule(when, action) ==
  [complete |-> TRUE, applies_to |-> {"buy"}, when |-> when, action |-> action]

\* context.amount > n
AmountOver(n) == <<Amount, Literal(Number(n)), Operator(">", <<1, 2>>)>>

\* Allows by the absence of a match.
Open == [ann |-> <<Rule(AmountOver(5), "require_approval")>>]

\* The rule that matches last allows; the first is
\* context.amount > 1 and not context.team == 0.
Strict ==
  [ann |-> <<Rule(AmountOver(1) \o
                    <<Team, Number0, Operator("==", <<4, 5>>), Operator("not", <<6>>),
                      Operator("and", <<3, 7>>)>>, "deny"),
             Rule(AmountOver(1), "require_approval"),
             Rule(<<Literal(Boolean(TRUE))>>, "allow")>>]

\* Reads the run; a team that is a text has no order with numbers:
\* run.has_pending_approval or context.team == 0 or context.team > 1.
Capped ==
  [ann |-> <<Rule(<<Attribute("run", "has_pending_approval"),
                    Team, Number0, Operator("==", <<2, 3>>),
                    Team, Number1, Operator(">", <<5, 6>>),
                    Operator("or", <<1, 4, 7>>)>>, "deny")>>]

\* A rule of another user is not understood.
Broken == [ann |-> << >>, bob |-> <<Rule(AmountOver(1), "forbid")>>]

Rules == [open |-> Open, strict |-> Strict, capped |-> Capped, broken |-> Broken]

MCTexts == DOMAIN Rules

MCValidTexts == {text \in MCTexts : ~ IsError(ParseRulesCatalog(Rules[text]))}

\* A person is asked under the strict rules.
MCEdits == {<<"broken", "strict">>, <<"capped", "open">>, <<"open", "capped">>,
            <<"open", "broken">>}

Purchase(team) ==
  [user |-> "ann", action |-> "buy", context |-> [amount |-> Number(2), team |-> team]]

MCPurchases == {Purchase(Number(0)), Purchase(Text(Ops))}

\* The rules here read nothing else, as the theorem of AdvertisedFieldsSuffice asks.
ASSUME MCRulesReadKnownNames == RulesReadKnownNames
================================================================================
