----------------------------- MODULE MCPlatform ------------------------------
(***************************************************************************)
(* An instance of Platform for TLC: three events of two agents, each a     *)
(* request without usage, an answer that half fills a limit, or one with   *)
(* personal data; keys of every tier, an expired one and overrides; rules  *)
(* that block a model, alert on a count, and name a field nobody knows.    *)
(***************************************************************************)
EXTENDS Platform, TLC

CONSTANTS e1, e2, e3, a1, a2

ThreeEvents == {e1, e2, e3}
TwoAgents == {a1, a2}
Symmetric == Permutations(ThreeEvents)

Use(tokens, cost) == [tokens |-> tokens, cost |-> cost]
Text(s) == <<"text", s>>
Number(n) == <<"number", n>>

Holds(agent, amount, url, tags, payload) ==
    [agent |-> agent, amount |-> amount, url |-> url, tags |-> tags, payload |-> payload,
     fields |-> [model |-> Text(IF amount.tokens = 0 THEN "" ELSE "gpt-4"),
                 input_tokens |-> Number(amount.tokens)]]

SomeContents ==
    { Holds(a1, Use(0, 0), {"ip"}, {}, {}), Holds(a1, Use(2, 1), {}, {"name"}, {}),
      Holds(a1, Use(1, 2), {}, {"name", "email"}, {}), Holds(a2, Use(2, 1), {}, {}, {"ssn"}) }

Payload(tier, policy, pii, expires) ==
    [GenerateKey(tier, 0, expires) EXCEPT !.policy = policy, !.pii = pii]

SomeKeys ==
    { <<>>, GenerateKey("starter", 25, "later"), GenerateKey("growth", 0, "never"),
      GenerateKey("enterprise", 0, "past"), GenerateKey("enterprise", 0, "later"),
      Payload("growth", <<FALSE>>, <<>>, "never"), Payload("enterprise", <<>>, <<FALSE>>, "never") }

Limit(tokens, cost) == [tokens |-> tokens, cost |-> cost]
ConfigFile(readable, limit, agent) ==
    [readable |-> readable, section |-> [limit |-> limit, agent |-> agent]]

Limited == (a1 :> Limit(<<2>>, <<2>>)) @@ (a2 :> Limit(<<>>, <<0>>))
SomeConfigFiles ==
    { ConfigFile(FALSE, Limit(<<5>>, <<>>), Limited), ConfigFile(TRUE, Limit(<<5>>, <<>>), Limited) }
SomeApiKeys == { <<"secret">> }

LimitsOfTiers ==
    [community |-> NoLimit, starter |-> Limit(<<3>>, <<2>>), growth |-> Limit(<<4>>, <<4>>),
     enterprise |-> NoLimit]

Condition(field, operator, value) == [field |-> field, operator |-> operator, value |-> value]
Rule(enabled, conditions, action) ==
    [enabled |-> enabled, conditions |-> conditions, action |-> action]

BlockModel == Rule(TRUE, {Condition("model", "equals", Text("gpt-4"))}, "block")
AlertMany == Rule(TRUE, {Condition("input_tokens", "greater_than", Number(1)),
                         Condition("model", "contains", Text("gpt-4"))}, "alert")
AllowFew == Rule(TRUE, {Condition("input_tokens", "less_than", Number(1)),
                        Condition("model", "matches", {Text(""), Text("gpt-4")})}, "allow")
Misspelt == Rule(TRUE, {Condition("modle", "not_equals", Text("gpt-4"))}, "alert")

Document(ok, rs) == << [ok |-> ok, rules |-> rs] >>
SomeDocuments ==
    { <<>>, Document(FALSE, <<>>),
      Document(TRUE, << AllowFew, AlertMany, [BlockModel EXCEPT !.enabled = FALSE] >>),
      Document(TRUE, << AllowFew, Misspelt, BlockModel >>),
      Document(TRUE, << BlockModel >>) }
SomeTokens == { <<>>, <<"secret">> }
=============================================================================
