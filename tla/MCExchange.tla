----------------------------- MODULE MCExchange ------------------------------
(***************************************************************************)
(* An instance of Exchange for TLC: answers with one or two choices and up *)
(* to two tools, counts around the largest i32 (seven), two spoiled lines,*)
(* three models whose price is found in different tiers, requests that are  *)
(* told by path, header or not at all and whose bodies say otherwise than  *)
(* their headers or cannot be read, and policies that scan, limit, overlap *)
(* or are switched off.                                                    *)
(***************************************************************************)
EXTENDS Exchange

NameChars == {"g", "4", "o", "-", "/"}
Dash == {"-"}
ExactNames == { <<"g">>, <<"g", "4">>, <<"o", "-", "4">>, <<"o", "-", "g">>, <<"/", "4">> }
StrippedNames == { <<"4">>, <<"o", "-", "4", "4">> }
Models == { <<"g", "4", "-">>, <<"o">>, <<"-">>, <<"/", "g">>, <<"4">> }
KnownFamilies == {}

Choice(tools, reason) == [tools |-> tools, reason |-> reason]
Stop == <<"stop">>
Calls == <<"tool_calls">>

ChoiceLists ==
    { << Choice(<<>>, Stop) >>,
      << Choice(<<"t1", "t1">>, Calls) >>,
      << Choice(<<"t1">>, Calls), Choice(<<"t2">>, Stop) >> }

AnAnswer(protocol, streaming, model, choices, input, output, reports) ==
    [protocol |-> protocol, streaming |-> streaming, model |-> model,
     choices |-> choices, input |-> input, output |-> output, reports |-> reports]

OpenAiAnswers ==
    {AnAnswer("openai", st, <<"o">>, cs, n[1], n[2], r) :
        st \in BOOLEAN, cs \in ChoiceLists, n \in {<<1, 2>>, <<6, 5>>},
        r \in {"every", "end", "never"}}

AnthropicAnswers ==
    {AnAnswer("anthropic", st, <<"o">>, << c >>, n[1], n[2], "end") :
        st \in BOOLEAN, c \in {Choice(<<>>, Stop), Choice(<<"t1", "t2", "t1">>, Calls)},
        n \in {<<1, 2>>, <<6, 5>>, <<9, 1>>}}

OtherModels ==
    {AnAnswer("openai", FALSE, m, << Choice(<<>>, Stop) >>, 1, 2, "end") : m \in Models}

OtherProtocols ==
    {AnAnswer(p, st, <<"o">>, << Choice(<<>>, Stop) >>, 1, 2, "never") :
        p \in {"mcp", "a2a", "unknown"}, st \in BOOLEAN}

SomeAnswers == OpenAiAnswers \cup AnthropicAnswers \cup OtherModels \cup OtherProtocols

Headers(id, name, token) == [id |-> id, name |-> name, token |-> token]
ById == Headers(<<"a">>, <<"b">>, <<>>)
ByName == Headers(<<>>, <<"b">>, <<1, 2, 3>>)
ByKey == Headers(<<>>, <<>>, <<1, 2, 3>>)
ByAddress == Headers(<<>>, <<>>, <<1>>)

Request(route, a2a, sse, readable, stream, headers, address) ==
    [route |-> route, a2a |-> a2a, sse |-> sse, headers |-> headers, address |-> address,
     body |-> [readable |-> readable, stream |-> stream, model |-> <<"g">>]]

ChatRequests ==
    {Request(x[1], FALSE, x[2], TRUE, x[3], x[4], "here") :
        x \in { <<"openai", TRUE, FALSE, ById>>, <<"openai", FALSE, TRUE, ByName>>,
                <<"anthropic", TRUE, FALSE, ByKey>>, <<"anthropic", FALSE, TRUE, ByAddress>> }}
      \cup {Request(route, TRUE, TRUE, FALSE, TRUE, ByAddress, "there") :
                route \in {"openai", "anthropic"}}

SomeRequests ==
    ChatRequests
      \cup {Request("mcp", FALSE, sse, FALSE, FALSE, ById, "here") : sse \in BOOLEAN}
      \cup {Request(route, TRUE, TRUE, FALSE, FALSE, ById, "here") : route \in {"a2a", "other"}}
      \cup {Request("other", FALSE, FALSE, FALSE, FALSE, ByKey, "here")}
Here == {"here"}
SomeQueries == Models \cup { <<"g">> }

Rule(scan, class, tokens, monthly, severity) ==
    [scan |-> scan, class |-> class, tokens |-> tokens, cost |-> <<>>, monthly |-> monthly,
     severity |-> severity]
Policy(id, named, enabled, rule) ==
    [id |-> id, named |-> named, enabled |-> enabled, rules |-> <<rule>>]

Pii(enabled, severity) ==
    Policy("pii-detection", "pii", enabled, Rule({"email", "phone"}, Everyone, <<>>, <<>>, severity))
Cap(enabled) == Policy("budget-cap", "budget", enabled, Rule({}, Everyone, <<5>>, <<>>, <<"high">>))
Both == Policy("limits", "", TRUE, Rule({"email"}, Everyone, <<5>>, <<>>, <<"critical">>))
OfOne(class) == Policy("budget-of-one", "budget", TRUE, Rule({}, class, <<5>>, <<>>, <<"high">>))
Monthly == Policy("monthly", "", TRUE, Rule({}, Everyone, <<>>, <<9>>, <<"high">>))

Ssn == Policy("pii-ssn", "pii", TRUE, Rule({"ssn"}, Everyone, <<>>, <<>>, <<"urgent">>))

File(state, policies) == [state |-> state, policies |-> policies]
SomeFiles ==
    {File("read", c) : c \in
        { << Pii(TRUE, <<"low">>) >>, << Pii(TRUE, <<>>), Cap(TRUE) >>,
          << Cap(TRUE), Pii(TRUE, <<"critical">>) >>, << Pii(FALSE, <<"critical">>), Cap(FALSE) >>,
          << Both, Cap(TRUE) >>, << OfOne(<<"b">>), Pii(TRUE, <<"low">>) >>,
          << OfOne(<<"key", <<2, 3>> >>), Ssn >>, << Monthly >> }}
      \cup {File("missing", <<>>), File("broken", << Cap(TRUE) >>)}

Item(kind, digits, late, split) == [kind |-> kind, digits |-> digits, late |-> late, split |-> split]
SomeTexts ==
    { << Item("email", <<>>, FALSE, FALSE) >>, << Item("email", <<>>, FALSE, TRUE) >>,
      << Item("phone", <<>>, TRUE, FALSE), Item("email", <<>>, FALSE, FALSE) >>,
      << Item("ssn", <<899, 1, 1>>, FALSE, FALSE) >>, << Item("ssn", <<900, 1, 1>>, FALSE, FALSE) >>,
      << >> }
=============================================================================
