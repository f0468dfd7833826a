------------------------------ MODULE Exchange ------------------------------
(***************************************************************************)
(* What becomes of one request and its answer: the proxy decides by the    *)
(* request how it will read the answer; the lines of the answer arrive,    *)
(* some may be spoiled and the rest may be missing; the proxy reads the    *)
(* model, the tokens and the tools out of the collected body, looks up a   *)
(* price, tags the event by its policies and adds the tokens to the budget *)
(* of the agent.                                                           *)
(* Modelled from crates/agentland-proxy/src/proxy/handler.rs, interceptor  *)
(* .rs (log_response_event) and upstream.rs (the body is collected whole), *)
(* over Routing, Wire, Pricing and Tagging.                                *)
(*                                                                         *)
(* An answer is what the provider means by it; OpenAiScript, AnthropicScript*)
(* and Body are the two forms in which it is sent (external).              *)
(***************************************************************************)
EXTENDS Routing, Wire, Pricing, Tagging

CONSTANTS
    Requests,       \* what agents ask
    Answers,        \* what providers answer
    Files,          \* what policies.yaml may be
    Texts,          \* the personal data in the text of an answer
    CountMax,       \* u64::MAX
    MaxFaults       \* bound of the model: how much of a stream is spoiled

\* What a provider can mean.
IsAnswer(a) ==
    /\ a.streaming \in BOOLEAN
    /\ a.model \in Queries
    /\ a.input \in Nat /\ a.output \in Nat
    /\ a.choices \in Seq(Range(a.choices))
    /\ \A i \in DOMAIN a.choices : a.choices[i].tools \in Seq(Range(a.choices[i].tools))
    /\ a.protocol = "anthropic" => Len(a.choices) = 1 /\ a.reports = "end"

ASSUME ExchangeAssumption ==
    /\ CountMax \in Nat /\ CountMax > 2 * (IntMax + 1)
    /\ MaxFaults \in Nat
    /\ \A a \in Answers : IsAnswer(a)
    /\ \A r \in Requests : r.body.model \in Queries
    /\ \A file \in Files : IsPolicyList(file.policies)
    /\ \A t \in Texts : \A i \in DOMAIN t : t[i].kind \in Patterns

VARIABLES
    request,    \* the request of this exchange
    answer,     \* its answer
    stage,      \* "sending", "sent", "priced", "done"
    wire,       \* the lines that have arrived
    faults,     \* history: how many lines were spoiled or are missing
    reading,    \* what the parsers made of the body
    text,       \* the personal data in the answer
    config,     \* the policies in force
    verdict,    \* what check_budget said
    tag,        \* event.compliance_tag
    counted     \* DailyUsage.tokens of the agent

vars == <<request, answer, stage, wire, faults, reading, text, config, verdict, tag, counted, lookupVars>>

-----------------------------------------------------------------------------
(* The provider (external)                                                 *)

Chunk(a, usage, choices) ==
    DataLine([ok |-> TRUE, model |-> <<a.model>>, usage |-> usage, choices |-> choices])

\* A provider may report the usage so far with every chunk, or only at the end.
Partial(a) == IF a.reports = "every" THEN << Usage(a.input, 0, a.input) >> ELSE <<>>

ChoiceScript(a, c) ==
    [i \in DOMAIN c.tools |-> Chunk(a, Partial(a), << [reason |-> <<>>, tools |-> <<c.tools[i]>>] >>)]
      \o << Chunk(a, Partial(a), << [reason |-> c.reason, tools |-> <<>>] >>) >>

OpenAiScript(a) ==
    FoldLeft(LAMBDA acc, c : acc \o ChoiceScript(a, c), <<>>, a.choices)
      \o (IF a.reports = "never" THEN <<>>
          ELSE << Chunk(a, << Usage(a.input, a.output, a.input + a.output) >>, <<>>) >>)
      \o << DoneLine >>

AnthropicScript(a) ==
    LET c == a.choices[1]
        block(tool) == << EventLine("content_block_start"),
                          DataLine([NoFields EXCEPT !.tools = <<tool>>]) >>
    IN << EventLine("message_start"),
          DataLine([NoFields EXCEPT !.model = <<a.model>>, !.input = <<a.input>>]) >>
       \o FoldLeft(LAMBDA acc, tool : acc \o block(tool), <<>>, c.tools)
       \o << EventLine("message_delta"),
             DataLine([NoFields EXCEPT !.reason = c.reason, !.output = <<a.output>>]),
             EventLine("message_stop"), DataLine(NoFields) >>

\* A stream of another protocol says nothing that the parsers are asked for.
Script(a) ==
    CASE a.protocol = "openai" -> OpenAiScript(a)
      [] a.protocol = "anthropic" -> AnthropicScript(a)
      [] OTHER -> << OtherLine >>

\* A provider streams only what it was asked to stream, and may ignore the
\* wish.
MayAnswer(r, a) ==
    /\ a.protocol = UpstreamUrl(r, ProtocolOf(r)).base
    /\ a.streaming => IF a.protocol \in Chatting THEN r.body.stream ELSE r.sse

Body(a) ==
    [model |-> a.model, choices |-> a.choices,
     usage |-> IF a.reports = "never" THEN <<>>
               ELSE << Usage(a.input, a.output, a.input + a.output) >>]

-----------------------------------------------------------------------------
Init ==
    /\ request \in Requests
    /\ answer \in {a \in Answers : MayAnswer(request, a)}
    /\ stage = IF answer.streaming THEN "sending" ELSE "sent"
    /\ wire = <<>>
    /\ faults = 0
    /\ reading = NoReading
    /\ text = <<>>
    /\ config = <<>>
    /\ verdict = "allow"
    /\ tag = NoTag
    /\ counted = 0
    /\ LookupInit /\ query = answer.model

TypeOK ==
    /\ LookupTypeOK
    /\ request \in Requests
    /\ answer \in Answers
    /\ stage \in {"sending", "sent", "priced", "done"}
    /\ faults \in 0 .. Len(Script(answer)) + MaxFaults
    /\ \A u \in Range(reading.usage) : Fits(u.input) /\ Fits(u.output) /\ Fits(u.total)
    /\ text \in Texts \cup {<<>>}
    /\ config \in {<<>>} \cup {EngineConfig(file) : file \in Files}
    /\ verdict \in {"allow", "high", "block"}
    /\ tag.status \in {"audit", "pass", "warn", "block"}
    /\ counted \in 0 .. CountMax

logged == <<reading, text, config, verdict, tag, counted>>

Receive(line) == wire' = Append(wire, line)

SendLine ==
    /\ stage = "sending"
    /\ Len(wire) < Len(Script(answer))
    /\ Receive(Script(answer)[Len(wire) + 1])
    /\ UNCHANGED <<request, answer, stage, faults, logged, lookupVars>>

\* A line arrives in a form the parsers do not know, or with a JSON that was
\* cut off.
SpoilLine ==
    /\ stage = "sending"
    /\ faults < MaxFaults
    /\ Len(wire) < Len(Script(answer))
    /\ Receive(OtherLine) \/ Receive(DataLine(Bad))
    /\ faults' = faults + 1
    /\ UNCHANGED <<request, answer, stage, logged, lookupVars>>

\* The provider ends the stream, perhaps too early. (A connection that
\* breaks makes resp.bytes() fail, and nothing is logged.)
EndStream ==
    /\ stage = "sending"
    /\ stage' = "sent"
    /\ faults' = faults + Len(Script(answer)) - Len(wire)
    /\ UNCHANGED <<request, answer, wire, logged, lookupVars>>

-----------------------------------------------------------------------------
(* log_response_event                                                      *)

\* The request has decided which parser is used: a body is no stream for the
\* one, a stream is no JSON for the other, and the other protocols have none.
ReadAnswer ==
    LET p == ProtocolOf(request) IN
    CASE p.kind \notin Chatting -> NoReading
      [] p.kind \in Chatting /\ p.streaming -> ReadStream(p.kind, wire, request.body.model)
      [] p.kind \in Chatting /\ ~ p.streaming ->
            IF answer.streaming THEN NoReading ELSE ReadBody(p.kind, Body(answer))

Read ==
    /\ stage = "sent"
    /\ reading' = ReadAnswer
    /\ stage' = "priced"
    /\ wire' = <<>>
    /\ query' = IF reading'.model = <<>> THEN query ELSE reading'.model[1]
    /\ UNCHANGED <<request, answer, faults, text, config, verdict, tag, counted,
                   map, left, forward, reverse, price>>

HasUsage == reading.usage # <<>>

\* The lookup is made only for an event with both counts and a model.
LookUp ==
    /\ stage = "priced"
    /\ HasUsage /\ reading.model # <<>>
    /\ LookupNext
    /\ UNCHANGED <<request, answer, stage, wire, faults, logged>>

Match(item) == [kind |-> item.kind, digits |-> item.digits]

\* summarize_json_payload: JSON is scanned string by string; a stream is no
\* JSON, so its first 4000 characters are one string, in which the text is
\* split over chunks, and the time of creation of a chunk has ten digits like
\* a phone number.
Payload(a, t) ==
    IF a.streaming
    THEN << {Match(t[i]) : i \in {j \in DOMAIN t : ~ t[j].late /\ ~ t[j].split}}
              \cup (IF a.protocol = "openai" THEN {[kind |-> "phone", digits |-> <<>>]} ELSE {}) >>
    ELSE [i \in DOMAIN t |-> {Match(t[i])}]

\* check_budget speaks only where policies.yaml sets a limit for the agent or
\* for all.
Verdicts(c) ==
    IF \A class \in {Everyone, ResolveAgentId(request)} : ExtractBudgetPolicy(c, class) = NoLimits
    THEN {"allow"} ELSE {"allow", "high", "block"}

Event(a, t) == [payload |-> Payload(a, t), tags |-> {}]

Saturating(n) == IF n > CountMax THEN CountMax ELSE n

\* total_tokens.unwrap_or(0) as u64
AsUnsigned(n) == IF n < 0 THEN n + CountMax + 1 ELSE n

\* The event is tagged, its usage recorded, and it is sent.
LogEvent ==
    /\ stage = "priced"
    /\ map = "none"
    /\ HasUsage /\ reading.model # <<>> => price # Pending
    /\ text' \in Texts
    /\ \E file \in Files : config' = EngineConfig(file)
    /\ verdict' \in Verdicts(config')
    /\ tag' = HookTag(config', Event(answer, text'), verdict')
    /\ counted' = Saturating(counted + IF HasUsage THEN AsUnsigned(reading.usage[1].total) ELSE 0)
    /\ stage' = "done"
    /\ UNCHANGED <<request, answer, wire, faults, reading, lookupVars>>

Next == SendLine \/ SpoilLine \/ EndStream \/ Read \/ LookUp \/ LogEvent

Spec == Init /\ [][Next]_vars

-----------------------------------------------------------------------------
(* Properties                                                              *)

\* The numbers an i32 can hold, with their sum.
Sane == answer.input + answer.output =< IntMax

IsRead == stage \in {"priced", "done"}

\* The answer has the form the request announced, and the proxy saw it.
Understood == answer.protocol \in Chatting /\ answer.streaming = IsStreaming(request.body)

Reasons == {answer.choices[i].reason : i \in DOMAIN answer.choices}

(* A stream that arrives whole is recorded as the same answer would be     *)
(* when it is not streamed: with its model, its tokens and, each once, its *)
(* tools, whatever the accept header said. The reason is that of the last  *)
(* choice and not of the first (openai.rs:124, 209-220; anthropic.rs:      *)
(* 97-121, 239-290; handler.rs:295-306).                                   *)
StreamReadsAsBody ==
    IsRead /\ answer.streaming /\ answer.choices # <<>> /\ Understood /\ faults = 0 /\ Sane =>
        LET body == ReadBody(answer.protocol, Body(answer)) IN
        /\ reading.model = body.model
        /\ reading.usage = body.usage
        /\ reading.tools = Join(<<>>, body.tools)
        /\ reading.reason \in Reasons
        /\ Len(answer.choices) = 1 => reading.reason = body.reason

(* Whatever is spoiled or missing, the record holds nothing that was not   *)
(* meant: no tool that was not called, no more tokens than were used, and  *)
(* an Anthropic stream that was cut before its end has no usage at all     *)
(* (openai.rs:186-248, anthropic.rs:225-236).                              *)
NothingInvented ==
    IsRead /\ Sane =>
        /\ Range(reading.tools) \subseteq UNION {Range(answer.choices[i].tools) : i \in DOMAIN answer.choices}
        /\ \A u \in Range(reading.usage) :
              /\ u.input = answer.input
              /\ u.output \in {0, answer.output}
              /\ u.total = u.input + u.output
              /\ answer.protocol = "anthropic" => u.output = answer.output
        /\ reading.model \in {<<>>, <<answer.model>>, <<request.body.model>>}

(* The budget counts the tokens that were read, and more than the provider *)
(* reported only when their sum is no i32: the addition and the casts wrap *)
(* and a negative total becomes a huge count (interceptor.rs:288-298, 320).*)
CountIsReported ==
    /\ counted > answer.input + answer.output => ~ Sane
    /\ stage = "done" /\ Sane /\ faults = 0 /\ Understood /\ answer.reports # "never"
         => counted = answer.input + answer.output

Statuses == << "audit", "pass", "warn", "block" >>
Level(status) == CHOOSE i \in DOMAIN Statuses : Statuses[i] = status

Alarm(e) ==
    LET words == e.rules[1].severity
    IN ComplianceStatus(IF words = <<>> THEN "high" ELSE ParseSeverity(words[1]))

Active == {i \in DOMAIN config : config[i].enabled}

(* The tag is as bad as the worst of what the policies in force found, and *)
(* no worse: a limit that is exceeded blocks, a kind of data that is asked *)
(* for and seen has the status of the severity of its policy, and a number *)
(* that nobody can have is no data. A stream hides what is late or split,  *)
(* and alone shows what nobody wrote (engine.rs:113-161, 164-243;          *)
(* interceptor.rs:436-447; pii.rs:305-352).                                *)
TagIsWorst ==
    stage = "done" =>
        LET real    == {i \in DOMAIN text : text[i].kind = "ssn" => IsValidSsn(text[i].digits)}
            written == {text[i].kind : i \in real}
            plain   == {text[i].kind : i \in {j \in real : ~ text[j].late /\ ~ text[j].split}}
            alarms(kinds) == {Alarm(config[i]) :
                                i \in {j \in Active : ScanFor(config[j]) \cap kinds # {}}}
            over == IF verdict = "block" THEN {"block"} ELSE {}
        IN /\ \A s \in alarms(IF answer.streaming THEN plain ELSE written) \cup over :
                 Level(tag.status) >= Level(s)
           /\ tag = NoTag \/ tag.status \in
                 alarms(written \cup (IF answer.streaming THEN {"phone"} ELSE {})) \cup over
                   \cup (IF verdict = "high" THEN {"warn"} ELSE {})
=============================================================================
