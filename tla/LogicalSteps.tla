---------------------------- MODULE LogicalSteps ----------------------------
(***************************************************************************)
(* How the recorded events of a session become the steps a reviewer sees.  *)
(* Two programs do it, each in its own way: build_logical_steps in         *)
(* crates/agentland-proxy/src/api/handlers/reviews.rs for the export and   *)
(* the assistant, buildTimeline in dashboard/src/pages/ReviewPage.tsx for  *)
(* the screen. The functions of reviews.rs around an assistant's answer    *)
(* are here too.                                                           *)
(*                                                                         *)
(* An event is [id, direction, calls, results]: the tool calls of the      *)
(* answer in an inbound event, the tool messages of the conversation in    *)
(* the request of an outbound one. A call is [id, name]; so is a result,   *)
(* with the id of its call.                                                *)
(***************************************************************************)
EXTENDS Integers, SequencesExt

CONSTANT Null       \* JSON null, Option::None, undefined

-----------------------------------------------------------------------------
(* build_logical_steps                                                     *)

HasEvent(events, i) == i \in DOMAIN events

\* Faulty variant: the answer is the next inbound event, wherever it is.
NextInboundAt(events, i) ==
    SelectInSubSeq(events, i + 1, Len(events), LAMBDA e : e.direction = "inbound")

\* The position of the answer of the request at i, 0 if there is none: only the
\* very next event can be it.
ResponseAt(events, i) ==
    IF HasEvent(events, i + 1) /\ events[i + 1].direction = "inbound" THEN i + 1 ELSE 0

IdAt(events, i) == IF HasEvent(events, i) THEN events[i].id ELSE Null

\* Faulty variant: any tool message will do.
AnyResult(results, call) == IF results = << >> THEN Null ELSE results[1].id

\* The first tool message that has the id of the call or the name of its function.
ResultOf(results, call) ==
    LET i == SelectInSeq(results, LAMBDA r : r.id = call.id \/ r.name = call.name)
    IN  IF i = 0 THEN Null ELSE results[i].id

ModelStep(request, response) ==
    [kind |-> "model", request |-> request, response |-> response,
     call |-> Null, result |-> Null]

ToolStep(sentIn, response, call, result) ==
    [kind |-> "tool", request |-> sentIn, response |-> response,
     call |-> call, result |-> result]

\* Faulty variant: the results are looked for in the answer itself.
ToolStepsOfSameEvent(events, r) ==
    [k \in DOMAIN events[r].calls |->
       LET call == events[r].calls[k]
       IN  ToolStep(IdAt(events, r), events[r].id, call.id,
                    ResultOf(events[r].results, call))]

\* The tool steps of an answer: the results are looked for in the event after it,
\* an inbound event has none.
ToolSteps(events, r) ==
    LET results == IF HasEvent(events, r + 1) THEN events[r + 1].results ELSE << >>
    IN  [k \in DOMAIN events[r].calls |->
            LET call == events[r].calls[k]
            IN  ToolStep(IdAt(events, r + 1), events[r].id, call.id,
                         ResultOf(results, call))]

\* The steps that start at position i. An inbound event starts none.
StepsAt(events, i) ==
    LET r == ResponseAt(events, i)
    IN  IF events[i].direction # "outbound" THEN << >>
        ELSE IF r = 0 THEN << ModelStep(events[i].id, Null) >>
        ELSE << ModelStep(events[i].id, events[r].id) >> \o ToolSteps(events, r)

BuildLogicalSteps(events) == FlattenSeq([i \in DOMAIN events |-> StepsAt(events, i)])

-----------------------------------------------------------------------------
(* assist_review                                                           *)

\* Faulty variant: the request stands for a step.
RequestEventId(step) == step.request

\* The key "response" of a model step is always there, so that its null is never
\* replaced by another id; a tool step has tool_result_sent_in, also when null.
PrimaryStepEventId(step) == IF step.kind = "model" THEN step.response ELSE step.request

LastModelStep(steps) == SelectLastInSeq(steps, LAMBDA s : s.kind = "model")

\* A model step that requested a tool is followed by the step of its first call.
FirstToolRequest(steps) ==
    SelectInSeq([i \in 1 .. Len(steps) - 1 |-> steps[i + 1]], LAMBDA s : s.kind = "tool")

\* The step of an answer that names none, 0 if there is no such step.
FallbackFailureStepIndex(assist, steps) ==
    IF assist.label = "good" THEN 0
    ELSE CASE assist.failure \in {"bad_tool_use", "inefficient"} -> FirstToolRequest(steps)
           [] assist.failure \in {"bad_answer", "hallucination", "unsafe"} ->
                LastModelStep(steps)
           [] OTHER -> 0

\* A correct answer to the prime question that the assistant blames all the same
\* (overruled: what the texts say): the tool-use decision is blamed instead, if
\* there is one and the last model step has an answer.
NormalizePrimeToolReview(assist, steps) ==
    LET tool == FirstToolRequest(steps)
        last == LastModelStep(steps)
    IN  IF assist.overruled /\ tool # 0 /\ steps[last].response # Null
        THEN [assist EXCEPT !.label = "needs_review", !.failure = "bad_tool_use",
                            !.index = tool]
        ELSE assist

\* An index that is not a visible step is replaced.
FailureStepIndex(assist, steps) ==
    LET a == NormalizePrimeToolReview(assist, steps)
    IN  IF a.index \in DOMAIN steps THEN a.index ELSE FallbackFailureStepIndex(a, steps)

-----------------------------------------------------------------------------
(* groupTurns and buildTimeline of the dashboard                           *)

\* Faulty variant: a late answer replaces that of the last turn.
GroupTurnsOverwriting(events) ==
    LET add(turns, i) ==
            IF events[i].direction = "outbound"
            THEN Append(turns, [request |-> i, response |-> 0])
            ELSE IF turns = << >> THEN << [request |-> 0, response |-> i] >>
            ELSE [turns EXCEPT ![Len(turns)].response = i]
    IN  FoldLeft(add, << >>, [i \in DOMAIN events |-> i])

\* Turns are pairs of positions, 0 where an event is missing. An inbound event
\* closes the turn that is open or else makes one of its own.
GroupTurns(events) ==
    LET add(turns, i) ==
            IF events[i].direction = "outbound"
            THEN Append(turns, [request |-> i, response |-> 0])
            ELSE IF turns = << >> \/ Last(turns).response # 0
            THEN Append(turns, [request |-> 0, response |-> i])
            ELSE [turns EXCEPT ![Len(turns)].response = i]
    IN  FoldLeft(add, << >>, [i \in DOMAIN events |-> i])

\* toolCallKey is the id of the call: every call of the API has one.
TimelineResult(results, call) ==
    LET i == SelectInSeq(results, LAMBDA r : r.id = call.id)
    IN  IF i = 0 THEN Null ELSE results[i].id

\* a || b of JavaScript, on ids.
Or(a, b) == IF a = Null THEN b ELSE a

\* The steps of turn t. A step of the screen has one event id.
TimelineSteps(events, turns, t) ==
    LET request == IdAt(events, turns[t].request)
        response == IdAt(events, turns[t].response)
        next == IF t = Len(turns) THEN 0 ELSE turns[t + 1].request
        calls == IF turns[t].response = 0 THEN << >> ELSE events[turns[t].response].calls
        results == IF next = 0 THEN << >> ELSE events[next].results
    IN  << [step |-> ModelStep(request, response), eventId |-> Or(response, request)] >>
        \o [k \in DOMAIN calls |->
              [step |-> ToolStep(IdAt(events, next), response, calls[k].id,
                                 TimelineResult(results, calls[k])),
               eventId |-> Or(IdAt(events, next), response)]]

BuildTimeline(events) ==
    LET turns == GroupTurns(events)
    IN  FlattenSeq([t \in DOMAIN turns |-> TimelineSteps(events, turns, t)])

\* applyAssistSuggestion: the id of the suggestion or that of the step of the
\* screen with its index.
SuggestedEventId(steps, timeline, index) ==
    Or(IF index \in DOMAIN steps THEN PrimaryStepEventId(steps[index]) ELSE Null,
       IF index \in DOMAIN timeline THEN timeline[index].eventId ELSE Null)

\* The steps of the screen shown as the failure step.
Marked(timeline, eventId) ==
    {i \in DOMAIN timeline : eventId # Null /\ timeline[i].eventId = eventId}
=============================================================================
