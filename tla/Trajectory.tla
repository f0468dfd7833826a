----------------------------- MODULE Trajectory -----------------------------
(***************************************************************************)
(* The events of one session, as agents talk to a model through the proxy, *)
(* and what a reader of the session makes of them while they come in. An   *)
(* exchange is logged by two spawned tasks (ProxyHandler), each stamps its *)
(* event when it runs, and the event reaches the table or is dropped       *)
(* (EventPipeline). A reader gets the events of the table ordered by their *)
(* stamp, get_session_events in crates/agentland-store/src/events.rs, and  *)
(* turns them into steps (LogicalSteps).                                   *)
(*                                                                         *)
(* A thread is one conversation: it asks, gets an answer, runs the tools   *)
(* the answer calls and asks again with the whole conversation. Two        *)
(* threads with one agent id share the session. The provider is OpenAI and *)
(* answers are not streamed: only those have calls a reader can see. A     *)
(* session stays below the 10000 events a reader gets at most.             *)
(***************************************************************************)
EXTENDS LogicalSteps

CONSTANTS
    Threads,    \* conversations of the session's agent
    MaxAsked,   \* bound: exchanges of the session
    Answers     \* what the model may answer: sequences of tool names

ASSUME TrajectoryAssumption ==
    /\ IsFiniteSet(Threads)
    /\ MaxAsked \in Nat
    /\ \A a \in Answers : a \in Seq(STRING)

VARIABLES
    asked,      \* requests of each thread so far
    answer,     \* what the client has got for each exchange
    log         \* ids of the events in the table, in the order of their stamps

trajectoryVars == <<asked, answer, log>>

-----------------------------------------------------------------------------
Exchanges == Threads \X (1 .. MaxAsked)

Outbound(x) == <<"outbound", x>>
Inbound(x) == <<"inbound", x>>
EventIds == {"outbound", "inbound"} \X Exchanges

\* An id is a text.
ASSUME IdAssumption == Null \notin EventIds

\* Not asked yet, under way, or failed: 502 and no response event.
Outcomes == {"none", "waiting", "failed"}

Answered(x) == answer[x].outcome = "answered"
Asked(x) == answer[x].outcome # "none"

\* A log task of the exchange has been spawned for the event.
Spawned(id) == IF id[1] = "outbound" THEN Asked(id[2]) ELSE Answered(id[2])

CallsOf(x) == [k \in DOMAIN answer[x].calls |-> [id |-> <<x, k>>, name |-> answer[x].calls[k]]]

\* The conversation in the request of <<t, k>>: the results of all calls so far.
Conversation(x) ==
    FlattenSeq([k \in 1 .. x[2] - 1 |-> CallsOf(<<x[1], k>>)])

Event(id) ==
    [id |-> id, direction |-> id[1],
     calls |-> IF id[1] = "inbound" THEN CallsOf(id[2]) ELSE << >>,
     results |-> IF id[1] = "outbound" THEN Conversation(id[2]) ELSE << >>]

TrajectoryTypeOK ==
    /\ asked \in [Threads -> 0 .. MaxAsked]
    /\ answer \in [Exchanges ->
                     [outcome : Outcomes, calls : {<< >>}]
                     \cup [outcome : {"answered"}, calls : Answers]]
    /\ \A x \in Exchanges : Asked(x) <=> x[2] =< asked[x[1]]
    /\ log \in Seq(EventIds)
    /\ \A i, j \in DOMAIN log : log[i] = log[j] => i = j
    /\ \A id \in ToSet(log) : Spawned(id)

TrajectoryInit ==
    /\ asked = [t \in Threads |-> 0]
    /\ answer = [x \in Exchanges |-> [outcome |-> "none", calls |-> << >>]]
    /\ log = << >>

-----------------------------------------------------------------------------
\* The thread has something to ask: the last exchange failed or called tools.
Goes(t) ==
    asked[t] > 0 =>
        LET last == answer[<<t, asked[t]>>]
        IN  last.outcome = "failed" \/ last.calls # << >>

\* A client sends the next request of a conversation. Its log task is spawned.
Ask(t) ==
    /\ Cardinality({x \in Exchanges : Asked(x)}) < MaxAsked
    /\ Goes(t)
    /\ asked' = [asked EXCEPT ![t] = @ + 1]
    /\ answer' = [answer EXCEPT ![<<t, asked[t] + 1>>].outcome = "waiting"]
    /\ UNCHANGED log

\* The upstream answers: the response task is spawned and the client gets it.
Answer(x, a) ==
    /\ answer[x].outcome = "waiting"
    /\ answer' = [answer EXCEPT ![x] = [outcome |-> "answered", calls |-> a]]
    /\ UNCHANGED <<asked, log>>

\* The upstream call fails. Nothing is logged for it.
Fail(x) ==
    /\ answer[x].outcome = "waiting"
    /\ answer' = [answer EXCEPT ![x].outcome = "failed"]
    /\ UNCHANGED <<asked, log>>

\* A log task runs, and its event is inserted. A reader cannot tell an event that
\* is stamped and on its way to the table, or lost there, from one whose task has
\* not run, so that both are one step and losing is never taking it.
Log(id) ==
    /\ Spawned(id)
    /\ id \notin ToSet(log)
    /\ log' = Append(log, id)
    /\ UNCHANGED <<asked, answer>>

TrajectoryNext ==
    \/ \E t \in Threads : Ask(t)
    \/ \E x \in Exchanges : Fail(x) \/ \E a \in Answers : Answer(x, a)
    \/ \E id \in EventIds : Log(id)

TrajectorySpec == TrajectoryInit /\ [][TrajectoryNext]_trajectoryVars

-----------------------------------------------------------------------------
(* What a reader gets                                                      *)

\* get_session_events: ORDER BY timestamp ASC.
GetSessionEvents == [i \in DOMAIN log |-> Event(log[i])]

ReviewSteps == BuildLogicalSteps(GetSessionEvents)
Timeline == BuildTimeline(GetSessionEvents)

-----------------------------------------------------------------------------
(* What really happened                                                    *)

\* The events of a thread in the order of its exchanges.
LogOf(t) ==
    FlattenSeq([k \in 1 .. asked[t] |->
        << Outbound(<<t, k>>) >>
        \o IF Answered(<<t, k>>) THEN << Inbound(<<t, k>>) >> ELSE << >>])

\* The steps of a thread: every call has its own result, sent with the next request.
StepsOf(t) ==
    LET next(k) == IF k < asked[t] THEN Outbound(<<t, k + 1>>) ELSE Null
        calls(k) == CallsOf(<<t, k>>)
        response(k) == IF Answered(<<t, k>>) THEN Inbound(<<t, k>>) ELSE Null
        tools(k) == [c \in DOMAIN calls(k) |->
                       ToolStep(next(k), response(k), calls(k)[c].id,
                                IF next(k) = Null THEN Null ELSE calls(k)[c].id)]
    IN  FlattenSeq([k \in 1 .. asked[t] |->
            << ModelStep(Outbound(<<t, k>>), response(k)) >> \o tools(k)])

\* The table has exactly what thread t did, in the order in which it did it.
Complete(t) == log = LogOf(t)

\* No tool is called twice in the session.
ToolsDiffer ==
    LET calls == UNION {ToSet(CallsOf(x)) : x \in Exchanges}
    IN  \A c, d \in calls : c.name = d.name => c = d

\* One thread only, and its log tasks ran in the order in which they were spawned.
InOrder ==
    \A i, j \in DOMAIN log : i < j =>
        LET x == log[i][2]
            y == log[j][2]
        IN  /\ x[1] = y[1]
            /\ x[2] < y[2] \/ (x = y /\ log[i][1] = "outbound")

-----------------------------------------------------------------------------
(* Properties                                                              *)

\* build_logical_steps returns the conversation, also while it is under way and
\* also with failed and repeated requests, as long as nothing is lost or late and
\* no tool is called twice.
CompleteIsExact ==
    \A t \in Threads : Complete(t) /\ ToolsDiffer => ReviewSteps = StepsOf(t)

\* A request is shown with the answer to another one only if its own answer and
\* the other request are both missing, in a session without overlap.
ForeignAnswerNeedsTwoGaps ==
    InOrder =>
        \A s \in ToSet(ReviewSteps) :
            s.kind = "model" /\ s.response # Null =>
                \/ s.response[2] = s.request[2]
                \/ /\ Inbound(s.request[2]) \notin ToSet(log)
                   /\ Outbound(s.response[2]) \notin ToSet(log)

\* Whatever is lost, late or interleaved, a tool call has its own result or none;
\* in the export only if no tool is called twice, because a name suffices there.
OwnResults ==
    /\ ToolsDiffer => \A s \in ToSet(ReviewSteps) : s.result \in {Null, s.call}
    /\ \A e \in ToSet(Timeline) : e.step.result \in {Null, e.step.call}

\* What both programs say of a step. The export names the event after the answer
\* as the one with the results also when it is no request.
Seen(step) == IF step.kind = "tool" THEN <<step.response, step.call, step.result>>
              ELSE <<step.request, step.response>>

\* The two programs agree on every session, whatever is lost, late or interleaved,
\* up to the answers without a request, which only the dashboard shows.
ReadersAgree ==
    LET steps == ReviewSteps
        timeline == Timeline
        orphans == {e.step.response : e \in
                      {f \in ToSet(timeline) : f.step.kind = "model" /\ f.step.request = Null}}
        shown(e) == IF e.step.response # Null /\ e.step.response \in orphans
                    THEN << >> ELSE << Seen(e.step) >>
    IN  ToolsDiffer =>
            [i \in DOMAIN steps |-> Seen(steps[i])]
                = FlattenSeq([i \in DOMAIN timeline |-> shown(timeline[i])])

\* What the assistant may answer to n steps, with an index of no step as well.
AssistAnswers(n) ==
    [label : {"good", "bad"}, failure : {"bad_tool_use", "bad_answer", "other"},
     index : 0 .. n + 1, overruled : BOOLEAN]

\* Thread t has come to its final answer without failures or parallel calls.
Finished(t) ==
    /\ Complete(t) /\ asked[t] > 0
    /\ \A k \in 1 .. asked[t] : /\ Answered(<<t, k>>)
                                /\ Len(answer[<<t, k>>].calls) = IF k < asked[t] THEN 1 ELSE 0

\* In a finished conversation an assistant's answer marks exactly one step on the
\* screen, the one its index names in the list the assistant was given; if it
\* names none, the step is a model step.
SuggestionMarksItsStep ==
    \A t \in Threads : Finished(t) =>
        LET events == GetSessionEvents
            steps == BuildLogicalSteps(events)
            timeline == BuildTimeline(events)
        IN  \A a \in AssistAnswers(Len(steps)) :
                LET i == FailureStepIndex(a, steps)
                IN  /\ Marked(timeline, SuggestedEventId(steps, timeline, i)) = {i} \ {0}
                    /\ i # 0 => /\ timeline[i].step.kind = steps[i].kind
                                /\ timeline[i].step.call = steps[i].call
                    /\ i \notin {0, a.index} => steps[i].kind = "model"
=============================================================================
