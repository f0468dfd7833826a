---------------------------- MODULE ProxyHandler ----------------------------
(***************************************************************************)
(* One proxied request, from its arrival to its answer: the kill switch    *)
(* against the agents table, the request event, the upstream call, the     *)
(* response event; and what the events do to the agents table on their     *)
(* way through the background writer, while an operator retires agents.    *)
(* Modelled from crates/agentland-proxy/src/proxy/handler.rs.              *)
(*                                                                         *)
(* The status is read by a SELECT that the handler awaits, and decided upon *)
(* when the handler runs again; a retirement may be committed in between.  *)
(*                                                                         *)
(* The streaming and the buffered path do the same thing: both collect the *)
(* whole upstream answer, spawn the response event and return. The way of  *)
(* an event from send to the upsert of its agent is EventPipeline; here it *)
(* is an event that waits, in any order, or is dropped.                    *)
(***************************************************************************)
EXTENDS Integers, FiniteSets

CONSTANTS
    Requests,     \* the requests clients may ever make
    Agents,       \* agent identifiers
    AgentOf,      \* resolve_agent_id of the request
    MaxRetires    \* bound of the model: how often an operator retires an agent

ASSUME HandlerAssumption ==
    /\ IsFiniteSet(Requests)
    /\ AgentOf \in [Requests -> Agents]
    /\ MaxRetires \in Nat

VARIABLES
    db,             \* how the database serves the process: not at all (no pool),
                    \* with statements that fail now and then, or reliably
    phase,          \* where the handler of a request stands
    requestLog,     \* the spawned log_request_event
    responseLog,    \* the spawned log_response_event
    requestsTotal,  \* Metrics::requests_total
    waiting,        \* events sent and not yet taken through the writer's upsert
    status,         \* agents.status
    retires         \* bound: retirements so far

vars == <<db, phase, requestLog, responseLog, requestsTotal, waiting, status,
          retires>>

-----------------------------------------------------------------------------
LogStates == {"none", "spawned", "done"}
Events == Requests \X {"outbound", "inbound"}

Absent == "absent"      \* agents has no row for the agent

\* The request got past the kill switch.
Admitted(r) == phase[r] \in {"forwarding", "answered", "failed", "cut"}

TypeOK ==
    /\ db \in {"none", "flaky", "reliable"}
    /\ phase \in [Requests -> {"idle", "received", "allowed", "denied", "refused",
                               "left", "forwarding", "answered", "failed", "cut"}]
    /\ requestLog \in [Requests -> LogStates]
    /\ responseLog \in [Requests -> LogStates]
    /\ requestsTotal \in Nat
    /\ waiting \in SUBSET Events
    /\ status \in [Agents -> {Absent, "active", "blocked"}]
    /\ retires \in 0 .. MaxRetires

Init ==
    /\ db \in {"none", "flaky", "reliable"}
    /\ phase = [r \in Requests |-> "idle"]
    /\ requestLog = [r \in Requests |-> "none"]
    /\ responseLog = [r \in Requests |-> "none"]
    /\ requestsTotal = 0
    /\ waiting = {}
    /\ status = [a \in Agents |-> Absent]
    /\ retires = 0

-----------------------------------------------------------------------------
(* proxy_handler                                                           *)

\* The body is collected, the protocol and the agent are known.
Arrive(r) ==
    /\ phase[r] = "idle"
    /\ phase' = [phase EXCEPT ![r] = "received"]
    /\ UNCHANGED <<db, requestLog, responseLog, requestsTotal, waiting, status,
                   retires>>

\* Faulty variant: only agents that have a row are let through, and errors are.
LookUpKnownOnly(r) ==
    /\ phase[r] = "received"
    /\ \/ /\ db # "reliable" \/ status[AgentOf[r]] = "active"
          /\ phase' = [phase EXCEPT ![r] = "allowed"]
       \/ /\ db # "none" /\ status[AgentOf[r]] = "blocked"
          /\ phase' = [phase EXCEPT ![r] = "denied"]
    /\ UNCHANGED <<db, requestLog, responseLog, requestsTotal, waiting, status,
                   retires>>

\* Faulty variant: the kill switch is skipped.
LookUpAny(r) ==
    /\ phase[r] = "received"
    /\ phase' = [phase EXCEPT ![r] = "allowed"]
    /\ UNCHANGED <<db, requestLog, responseLog, requestsTotal, waiting, status,
                   retires>>

\* The SELECT of the kill switch is carried out. No pool, a failed lookup, no row
\* and a row that is not blocked let the request pass. What was read is not read
\* again: the handler decides on it when it resumes.
LookUp(r) ==
    /\ phase[r] = "received"
    /\ \/ /\ db \in {"none", "flaky"} \/ status[AgentOf[r]] # "blocked"
          /\ phase' = [phase EXCEPT ![r] = "allowed"]
       \/ /\ db # "none" /\ status[AgentOf[r]] = "blocked"
          /\ phase' = [phase EXCEPT ![r] = "denied"]
    /\ UNCHANGED <<db, requestLog, responseLog, requestsTotal, waiting, status,
                   retires>>

\* Faulty variant: the check comes after the request event was spawned.
RefuseAfterSpawn(r) ==
    /\ phase[r] = "denied"
    /\ phase' = [phase EXCEPT ![r] = "refused"]
    /\ requestLog' = [requestLog EXCEPT ![r] = "spawned"]
    /\ UNCHANGED <<db, responseLog, requestsTotal, waiting, status, retires>>

\* The row that was read is blocked: 403 at once, no event, no upstream call.
Refuse(r) ==
    /\ phase[r] = "denied"
    /\ phase' = [phase EXCEPT ![r] = "refused"]
    /\ UNCHANGED <<db, requestLog, responseLog, requestsTotal, waiting, status,
                   retires>>

\* The request passes, whatever has become of its agent since the lookup: the
\* request event is spawned and the upstream is called.
Admit(r) ==
    /\ phase[r] = "allowed"
    /\ phase' = [phase EXCEPT ![r] = "forwarding"]
    /\ requestLog' = [requestLog EXCEPT ![r] = "spawned"]
    /\ UNCHANGED <<db, responseLog, requestsTotal, waiting, status, retires>>

\* The upstream answered, with whatever status: the response event is spawned
\* and the answer goes to the client.
Answer(r) ==
    /\ phase[r] = "forwarding"
    /\ phase' = [phase EXCEPT ![r] = "answered"]
    /\ responseLog' = [responseLog EXCEPT ![r] = "spawned"]
    /\ UNCHANGED <<db, requestLog, requestsTotal, waiting, status, retires>>

\* The upstream could not be reached or did not answer within 30 s: 502, and no
\* response event.
Fail(r) ==
    /\ phase[r] = "forwarding"
    /\ phase' = [phase EXCEPT ![r] = "failed"]
    /\ UNCHANGED <<db, requestLog, responseLog, requestsTotal, waiting, status,
                   retires>>

\* The client closes its connection: hyper drops the handler at its await. What
\* was spawned goes on.
ClientLeaves(r) ==
    /\ \/ /\ phase[r] \in {"received", "allowed", "denied"}
          /\ phase' = [phase EXCEPT ![r] = "left"]
       \/ /\ phase[r] = "forwarding"
          /\ phase' = [phase EXCEPT ![r] = "cut"]
    /\ UNCHANGED <<db, requestLog, responseLog, requestsTotal, waiting, status,
                   retires>>

-----------------------------------------------------------------------------
(* The spawned tasks: each builds an event and hands it to EventSender::send, *)
(* which may drop it. They run in any order.                                  *)

Emit(event) == waiting' \in {waiting, waiting \cup {event}}

LogRequest(r) ==
    /\ requestLog[r] = "spawned"
    /\ requestLog' = [requestLog EXCEPT ![r] = "done"]
    /\ requestsTotal' = requestsTotal + 1
    /\ Emit(<<r, "outbound">>)
    /\ UNCHANGED <<db, phase, responseLog, status, retires>>

\* Faulty variant: a response is logged only once its request has left the
\* channel, which a dropped request never does.
LogResponseInOrder(r) ==
    /\ responseLog[r] = "spawned"
    /\ <<r, "outbound">> \in waiting
    /\ responseLog' = [responseLog EXCEPT ![r] = "done"]
    /\ Emit(<<r, "inbound">>)
    /\ UNCHANGED <<db, phase, requestLog, requestsTotal, status, retires>>

LogResponse(r) ==
    /\ responseLog[r] = "spawned"
    /\ responseLog' = [responseLog EXCEPT ![r] = "done"]
    /\ Emit(<<r, "inbound">>)
    /\ UNCHANGED <<db, phase, requestLog, requestsTotal, status, retires>>

-----------------------------------------------------------------------------
(* The agents table                                                        *)

Of(a) == {ev \in waiting : AgentOf[ev[1]] = a}

\* The writer upserts the agent of some events of a batch. The row it binds is
\* a new Agent, whose status is active, and the conflict clause writes it over
\* whatever was there. A failed statement and a missing pool change nothing.
UpsertAgent(a) ==
    /\ \E batch \in SUBSET Of(a) :
          /\ batch # {}
          /\ waiting' = waiting \ batch
    /\ \/ /\ db # "none"
          /\ status' = [status EXCEPT ![a] = "active"]
       \/ /\ db # "reliable"
          /\ UNCHANGED status
    /\ UNCHANGED <<db, phase, requestLog, responseLog, requestsTotal, retires>>

\* POST /api/v1/agents/:id/retire: 404 without a row, else blocked. There is no
\* call that unblocks an agent.
RetireAgent(a) ==
    /\ retires < MaxRetires
    /\ db # "none"
    /\ status[a] # Absent
    /\ status' = [status EXCEPT ![a] = "blocked"]
    /\ retires' = retires + 1
    /\ UNCHANGED <<db, phase, requestLog, responseLog, requestsTotal, waiting>>

-----------------------------------------------------------------------------
Decide(r) == LookUp(r) \/ Refuse(r) \/ Admit(r)
Finish(r) == Answer(r) \/ Fail(r)

Next ==
    \/ \E r \in Requests :
          \/ Arrive(r)
          \/ Decide(r)
          \/ Finish(r)
          \/ ClientLeaves(r)
          \/ LogRequest(r)
          \/ LogResponse(r)
    \/ \E a \in Agents : UpsertAgent(a) \/ RetireAgent(a)

Spec == Init /\ [][Next]_vars

\* Statements and upstream calls end, by an answer, an error or a timeout, and
\* the runtime runs the tasks. Nothing makes a client call, an operator retire.
FairSpec ==
    /\ Spec
    /\ \A r \in Requests :
          /\ WF_vars(Decide(r))
          /\ WF_vars(Finish(r))
          /\ WF_vars(LogRequest(r))
          /\ WF_vars(LogResponse(r))

-----------------------------------------------------------------------------
(* Properties                                                              *)

\* The traces a request leaves match how it ended: nothing of a refused request
\* is logged, each request that reached an upstream has its one request event,
\* and a response event exists exactly for an answer the client got from there.
TrailMatchesOutcome ==
    \A r \in Requests :
        /\ requestLog[r] # "none" <=> Admitted(r)
        /\ responseLog[r] # "none" <=> phase[r] = "answered"
        /\ <<r, "outbound">> \in waiting => requestLog[r] = "done"
        /\ <<r, "inbound">> \in waiting => responseLog[r] = "done"

\* requests_total counts the requests that reached an upstream and nothing else:
\* once the spawned tasks have run, it is their number.
RequestsTotalExact ==
    requestsTotal + Cardinality({r \in Requests : requestLog[r] = "spawned"})
      = Cardinality({r \in Requests : Admitted(r)})

\* Nothing of the agent is in flight: no request of it has passed its lookup and
\* is under way, and no event of it waits.
Drained(a) ==
    /\ Of(a) = {}
    /\ \A r \in Requests : AgentOf[r] = a =>
          /\ phase[r] \notin {"allowed", "forwarding"}
          /\ requestLog[r] # "spawned"
          /\ responseLog[r] # "spawned"

\* The kill switch works on one condition. An agent that is blocked while
\* nothing of it is in flight stays blocked and none of its requests is
\* forwarded any more, as long as the database answers. A request whose lookup
\* was carried out before the retirement is in flight: it is still forwarded.
SealedStaysSealed ==
    [][\A a \in Agents :
          db = "reliable" /\ status[a] = "blocked" /\ Drained(a)
            => /\ status'[a] = "blocked"
               /\ Drained(a)'
               /\ \A r \in Requests :
                     AgentOf[r] = a /\ ~Admitted(r) => ~Admitted(r)']_vars

\* Fail-open, but never hanging: every request is answered, unless its client
\* has left, by the upstream's answer, a 403 or a 502.
EveryRequestEnds ==
    \A r \in Requests : phase[r] = "received" ~>
        phase[r] \in {"refused", "answered", "failed", "left", "cut"}

\* Every exchange the client saw completed is logged on both sides, also when
\* the client is gone by then (logged: handed to the channel, which may drop it).
AnsweredIsLogged ==
    \A r \in Requests : phase[r] = "answered" ~>
        requestLog[r] = "done" /\ responseLog[r] = "done"

\* What retire_agent promises: a retired agent cannot start anything through the
\* proxy any more, so nothing but an operator unblocks it.
RetiredStaysBlocked ==
    [][\A a \in Agents : status[a] = "blocked" => status'[a] = "blocked"]_vars
=============================================================================
