------------------------- MODULE ProxyHandlerProofs -------------------------
(***************************************************************************)
(* Proofs about ProxyHandler, for any requests, agents and retirements.    *)
(***************************************************************************)
EXTENDS ProxyHandler, FiniteSetTheorems, TLAPS

-----------------------------------------------------------------------------
(* Type correctness                                                        *)

\* The initial state is well typed.
LEMMA TypeInit == Init => TypeOK
BY HandlerAssumption DEF Init, TypeOK, LogStates, Absent

\* Every step of a request, a task, the writer or an operator keeps the types.
LEMMA TypeStep == TypeOK /\ [Next]_vars => TypeOK'
<1> SUFFICES ASSUME TypeOK, [Next]_vars PROVE TypeOK'
  OBVIOUS
<1> USE HandlerAssumption DEF TypeOK, LogStates, Events
<1>1. ASSUME NEW r \in Requests, Arrive(r) PROVE TypeOK'
  BY <1>1 DEF Arrive
<1>12. ASSUME NEW r \in Requests, LookUp(r) PROVE TypeOK'
  BY <1>12 DEF LookUp
<1>2. ASSUME NEW r \in Requests, Refuse(r) PROVE TypeOK'
  BY <1>2 DEF Refuse
<1>3. ASSUME NEW r \in Requests, Admit(r) PROVE TypeOK'
  BY <1>3 DEF Admit
<1>4. ASSUME NEW r \in Requests, Answer(r) PROVE TypeOK'
  BY <1>4 DEF Answer
<1>5. ASSUME NEW r \in Requests, Fail(r) PROVE TypeOK'
  BY <1>5 DEF Fail
<1>6. ASSUME NEW r \in Requests, ClientLeaves(r) PROVE TypeOK'
  BY <1>6 DEF ClientLeaves
<1>7. ASSUME NEW r \in Requests, LogRequest(r) PROVE TypeOK'
  BY <1>7 DEF LogRequest, Emit
<1>8. ASSUME NEW r \in Requests, LogResponse(r) PROVE TypeOK'
  BY <1>8 DEF LogResponse, Emit
<1>9. ASSUME NEW a \in Agents, UpsertAgent(a) PROVE TypeOK'
  <2>1. waiting' \in SUBSET Events
    BY <1>9 DEF UpsertAgent
  <2>2. status' \in [Agents -> {Absent, "active", "blocked"}]
    BY <1>9 DEF UpsertAgent
  <2> QED BY <1>9, <2>1, <2>2 DEF UpsertAgent
<1>10. ASSUME NEW a \in Agents, RetireAgent(a) PROVE TypeOK'
  BY <1>10 DEF RetireAgent
<1>11. CASE UNCHANGED vars
  BY <1>11 DEF vars
<1> QED
  BY <1>1, <1>2, <1>3, <1>4, <1>5, <1>6, <1>7, <1>8, <1>9, <1>10, <1>11,
     <1>12
     DEF Next, Decide, Finish

\* Type correctness of the handler, its spawned tasks and the agents table.
THEOREM TypeCorrect == Spec => []TypeOK
BY TypeInit, TypeStep, PTL DEF Spec

-----------------------------------------------------------------------------
(* The trail of a request                                                  *)

\* TrailMatchesOutcome is inductive once the types are known: a request leaves
\* "allowed" once, and that step alone spawns its request event.
LEMMA TrailStep ==
  TypeOK /\ TrailMatchesOutcome /\ [Next]_vars => TrailMatchesOutcome'
<1> SUFFICES ASSUME TypeOK, TrailMatchesOutcome, [Next]_vars
             PROVE TrailMatchesOutcome'
  OBVIOUS
<1> USE DEF TypeOK, LogStates, TrailMatchesOutcome, Admitted
<1>1. ASSUME NEW r \in Requests, Arrive(r) PROVE TrailMatchesOutcome'
  BY <1>1 DEF Arrive
<1>12. ASSUME NEW r \in Requests, LookUp(r) PROVE TrailMatchesOutcome'
  <2>1. /\ phase[r] = "received"
        /\ UNCHANGED <<requestLog, responseLog, waiting>>
    BY <1>12 DEF LookUp
  <2>2. PICK verdict \in {"allowed", "denied"} :
               phase' = [phase EXCEPT ![r] = verdict]
    BY <1>12 DEF LookUp
  <2> QED BY <2>1, <2>2
<1>2. ASSUME NEW r \in Requests, Refuse(r) PROVE TrailMatchesOutcome'
  BY <1>2 DEF Refuse
<1>3. ASSUME NEW r \in Requests, Admit(r) PROVE TrailMatchesOutcome'
  BY <1>3 DEF Admit
<1>4. ASSUME NEW r \in Requests, Answer(r) PROVE TrailMatchesOutcome'
  BY <1>4 DEF Answer
<1>5. ASSUME NEW r \in Requests, Fail(r) PROVE TrailMatchesOutcome'
  BY <1>5 DEF Fail
<1>6. ASSUME NEW r \in Requests, ClientLeaves(r) PROVE TrailMatchesOutcome'
  BY <1>6 DEF ClientLeaves
<1>7. ASSUME NEW r \in Requests, LogRequest(r) PROVE TrailMatchesOutcome'
  <2>1. /\ requestLog[r] = "spawned"
        /\ requestLog' = [requestLog EXCEPT ![r] = "done"]
        /\ UNCHANGED <<phase, responseLog>>
    BY <1>7 DEF LogRequest
  <2>2. waiting' \subseteq waiting \cup {<<r, "outbound">>}
    BY <1>7 DEF LogRequest, Emit
  <2>3. ASSUME NEW q \in Requests
        PROVE  /\ <<q, "outbound">> \in waiting' => requestLog'[q] = "done"
               /\ <<q, "inbound">> \in waiting' => responseLog'[q] = "done"
    BY <2>1, <2>2
  <2>4. ASSUME NEW q \in Requests
        PROVE  /\ requestLog'[q] # "none" <=> Admitted(q)'
               /\ responseLog'[q] # "none" <=> phase'[q] = "answered"
    BY <2>1
  <2> QED BY <2>3, <2>4
<1>8. ASSUME NEW r \in Requests, LogResponse(r) PROVE TrailMatchesOutcome'
  <2>1. /\ responseLog[r] = "spawned"
        /\ responseLog' = [responseLog EXCEPT ![r] = "done"]
        /\ UNCHANGED <<phase, requestLog>>
    BY <1>8 DEF LogResponse
  <2>2. waiting' \subseteq waiting \cup {<<r, "inbound">>}
    BY <1>8 DEF LogResponse, Emit
  <2>3. ASSUME NEW q \in Requests
        PROVE  /\ <<q, "outbound">> \in waiting' => requestLog'[q] = "done"
               /\ <<q, "inbound">> \in waiting' => responseLog'[q] = "done"
    BY <2>1, <2>2
  <2>4. ASSUME NEW q \in Requests
        PROVE  /\ requestLog'[q] # "none" <=> Admitted(q)'
               /\ responseLog'[q] # "none" <=> phase'[q] = "answered"
    BY <2>1
  <2> QED BY <2>3, <2>4
<1>9. ASSUME NEW a \in Agents, UpsertAgent(a) PROVE TrailMatchesOutcome'
  <2>1. /\ waiting' \subseteq waiting
        /\ UNCHANGED <<phase, requestLog, responseLog>>
    BY <1>9 DEF UpsertAgent
  <2> QED BY <2>1
<1>10. ASSUME NEW a \in Agents, RetireAgent(a) PROVE TrailMatchesOutcome'
  BY <1>10 DEF RetireAgent
<1>11. CASE UNCHANGED vars
  BY <1>11 DEF vars
<1> QED
  BY <1>1, <1>2, <1>3, <1>4, <1>5, <1>6, <1>7, <1>8, <1>9, <1>10, <1>11,
     <1>12
     DEF Next, Decide, Finish

\* The trail of every request matches how it ended: nothing of a refused request
\* is logged, and a response event belongs to an answer of the upstream.
THEOREM TrailCorrect == Spec => []TrailMatchesOutcome
<1>1. Init => TrailMatchesOutcome
  BY DEF Init, TrailMatchesOutcome, Admitted
<1> QED BY <1>1, TypeCorrect, TrailStep, PTL DEF Spec

-----------------------------------------------------------------------------
(* The counter of requests                                                 *)

Spawned == {r \in Requests : requestLog[r] = "spawned"}
Forwarded == {r \in Requests : Admitted(r)}

\* The sets that RequestsTotalExact counts are finite.
LEMMA CountedSetsFinite == IsFiniteSet(Spawned) /\ IsFiniteSet(Forwarded)
BY HandlerAssumption, FS_Subset DEF Spawned, Forwarded

\* Admit adds one request to both counted sets, LogRequest moves one from the
\* spawned ones to the counter, and no other step touches them.
LEMMA TotalStep ==
  TypeOK /\ TrailMatchesOutcome /\ RequestsTotalExact /\ [Next]_vars
    => RequestsTotalExact'
<1> SUFFICES ASSUME TypeOK, TrailMatchesOutcome, RequestsTotalExact, [Next]_vars
             PROVE RequestsTotalExact'
  OBVIOUS
<1>0. /\ requestsTotal \in Nat
      /\ Cardinality(Spawned) \in Nat /\ Cardinality(Forwarded) \in Nat
      /\ requestsTotal + Cardinality(Spawned) = Cardinality(Forwarded)
  BY CountedSetsFinite, FS_CardinalityType
     DEF TypeOK, RequestsTotalExact, Spawned, Forwarded
<1>1. CASE UNCHANGED <<requestsTotal, Spawned, Forwarded>>
  BY <1>1 DEF RequestsTotalExact, Spawned, Forwarded
<1>2. ASSUME NEW r \in Requests, Admit(r) PROVE RequestsTotalExact'
  <2>1. r \notin Spawned /\ r \notin Forwarded
    BY <1>2 DEF Admit, Spawned, Forwarded, Admitted, TrailMatchesOutcome
  <2>2. /\ Spawned' = Spawned \cup {r}
        /\ Forwarded' = Forwarded \cup {r}
        /\ requestsTotal' = requestsTotal
    BY <1>2 DEF Admit, Spawned, Forwarded, Admitted, TypeOK
  <2>3. /\ Cardinality(Spawned') = Cardinality(Spawned) + 1
        /\ Cardinality(Forwarded') = Cardinality(Forwarded) + 1
    BY <2>1, <2>2, CountedSetsFinite, FS_AddElement
  <2> QED BY <1>0, <2>2, <2>3 DEF RequestsTotalExact, Spawned, Forwarded
<1>3. ASSUME NEW r \in Requests, LogRequest(r) PROVE RequestsTotalExact'
  <2>1. /\ r \in Spawned
        /\ Spawned' = Spawned \ {r}
        /\ Forwarded' = Forwarded
        /\ requestsTotal' = requestsTotal + 1
    BY <1>3 DEF LogRequest, Spawned, Forwarded, Admitted, TypeOK
  <2>2. Cardinality(Spawned') = Cardinality(Spawned) - 1
    BY <2>1, CountedSetsFinite, FS_RemoveElement
  <2>3. requestsTotal' + Cardinality(Spawned') = Cardinality(Forwarded')
    BY <1>0, <2>1, <2>2
  <2> QED BY <2>3 DEF RequestsTotalExact, Spawned, Forwarded
<1>4. ASSUME NEW r \in Requests,
             Arrive(r) \/ LookUp(r) \/ Refuse(r) \/ Answer(r) \/ Fail(r)
               \/ ClientLeaves(r) \/ LogResponse(r)
      PROVE UNCHANGED <<requestsTotal, Spawned, Forwarded>>
  BY <1>4 DEF Arrive, LookUp, Refuse, Answer, Fail, ClientLeaves, LogResponse, Spawned,
              Forwarded, Admitted, TypeOK
<1>5. ASSUME NEW a \in Agents, UpsertAgent(a) \/ RetireAgent(a)
      PROVE UNCHANGED <<requestsTotal, Spawned, Forwarded>>
  BY <1>5 DEF UpsertAgent, RetireAgent, Spawned, Forwarded, Admitted
<1>6. CASE UNCHANGED vars
  BY <1>6, <1>1 DEF vars, Spawned, Forwarded, Admitted
<1> QED
  BY <1>1, <1>2, <1>3, <1>4, <1>5, <1>6 DEF Next, Decide, Finish

\* requests_total counts each request that reached an upstream once, and nothing
\* else, however many there are and in whatever order their tasks run.
THEOREM TotalCorrect == Spec => []RequestsTotalExact
<1>1. Init => RequestsTotalExact
  <2> SUFFICES ASSUME Init PROVE RequestsTotalExact
    OBVIOUS
  <2>1. Spawned = {} /\ Forwarded = {} /\ requestsTotal = 0
    BY DEF Init, Spawned, Forwarded, Admitted
  <2> QED BY <2>1, FS_EmptySet DEF RequestsTotalExact, Spawned, Forwarded
<1> QED BY <1>1, TypeCorrect, TrailCorrect, TotalStep, PTL DEF Spec

-----------------------------------------------------------------------------
(* The kill switch                                                         *)

\* A blocked and drained agent, with a database that answers.
Sealed(a) == db = "reliable" /\ status[a] = "blocked" /\ Drained(a)

\* What a step does to a sealed agent.
Kept(a) ==
    /\ status'[a] = "blocked"
    /\ Drained(a)'
    /\ \A r \in Requests : AgentOf[r] = a /\ ~Admitted(r) => ~Admitted(r)'

\* No step of anybody opens the seal: a lookup finds the agent blocked, only a
\* request that had passed its lookup could spawn an event of the agent, and only
\* such an event could reach the upsert.
LEMMA SealStep ==
  ASSUME TypeOK, [Next]_vars, NEW a \in Agents, Sealed(a)
  PROVE  Kept(a)
<1> USE HandlerAssumption DEF TypeOK, LogStates, Sealed, Kept, Drained, Of, Admitted
<1>1. ASSUME NEW r \in Requests, Arrive(r) PROVE Kept(a)
  BY <1>1 DEF Arrive
<1>12. ASSUME NEW r \in Requests, LookUp(r) PROVE Kept(a)
  BY <1>12 DEF LookUp
<1>2. ASSUME NEW r \in Requests, Refuse(r) PROVE Kept(a)
  BY <1>2 DEF Refuse
<1>3. ASSUME NEW r \in Requests, Admit(r) PROVE Kept(a)
  <2>1. AgentOf[r] # a
    BY <1>3 DEF Admit
  <2> QED BY <1>3, <2>1 DEF Admit
<1>4. ASSUME NEW r \in Requests, Answer(r) PROVE Kept(a)
  <2>1. AgentOf[r] # a
    BY <1>4 DEF Answer
  <2> QED BY <1>4, <2>1 DEF Answer
<1>5. ASSUME NEW r \in Requests, Fail(r) PROVE Kept(a)
  BY <1>5 DEF Fail
<1>6. ASSUME NEW r \in Requests, ClientLeaves(r) PROVE Kept(a)
  BY <1>6 DEF ClientLeaves
<1>7. ASSUME NEW r \in Requests, LogRequest(r) PROVE Kept(a)
  <2>1. AgentOf[r] # a
    BY <1>7 DEF LogRequest
  <2>2. Of(a)' = {}
    BY <1>7, <2>1 DEF LogRequest, Emit
  <2> QED BY <1>7, <2>1, <2>2 DEF LogRequest
<1>8. ASSUME NEW r \in Requests, LogResponse(r) PROVE Kept(a)
  <2>1. AgentOf[r] # a
    BY <1>8 DEF LogResponse
  <2>2. Of(a)' = {}
    BY <1>8, <2>1 DEF LogResponse, Emit
  <2> QED BY <1>8, <2>1, <2>2 DEF LogResponse
<1>9. ASSUME NEW b \in Agents, UpsertAgent(b) PROVE Kept(a)
  <2>1. b # a
    BY <1>9 DEF UpsertAgent
  <2>2. waiting' \subseteq waiting /\ status'[a] = status[a]
    BY <1>9, <2>1 DEF UpsertAgent
  <2>3. UNCHANGED <<phase, requestLog, responseLog>>
    BY <1>9 DEF UpsertAgent
  <2> QED BY <2>2, <2>3
<1>10. ASSUME NEW b \in Agents, RetireAgent(b) PROVE Kept(a)
  BY <1>10 DEF RetireAgent
<1>11. CASE UNCHANGED vars
  BY <1>11 DEF vars
<1> QED
  BY <1>1, <1>2, <1>3, <1>4, <1>5, <1>6, <1>7, <1>8, <1>9, <1>10, <1>11,
     <1>12
     DEF Next, Decide, Finish

\* The kill switch holds from the moment nothing of a blocked agent is in flight:
\* it stays blocked and none of its requests is forwarded any more. A request that
\* read the row before the retirement counts as in flight.
THEOREM KillSwitch == Spec => SealedStaysSealed
<1>1. TypeOK /\ [Next]_vars
        => [\A a \in Agents :
              db = "reliable" /\ status[a] = "blocked" /\ Drained(a)
                => /\ status'[a] = "blocked"
                   /\ Drained(a)'
                   /\ \A r \in Requests :
                         AgentOf[r] = a /\ ~Admitted(r) => ~Admitted(r)']_vars
  BY SealStep DEF Sealed, Kept
<1> QED BY <1>1, TypeCorrect, PTL DEF Spec, SealedStaysSealed
=============================================================================
