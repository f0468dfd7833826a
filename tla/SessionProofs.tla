--------------------------- MODULE SessionProofs ----------------------------
(***************************************************************************)
(* Proofs about SessionLineage, for any events, agents, idle timeout and   *)
(* length of time, and about Trajectory, for any threads, answers and      *)
(* number of exchanges.                                                    *)
(*                                                                         *)
(* Of Trajectory only the type invariant is inductive. The rest is about   *)
(* what the readers compute from any well-typed table: both lists of steps *)
(* are shown to be concatenations of parts, one for each position of the   *)
(* table, so that a step can be traced to the event it starts at.          *)
(***************************************************************************)
EXTENDS SessionLineage, Trajectory, DataFacts

\* A hash names what went into it.
LEMMA HashesDiffer ==
  /\ \A e, f : Genesis(e) = Genesis(f) => e = f
  /\ \A e, f : Lineage(e) = Lineage(f) => e = f
  /\ \A e, f : Genesis(e) # Lineage(f)
  /\ \A e : Genesis(e) # NoHash /\ Lineage(e) # NoHash
  /\ \A e \in Events : Genesis(e) \in Hashes /\ Lineage(e) \in Hashes
BY DEF Genesis, Lineage, NoHash, Hashes

-----------------------------------------------------------------------------
(* Type correctness                                                        *)

\* The initial state is well typed.
LEMMA TypeInit == Init => TypeOK
BY LineageAssumption DEF Init, TypeOK

\* Every step keeps the types.
LEMMA TypeStep == TypeOK /\ [Next]_vars => TypeOK'
<1> SUFFICES ASSUME TypeOK, [Next]_vars PROVE TypeOK'
  OBVIOUS
<1> USE LineageAssumption DEF TypeOK
<1>1. ASSUME NEW e \in Events, GetOrCreate(e) PROVE TypeOK'
  <2>1. AgentOf[e] \in Agents
    OBVIOUS
  <2>2. /\ task' \in [Events -> {"idle", "linked", "built", "recorded"}]
        /\ seen' \in [Events -> SUBSET Events]
        /\ now' \in 0 .. MaxTime
        /\ stamp' \in [Events -> 0 .. MaxTime]
    BY <1>1 DEF GetOrCreate, RecordedOf
  <2>3. CASE JoinSession(e)
    BY <2>1, <2>2, <2>3 DEF JoinSession, tracker
  <2>4. CASE OpenSession(e)
    BY <2>1, <2>2, <2>4, HashesDiffer DEF OpenSession
  <2> QED BY <1>1, <2>3, <2>4 DEF GetOrCreate
<1>2. ASSUME NEW e \in Events, BuildEvent(e) PROVE TypeOK'
  BY <1>2 DEF BuildEvent, tracker
<1>3. ASSUME NEW e \in Events, RecordEvent(e) PROVE TypeOK'
  BY <1>3, HashesDiffer DEF RecordEvent
<1>4. CASE Tick
  BY <1>4 DEF Tick, tracker
<1>5. CASE UNCHANGED vars
  BY <1>5 DEF vars, tracker
<1> QED BY <1>1, <1>2, <1>3, <1>4, <1>5 DEF Next

\* Type correctness of the tracker and of the log tasks.
THEOREM TypeCorrect == Spec => []TypeOK
BY TypeInit, TypeStep, PTL DEF Spec

-----------------------------------------------------------------------------
(* The inductive invariant                                                 *)

\* An entry of the sessions map belongs to an event that opened it. Its last
\* hash is its genesis or that of an event recorded after it was opened.
EntryInv(a) ==
    LET s == sessionId[a]
    IN  /\ s = NoSession => \A e \in Linked : AgentOf[e] # a
        /\ s # NoSession =>
              /\ s \in Linked /\ AgentOf[s] = a /\ session[s] = s
              /\ \/ lastHash[a] = Genesis(s)
                 \/ \E f \in RecordedOf(a) : lastHash[a] = Lineage(f) /\ f \notin seen[s]
        /\ lastSeen[a] =< now

\* A task that has read nothing has left nothing.
IdleInv(e) ==
    task[e] = "idle" => session[e] = NoSession /\ prev[e] = NoHash /\ seen[e] = {}

\* The session of an event was opened by an event of the same agent, and the
\* predecessor is that session's genesis or an event the task could see, which
\* could see less and was not recorded when the session was opened.
LinkInv(e) ==
    e \in Linked =>
        /\ session[e] \in Linked
        /\ session[session[e]] = session[e]
        /\ AgentOf[session[e]] = AgentOf[e]
        /\ seen[e] \subseteq RecordedOf(AgentOf[e]) \ {e}
        /\ \/ prev[e] = Genesis(session[e])
           \/ \E f \in seen[e] : /\ prev[e] = Lineage(f)
                                 /\ seen[f] \subseteq seen[e] \ {f}
                                 /\ f \notin seen[session[e]]

\* The clock readings of an event are not later than what followed from them.
TimeInv(e) ==
    /\ stamp[e] =< now
    /\ e \in Linked /\ session[e] = e => openedAt[e] =< lastSeen[AgentOf[e]]

\* Once an event is recorded its predecessor is no longer anybody's last hash.
SpentInv(e) == task[e] = "recorded" => lastHash[AgentOf[e]] # prev[e]

LineageInv ==
    /\ \A a \in Agents : EntryInv(a)
    /\ \A e \in Events : IdleInv(e) /\ LinkInv(e) /\ TimeInv(e) /\ SpentInv(e)
    /\ ForkOnlyUnderOverlap
    /\ SessionsStartApart
    /\ StampsFollowChain

\* The three properties the invariant does not contain follow from LinkInv.
LEMMA LineageInvImplies ==
  TypeOK /\ LineageInv
    => ChainIsWellFounded /\ GenesisBelongsToSession /\ ForeignLinkOnlyByRace
<1> SUFFICES ASSUME TypeOK, LineageInv
             PROVE ChainIsWellFounded /\ GenesisBelongsToSession /\ ForeignLinkOnlyByRace
  OBVIOUS
<1>1. ChainIsWellFounded
  BY HashesDiffer DEF ChainIsWellFounded, LineageInv, LinkInv, RecordedOf, Linked
<1>2. GenesisBelongsToSession
  BY HashesDiffer DEF GenesisBelongsToSession, LineageInv, LinkInv, Linked
<1>3. ForeignLinkOnlyByRace
  BY HashesDiffer DEF ForeignLinkOnlyByRace, LineageInv, LinkInv, Linked
<1> QED BY <1>1, <1>2, <1>3

\* At the start there is no entry and no event.
LEMMA LineageInvInit == Init => LineageInv
<1> SUFFICES ASSUME Init PROVE LineageInv
  OBVIOUS
<1>1. Linked = {}
  BY DEF Init, Linked
<1> QED
  BY <1>1, LineageAssumption
     DEF Init, LineageInv, EntryInv, IdleInv, LinkInv, TimeInv, SpentInv,
         ForkOnlyUnderOverlap, SessionsStartApart, StampsFollowChain


-----------------------------------------------------------------------------
(* Every step keeps the invariant                                          *)

Inv == TypeOK /\ LineageInv

\* The types that the steps below rely on, one by one.
LEMMA Typed ==
  ASSUME Inv
  PROVE  /\ task \in [Events -> {"idle", "linked", "built", "recorded"}]
         /\ session \in [Events -> Events \cup {NoSession}]
         /\ prev \in [Events -> Hashes \cup {NoHash}]
         /\ seen \in [Events -> SUBSET Events]
         /\ stamp \in [Events -> Int] /\ openedAt \in [Events -> Int]
         /\ lastSeen \in [Agents -> Int] /\ now \in Int
         /\ sessionId \in [Agents -> Events \cup {NoSession}]
         /\ lastHash \in [Agents -> Hashes \cup {NoHash}]
         /\ IdleTimeout \in Int
         /\ \A e \in Events : AgentOf[e] \in Agents
         /\ \A e \in Events : e # NoSession
         /\ \A e \in Events : stamp[e] =< now
         /\ \A a \in Agents : lastSeen[a] =< now
<1>1. \A e \in Events : stamp[e] =< now
  BY DEF Inv, LineageInv, TimeInv
<1>2. \A a \in Agents : lastSeen[a] =< now
  BY DEF Inv, LineageInv, EntryInv, TypeOK
<1> QED BY <1>1, <1>2, LineageAssumption DEF Inv, TypeOK, NoSession

\* What a task gets from the tracker: the live session and its last hash, or a
\* session of its own. Nothing changes for another task or another agent.
LEMMA GetOrCreateFacts ==
  ASSUME Inv, NEW e \in Events, GetOrCreate(e)
  PROVE  LET a == AgentOf[e] IN
         /\ task[e] = "idle" /\ e \notin Linked /\ Linked' = Linked \cup {e}
         /\ task'[e] = "linked" /\ seen'[e] = RecordedOf(a)
         /\ \A b : RecordedOf(b)' = RecordedOf(b) /\ RecordedOf(b) \subseteq Linked
         /\ \A f \in Events \ {e} :
               /\ task'[f] = task[f] /\ session'[f] = session[f]
               /\ prev'[f] = prev[f] /\ seen'[f] = seen[f]
               /\ openedAt'[f] = openedAt[f]
         /\ UNCHANGED <<now, stamp>>
         /\ \A b \in Agents \ {a} : /\ sessionId'[b] = sessionId[b]
                                    /\ lastHash'[b] = lastHash[b]
                                    /\ lastSeen'[b] = lastSeen[b]
         /\ \/ /\ sessionId[a] \in Linked /\ AgentOf[sessionId[a]] = a
               /\ session[sessionId[a]] = sessionId[a]
               /\ session'[e] = sessionId[a] /\ prev'[e] = lastHash[a]
               /\ UNCHANGED <<sessionId, lastHash, lastSeen, openedAt>>
            \/ /\ session'[e] = e /\ prev'[e] = Genesis(e)
               /\ sessionId'[a] = e /\ lastHash'[a] = Genesis(e)
               /\ lastSeen'[a] = now /\ openedAt'[e] = now
               /\ sessionId[a] # NoSession => now - lastSeen[a] > IdleTimeout
<1> DEFINE a == AgentOf[e]
<1>1. /\ task[e] = "idle" /\ task' = [task EXCEPT ![e] = "linked"]
      /\ seen' = [seen EXCEPT ![e] = RecordedOf(a)]
      /\ UNCHANGED <<now, stamp>>
  BY DEF GetOrCreate
<1>2. /\ e \notin Linked /\ Linked' = Linked \cup {e}
      /\ \A b : RecordedOf(b)' = RecordedOf(b) /\ RecordedOf(b) \subseteq Linked
      /\ task'[e] = "linked" /\ seen'[e] = RecordedOf(a)
      /\ \A f \in Events \ {e} : task'[f] = task[f] /\ seen'[f] = seen[f]
  BY <1>1, Typed DEF Linked, RecordedOf
<1>3. CASE JoinSession(e)
  <2>1. /\ sessionId[a] # NoSession
        /\ session' = [session EXCEPT ![e] = sessionId[a]]
        /\ prev' = [prev EXCEPT ![e] = lastHash[a]]
        /\ UNCHANGED <<sessionId, lastHash, lastSeen, openedAt>>
    BY <1>3 DEF JoinSession, HasLiveSession, tracker
  <2>2. /\ session'[e] = sessionId[a] /\ prev'[e] = lastHash[a]
        /\ \A f \in Events \ {e} : session'[f] = session[f] /\ prev'[f] = prev[f]
    BY <2>1, Typed
  <2>3. /\ sessionId[a] \in Linked /\ AgentOf[sessionId[a]] = a
        /\ session[sessionId[a]] = sessionId[a]
    BY <2>1, Typed DEF Inv, LineageInv, EntryInv
  <2> QED BY <1>1, <1>2, <2>1, <2>2, <2>3
<1>4. CASE OpenSession(e)
  <2>1. /\ sessionId' = [sessionId EXCEPT ![a] = e]
        /\ lastHash' = [lastHash EXCEPT ![a] = Genesis(e)]
        /\ lastSeen' = [lastSeen EXCEPT ![a] = now]
        /\ openedAt' = [openedAt EXCEPT ![e] = now]
        /\ session' = [session EXCEPT ![e] = e]
        /\ prev' = [prev EXCEPT ![e] = Genesis(e)]
        /\ ~HasLiveSession(a)
    BY <1>4 DEF OpenSession
  <2>2. /\ session'[e] = e /\ prev'[e] = Genesis(e) /\ openedAt'[e] = now
        /\ sessionId'[a] = e /\ lastHash'[a] = Genesis(e) /\ lastSeen'[a] = now
    BY <2>1, Typed
  <2>3. /\ \A f \in Events \ {e} : /\ session'[f] = session[f] /\ prev'[f] = prev[f]
                                   /\ openedAt'[f] = openedAt[f]
        /\ \A b \in Agents \ {a} : /\ sessionId'[b] = sessionId[b]
                                   /\ lastHash'[b] = lastHash[b]
                                   /\ lastSeen'[b] = lastSeen[b]
    BY <2>1, Typed
  <2>4. sessionId[a] # NoSession => now - lastSeen[a] > IdleTimeout
    BY <2>1, Typed DEF HasLiveSession
  <2> QED BY <1>1, <1>2, <2>2, <2>3, <2>4
<1> QED BY <1>3, <1>4 DEF GetOrCreate

\* A task that reads the tracker keeps the invariant: it becomes a linked event,
\* which nothing links to yet.
LEMMA GetOrCreateStep ==
  ASSUME Inv, NEW e \in Events, GetOrCreate(e)
  PROVE  LineageInv'
<1> DEFINE a == AgentOf[e]
           joins == /\ sessionId[a] \in Linked /\ AgentOf[sessionId[a]] = a
                    /\ session[sessionId[a]] = sessionId[a]
                    /\ session'[e] = sessionId[a] /\ prev'[e] = lastHash[a]
                    /\ UNCHANGED <<sessionId, lastHash, lastSeen, openedAt>>
           opens == /\ session'[e] = e /\ prev'[e] = Genesis(e)
                    /\ sessionId'[a] = e /\ lastHash'[a] = Genesis(e)
                    /\ lastSeen'[a] = now /\ openedAt'[e] = now
                    /\ sessionId[a] # NoSession => now - lastSeen[a] > IdleTimeout
<1>1. /\ task[e] = "idle" /\ e \notin Linked /\ Linked' = Linked \cup {e}
      /\ task'[e] = "linked" /\ seen'[e] = RecordedOf(a)
      /\ \A b : RecordedOf(b)' = RecordedOf(b) /\ RecordedOf(b) \subseteq Linked
      /\ \A f \in Events \ {e} :
            /\ task'[f] = task[f] /\ session'[f] = session[f]
            /\ prev'[f] = prev[f] /\ seen'[f] = seen[f]
            /\ openedAt'[f] = openedAt[f]
      /\ UNCHANGED <<now, stamp>>
      /\ \A b \in Agents \ {a} : /\ sessionId'[b] = sessionId[b]
                                 /\ lastHash'[b] = lastHash[b]
                                 /\ lastSeen'[b] = lastSeen[b]
  BY GetOrCreateFacts
<1>2. joins \/ opens
  BY GetOrCreateFacts
<1>3. /\ Linked \subseteq Events \ {e} /\ a \in Agents
      /\ \A b : e \notin RecordedOf(b)
  BY <1>1, Typed DEF Linked
<1> HIDE DEF joins, opens
<1>4. /\ \A f \in Linked : LinkInv(f) /\ TimeInv(f) /\ SpentInv(f)
      /\ \A b \in Agents : EntryInv(b)
      /\ ForkOnlyUnderOverlap /\ SessionsStartApart /\ StampsFollowChain
  BY <1>3 DEF Inv, LineageInv
<1>5. ASSUME NEW b \in Agents PROVE EntryInv(b)'
  <2>1. CASE b = a /\ opens
    <3>1. /\ sessionId'[b] = e /\ e # NoSession /\ e \in Linked'
          /\ AgentOf[e] = b /\ session'[e] = e /\ lastHash'[b] = Genesis(e)
      BY <2>1, <1>1, Typed DEF opens
    <3>2. lastSeen'[b] =< now'
      BY <2>1, <1>1, Typed DEF opens
    <3> QED BY <3>1, <3>2 DEF EntryInv
  <2>2. CASE b # a \/ joins
    <3>1. /\ sessionId'[b] = sessionId[b] /\ lastHash'[b] = lastHash[b]
          /\ lastSeen'[b] = lastSeen[b] /\ now' = now
      BY <2>2, <1>1 DEF joins
    <3>2. CASE sessionId[b] = NoSession
      <4>1. b # a
        BY <2>2, <3>2, <1>3, Typed DEF joins
      <4> QED BY <3>1, <3>2, <4>1, <1>1, <1>4 DEF EntryInv
    <3>3. CASE sessionId[b] # NoSession
      <4>1. sessionId[b] \in Linked /\ sessionId[b] \in Events \ {e}
        BY <3>3, <1>3, <1>4 DEF EntryInv
      <4> QED BY <3>1, <3>3, <4>1, <1>1, <1>4 DEF EntryInv
    <3> QED BY <3>2, <3>3
  <2> QED BY <2>1, <2>2, <1>2
<1>6. ASSUME NEW f \in Events PROVE IdleInv(f)'
  BY <1>1 DEF Inv, LineageInv, IdleInv
<1>7. LinkInv(e)'
  <2>1. CASE opens
    BY <2>1, <1>1, <1>3 DEF opens, LinkInv
  <2>2. CASE joins
    <3> DEFINE s == sessionId[a]
    <3>1. /\ s \in Linked /\ s \in Events \ {e} /\ s # NoSession
          /\ session'[e] = s /\ session'[s] = s /\ AgentOf[s] = a
          /\ seen'[s] = seen[s] /\ prev'[e] = lastHash[a]
      BY <2>2, <1>1, <1>3, Typed DEF joins
    <3>2. \/ lastHash[a] = Genesis(s)
          \/ \E f \in RecordedOf(a) : lastHash[a] = Lineage(f) /\ f \notin seen[s]
      BY <3>1, <1>3, <1>4 DEF EntryInv
    <3>3. ASSUME NEW f \in RecordedOf(a), lastHash[a] = Lineage(f), f \notin seen[s]
          PROVE /\ seen'[f] \subseteq seen'[e] \ {f}
                /\ f \in seen'[e] /\ prev'[e] = Lineage(f) /\ f \notin seen'[s]
      <4>1. f \in Linked /\ f \in Events \ {e} /\ AgentOf[f] = a
        BY <1>1, <1>3 DEF RecordedOf
      <4>2. seen[f] \subseteq RecordedOf(a) \ {f}
        BY <4>1, <1>4 DEF LinkInv
      <4> QED BY <4>1, <4>2, <3>1, <3>3, <1>1
    <3>4. seen'[e] \subseteq RecordedOf(a)' \ {e}
      BY <1>1, <1>3
    <3>5. /\ s \in Linked' /\ session'[s] = s
      BY <3>1, <1>1
    <3>6. \/ prev'[e] = Genesis(session'[e])
          \/ \E f \in seen'[e] : /\ prev'[e] = Lineage(f)
                                 /\ seen'[f] \subseteq seen'[e] \ {f}
                                 /\ f \notin seen'[session'[e]]
      BY <3>1, <3>2, <3>3
    <3> HIDE DEF s
    <3> QED BY <3>1, <3>4, <3>5, <3>6 DEF LinkInv
  <2> QED BY <2>1, <2>2, <1>2
<1>8. ASSUME NEW f \in Events, f # e PROVE LinkInv(f)'
  <2>1. CASE f \notin Linked
    BY <2>1, <1>1, <1>8 DEF LinkInv
  <2>2. CASE f \in Linked
    <3>1. LinkInv(f)
      BY <2>2, <1>4
    <3>2. /\ session[f] \in Linked /\ session[f] \in Events \ {e}
          /\ \A g \in seen[f] : g \in Events \ {e}
      BY <3>1, <2>2, <1>1, <1>3 DEF LinkInv
    <3>3. /\ session'[f] = session[f] /\ session'[session[f]] = session[session[f]]
          /\ seen'[f] = seen[f] /\ seen'[session[f]] = seen[session[f]]
          /\ prev'[f] = prev[f]
          /\ \A g \in seen[f] : seen'[g] = seen[g]
      BY <3>2, <1>1, <1>8
    <3> QED BY <2>2, <3>1, <3>2, <3>3, <1>1 DEF LinkInv
  <2> QED BY <2>1, <2>2
<1>9. ASSUME NEW f \in Events PROVE TimeInv(f)'
  <2>1. stamp'[f] =< now'
    BY <1>1, Typed
  <2>2. CASE f = e
    <3>1. CASE opens
      BY <2>1, <2>2, <3>1, Typed DEF opens, TimeInv
    <3>2. CASE joins
      BY <2>1, <2>2, <3>2, <1>3 DEF joins, TimeInv
    <3> QED BY <3>1, <3>2, <1>2
  <2>3. CASE f # e
    <3>1. lastSeen[AgentOf[f]] =< lastSeen'[AgentOf[f]]
      BY <1>1, <1>2, Typed DEF joins, opens
    <3>2. f \in Linked /\ session[f] = f => openedAt[f] =< lastSeen[AgentOf[f]]
      BY <1>4 DEF TimeInv
    <3>3. /\ openedAt'[f] = openedAt[f] /\ session'[f] = session[f]
          /\ f \in Linked' => f \in Linked
      BY <2>3, <1>1
    <3>4. /\ openedAt[f] \in Int /\ lastSeen[AgentOf[f]] \in Int
          /\ lastSeen'[AgentOf[f]] \in Int
      BY <1>1, <1>2, Typed DEF joins, opens
    <3>5. f \in Linked' /\ session'[f] = f => openedAt'[f] =< lastSeen'[AgentOf[f]]
      BY <3>1, <3>2, <3>3, <3>4
    <3> QED BY <2>1, <3>5 DEF TimeInv
  <2> QED BY <2>2, <2>3
<1>10. \A f \in Linked : prev[f] # Genesis(e)
  <2> SUFFICES ASSUME NEW f \in Linked PROVE prev[f] # Genesis(e)
    OBVIOUS
  <2>1. LinkInv(f) /\ session[f] # e
    BY <1>3, <1>4 DEF LinkInv
  <2> QED BY <2>1, HashesDiffer DEF LinkInv
<1>11. ASSUME NEW f \in Events PROVE SpentInv(f)'
  <2>1. CASE task'[f] # "recorded"
    BY <2>1 DEF SpentInv
  <2>2. CASE task'[f] = "recorded"
    <3>1. f # e /\ f \in Linked /\ task[f] = "recorded" /\ prev'[f] = prev[f]
      BY <2>2, <1>1 DEF Linked
    <3>2. lastHash[AgentOf[f]] # prev[f]
      BY <3>1, <1>4 DEF SpentInv
    <3>3. \/ lastHash'[AgentOf[f]] = lastHash[AgentOf[f]]
          \/ lastHash'[AgentOf[f]] = Genesis(e)
      BY <1>1, <1>2, Typed DEF joins, opens
    <3> QED BY <3>1, <3>2, <3>3, <1>10 DEF SpentInv
  <2> QED BY <2>1, <2>2
<1>12. ASSUME NEW f \in Linked, prev'[e] = prev'[f]
       PROVE  e \notin seen'[f] /\ f \notin seen'[e]
  <2>1. /\ f \in Events \ {e} /\ prev'[f] = prev[f] /\ seen'[f] = seen[f]
        /\ seen'[e] = RecordedOf(a)
    BY <1>1, <1>3
  <2>2. e \notin seen[f]
    BY <1>3, <1>4 DEF LinkInv
  <2>3. f \notin RecordedOf(a)
    <3>1. CASE opens
      BY <3>1, <2>1, <1>10, <1>12 DEF opens
    <3>2. CASE joins
      BY <3>2, <2>1, <1>4, <1>12 DEF joins, SpentInv, RecordedOf
    <3> QED BY <3>1, <3>2, <1>2
  <2> QED BY <2>1, <2>2, <2>3
<1>13. ForkOnlyUnderOverlap'
  <2> SUFFICES ASSUME NEW f \in Linked', NEW g \in Linked', f # g, prev'[f] = prev'[g]
               PROVE f \notin seen'[g] /\ g \notin seen'[f]
    BY DEF ForkOnlyUnderOverlap
  <2>1. CASE f = e
    BY <2>1, <1>1, <1>12
  <2>2. CASE g = e
    BY <2>2, <1>1, <1>12
  <2>3. CASE f # e /\ g # e
    <3>1. f \in Linked /\ g \in Linked
      BY <2>3, <1>1
    <3> QED BY <3>1, <1>1, <1>3, <1>4 DEF ForkOnlyUnderOverlap
  <2> QED BY <2>1, <2>2, <2>3
<1>14. ASSUME NEW f \in Linked, AgentOf[f] = a, session'[e] = e, session'[f] = f
       PROVE  openedAt'[e] - openedAt'[f] > IdleTimeout
  <2>1. opens
    BY <1>2, <1>3, <1>14 DEF joins
  <2>2. sessionId[a] # NoSession
    BY <1>3, <1>4, <1>14 DEF EntryInv
  <2>3. now - lastSeen[a] > IdleTimeout
    BY <2>1, <2>2 DEF opens
  <2>4. openedAt'[f] = openedAt[f] /\ openedAt[f] =< lastSeen[a]
    BY <1>1, <1>3, <1>4, <1>14 DEF TimeInv
  <2>5. openedAt'[e] = now
    BY <2>1 DEF opens
  <2>6. openedAt[f] \in Int /\ lastSeen[a] \in Int /\ now \in Int /\ IdleTimeout \in Int
    BY <1>3, Typed
  <2> QED BY <2>3, <2>4, <2>5, <2>6
<1>15. SessionsStartApart'
  <2> SUFFICES ASSUME NEW f \in Linked', NEW g \in Linked', f # g,
                      AgentOf[f] = AgentOf[g], session'[f] = f, session'[g] = g
               PROVE \/ openedAt'[f] - openedAt'[g] > IdleTimeout
                     \/ openedAt'[g] - openedAt'[f] > IdleTimeout
    BY DEF SessionsStartApart
  <2>1. CASE f = e
    BY <2>1, <1>1, <1>14
  <2>2. CASE g = e
    BY <2>2, <1>1, <1>14
  <2>3. CASE f # e /\ g # e
    <3>1. f \in Linked /\ g \in Linked
      BY <2>3, <1>1
    <3> QED BY <3>1, <1>1, <1>3, <1>4 DEF SessionsStartApart
  <2> QED BY <2>1, <2>2, <2>3
<1>16. StampsFollowChain'
  <2> SUFFICES ASSUME NEW f \in Events, NEW g \in Events,
                      task'[f] \notin {"idle", "linked"}, prev'[f] = Lineage(g)
               PROVE stamp'[g] =< stamp'[f]
    BY DEF StampsFollowChain
  <2>1. f # e
    BY <1>1
  <2> QED BY <2>1, <1>1, <1>4 DEF StampsFollowChain
<1> QED
  BY <1>5, <1>6, <1>7, <1>8, <1>9, <1>11, <1>13, <1>15, <1>16 DEF LineageInv

\* Taking the timestamp keeps the invariant: an event is stamped before it is
\* recorded, so nothing links to it yet, and after its predecessor was.
LEMMA BuildStep ==
  ASSUME Inv, NEW e \in Events, BuildEvent(e)
  PROVE  LineageInv'
<1>1. /\ task[e] = "linked" /\ task'[e] = "built"
      /\ \A f \in Events \ {e} : task'[f] = task[f] /\ stamp'[f] = stamp[f]
      /\ stamp'[e] = now
      /\ UNCHANGED <<now, sessionId, lastHash, lastSeen, session, prev, openedAt, seen>>
  BY Typed DEF BuildEvent, tracker
<1>2. Linked' = Linked /\ \A b : RecordedOf(b)' = RecordedOf(b)
  BY <1>1 DEF Linked, RecordedOf
<1>3. /\ \A b \in Agents : EntryInv(b)
      /\ \A f \in Events : IdleInv(f) /\ LinkInv(f) /\ TimeInv(f) /\ SpentInv(f)
      /\ ForkOnlyUnderOverlap /\ SessionsStartApart /\ StampsFollowChain
  BY DEF Inv, LineageInv
<1>4. ASSUME NEW b \in Agents PROVE EntryInv(b)'
  BY <1>1, <1>2, <1>3 DEF EntryInv
<1>5. ASSUME NEW f \in Events PROVE IdleInv(f)' /\ LinkInv(f)' /\ SpentInv(f)'
  <2>1. /\ task'[f] = "idle" => task[f] = "idle"
        /\ task'[f] = "recorded" => task[f] = "recorded"
    BY <1>1
  <2>2. IdleInv(f)'
    BY <1>1, <1>3, <2>1 DEF IdleInv
  <2>3. LinkInv(f)'
    BY <1>1, <1>2, <1>3 DEF LinkInv
  <2>4. SpentInv(f)'
    BY <1>1, <1>3, <2>1 DEF SpentInv
  <2> QED BY <2>2, <2>3, <2>4
<1>6. ASSUME NEW f \in Events PROVE TimeInv(f)'
  <2>1. stamp'[f] =< now'
    BY <1>1, Typed
  <2> QED BY <2>1, <1>1, <1>2, <1>3 DEF TimeInv
<1>7. ForkOnlyUnderOverlap'
  BY <1>1, <1>2, <1>3 DEF ForkOnlyUnderOverlap
<1>8. SessionsStartApart'
  BY <1>1, <1>2, <1>3 DEF SessionsStartApart
<1>9. StampsFollowChain'
  <2> SUFFICES ASSUME NEW f \in Events, NEW g \in Events,
                      task'[f] \notin {"idle", "linked"}, prev[f] = Lineage(g)
               PROVE stamp'[g] =< stamp'[f]
    BY <1>1 DEF StampsFollowChain
  <2>1. f \in Linked
    BY <1>2 DEF Linked
  <2>2. g \in seen[f] /\ seen[f] \subseteq RecordedOf(AgentOf[f])
    BY <2>1, <1>3, HashesDiffer DEF LinkInv
  <2>3. g # e /\ stamp'[g] = stamp[g]
    BY <2>2, <1>1 DEF RecordedOf
  <2>4. CASE f = e
    BY <2>3, <2>4, <1>1, Typed
  <2>5. CASE f # e
    BY <2>3, <2>5, <1>1, <1>3 DEF StampsFollowChain
  <2> QED BY <2>4, <2>5
<1> QED BY <1>3, <1>4, <1>5, <1>6, <1>7, <1>8, <1>9 DEF LineageInv

\* Recording the hash of an event keeps the invariant: whoever has read the
\* tracker so far has not seen it, and it had seen less than everyone who will.
LEMMA RecordStep ==
  ASSUME Inv, NEW e \in Events, RecordEvent(e)
  PROVE  LineageInv'
<1> DEFINE a == AgentOf[e]
<1>1. /\ task[e] = "built" /\ task'[e] = "recorded"
      /\ sessionId[a] # NoSession
      /\ \A f \in Events \ {e} : task'[f] = task[f]
      /\ lastHash'[a] = Lineage(e) /\ lastSeen'[a] = now
      /\ \A b \in Agents \ {a} : lastHash'[b] = lastHash[b] /\ lastSeen'[b] = lastSeen[b]
      /\ UNCHANGED <<now, sessionId, session, prev, stamp, openedAt, seen>>
  BY Typed DEF RecordEvent
<1>2. /\ Linked' = Linked /\ e \in Linked
      /\ RecordedOf(a)' = RecordedOf(a) \cup {e}
      /\ \A b : RecordedOf(b) \subseteq RecordedOf(b)'
      /\ \A b : e \notin RecordedOf(b)
  BY <1>1 DEF Linked, RecordedOf
<1>3. /\ \A b \in Agents : EntryInv(b)
      /\ \A f \in Events : IdleInv(f) /\ LinkInv(f) /\ TimeInv(f) /\ SpentInv(f)
      /\ ForkOnlyUnderOverlap /\ SessionsStartApart /\ StampsFollowChain
  BY DEF Inv, LineageInv
<1>4. \A f \in Linked : e \notin seen[f] /\ prev[f] # Lineage(e)
  <2> SUFFICES ASSUME NEW f \in Linked PROVE e \notin seen[f] /\ prev[f] # Lineage(e)
    OBVIOUS
  <2>1. LinkInv(f)
    BY <1>3 DEF Linked
  <2>2. e \notin seen[f]
    BY <2>1, <1>2 DEF LinkInv
  <2> QED BY <2>1, <2>2, HashesDiffer DEF LinkInv
<1>5. ASSUME NEW b \in Agents PROVE EntryInv(b)'
  <2>1. CASE b = a
    <3>1. /\ sessionId[a] \in Linked /\ AgentOf[sessionId[a]] = a
          /\ session[sessionId[a]] = sessionId[a]
      BY <2>1, <1>1, <1>3 DEF EntryInv
    <3>2. lastSeen'[b] =< now'
      BY <2>1, <1>1, Typed
    <3>3. /\ e \in RecordedOf(b)' /\ lastHash'[b] = Lineage(e)
          /\ e \notin seen[sessionId[a]]
      BY <2>1, <3>1, <1>1, <1>2, <1>4
    <3> QED BY <2>1, <3>1, <3>2, <3>3, <1>1, <1>2 DEF EntryInv
  <2>2. CASE b # a
    BY <2>2, <1>1, <1>2, <1>3 DEF EntryInv
  <2> QED BY <2>1, <2>2
<1>6. ASSUME NEW f \in Events PROVE IdleInv(f)'
  BY <1>1, <1>3 DEF IdleInv
<1>7. ASSUME NEW f \in Events PROVE LinkInv(f)'
  <2>1. RecordedOf(AgentOf[f]) \subseteq RecordedOf(AgentOf[f])'
    BY <1>2
  <2> QED BY <2>1, <1>1, <1>2, <1>3 DEF LinkInv
<1>8. ASSUME NEW f \in Events PROVE TimeInv(f)'
  <2>1. lastSeen[AgentOf[f]] =< lastSeen'[AgentOf[f]]
    BY <1>1, Typed
  <2>2. openedAt[f] \in Int /\ lastSeen[AgentOf[f]] \in Int /\ lastSeen'[AgentOf[f]] \in Int
    BY <1>1, Typed
  <2> QED BY <2>1, <2>2, <1>1, <1>2, <1>3 DEF TimeInv
<1>9. ASSUME NEW f \in Events PROVE SpentInv(f)'
  <2>1. CASE task'[f] # "recorded"
    BY <2>1 DEF SpentInv
  <2>2. CASE task'[f] = "recorded"
    <3>1. f \in Linked /\ AgentOf[f] \in Agents
      BY <2>2, <1>2, Typed DEF Linked
    <3>2. CASE AgentOf[f] = a
      BY <3>1, <3>2, <1>1, <1>4 DEF SpentInv
    <3>3. CASE AgentOf[f] # a
      BY <2>2, <3>1, <3>3, <1>1, <1>3 DEF SpentInv
    <3> QED BY <3>2, <3>3
  <2> QED BY <2>1, <2>2
<1>10. ForkOnlyUnderOverlap'
  BY <1>1, <1>2, <1>3 DEF ForkOnlyUnderOverlap
<1>11. SessionsStartApart'
  BY <1>1, <1>2, <1>3 DEF SessionsStartApart
<1>12. StampsFollowChain'
  BY <1>1, <1>3 DEF StampsFollowChain
<1> QED BY <1>5, <1>6, <1>7, <1>8, <1>9, <1>10, <1>11, <1>12 DEF LineageInv

\* The passing of time and a stuttering step keep the invariant.
LEMMA QuietStep ==
  ASSUME Inv, Tick \/ UNCHANGED vars
  PROVE  LineageInv'
<1>1. /\ UNCHANGED <<sessionId, lastHash, lastSeen, task, session, prev, stamp, openedAt, seen>>
      /\ now =< now' /\ now' \in Int
  BY Typed DEF Tick, vars, tracker
<1>2. UNCHANGED Linked /\ \A b : RecordedOf(b)' = RecordedOf(b)
  BY <1>1 DEF Linked, RecordedOf
<1>3. ASSUME NEW b \in Agents PROVE EntryInv(b)'
  <2>1. EntryInv(b) /\ lastSeen'[b] =< now'
    BY <1>1, Typed DEF Inv, LineageInv
  <2> QED BY <2>1, <1>1, <1>2 DEF EntryInv
<1>4. ASSUME NEW f \in Events PROVE IdleInv(f)' /\ LinkInv(f)' /\ SpentInv(f)'
  BY <1>1, <1>2 DEF Inv, LineageInv, IdleInv, LinkInv, SpentInv
<1>5. ASSUME NEW f \in Events PROVE TimeInv(f)'
  <2>1. TimeInv(f) /\ stamp'[f] =< now'
    BY <1>1, Typed DEF Inv, LineageInv
  <2> QED BY <2>1, <1>1, <1>2 DEF TimeInv
<1>6. ForkOnlyUnderOverlap' /\ SessionsStartApart' /\ StampsFollowChain'
  BY <1>1, <1>2
     DEF Inv, LineageInv, ForkOnlyUnderOverlap, SessionsStartApart, StampsFollowChain
<1> QED BY <1>3, <1>4, <1>5, <1>6 DEF LineageInv

-----------------------------------------------------------------------------
(* The properties                                                          *)

\* The invariant holds in every reachable state.
LEMMA InvHolds == Spec => []Inv
<1>1. Inv /\ [Next]_vars => LineageInv'
  BY GetOrCreateStep, BuildStep, RecordStep, QuietStep DEF Next
<1>2. Inv /\ [Next]_vars => Inv'
  BY <1>1, TypeStep DEF Inv
<1>3. Init => Inv
  BY TypeInit, LineageInvInit DEF Inv
<1> QED BY <1>2, <1>3, PTL DEF Spec

\* The hash chain of every agent leads back to a genesis, however many log tasks
\* overlap and whenever sessions expire.
THEOREM ChainCorrect == Spec => []ChainIsWellFounded
<1>1. Inv => ChainIsWellFounded
  BY LineageInvImplies DEF Inv
<1> QED BY <1>1, InvHolds, PTL

\* Only events of a session hang on its genesis.
THEOREM GenesisCorrect == Spec => []GenesisBelongsToSession
<1>1. Inv => GenesisBelongsToSession
  BY LineageInvImplies DEF Inv
<1> QED BY <1>1, InvHolds, PTL

\* Two events have the same predecessor only if their tasks overlapped.
THEOREM ForkCorrect == Spec => []ForkOnlyUnderOverlap
<1>1. Inv => ForkOnlyUnderOverlap
  BY DEF Inv, LineageInv
<1> QED BY <1>1, InvHolds, PTL

\* A link into another session needs a task that outlived its session.
THEOREM ForeignLinkCorrect == Spec => []ForeignLinkOnlyByRace
<1>1. Inv => ForeignLinkOnlyByRace
  BY LineageInvImplies DEF Inv
<1> QED BY <1>1, InvHolds, PTL

\* Two sessions of an agent start more than an idle timeout apart.
THEOREM ApartCorrect == Spec => []SessionsStartApart
<1>1. Inv => SessionsStartApart
  BY DEF Inv, LineageInv
<1> QED BY <1>1, InvHolds, PTL

\* Timestamps never decrease along the chain.
THEOREM StampsCorrect == Spec => []StampsFollowChain
<1>1. Inv => StampsFollowChain
  BY DEF Inv, LineageInv
<1> QED BY <1>1, InvHolds, PTL

-----------------------------------------------------------------------------
(* The events of a session and their readers                               *)

\* What a client has got for an exchange.
Gotten == [outcome : Outcomes, calls : {<< >>}] \cup [outcome : {"answered"}, calls : Answers]

\* A session starts without events.
LEMMA TrajectoryTypeInit == TrajectoryInit => TrajectoryTypeOK
<1> SUFFICES ASSUME TrajectoryInit PROVE TrajectoryTypeOK
  OBVIOUS
<1> USE TrajectoryAssumption DEF TrajectoryInit
<1>1. asked \in [Threads -> 0 .. MaxAsked]
  OBVIOUS
<1>2. answer \in [Exchanges -> Gotten]
  BY DEF Gotten, Outcomes
<1>3. \A x \in Exchanges : Asked(x) <=> x[2] =< asked[x[1]]
  BY DEF Exchanges, Asked
<1>4. log = <<>> /\ DOMAIN log = {} /\ ToSet(log) = {} /\ log \in Seq(EventIds)
  BY DEF ToSet
<1> QED BY <1>1, <1>2, <1>3, <1>4 DEF TrajectoryTypeOK, Gotten

\* The bound of all exchanges is one of each thread.
LEMMA RoomToAsk ==
  ASSUME TrajectoryTypeOK, NEW t \in Threads,
         Cardinality({x \in Exchanges : Asked(x)}) < MaxAsked
  PROVE  asked[t] + 1 \in 1 .. MaxAsked
<1> USE TrajectoryAssumption
<1>1. asked[t] \in 0 .. MaxAsked
  BY DEF TrajectoryTypeOK
<1>2. ASSUME asked[t] = MaxAsked PROVE FALSE
  <2> DEFINE D == {x \in Exchanges : Asked(x)}
             f == [k \in 1 .. MaxAsked |-> <<t, k>>]
  <2>1. IsFiniteSet(1 .. MaxAsked) /\ Cardinality(1 .. MaxAsked) = MaxAsked
    BY FS_Interval
  <2>2. IsFiniteSet(Exchanges)
    BY <2>1, FS_Product DEF Exchanges
  <2>3. IsFiniteSet(D) /\ Cardinality(D) \in Nat
    <3>1. D \in SUBSET Exchanges
      OBVIOUS
    <3> HIDE DEF D
    <3>2. IsFiniteSet(D)
      BY <2>2, <3>1, FS_Subset
    <3> QED BY <3>2, FS_CardinalityType
  <2>4. ASSUME NEW k \in 1 .. MaxAsked PROVE <<t, k>> \in D
    BY <1>2 DEF TrajectoryTypeOK, Exchanges
  <2>5. f \in Injection(1 .. MaxAsked, D)
    <3> HIDE DEF D
    <3> QED BY <2>4 DEF Injection, IsInjective
  <2>6. Cardinality(1 .. MaxAsked) =< Cardinality(D)
    <3> HIDE DEF D, f
    <3> QED BY <2>3, <2>5, FS_Injection
  <2> QED BY <2>1, <2>3, <2>6
<1> QED BY <1>1, <1>2

\* Every step keeps the types.
LEMMA TrajectoryTypeStep ==
  TrajectoryTypeOK /\ [TrajectoryNext]_trajectoryVars => TrajectoryTypeOK'
<1> SUFFICES ASSUME TrajectoryTypeOK, [TrajectoryNext]_trajectoryVars PROVE TrajectoryTypeOK'
  OBVIOUS
<1> USE TrajectoryAssumption
<1>0. /\ asked \in [Threads -> 0 .. MaxAsked]
      /\ answer \in [Exchanges -> Gotten]
      /\ \A x \in Exchanges : Asked(x) <=> x[2] =< asked[x[1]]
      /\ log \in Seq(EventIds)
      /\ \A i, j \in DOMAIN log : log[i] = log[j] => i = j
      /\ \A id \in ToSet(log) : Spawned(id)
  BY DEF TrajectoryTypeOK, Gotten
<1> DEFINE WellTyped ==
       /\ asked \in [Threads -> 0 .. MaxAsked]
       /\ answer \in [Exchanges -> Gotten]
       /\ \A x \in Exchanges : Asked(x) <=> x[2] =< asked[x[1]]
       /\ log \in Seq(EventIds)
       /\ \A i, j \in DOMAIN log : log[i] = log[j] => i = j
       /\ \A id \in ToSet(log) : Spawned(id)
<1>1. ASSUME NEW t \in Threads, Ask(t) PROVE WellTyped'
  <2>1. asked[t] + 1 \in 1 .. MaxAsked
    BY <1>1, RoomToAsk DEF Ask
  <2>2. PICK n \in 1 .. MaxAsked : n = asked[t] + 1
    BY <2>1
  <2>3. <<t, n>> \in Exchanges /\ ~ Asked(<<t, n>>)
    BY <1>0, <2>2 DEF Exchanges
  <2>4. /\ asked' = [asked EXCEPT ![t] = n] /\ log' = log
        /\ answer' = [answer EXCEPT ![<<t, n>>] = [answer[<<t, n>>] EXCEPT !.outcome = "waiting"]]
    BY <1>0, <1>1, <2>2 DEF Ask
  <2>5. asked' \in [Threads -> 0 .. MaxAsked]
    BY <1>0, <2>4
  <2>6. /\ answer[<<t, n>>].outcome = "none" /\ answer[<<t, n>>] \in [outcome : Outcomes, calls : {<< >>}]
    BY <1>0, <2>3 DEF Asked, Gotten
  <2>7. answer' \in [Exchanges -> Gotten]
    <3>1. [answer[<<t, n>>] EXCEPT !.outcome = "waiting"] \in Gotten
      BY <2>6 DEF Gotten, Outcomes
    <3> QED BY <1>0, <2>4, <3>1
  <2>8. \A x \in Exchanges : answer'[x].outcome = IF x = <<t, n>> THEN "waiting" ELSE answer[x].outcome
    BY <1>0, <2>3, <2>4, <2>6
  <2>9. \A x \in Exchanges : Asked(x)' <=> x[2] =< asked'[x[1]]
    <3> SUFFICES ASSUME NEW x \in Exchanges PROVE Asked(x)' <=> x[2] =< asked'[x[1]]
      OBVIOUS
    <3>1. x[1] \in Threads /\ x[2] \in 1 .. MaxAsked /\ x = <<x[1], x[2]>>
      BY DEF Exchanges
    <3>2. Asked(x)' <=> (x = <<t, n>> \/ Asked(x))
      BY <2>8 DEF Asked
    <3>3. Asked(x) <=> x[2] =< asked[x[1]]
      BY <1>0
    <3>4. CASE x[1] = t
      <4>1. asked'[x[1]] = n /\ n = asked[x[1]] + 1 /\ asked[x[1]] \in Nat
        BY <1>0, <2>2, <2>4, <3>4
      <4>2. x = <<t, n>> <=> x[2] = n
        BY <3>1, <3>4
      <4> QED BY <3>1, <3>2, <3>3, <4>1, <4>2
    <3>5. CASE x[1] # t
      <4>1. asked'[x[1]] = asked[x[1]] /\ x # <<t, n>>
        BY <1>0, <2>4, <3>1, <3>5
      <4> QED BY <3>2, <3>3, <4>1
    <3> QED BY <3>4, <3>5
  <2>10. \A id \in EventIds : Spawned(id) => Spawned(id)'
    BY <2>3, <2>8 DEF Spawned, Asked, Answered, EventIds
  <2>11. ToSet(log) \subseteq EventIds
    BY <1>0 DEF ToSet
  <2>12. \A id \in ToSet(log') : Spawned(id)'
    BY <1>0, <2>4, <2>10, <2>11
  <2>13. log' \in Seq(EventIds) /\ \A i, j \in DOMAIN log' : log'[i] = log'[j] => i = j
    BY <1>0, <2>4
  <2> QED BY <2>5, <2>7, <2>9, <2>12, <2>13
<1>2. ASSUME NEW x \in Exchanges, NEW a, a \in Gotten, a.outcome \in {"answered", "failed"},
             answer[x].outcome = "waiting", answer' = [answer EXCEPT ![x] = a],
             UNCHANGED <<asked, log>>
      PROVE WellTyped'
  <2>1. answer' \in [Exchanges -> Gotten]
    BY <1>0, <1>2
  <2>2. \A y \in Exchanges : answer'[y].outcome = IF y = x THEN a.outcome ELSE answer[y].outcome
    BY <1>0, <1>2
  <2>3. \A y \in Exchanges : Asked(y)' <=> Asked(y)
    BY <1>2, <2>2 DEF Asked
  <2>4. \A id \in EventIds : Spawned(id) => Spawned(id)'
    BY <1>2, <2>2, <2>3 DEF Spawned, Answered, EventIds
  <2>5. ToSet(log) \subseteq EventIds
    BY <1>0 DEF ToSet
  <2>6. \A id \in ToSet(log') : Spawned(id)'
    BY <1>0, <1>2, <2>4, <2>5
  <2>7. \A y \in Exchanges : Asked(y)' <=> y[2] =< asked'[y[1]]
    BY <1>0, <1>2, <2>3
  <2>8. /\ asked' \in [Threads -> 0 .. MaxAsked] /\ log' \in Seq(EventIds)
        /\ \A i, j \in DOMAIN log' : log'[i] = log'[j] => i = j
    BY <1>0, <1>2
  <2> QED BY <2>1, <2>6, <2>7, <2>8
<1>3. ASSUME NEW x \in Exchanges, NEW a \in Answers, Answer(x, a) PROVE WellTyped'
  <2>1. PICK g : g = [outcome |-> "answered", calls |-> a]
    OBVIOUS
  <2>2. g \in Gotten /\ g.outcome = "answered"
    BY <2>1 DEF Gotten
  <2> QED BY <1>2, <1>3, <2>1, <2>2 DEF Answer
<1>4. ASSUME NEW x \in Exchanges, Fail(x) PROVE WellTyped'
  <2>1. PICK g : g = [answer[x] EXCEPT !.outcome = "failed"]
    OBVIOUS
  <2>2. answer[x] \in [outcome : Outcomes, calls : {<< >>}]
    BY <1>0, <1>4 DEF Fail, Gotten
  <2>3. g \in Gotten /\ g.outcome = "failed"
    BY <2>1, <2>2 DEF Gotten, Outcomes
  <2>4. answer' = [answer EXCEPT ![x] = g]
    BY <1>0, <1>4, <2>1 DEF Fail
  <2> QED BY <1>2, <1>4, <2>3, <2>4 DEF Fail
<1>5. ASSUME NEW id \in EventIds, Log(id) PROVE WellTyped'
  <2>1. Spawned(id) /\ id \notin ToSet(log) /\ log' = Append(log, id) /\ asked' = asked /\ answer' = answer
    BY <1>5 DEF Log
  <2>2. log' \in Seq(EventIds) /\ ToSet(log') = ToSet(log) \cup {id}
    <3>1. PICK l \in Seq(EventIds) : l = log
      BY <1>0
    <3>2. /\ Append(l, id) \in Seq(EventIds) /\ DOMAIN Append(l, id) = 1 .. Len(l) + 1
          /\ DOMAIN l = 1 .. Len(l) /\ Len(l) \in Nat /\ Append(l, id)[Len(l) + 1] = id
          /\ \A i \in 1 .. Len(l) : Append(l, id)[i] = l[i]
      OBVIOUS
    <3>3. ToSet(Append(l, id)) = ToSet(l) \cup {id}
      BY <3>2 DEF ToSet
    <3> QED BY <2>1, <3>1, <3>2, <3>3
  <2>3. \A i, j \in DOMAIN log' : log'[i] = log'[j] => i = j
    BY <1>0, <2>1 DEF ToSet
  <2>4. \A e \in EventIds : Spawned(e)' <=> Spawned(e)
    BY <2>1 DEF Spawned, Asked, Answered
  <2>5. ToSet(log') \subseteq EventIds
    BY <2>2 DEF ToSet
  <2>6. \A e \in ToSet(log') : Spawned(e)'
    BY <1>0, <2>1, <2>2, <2>4, <2>5
  <2>7. \A x \in Exchanges : Asked(x)' <=> x[2] =< asked'[x[1]]
    BY <1>0, <2>1 DEF Asked
  <2> QED BY <1>0, <2>1, <2>2, <2>3, <2>6, <2>7
<1>6. ASSUME UNCHANGED trajectoryVars PROVE WellTyped'
  BY <1>0, <1>6 DEF trajectoryVars, Asked, Spawned, Answered
<1>7. WellTyped'
  <2> HIDE DEF WellTyped
  <2> QED BY <1>1, <1>3, <1>4, <1>5, <1>6 DEF TrajectoryNext
<1> QED BY <1>7 DEF TrajectoryTypeOK, Gotten

\* What the readers start from: an exchange is under way if it was asked, only an
\* answered one has calls, and the table has each event at most once.
THEOREM TrajectoryTypeCorrect == TrajectorySpec => []TrajectoryTypeOK
<1> QED BY TrajectoryTypeInit, TrajectoryTypeStep, PTL DEF TrajectorySpec

\* What the readers handle: calls with the exchange and the place they are from,
\* events, and the steps they make of them.
CallIds == Exchanges \X Nat
Calls == [id : CallIds, name : STRING]
SessionEvent ==
    [id : EventIds, direction : {"outbound", "inbound"}, calls : Seq(Calls), results : Seq(Calls)]
Step == [kind : {"model", "tool"}, request : EventIds \cup {Null}, response : EventIds \cup {Null},
         call : CallIds \cup {Null}, result : CallIds \cup {Null}]

\* The calls of an exchange are numbered, and only an answer has any.
LEMMA CallsOfFacts ==
  ASSUME TrajectoryTypeOK, NEW x \in Exchanges
  PROVE  /\ CallsOf(x) \in Seq(Calls)
         /\ \A k \in DOMAIN CallsOf(x) : CallsOf(x)[k].id = <<x, k>>
         /\ ~ Answered(x) => CallsOf(x) = <<>>
         /\ Len(CallsOf(x)) = Len(answer[x].calls)
<1>0. /\ answer[x] \in [outcome : Outcomes, calls : {<< >>}] \cup [outcome : {"answered"}, calls : Answers]
      /\ \A a \in Answers : a \in Seq(STRING)
  BY TrajectoryAssumption DEF TrajectoryTypeOK
<1>1. PICK c : c = answer[x].calls
  OBVIOUS
<1>2. c \in Seq(STRING) /\ (~ Answered(x) => c = <<>>)
  <2>1. CASE answer[x] \in [outcome : Outcomes, calls : {<< >>}]
    <3>1. c = <<>> /\ <<>> \in Seq(STRING)
      BY <1>1, <2>1
    <3> QED BY <3>1
  <2>2. CASE answer[x] \in [outcome : {"answered"}, calls : Answers]
    <3>1. c \in Answers /\ Answered(x)
      BY <1>1, <2>2 DEF Answered
    <3> QED BY <1>0, <3>1
  <2> QED BY <1>0, <2>1, <2>2
<1>3. CallsOf(x) = [k \in DOMAIN c |-> [id |-> <<x, k>>, name |-> c[k]]]
  BY <1>1 DEF CallsOf
<1>4. PICK n \in Nat : DOMAIN c = 1 .. n /\ n = Len(c)
  BY <1>2
<1>5. \A k \in 1 .. n : [id |-> <<x, k>>, name |-> c[k]] \in Calls
  BY <1>2, <1>4 DEF Calls, CallIds
<1>6. CallsOf(x) \in [1 .. n -> Calls]
  BY <1>3, <1>4, <1>5
<1>7. CallsOf(x) \in Seq(Calls) /\ Len(CallsOf(x)) = n
  BY <1>6
<1>8. ~ Answered(x) => CallsOf(x) = <<>>
  BY <1>2, <1>4, <1>7, EmptySeq
<1> QED BY <1>1, <1>3, <1>4, <1>7, <1>8

\* A request repeats the calls of all earlier exchanges of its conversation.
LEMMA ConversationFacts ==
  ASSUME TrajectoryTypeOK, NEW x \in Exchanges
  PROVE  /\ Conversation(x) \in Seq(Calls)
         /\ ToSet(Conversation(x)) = UNION {ToSet(CallsOf(<<x[1], k>>)) : k \in 1 .. x[2] - 1}
<1>1. PICK n \in Nat : n = x[2] - 1 /\ \A k \in 1 .. n : <<x[1], k>> \in Exchanges
  <2>1. x[2] \in 1 .. MaxAsked /\ x[1] \in Threads /\ MaxAsked \in Nat
    BY TrajectoryAssumption DEF Exchanges
  <2>2. x[2] - 1 \in Nat /\ \A k \in 1 .. x[2] - 1 : <<x[1], k>> \in Exchanges
    BY <2>1 DEF Exchanges
  <2> QED BY <2>2
<1> DEFINE f == [k \in 1 .. n |-> CallsOf(<<x[1], k>>)]
<1>2. \A k \in 1 .. n : f[k] \in Seq(Calls)
  BY <1>1, CallsOfFacts
<1>3. Conversation(x) = Flat(f, n)
  BY <1>1 DEF Conversation, Flat
<1>4. Flat(f, n) \in Seq(Calls) /\ ToSet(Flat(f, n)) = UNION {ToSet(f[k]) : k \in 1 .. n}
  <2> HIDE DEF f
  <2>1. Flat(f, n) \in Seq(Calls)
    BY <1>2, FlatType
  <2>2. ToSet(Flat(f, n)) = UNION {ToSet(f[k]) : k \in 1 .. n}
    BY <1>2, FlatElements
  <2> QED BY <2>1, <2>2
<1>5. UNION {ToSet(f[k]) : k \in 1 .. n} = UNION {ToSet(CallsOf(<<x[1], k>>)) : k \in 1 .. n}
  OBVIOUS
<1> QED BY <1>1, <1>3, <1>4, <1>5

\* Results are sent by requests, calls are made by answers.
LEMMA EventFacts ==
  ASSUME TrajectoryTypeOK, NEW id \in EventIds
  PROVE  /\ Event(id) \in SessionEvent
         /\ Event(id).id = id /\ Event(id).direction = id[1]
         /\ id[1] = "inbound" => Event(id).calls = CallsOf(id[2]) /\ Event(id).results = <<>>
         /\ id[1] = "outbound" => Event(id).calls = <<>> /\ Event(id).results = Conversation(id[2])
<1>1. id[1] \in {"outbound", "inbound"} /\ id[2] \in Exchanges
  BY DEF EventIds
<1>2. PICK c \in Seq(Calls), r \in Seq(Calls) :
         /\ c = IF id[1] = "inbound" THEN CallsOf(id[2]) ELSE << >>
         /\ r = IF id[1] = "outbound" THEN Conversation(id[2]) ELSE << >>
  <2>1. CallsOf(id[2]) \in Seq(Calls) /\ Conversation(id[2]) \in Seq(Calls) /\ << >> \in Seq(Calls)
    BY <1>1, CallsOfFacts, ConversationFacts
  <2> QED BY <2>1
<1>3. Event(id) = [id |-> id, direction |-> id[1], calls |-> c, results |-> r]
  BY <1>2 DEF Event
<1> QED BY <1>1, <1>2, <1>3 DEF SessionEvent

\* A reader gets the events of the table in their order.
LEMMA ReadFacts ==
  ASSUME TrajectoryTypeOK
  PROVE  /\ GetSessionEvents \in Seq(SessionEvent)
         /\ Len(GetSessionEvents) = Len(log) /\ DOMAIN log = 1 .. Len(log) /\ Len(log) \in Nat
         /\ \A i \in DOMAIN log : log[i] \in EventIds /\ GetSessionEvents[i] = Event(log[i])
<1>1. PICK l \in Seq(EventIds) : l = log
  BY DEF TrajectoryTypeOK
<1>2. PICK n \in Nat : DOMAIN l = 1 .. n /\ n = Len(l)
  OBVIOUS
<1>3. GetSessionEvents = [i \in 1 .. n |-> Event(l[i])]
  BY <1>1, <1>2 DEF GetSessionEvents
<1>4. \A i \in 1 .. n : l[i] \in EventIds /\ Event(l[i]) \in SessionEvent
  BY <1>2, EventFacts
<1>5. GetSessionEvents \in [1 .. n -> SessionEvent]
  BY <1>3, <1>4
<1>6. GetSessionEvents \in Seq(SessionEvent) /\ Len(GetSessionEvents) = n
  BY <1>5
<1> QED BY <1>1, <1>2, <1>3, <1>4, <1>6

\* The result of a call is that of a message with its id or with its name, and it
\* has one if there is such a message.
LEMMA ResultOfFacts ==
  ASSUME NEW results \in Seq(Calls), NEW call \in Calls
  PROVE  /\ ResultOf(results, call) = Null \/
              \E r \in ToSet(results) : /\ r.id = call.id \/ r.name = call.name
                                        /\ ResultOf(results, call) = r.id
         /\ (\E r \in ToSet(results) : r.id = call.id \/ r.name = call.name)
              => \E r \in ToSet(results) : /\ r.id = call.id \/ r.name = call.name
                                           /\ ResultOf(results, call) = r.id
<1> DEFINE I == {i \in 1 .. Len(results) : results[i].id = call.id \/ results[i].name = call.name}
<1>1. ResultOf(results, call) = LET i == IF I # {} THEN Min(I) ELSE 0
                                IN  IF i = 0 THEN Null ELSE results[i].id
  BY DEF ResultOf, SelectInSeq
<1>2. Len(results) \in Nat /\ DOMAIN results = 1 .. Len(results)
  OBVIOUS
<1>3. CASE I = {}
  BY <1>1, <1>2, <1>3 DEF ToSet
<1>4. CASE I # {}
  <2>1. Min(I) \in I
    <3>1. I \in SUBSET (1 .. Len(results))
      OBVIOUS
    <3> HIDE DEF I
    <3> QED BY <1>2, <1>4, <3>1, MinOfNumbers
  <2>2. PICK i : i = Min(I)
    OBVIOUS
  <2>3. /\ i \in 1 .. Len(results) /\ i # 0
        /\ results[i].id = call.id \/ results[i].name = call.name
    BY <1>2, <2>1, <2>2
  <2>4. ResultOf(results, call) = results[i].id
    <3> HIDE DEF I
    <3> QED BY <1>1, <1>4, <2>2, <2>3
  <2>5. results[i] \in ToSet(results)
    BY <1>2, <2>3 DEF ToSet
  <2> QED BY <2>3, <2>4, <2>5
<1> QED BY <1>3, <1>4

\* The same for the dashboard, which looks at the id alone.
LEMMA TimelineResultFacts ==
  ASSUME NEW results \in Seq(Calls), NEW call \in Calls
  PROVE  /\ TimelineResult(results, call) \in {Null, call.id}
         /\ (\E r \in ToSet(results) : r.id = call.id) => TimelineResult(results, call) = call.id
         /\ (\A r \in ToSet(results) : r.id # call.id) => TimelineResult(results, call) = Null
<1> DEFINE I == {i \in 1 .. Len(results) : results[i].id = call.id}
<1>1. TimelineResult(results, call) = LET i == IF I # {} THEN Min(I) ELSE 0
                                      IN  IF i = 0 THEN Null ELSE results[i].id
  BY DEF TimelineResult, SelectInSeq
<1>2. Len(results) \in Nat /\ DOMAIN results = 1 .. Len(results)
  OBVIOUS
<1>3. CASE I = {}
  BY <1>1, <1>2, <1>3 DEF ToSet
<1>4. CASE I # {}
  <2>1. Min(I) \in I
    <3>1. I \in SUBSET (1 .. Len(results))
      OBVIOUS
    <3> HIDE DEF I
    <3> QED BY <1>2, <1>4, <3>1, MinOfNumbers
  <2>2. PICK i : i = Min(I)
    OBVIOUS
  <2>3. i \in 1 .. Len(results) /\ i # 0 /\ results[i].id = call.id
    <3>1. i \in I
      <4> HIDE DEF I
      <4> QED BY <2>1, <2>2
    <3> QED BY <1>2, <3>1
  <2>4. TimelineResult(results, call) = results[i].id
    <3> HIDE DEF I
    <3> QED BY <1>1, <1>4, <2>2, <2>3
  <2>5. results[i] \in ToSet(results)
    BY <1>2, <2>3 DEF ToSet
  <2> QED BY <2>3, <2>4, <2>5
<1> QED BY <1>3, <1>4

-----------------------------------------------------------------------------
(* Requests and the answers shown with them                                *)

\* The id of the event at a position of the table, and the results in it.
LogAt(i) == IF i \in DOMAIN log THEN log[i] ELSE Null
ResultsAt(i) ==
    IF i \in DOMAIN log /\ log[i][1] = "outbound" THEN Conversation(log[i][2]) ELSE << >>

\* What the readers look up at a position.
LEMMA LogAtFacts ==
  ASSUME TrajectoryTypeOK, NEW i \in Nat
  PROVE  /\ IdAt(GetSessionEvents, i) = LogAt(i) /\ LogAt(i) \in EventIds \cup {Null}
         /\ i \in DOMAIN log => GetSessionEvents[i].results = ResultsAt(i)
         /\ HasEvent(GetSessionEvents, i) <=> i \in DOMAIN log
         /\ ResultsAt(i) \in Seq(Calls)
<1>1. /\ GetSessionEvents \in Seq(SessionEvent)
      /\ Len(GetSessionEvents) = Len(log) /\ DOMAIN log = 1 .. Len(log) /\ Len(log) \in Nat
      /\ \A j \in DOMAIN log : log[j] \in EventIds /\ GetSessionEvents[j] = Event(log[j])
  BY ReadFacts
<1>2. DOMAIN GetSessionEvents = DOMAIN log
  BY <1>1
<1>3. CASE i \notin DOMAIN log
  <2>1. ResultsAt(i) = <<>> /\ <<>> \in Seq(Calls)
    BY <1>3 DEF ResultsAt
  <2> QED BY <1>2, <1>3, <2>1 DEF IdAt, HasEvent, LogAt
<1>4. CASE i \in DOMAIN log
  <2>1. PICK id \in EventIds : id = log[i]
    BY <1>1, <1>4
  <2>2. /\ Event(id).id = id
        /\ id[1] = "inbound" => Event(id).results = <<>>
        /\ id[1] = "outbound" => Event(id).results = Conversation(id[2])
    BY EventFacts
  <2>3. id[1] \in {"outbound", "inbound"} /\ id[2] \in Exchanges
    BY DEF EventIds
  <2>4. Conversation(id[2]) \in Seq(Calls) /\ <<>> \in Seq(Calls)
    BY <2>3, ConversationFacts
  <2>5. ResultsAt(i) = IF id[1] = "outbound" THEN Conversation(id[2]) ELSE <<>>
    BY <1>4, <2>1 DEF ResultsAt
  <2>6. GetSessionEvents[i].results = ResultsAt(i) /\ ResultsAt(i) \in Seq(Calls)
    BY <1>1, <1>4, <2>1, <2>2, <2>3, <2>4, <2>5
  <2> QED BY <1>1, <1>2, <1>4, <2>1, <2>2, <2>6 DEF IdAt, HasEvent, LogAt
<1> QED BY <1>3, <1>4

\* Where the answer of the request at position i is.
LEMMA ResponseAtFacts ==
  ASSUME TrajectoryTypeOK, NEW i \in DOMAIN log
  PROVE  /\ ResponseAt(GetSessionEvents, i) =
              IF i + 1 \in DOMAIN log /\ log[i + 1][1] = "inbound" THEN i + 1 ELSE 0
         /\ GetSessionEvents[i].direction = log[i][1] /\ GetSessionEvents[i].id = log[i]
<1>1. /\ Len(GetSessionEvents) = Len(log) /\ DOMAIN log = 1 .. Len(log) /\ Len(log) \in Nat
      /\ \A j \in DOMAIN log : log[j] \in EventIds /\ GetSessionEvents[j] = Event(log[j])
  BY ReadFacts
<1>2. HasEvent(GetSessionEvents, i + 1) <=> i + 1 \in DOMAIN log
  <2>1. i + 1 \in Nat
    BY <1>1
  <2> QED BY <2>1, LogAtFacts
<1>3. \A j \in DOMAIN log : GetSessionEvents[j].direction = log[j][1] /\ GetSessionEvents[j].id = log[j]
  BY <1>1, EventFacts
<1> QED BY <1>2, <1>3 DEF ResponseAt

\* The step of call k of the answer at position r, with result w.
ToolStepAt(r, k, w) == ToolStep(LogAt(r + 1), log[r], <<log[r][2], k>>, w)

\* The tool steps of an answer.
LEMMA ToolStepsFacts ==
  ASSUME TrajectoryTypeOK, NEW r \in DOMAIN log, log[r][1] = "inbound"
  PROVE  LET calls == CallsOf(log[r][2])
         IN  /\ ToolSteps(GetSessionEvents, r) =
                  [k \in 1 .. Len(calls) |-> ToolStepAt(r, k, ResultOf(ResultsAt(r + 1), calls[k]))]
             /\ ToolSteps(GetSessionEvents, r) \in Seq(Step)
             /\ calls \in Seq(Calls) /\ \A k \in 1 .. Len(calls) : calls[k].id = <<log[r][2], k>>
<1>1. PICK id \in EventIds : id = log[r] /\ GetSessionEvents[r] = Event(id)
  BY ReadFacts
<1>2. id[2] \in Exchanges /\ id[1] = "inbound"
  BY <1>1 DEF EventIds
<1>3. PICK calls : calls = CallsOf(id[2])
  OBVIOUS
<1>4. PICK n \in Nat : n = Len(calls) /\ DOMAIN calls = 1 .. n
  BY <1>2, <1>3, CallsOfFacts
<1>5. calls \in Seq(Calls) /\ \A k \in 1 .. n : calls[k].id = <<id[2], k>> /\ calls[k] \in Calls
  BY <1>2, <1>3, <1>4, CallsOfFacts
<1>6. GetSessionEvents[r].calls = calls /\ GetSessionEvents[r].id = id
  BY <1>1, <1>2, <1>3, EventFacts
<1>7. r \in Nat /\ r + 1 \in Nat
  BY ReadFacts
<1>8. PICK results \in Seq(Calls) : results = ResultsAt(r + 1)
  BY <1>7, LogAtFacts
<1>9. results = IF HasEvent(GetSessionEvents, r + 1) THEN GetSessionEvents[r + 1].results ELSE << >>
  <2>1. CASE r + 1 \in DOMAIN log
    BY <1>7, <1>8, <2>1, LogAtFacts
  <2>2. CASE r + 1 \notin DOMAIN log
    <3>1. ResultsAt(r + 1) = <<>>
      BY <2>2 DEF ResultsAt
    <3> QED BY <1>7, <1>8, <2>2, <3>1, LogAtFacts
  <2> QED BY <2>1, <2>2
<1>10. IdAt(GetSessionEvents, r + 1) = LogAt(r + 1)
  BY <1>7, LogAtFacts
<1>11. ToolSteps(GetSessionEvents, r) =
         [k \in 1 .. n |-> ToolStepAt(r, k, ResultOf(results, calls[k]))]
  <2>1. ToolSteps(GetSessionEvents, r) =
          [k \in 1 .. n |-> ToolStep(LogAt(r + 1), id, calls[k].id, ResultOf(results, calls[k]))]
    BY <1>4, <1>6, <1>9, <1>10 DEF ToolSteps
  <2> QED BY <1>1, <1>5, <2>1 DEF ToolStepAt
<1>12. \A k \in 1 .. n : ToolStepAt(r, k, ResultOf(results, calls[k])) \in Step
  <2> SUFFICES ASSUME NEW k \in 1 .. n
               PROVE  ToolStepAt(r, k, ResultOf(results, calls[k])) \in Step
    OBVIOUS
  <2>1. ResultOf(results, calls[k]) \in CallIds \cup {Null}
    <3>1. \A c \in ToSet(results) : c.id \in CallIds
      <4>1. \A j \in DOMAIN results : results[j] \in Calls
        OBVIOUS
      <4> QED BY <4>1 DEF ToSet, Calls
    <3> QED BY <1>5, <3>1, ResultOfFacts
  <2>2. <<id[2], k>> \in CallIds
    BY <1>2 DEF CallIds
  <2>3. LogAt(r + 1) \in EventIds \cup {Null}
    BY <1>7, LogAtFacts
  <2> QED BY <1>1, <2>1, <2>2, <2>3 DEF ToolStepAt, ToolStep, Step
<1>13. ToolSteps(GetSessionEvents, r) \in Seq(Step)
  BY <1>11, <1>12
<1> QED BY <1>1, <1>3, <1>4, <1>5, <1>8, <1>11, <1>13

\* The steps that start at a position, by what is there.
LEMMA StepsAtFacts ==
  ASSUME TrajectoryTypeOK, NEW i \in DOMAIN log
  PROVE  /\ StepsAt(GetSessionEvents, i) =
              IF log[i][1] = "inbound" THEN <<>>
              ELSE IF i + 1 \in DOMAIN log /\ log[i + 1][1] = "inbound"
              THEN << ModelStep(log[i], log[i + 1]) >> \o ToolSteps(GetSessionEvents, i + 1)
              ELSE << ModelStep(log[i], Null) >>
         /\ StepsAt(GetSessionEvents, i) \in Seq(Step)
<1>1. PICK id \in EventIds : id = log[i] /\ GetSessionEvents[i].direction = id[1]
                             /\ GetSessionEvents[i].id = id
  BY ReadFacts, ResponseAtFacts
<1>2. id[1] \in {"inbound", "outbound"} /\ i + 1 # 0
  BY ReadFacts DEF EventIds
<1>3. ModelStep(id, Null) \in Step
  BY DEF ModelStep, Step
<1>4. CASE id[1] = "inbound"
  <2>1. StepsAt(GetSessionEvents, i) = <<>> /\ <<>> \in Seq(Step)
    BY <1>1, <1>4 DEF StepsAt
  <2> QED BY <1>1, <1>4, <2>1
<1>5. CASE id[1] = "outbound" /\ i + 1 \in DOMAIN log /\ log[i + 1][1] = "inbound"
  <2>1. log[i + 1] \in EventIds /\ GetSessionEvents[i + 1].id = log[i + 1]
    BY <1>5, ReadFacts, ResponseAtFacts
  <2>2. PICK m : m = ModelStep(id, log[i + 1])
    OBVIOUS
  <2>3. m \in Step
    BY <2>1, <2>2 DEF ModelStep, Step
  <2>4. PICK t \in Seq(Step) : t = ToolSteps(GetSessionEvents, i + 1)
    BY <1>5, ToolStepsFacts
  <2>5. StepsAt(GetSessionEvents, i) = << m >> \o t
    BY <1>1, <1>2, <1>5, <2>1, <2>2, <2>4, ResponseAtFacts DEF StepsAt
  <2>6. << m >> \o t \in Seq(Step)
    BY <2>3
  <2> QED BY <1>1, <1>5, <2>2, <2>4, <2>5, <2>6
<1>6. CASE id[1] = "outbound" /\ ~ (i + 1 \in DOMAIN log /\ log[i + 1][1] = "inbound")
  <2>1. StepsAt(GetSessionEvents, i) = << ModelStep(id, Null) >>
    BY <1>1, <1>6, ResponseAtFacts DEF StepsAt
  <2>2. << ModelStep(id, Null) >> \in Seq(Step)
    BY <1>3
  <2> QED BY <1>1, <1>6, <2>1, <2>2
<1> QED BY <1>2, <1>4, <1>5, <1>6

\* The steps at each position, for the facts about parts.
PartsOf == [i \in DOMAIN log |-> StepsAt(GetSessionEvents, i)]

\* The steps of the export are those of all positions in a row.
LEMMA ReviewStepsFacts ==
  ASSUME TrajectoryTypeOK
  PROVE  /\ ReviewSteps = Flat(PartsOf, Len(log)) /\ ReviewSteps \in Seq(Step)
         /\ \A i \in 1 .. Len(log) : PartsOf[i] = StepsAt(GetSessionEvents, i) /\ PartsOf[i] \in Seq(Step)
         /\ ToSet(ReviewSteps) = UNION {ToSet(PartsOf[i]) : i \in 1 .. Len(log)}
<1>1. DOMAIN log = 1 .. Len(log) /\ Len(log) \in Nat
      /\ DOMAIN GetSessionEvents = 1 .. Len(log)
  BY ReadFacts
<1>2. \A i \in 1 .. Len(log) : PartsOf[i] = StepsAt(GetSessionEvents, i) /\ PartsOf[i] \in Seq(Step)
  BY <1>1, StepsAtFacts DEF PartsOf
<1>3. ReviewSteps = Flat(PartsOf, Len(log))
  BY <1>1, <1>2 DEF ReviewSteps, BuildLogicalSteps, Flat
<1>4. Flat(PartsOf, Len(log)) \in Seq(Step)
  BY <1>1, <1>2, FlatType
<1>5. ToSet(Flat(PartsOf, Len(log))) = UNION {ToSet(PartsOf[i]) : i \in 1 .. Len(log)}
  BY <1>1, <1>2, FlatElements
<1> QED BY <1>2, <1>3, <1>4, <1>5

\* What a step of the export is: a request with the answer next to it or without
\* any, or a call of such an answer.
LEMMA StepIs ==
  ASSUME TrajectoryTypeOK, NEW s \in ToSet(ReviewSteps)
  PROVE  \E i \in DOMAIN log :
           /\ log[i][1] = "outbound"
           /\ \/ s = ModelStep(log[i], Null)
              \/ /\ i + 1 \in DOMAIN log /\ log[i + 1][1] = "inbound"
                 /\ \/ s = ModelStep(log[i], log[i + 1])
                    \/ LET calls == CallsOf(log[i + 1][2])
                       IN  \E k \in 1 .. Len(calls) :
                              s = ToolStepAt(i + 1, k, ResultOf(ResultsAt(i + 2), calls[k]))
<1>1. PICK i \in 1 .. Len(log) : s \in ToSet(PartsOf[i])
  BY ReviewStepsFacts
<1>2. i \in DOMAIN log /\ PartsOf[i] = StepsAt(GetSessionEvents, i) /\ (i + 1) + 1 = i + 2
  BY ReadFacts, ReviewStepsFacts
<1>3. log[i][1] \in {"inbound", "outbound"}
  BY <1>2, ReadFacts DEF EventIds
<1>4. log[i][1] = "outbound"
  <2>1. ToSet(<<>>) = {}
    BY DEF ToSet
  <2> QED BY <1>1, <1>2, <1>3, <2>1, StepsAtFacts
<1>5. CASE i + 1 \in DOMAIN log /\ log[i + 1][1] = "inbound"
  <2>1. PICK m : m = ModelStep(log[i], log[i + 1])
    OBVIOUS
  <2>2. PICK t \in Seq(Step) : t = ToolSteps(GetSessionEvents, i + 1)
    BY <1>5, ToolStepsFacts
  <2>3. StepsAt(GetSessionEvents, i) = << m >> \o t /\ << m >> \o t \in Seq(Step)
    BY <1>2, <1>4, <1>5, <2>1, <2>2, StepsAtFacts
  <2>4. ToSet(<< m >> \o t) \subseteq {m} \cup ToSet(t)
    <3>1. m \in Step
      BY <1>2, <1>5, <2>1, ReadFacts DEF ModelStep, Step
    <3> QED BY <3>1, ConsFacts
  <2>5. s = m \/ s \in ToSet(t)
    BY <1>1, <1>2, <2>3, <2>4
  <2>6. CASE s \in ToSet(t)
    <3>1. PICK calls : calls = CallsOf(log[i + 1][2])
      OBVIOUS
    <3>2. t = [k \in 1 .. Len(calls) |-> ToolStepAt(i + 1, k, ResultOf(ResultsAt(i + 2), calls[k]))]
      BY <1>2, <1>5, <2>2, <3>1, ToolStepsFacts
    <3>3. PICK k \in 1 .. Len(calls) : s = t[k]
      BY <2>6, <3>2 DEF ToSet
    <3>4. s = ToolStepAt(i + 1, k, ResultOf(ResultsAt(i + 2), calls[k]))
      BY <3>2, <3>3
    <3> QED BY <1>2, <1>4, <1>5, <3>1, <3>3, <3>4
  <2> QED BY <1>2, <1>4, <1>5, <2>1, <2>5, <2>6
<1>6. CASE ~ (i + 1 \in DOMAIN log /\ log[i + 1][1] = "inbound")
  <2>1. StepsAt(GetSessionEvents, i) = << ModelStep(log[i], Null) >>
    BY <1>2, <1>4, <1>6, StepsAtFacts
  <2>2. s = ModelStep(log[i], Null)
    BY <1>1, <1>2, <2>1 DEF ToSet
  <2> QED BY <1>2, <1>4, <2>2
<1> QED BY <1>5, <1>6

\* A request is shown with a foreign answer only over a gap of two events: its own
\* answer or the other request would be between the two in an ordered table.
LEMMA ForeignAnswers == TrajectoryTypeOK => ForeignAnswerNeedsTwoGaps
<1> SUFFICES ASSUME TrajectoryTypeOK, InOrder, NEW s \in ToSet(ReviewSteps),
                    s.kind = "model", s.response # Null, s.response[2] # s.request[2]
             PROVE  /\ Inbound(s.request[2]) \notin ToSet(log)
                    /\ Outbound(s.response[2]) \notin ToSet(log)
  BY DEF ForeignAnswerNeedsTwoGaps
<1>1. PICK i \in DOMAIN log :
        /\ log[i][1] = "outbound" /\ i + 1 \in DOMAIN log /\ log[i + 1][1] = "inbound"
        /\ s = ModelStep(log[i], log[i + 1])
  <2>1. /\ \A r, q, c, w : ToolStep(r, q, c, w).kind = "tool"
        /\ \A r : ModelStep(r, Null).response = Null
    BY DEF ToolStep, ModelStep
  <2>2. PICK i \in DOMAIN log :
           /\ log[i][1] = "outbound"
           /\ \/ s = ModelStep(log[i], Null)
              \/ /\ i + 1 \in DOMAIN log /\ log[i + 1][1] = "inbound"
                 /\ \/ s = ModelStep(log[i], log[i + 1])
                    \/ LET calls == CallsOf(log[i + 1][2])
                       IN  \E k \in 1 .. Len(calls) :
                              s = ToolStepAt(i + 1, k, ResultOf(ResultsAt(i + 2), calls[k]))
    BY StepIs
  <2>3. s # ModelStep(log[i], Null)
    BY <2>1
  <2>4. \A j, k, w : s # ToolStepAt(j, k, w)
    BY <2>1 DEF ToolStepAt
  <2> QED BY <2>2, <2>3, <2>4
<1>2. s.request = log[i] /\ s.response = log[i + 1]
  BY <1>1 DEF ModelStep
<1>3. DOMAIN log = 1 .. Len(log) /\ Len(log) \in Nat
      /\ \A j \in DOMAIN log : log[j] \in EventIds
  BY ReadFacts
<1>4. \A j \in DOMAIN log : /\ log[j][2][1] \in Threads /\ log[j][2][2] \in Nat
                            /\ log[j][2] = <<log[j][2][1], log[j][2][2]>>
  BY <1>3, TrajectoryAssumption DEF EventIds, Exchanges
<1>5. \A j, k \in DOMAIN log : j < k =>
        \/ log[j][2][2] < log[k][2][2]
        \/ log[j][2] = log[k][2] /\ log[j][1] = "outbound"
  BY DEF InOrder
<1>6. log[i][2][2] < log[i + 1][2][2]
  BY <1>1, <1>2, <1>3, <1>5
<1>7. ASSUME NEW j \in DOMAIN log, log[j] = Inbound(log[i][2]) PROVE FALSE
  <2>1. log[j][1] = "inbound" /\ log[j][2] = log[i][2]
    BY <1>7 DEF Inbound
  <2>2. j # i /\ j # i + 1
    BY <1>1, <1>4, <1>6, <2>1
  <2>3. CASE j < i
    BY <1>4, <1>5, <2>1, <2>3
  <2>4. CASE i + 1 < j
    <3>1. log[i + 1][2][2] < log[j][2][2] \/ log[i + 1][1] = "outbound"
      BY <1>1, <1>5, <2>4
    <3> QED BY <1>1, <1>4, <1>6, <2>1, <3>1
  <2> QED BY <1>3, <2>2, <2>3, <2>4
<1>8. ASSUME NEW j \in DOMAIN log, log[j] = Outbound(log[i + 1][2]) PROVE FALSE
  <2>1. log[j][1] = "outbound" /\ log[j][2] = log[i + 1][2]
    BY <1>8 DEF Outbound
  <2>2. j # i /\ j # i + 1
    BY <1>1, <1>4, <1>6, <2>1
  <2>3. CASE j < i
    <3>1. log[j][2][2] < log[i][2][2] \/ log[j][2] = log[i][2]
      BY <1>5, <2>3
    <3> QED BY <1>1, <1>4, <1>6, <2>1, <3>1
  <2>4. CASE i + 1 < j
    <3>1. log[i + 1][2][2] < log[j][2][2] \/ log[i + 1][1] = "outbound"
      BY <1>1, <1>5, <2>4
    <3> QED BY <1>1, <1>4, <2>1, <3>1
  <2> QED BY <1>3, <2>2, <2>3, <2>4
<1> QED BY <1>2, <1>7, <1>8 DEF ToSet

\* In a session without overlap a request is shown with the answer to another one
\* only if its own answer and the other request are missing.
THEOREM ForeignAnswersNeedTwoGaps == TrajectorySpec => []ForeignAnswerNeedsTwoGaps
<1> QED BY TrajectoryTypeCorrect, ForeignAnswers, PTL

-----------------------------------------------------------------------------
(* Results of calls in the export                                          *)

\* A name or an id finds the result of the call only, if no tool is called twice.
LEMMA OwnResultsOfExport ==
  ASSUME TrajectoryTypeOK, ToolsDiffer, NEW s \in ToSet(ReviewSteps)
  PROVE  s.result \in {Null, s.call}
<1>1. PICK i \in DOMAIN log :
           /\ log[i][1] = "outbound"
           /\ \/ s = ModelStep(log[i], Null)
              \/ /\ i + 1 \in DOMAIN log /\ log[i + 1][1] = "inbound"
                 /\ \/ s = ModelStep(log[i], log[i + 1])
                    \/ LET calls == CallsOf(log[i + 1][2])
                       IN  \E k \in 1 .. Len(calls) :
                              s = ToolStepAt(i + 1, k, ResultOf(ResultsAt(i + 2), calls[k]))
  BY StepIs
<1>2. \A r, q : ModelStep(r, q).result = Null
  BY DEF ModelStep
<1>3. CASE i + 1 \in DOMAIN log /\ log[i + 1][1] = "inbound" /\
             LET calls == CallsOf(log[i + 1][2])
             IN  \E k \in 1 .. Len(calls) :
                   s = ToolStepAt(i + 1, k, ResultOf(ResultsAt(i + 2), calls[k]))
  <2>1. PICK x \in Exchanges : x = log[i + 1][2]
    BY <1>3, ReadFacts DEF EventIds
  <2>2. PICK calls \in Seq(Calls) : calls = CallsOf(x) /\ \A k \in DOMAIN calls : calls[k].id = <<x, k>>
    BY CallsOfFacts
  <2>3. PICK k \in 1 .. Len(calls) : s = ToolStepAt(i + 1, k, ResultOf(ResultsAt(i + 2), calls[k]))
    BY <1>3, <2>1, <2>2
  <2>4. i + 2 \in Nat
    BY ReadFacts
  <2>5. PICK results \in Seq(Calls) : results = ResultsAt(i + 2)
    BY <2>4, LogAtFacts
  <2>6. calls[k] \in Calls /\ k \in DOMAIN calls /\ calls[k] \in ToSet(CallsOf(x))
    BY <2>2 DEF ToSet
  <2>7. s.call = calls[k].id /\ s.result = ResultOf(results, calls[k])
    BY <2>1, <2>2, <2>3, <2>5, <2>6 DEF ToolStepAt, ToolStep
  <2>8. ToSet(results) \subseteq UNION {ToSet(CallsOf(y)) : y \in Exchanges}
    <3>1. CASE i + 2 \in DOMAIN log /\ log[i + 2][1] = "outbound"
      <4>1. PICK y \in Exchanges : y = log[i + 2][2]
        BY <3>1, ReadFacts DEF EventIds
      <4>2. ToSet(results) = UNION {ToSet(CallsOf(<<y[1], n>>)) : n \in 1 .. y[2] - 1}
        BY <2>5, <3>1, <4>1, ConversationFacts DEF ResultsAt
      <4>3. \A n \in 1 .. y[2] - 1 : <<y[1], n>> \in Exchanges
        BY TrajectoryAssumption DEF Exchanges
      <4> QED BY <4>2, <4>3
    <3>2. CASE ~ (i + 2 \in DOMAIN log /\ log[i + 2][1] = "outbound")
      BY <2>5, <3>2 DEF ResultsAt, ToSet
    <3> QED BY <3>1, <3>2
  <2>9. \A c, d \in UNION {ToSet(CallsOf(y)) : y \in Exchanges} : c.name = d.name => c = d
    BY DEF ToolsDiffer
  <2>10. calls[k] \in UNION {ToSet(CallsOf(y)) : y \in Exchanges}
    BY <2>6
  <2>11. \A r \in ToSet(results) : r.id = calls[k].id \/ r.name = calls[k].name => r.id = calls[k].id
    BY <2>8, <2>9, <2>10
  <2> QED BY <2>6, <2>7, <2>11, ResultOfFacts
<1> QED BY <1>1, <1>2, <1>3

\* A turn of n events: the positions of the request and of the answer, or 0.
Turn(n) == [request : 0 .. n, response : 0 .. n]

\* The turn that starts at position i when the first m events have been grouped.
TurnAt(events, m, i) ==
    IF events[i].direction = "outbound"
    THEN << [request |-> i,
             response |-> IF i < m /\ events[i + 1].direction = "inbound" THEN i + 1 ELSE 0] >>
    ELSE IF i > 1 /\ events[i - 1].direction = "outbound" THEN << >>
    ELSE << [request |-> 0, response |-> i] >>

TurnParts(events, m) == [i \in 1 .. Len(events) |-> TurnAt(events, m, i)]

TurnStep(events, turns, i) ==
    IF events[i].direction = "outbound"
    THEN Append(turns, [request |-> i, response |-> 0])
    ELSE IF turns = << >> \/ Last(turns).response # 0
    THEN Append(turns, [request |-> 0, response |-> i])
    ELSE [turns EXCEPT ![Len(turns)].response = i]

TurnF(events) ==
    [x \in Seq(Turn(Len(events))) \X (1 .. Len(events)) |-> TurnStep(events, x[1], x[2])]

\* An event makes turns of turns.
LEMMA TurnSteps ==
  ASSUME NEW events, Len(events) \in Nat
  PROVE  LET n == Len(events)
         IN  /\ Steps(TurnF(events), Seq(Turn(n)), 1 .. n)
             /\ \A turns \in Seq(Turn(n)), i \in 1 .. n :
                   TurnF(events)[<<turns, i>>] = TurnStep(events, turns, i)
<1>1. PICK n \in Nat : n = Len(events)
  OBVIOUS
<1>2. ASSUME NEW turns \in Seq(Turn(n)), NEW i \in 1 .. n
      PROVE  TurnStep(events, turns, i) \in Seq(Turn(n))
  <2>1. [request |-> i, response |-> 0] \in Turn(n) /\ [request |-> 0, response |-> i] \in Turn(n)
    BY DEF Turn
  <2>2. ASSUME turns # <<>> PROVE [turns EXCEPT ![Len(turns)].response = i] \in Seq(Turn(n))
    <3>1. turns[Len(turns)] \in Turn(n) /\ Len(turns) \in DOMAIN turns
      BY <2>2
    <3>2. PICK l : l = [turns[Len(turns)] EXCEPT !.response = i]
      OBVIOUS
    <3>3. l \in Turn(n)
      BY <3>1, <3>2 DEF Turn
    <3>4. [turns EXCEPT ![Len(turns)].response = i] = [turns EXCEPT ![Len(turns)] = l]
      BY <3>2
    <3> QED BY <3>1, <3>3, <3>4
  <2> QED BY <2>1, <2>2 DEF TurnStep
<1>3. PICK S : S = Seq(Turn(n))
  OBVIOUS
<1>4. TurnF(events) = [x \in S \X (1 .. n) |-> TurnStep(events, x[1], x[2])]
  BY <1>1, <1>3 DEF TurnF
<1>5. /\ TurnF(events) \in [S \X (1 .. n) -> S]
      /\ \A turns \in S, i \in 1 .. n : TurnF(events)[<<turns, i>>] = TurnStep(events, turns, i)
  <2>1. \A turns \in S, i \in 1 .. n : TurnF(events)[<<turns, i>>] = TurnStep(events, turns, i)
    BY <1>4, Zenon
  <2>2. \A x \in S \X (1 .. n) : TurnStep(events, x[1], x[2]) \in S
    BY <1>2, <1>3
  <2>3. TurnF(events) \in [S \X (1 .. n) -> S]
    BY <1>4, <2>2, Zenon
  <2> QED BY <2>1, <2>3
<1> QED BY <1>1, <1>3, <1>5 DEF Steps

\* The loop of groupTurns, written out, over any places.
Grouped(events, places) ==
    (CHOOSE g : g = [s \in SUBSET DOMAIN places |->
        IF s = {} THEN << >> ELSE TurnStep(events, g[s \ {Max(s)}], places[Max(s)])])[DOMAIN places]

\* The grouping is the fold of its steps.
LEMMA TurnsUnfold ==
  ASSUME NEW events
  PROVE  GroupTurns(events) = Grouped(events, [i \in DOMAIN events |-> i])
BY DEF GroupTurns, FoldLeft, MapThenFoldSet, TurnStep, Grouped

\* It is the fold by TurnF.
LEMMA GroupedIsFold ==
  ASSUME NEW events, NEW n \in Nat, Len(events) = n, NEW seq \in Seq(1 .. n)
  PROVE  Grouped(events, seq) = Value(TurnF(events), << >>, seq)
<1> DEFINE G(g) == g = [s \in SUBSET DOMAIN seq |->
                     IF s = {} THEN << >> ELSE TurnStep(events, g[s \ {Max(s)}], seq[Max(s)])]
<1>1. DOMAIN seq = 1 .. Len(seq)
  OBVIOUS
<1>2. PICK A, E, F, base : A = Seq(Turn(n)) /\ E = 1 .. n /\ F = TurnF(events) /\ base = << >>
  OBVIOUS
<1>3. Steps(F, A, E) /\ base \in A /\ seq \in Seq(E)
      /\ \A r \in A, i \in E : F[<<r, i>>] = TurnStep(events, r, i)
  BY <1>2, TurnSteps
<1>4. PICK g : Finds(g, A, E, F, base, seq)
  BY <1>3, FoldSolution
<1>5. G(g)
  <2>1. g = [s \in SUBSET DOMAIN seq |-> g[s]] /\ g[{}] = << >>
    BY <1>1, <1>2, <1>4 DEF Finds
  <2>2. ASSUME NEW s \in SUBSET DOMAIN seq, s # {}
        PROVE  g[s] = TurnStep(events, g[s \ {Max(s)}], seq[Max(s)])
    <3>1. g[s \ {Max(s)}] \in A /\ seq[Max(s)] \in E /\ g[s] = F[<<g[s \ {Max(s)}], seq[Max(s)]>>]
      BY <1>1, <1>4, <2>2 DEF Finds
    <3> QED BY <1>3, <3>1
  <2> QED BY <2>1, <2>2, Zenon
<1>6. PICK f : f = CHOOSE x : G(x)
  OBVIOUS
<1>7. G(f)
  BY <1>5, <1>6
<1>8. Follows(f, A, E, F, base, seq)
  BY <1>1, <1>2, <1>3, <1>7 DEF Follows
<1>9. f[DOMAIN seq] = Value(F, base, seq)
  BY <1>3, <1>8, ValueIs
<1>10. Grouped(events, seq) = f[DOMAIN seq]
  BY <1>6 DEF Grouped
<1> QED BY <1>2, <1>9, <1>10

-----------------------------------------------------------------------------
(* The turns of the dashboard                                              *)

\* One more turn is the last one.
LEMMA AppendLast ==
  ASSUME NEW E, NEW u \in Seq(E), NEW x \in E
  PROVE  Append(u, x) # <<>> /\ Last(Append(u, x)) = x /\ u \o << x >> = Append(u, x)
<1>1. u \o << x >> = Append(u, x)
  OBVIOUS
<1>2. Len(Append(u, x)) = Len(u) + 1 /\ Append(u, x)[Len(u) + 1] = x /\ Append(u, x) # <<>>
  OBVIOUS
<1> QED BY <1>1, <1>2 DEF Last

\* It can be closed.
LEMMA CloseLast ==
  ASSUME NEW n, NEW u \in Seq(Turn(n)), NEW x \in Turn(n), NEW z \in Turn(n),
         z.request = x.request
  PROVE  [Append(u, x) EXCEPT ![Len(Append(u, x))].response = z.response] = Append(u, z)
<1>1. PICK s : s = Append(u, x)
  OBVIOUS
<1>3. [x EXCEPT !.response = z.response] = z
  BY DEF Turn
<1>4. PICK l \in Nat : l = Len(u)
  OBVIOUS
<1>5. /\ s \in Seq(Turn(n)) /\ Len(s) = l + 1 /\ s[l + 1] = x
      /\ \A i \in 1 .. l : s[i] = u[i]
  BY <1>1, <1>4
<1>6. [s EXCEPT ![Len(s)].response = z.response] = [s EXCEPT ![l + 1] = z]
  BY <1>3, <1>5
<1>7. PICK r : r = [s EXCEPT ![l + 1] = z]
  OBVIOUS
<1>8. r \in Seq(Turn(n)) /\ Len(r) = l + 1 /\ r[l + 1] = z /\ \A i \in 1 .. l : r[i] = u[i]
  BY <1>5, <1>7
<1>9. PICK t : t = Append(u, z)
  OBVIOUS
<1>10. t \in Seq(Turn(n)) /\ Len(t) = l + 1 /\ t[l + 1] = z /\ \A i \in 1 .. l : t[i] = u[i]
  BY <1>4, <1>9
<1>11. \A i \in 1 .. l + 1 : r[i] = t[i]
  <2> SUFFICES ASSUME NEW i \in 1 .. l + 1 PROVE r[i] = t[i]
    OBVIOUS
  <2>1. i \in 1 .. l \/ i = l + 1
    OBVIOUS
  <2> QED BY <1>8, <1>10, <2>1
<1>12. r = t
  BY <1>8, <1>10, <1>11
<1> QED BY <1>1, <1>6, <1>7, <1>9, <1>12

\* events has n events, each of which goes one way.
IsEvents(events, n) ==
    /\ Len(events) = n /\ DOMAIN events = 1 .. n
    /\ \A i \in 1 .. n : events[i].direction \in {"outbound", "inbound"}

\* The parts are turns.
LEMMA TurnPartsType ==
  ASSUME NEW n \in Nat, NEW events, IsEvents(events, n), NEW m \in 0 .. n, NEW i \in 1 .. n
  PROVE  /\ TurnParts(events, m)[i] = TurnAt(events, m, i)
         /\ TurnAt(events, m, i) \in Seq(Turn(n)) /\ Len(TurnAt(events, m, i)) \in {0, 1}
<1>1. TurnParts(events, m)[i] = TurnAt(events, m, i)
  BY DEF TurnParts, IsEvents
<1>2. i < m => i + 1 \in 0 .. n
  OBVIOUS
<1>3. \A x, y \in 0 .. n : [request |-> x, response |-> y] \in Turn(n)
  BY DEF Turn
<1>4. \A x \in Turn(n) : << x >> \in Seq(Turn(n)) /\ Len(<< x >>) = 1
  OBVIOUS
<1>5. <<>> \in Seq(Turn(n)) /\ Len(<<>>) = 0
  OBVIOUS
<1>6. i \in 0 .. n /\ 0 \in 0 .. n
  OBVIOUS
<1>7. PICK r \in 0 .. n : r = IF i < m /\ events[i + 1].direction = "inbound" THEN i + 1 ELSE 0
  BY <1>2, <1>6
<1>8. TurnAt(events, m, i) \in Seq(Turn(n)) /\ Len(TurnAt(events, m, i)) \in {0, 1}
  BY <1>3, <1>4, <1>5, <1>6, <1>7 DEF TurnAt
<1> QED BY <1>1, <1>8

\* The turns are those that start at the positions, in their order.
LEMMA TurnsAre ==
  ASSUME NEW n \in Nat, NEW events, IsEvents(events, n)
  PROVE  GroupTurns(events) = Flat(TurnParts(events, n), n)
<1> DEFINE dir(i) == events[i].direction
           T == Seq(Turn(n))
           TP(m) == TurnParts(events, m)
<1>0. PICK seq : seq = [i \in 1 .. n |-> i]
  OBVIOUS
<1>1. seq \in Seq(1 .. n) /\ Len(seq) = n /\ \A i \in 1 .. n : seq[i] = i
  BY <1>0
<1>2. GroupTurns(events) = Value(TurnF(events), <<>>, seq)
  <2>1. GroupTurns(events) = Grouped(events, seq)
    BY <1>0, TurnsUnfold DEF IsEvents
  <2> QED BY <1>1, <2>1, GroupedIsFold DEF IsEvents
<1>3. /\ Steps(TurnF(events), T, 1 .. n) /\ <<>> \in T
      /\ \A turns \in T, i \in 1 .. n : TurnF(events)[<<turns, i>>] = TurnStep(events, turns, i)
  <2>1. <<>> \in T
    OBVIOUS
  <2> QED BY <2>1, TurnSteps DEF IsEvents
<1>4. PICK h : Run(h, Value(TurnF(events), <<>>, seq), T, TurnF(events), <<>>, seq)
  <2> HIDE DEF T
  <2> QED BY <1>1, <1>3, ValueRuns
<1>5. /\ h \in [0 .. n -> T] /\ h[0] = <<>> /\ h[n] = GroupTurns(events)
      /\ \A i \in 1 .. n : h[i] = TurnStep(events, h[i - 1], i)
  <2>1. /\ h \in [0 .. n -> T] /\ h[0] = <<>> /\ h[n] = GroupTurns(events)
        /\ \A i \in 1 .. n : h[i] = TurnF(events)[<<h[i - 1], seq[i]>>]
    <3> HIDE DEF T
    <3> QED BY <1>1, <1>2, <1>4 DEF Run
  <2>2. \A i \in 1 .. n : h[i - 1] \in T
    <3> HIDE DEF T
    <3>1. \A i \in 1 .. n : i - 1 \in 0 .. n
      OBVIOUS
    <3> QED BY <2>1, <3>1
  <2>3. \A i \in 1 .. n : h[i] = TurnStep(events, h[i - 1], i)
    <3> HIDE DEF T
    <3> SUFFICES ASSUME NEW i \in 1 .. n PROVE h[i] = TurnStep(events, h[i - 1], i)
      OBVIOUS
    <3>1. h[i] = TurnF(events)[<<h[i - 1], seq[i]>>] /\ h[i - 1] \in T
      BY <2>1, <2>2
    <3> QED BY <1>1, <1>3, <3>1
  <2> QED BY <2>1, <2>3
<1>6. \A m \in 0 .. n, i \in 1 .. n : TP(m)[i] = TurnAt(events, m, i) /\ TP(m)[i] \in T
  BY TurnPartsType
<1> DEFINE P(m) == /\ h[m] = Flat(TP(m), m)
                   /\ m > 0 => /\ h[m] # <<>>
                               /\ Last(h[m]).response = IF dir(m) = "outbound" THEN 0 ELSE m
           B == {m \in Nat : m =< n => P(m)}
<1>7. 0 \in B
  BY <1>5, FlatEmpty
<1>8. ASSUME NEW m \in B PROVE m + 1 \in B
  <2> SUFFICES ASSUME m + 1 =< n PROVE P(m + 1)
    OBVIOUS
  <2>1. m \in Nat /\ P(m) /\ m \in 0 .. n /\ m + 1 \in 1 .. n /\ m + 1 \in 0 .. n /\ (m + 1) - 1 = m
    OBVIOUS
  <2>2. h[m + 1] = TurnStep(events, h[m], m + 1) /\ h[m] \in T
    BY <1>5, <2>1
  <2>3. Flat(TP(m + 1), m + 1) = Flat(TP(m + 1), m) \o TP(m + 1)[m + 1]
    <3>1. \A i \in 1 .. m + 1 : TP(m + 1)[i] \in Seq(Turn(n))
      BY <1>6, <2>1
    <3> HIDE DEF TP
    <3> QED BY <2>1, <3>1, FlatStep
  <2>4. dir(m + 1) \in {"outbound", "inbound"} /\ (m > 0 => dir(m) \in {"outbound", "inbound"})
    BY <2>1 DEF IsEvents
  <2>5. \A i \in 1 .. m : ~ (i = m /\ dir(i) = "outbound" /\ dir(m + 1) = "inbound")
          => TurnAt(events, m + 1, i) = TurnAt(events, m, i)
    BY <2>1 DEF TurnAt
  <2>6. ASSUME ~ (m > 0 /\ dir(m) = "outbound" /\ dir(m + 1) = "inbound")
        PROVE  Flat(TP(m + 1), m) = h[m]
    <3>1. \A i \in 1 .. m : TP(m + 1)[i] = TP(m)[i]
      <4> SUFFICES ASSUME NEW i \in 1 .. m PROVE TP(m + 1)[i] = TP(m)[i]
        OBVIOUS
      <4>1. i \in 1 .. n
        BY <2>1
      <4>2. TurnAt(events, m + 1, i) = TurnAt(events, m, i)
        BY <2>1, <2>5, <2>6
      <4> HIDE DEF TP
      <4> QED BY <1>6, <2>1, <4>1, <4>2
    <3>2. Flat(TP(m + 1), m) = Flat(TP(m), m)
      <4> HIDE DEF TP
      <4> QED BY <2>1, <3>1, FlatSame
    <3> QED BY <2>1, <3>2
  <2>7. ASSUME NEW x \in Turn(n), h[m + 1] = Append(h[m], x), TurnAt(events, m + 1, m + 1) = << x >>,
               x.response = IF dir(m + 1) = "outbound" THEN 0 ELSE m + 1,
               ~ (m > 0 /\ dir(m) = "outbound" /\ dir(m + 1) = "inbound")
        PROVE  P(m + 1)
    <3>1. h[m + 1] # <<>> /\ Last(h[m + 1]) = x /\ h[m] \o << x >> = h[m + 1]
      <4>1. PICK v \in Seq(Turn(n)) : v = h[m]
        BY <2>2
      <4>2. /\ Append(v, x) # <<>> /\ Last(Append(v, x)) = x /\ v \o << x >> = Append(v, x)
        BY AppendLast
      <4> QED BY <2>7, <4>1, <4>2
    <3>2. Flat(TP(m + 1), m + 1) = h[m] \o << x >>
      BY <1>6, <2>1, <2>3, <2>6, <2>7
    <3> QED BY <2>7, <3>1, <3>2
  <2>8. CASE dir(m + 1) = "outbound"
    <3>1. PICK x : x = [request |-> m + 1, response |-> 0]
      OBVIOUS
    <3>2. x \in Turn(n) /\ x.response = 0
      BY <2>1, <3>1 DEF Turn
    <3>3. TurnAt(events, m + 1, m + 1) = << x >>
      BY <2>1, <2>8, <3>1 DEF TurnAt
    <3>4. h[m + 1] = Append(h[m], x)
      BY <2>2, <2>8, <3>1 DEF TurnStep
    <3> QED BY <2>7, <2>8, <3>2, <3>3, <3>4
  <2>9. CASE dir(m + 1) = "inbound" /\ ~ (m > 0 /\ dir(m) = "outbound")
    <3>1. PICK x : x = [request |-> 0, response |-> m + 1]
      OBVIOUS
    <3>2. x \in Turn(n) /\ x.response = m + 1
      BY <2>1, <3>1 DEF Turn
    <3>3. TurnAt(events, m + 1, m + 1) = << x >>
      BY <2>1, <2>9, <3>1 DEF TurnAt
    <3>4. h[m] = <<>> \/ Last(h[m]).response # 0
      BY <1>5, <2>1, <2>9
    <3>5. h[m + 1] = Append(h[m], x)
      BY <2>2, <2>9, <3>1, <3>4 DEF TurnStep
    <3> QED BY <2>7, <2>9, <3>2, <3>3, <3>5
  <2>10. CASE dir(m + 1) = "inbound" /\ m > 0 /\ dir(m) = "outbound"
    <3>1. PICK k \in Nat : m = k + 1 /\ m - 1 = k /\ k \in 0 .. n
      <4>1. m - 1 \in Nat /\ m = (m - 1) + 1 /\ m - 1 \in 0 .. n
        BY <2>1, <2>10
      <4> QED BY <4>1
    <3>2. PICK x, z : x = [request |-> m, response |-> 0] /\ z = [request |-> m, response |-> m + 1]
      OBVIOUS
    <3>3. x \in Turn(n) /\ z \in Turn(n) /\ x.request = m /\ z.response = m + 1
      BY <2>1, <3>2 DEF Turn
    <3>4. TurnAt(events, m, m) = << x >> /\ TurnAt(events, m + 1, m) = << z >>
          /\ TurnAt(events, m + 1, m + 1) = <<>>
      BY <2>1, <2>10, <3>2 DEF TurnAt
    <3>5. PICK u \in Seq(Turn(n)) : u = Flat(TP(m), k) /\ u = Flat(TP(m + 1), k)
      <4>1. \A i \in 1 .. k : TP(m)[i] = TP(m + 1)[i] /\ TP(m)[i] \in Seq(Turn(n))
        <5> SUFFICES ASSUME NEW i \in 1 .. k PROVE TP(m)[i] = TP(m + 1)[i] /\ TP(m)[i] \in Seq(Turn(n))
          OBVIOUS
        <5>1. i \in 1 .. n /\ i \in 1 .. m /\ i # m
          BY <2>1, <3>1
        <5>2. TurnAt(events, m + 1, i) = TurnAt(events, m, i)
          BY <2>5, <5>1
        <5>3. TP(m)[i] = TurnAt(events, m, i) /\ TP(m + 1)[i] = TurnAt(events, m + 1, i) /\ TP(m)[i] \in T
          <6> HIDE DEF TP
          <6> QED BY <1>6, <2>1, <5>1
        <5> HIDE DEF TP
        <5> QED BY <5>2, <5>3
      <4> HIDE DEF TP
      <4>2. Flat(TP(m), k) = Flat(TP(m + 1), k)
        BY <4>1, FlatSame
      <4>3. Flat(TP(m), k) \in Seq(Turn(n))
        BY <4>1, FlatType
      <4> QED BY <4>2, <4>3
    <3>6. \A j \in {m, m + 1} : Flat(TP(j), m) = Flat(TP(j), k) \o TP(j)[m]
      <4> SUFFICES ASSUME NEW j \in {m, m + 1} PROVE Flat(TP(j), m) = Flat(TP(j), k) \o TP(j)[m]
        OBVIOUS
      <4>1. \A i \in 1 .. k + 1 : TP(j)[i] \in Seq(Turn(n))
        <5> SUFFICES ASSUME NEW i \in 1 .. k + 1 PROVE TP(j)[i] \in Seq(Turn(n))
          OBVIOUS
        <5>1. i \in 1 .. n /\ j \in 0 .. n
          BY <2>1, <3>1
        <5> HIDE DEF TP
        <5> QED BY <1>6, <5>1
      <4> HIDE DEF TP
      <4> QED BY <3>1, <4>1, FlatStep
    <3>7. TP(m)[m] = << x >> /\ TP(m + 1)[m] = << z >> /\ TP(m + 1)[m + 1] = <<>>
      <4>1. m \in 1 .. n
        BY <2>1, <3>1
      <4> HIDE DEF TP
      <4> QED BY <1>6, <2>1, <3>4, <4>1
    <3>8. h[m] = u \o << x >> /\ Flat(TP(m + 1), m) = u \o << z >>
      <4> HIDE DEF TP
      <4> QED BY <2>1, <3>5, <3>6, <3>7
    <3>9. /\ h[m] = Append(u, x) /\ h[m] # <<>> /\ Last(h[m]) = x /\ x.response = 0
          /\ [h[m] EXCEPT ![Len(h[m])].response = m + 1] = Append(u, z)
      <4>1. z.request = x.request /\ x.response = 0
        BY <3>2
      <4>2. Append(u, x) # <<>> /\ Last(Append(u, x)) = x /\ u \o << x >> = Append(u, x)
        BY <3>3, AppendLast
      <4>3. [Append(u, x) EXCEPT ![Len(Append(u, x))].response = z.response] = Append(u, z)
        BY <3>3, <4>1, CloseLast
      <4> QED BY <3>3, <3>8, <4>1, <4>2, <4>3
    <3>10. h[m + 1] = Append(u, z)
      BY <2>2, <2>10, <3>9 DEF TurnStep
    <3>11. Append(u, z) # <<>> /\ Last(Append(u, z)) = z /\ u \o << z >> = Append(u, z)
      BY <3>3, AppendLast
    <3>12. Flat(TP(m + 1), m + 1) = Append(u, z)
      <4>1. Append(u, z) \in Seq(Turn(n)) /\ Append(u, z) \o <<>> = Append(u, z)
        BY <3>3
      <4> HIDE DEF TP
      <4> QED BY <2>3, <3>7, <3>8, <3>11, <4>1
    <3> QED BY <2>10, <3>3, <3>10, <3>11, <3>12
  <2> QED BY <2>4, <2>8, <2>9, <2>10
<1>9. B = Nat
  <2>1. B \in SUBSET Nat
    OBVIOUS
  <2> HIDE DEF B
  <2> QED BY <1>7, <1>8, <2>1, NatSetInduction
<1>10. n \in B
  <2> HIDE DEF B
  <2> QED BY <1>9
<1> QED BY <1>5, <1>10

-----------------------------------------------------------------------------
(* The steps of the dashboard                                              *)

Entry == [step : Step, eventId : EventIds \cup {Null}]

\* The steps of the screen that start at a position of the table.
NextRequest(r) == IF r + 1 \in DOMAIN log /\ log[r + 1][1] = "outbound" THEN log[r + 1] ELSE Null
ModelEntry(request, response) ==
    [step |-> ModelStep(request, response), eventId |-> Or(response, request)]
ToolEntry(r, k) ==
    [step |-> ToolStep(NextRequest(r), log[r], <<log[r][2], k>>,
                       TimelineResult(ResultsAt(r + 1), CallsOf(log[r][2])[k])),
     eventId |-> Or(NextRequest(r), log[r])]
ToolEntries(r) == [k \in 1 .. Len(CallsOf(log[r][2])) |-> ToolEntry(r, k)]

TimelineAt(i) ==
    IF log[i][1] = "outbound"
    THEN IF i + 1 \in DOMAIN log /\ log[i + 1][1] = "inbound"
         THEN << ModelEntry(log[i], log[i + 1]) >> \o ToolEntries(i + 1)
         ELSE << ModelEntry(log[i], Null) >>
    ELSE IF i > 1 /\ log[i - 1][1] = "outbound" THEN << >>
    ELSE << ModelEntry(Null, log[i]) >> \o ToolEntries(i)

TimelineParts == [i \in DOMAIN log |-> TimelineAt(i)]

\* What is on the screen.
LEMMA EntryTypes ==
  ASSUME TrajectoryTypeOK
  PROVE  /\ \A q \in EventIds \cup {Null}, r \in EventIds \cup {Null} : ModelEntry(q, r) \in Entry
         /\ \A r \in DOMAIN log : log[r][1] = "inbound" =>
              /\ ToolEntries(r) \in Seq(Entry) /\ Len(CallsOf(log[r][2])) \in Nat
              /\ \A k \in 1 .. Len(CallsOf(log[r][2])) : ToolEntry(r, k) \in Entry
         /\ \A i \in DOMAIN log : TimelineAt(i) \in Seq(Entry)
<1>0. /\ DOMAIN log = 1 .. Len(log) /\ Len(log) \in Nat
      /\ \A i \in DOMAIN log : log[i] \in EventIds
  BY ReadFacts
<1>1. ASSUME NEW q \in EventIds \cup {Null}, NEW r \in EventIds \cup {Null} PROVE ModelEntry(q, r) \in Entry
  <2>1. ModelStep(q, r) \in Step /\ Or(r, q) \in EventIds \cup {Null}
    BY DEF ModelStep, Step, Or
  <2> QED BY <2>1 DEF ModelEntry, Entry
<1>2. ASSUME NEW r \in DOMAIN log, log[r][1] = "inbound"
      PROVE  /\ ToolEntries(r) \in Seq(Entry) /\ Len(CallsOf(log[r][2])) \in Nat
             /\ \A k \in 1 .. Len(CallsOf(log[r][2])) : ToolEntry(r, k) \in Entry
  <2>1. PICK x \in Exchanges : x = log[r][2]
    BY <1>0 DEF EventIds
  <2>2. PICK calls \in Seq(Calls) : calls = CallsOf(x) /\ \A k \in DOMAIN calls : calls[k].id = <<x, k>>
    BY CallsOfFacts
  <2>3. NextRequest(r) \in EventIds \cup {Null} /\ log[r] \in EventIds
    BY <1>0 DEF NextRequest
  <2>4. ResultsAt(r + 1) \in Seq(Calls)
    <3>1. r + 1 \in Nat
      BY <1>0
    <3> QED BY <3>1, LogAtFacts
  <2>5. ASSUME NEW k \in 1 .. Len(calls) PROVE ToolEntry(r, k) \in Entry
    <3>1. calls[k] \in Calls /\ k \in Nat /\ calls[k].id = <<x, k>>
      BY <2>2
    <3>2. <<x, k>> \in CallIds
      BY <3>1 DEF CallIds
    <3>3. TimelineResult(ResultsAt(r + 1), calls[k]) \in CallIds \cup {Null}
      BY <2>4, <3>1, <3>2, TimelineResultFacts
    <3>4. PICK w \in CallIds \cup {Null} : w = TimelineResult(ResultsAt(r + 1), calls[k])
      BY <3>3
    <3>5. ToolStep(NextRequest(r), log[r], <<x, k>>, w) \in Step
      BY <2>3, <3>2 DEF ToolStep, Step
    <3>6. Or(NextRequest(r), log[r]) \in EventIds \cup {Null}
      BY <2>3 DEF Or
    <3> QED BY <2>1, <2>2, <3>4, <3>5, <3>6 DEF ToolEntry, Entry
  <2>6. ToolEntries(r) \in Seq(Entry)
    BY <2>1, <2>2, <2>5 DEF ToolEntries
  <2> QED BY <2>1, <2>2, <2>5, <2>6
<1>3. ASSUME NEW i \in DOMAIN log PROVE TimelineAt(i) \in Seq(Entry)
  <2>0. log[i] \in EventIds /\ log[i][1] \in {"outbound", "inbound"}
    BY <1>0 DEF EventIds
  <2>1. CASE log[i][1] = "outbound" /\ i + 1 \in DOMAIN log /\ log[i + 1][1] = "inbound"
    <3>1. PICK m \in Entry : m = ModelEntry(log[i], log[i + 1])
      BY <1>0, <1>1, <2>1
    <3>2. PICK t \in Seq(Entry) : t = ToolEntries(i + 1)
      BY <1>2, <2>1
    <3>3. << m >> \o t \in Seq(Entry)
      BY ConsFacts
    <3> QED BY <2>1, <3>1, <3>2, <3>3 DEF TimelineAt
  <2>2. CASE log[i][1] = "outbound" /\ ~ (i + 1 \in DOMAIN log /\ log[i + 1][1] = "inbound")
    <3>1. PICK m \in Entry : m = ModelEntry(log[i], Null)
      BY <1>0, <1>1
    <3>2. << m >> \in Seq(Entry)
      OBVIOUS
    <3> QED BY <2>2, <3>1, <3>2 DEF TimelineAt
  <2>3. CASE log[i][1] = "inbound" /\ ~ (i > 1 /\ log[i - 1][1] = "outbound")
    <3>1. PICK m \in Entry : m = ModelEntry(Null, log[i])
      BY <1>0, <1>1, <2>3
    <3>2. PICK t \in Seq(Entry) : t = ToolEntries(i)
      BY <1>2, <2>3
    <3>3. << m >> \o t \in Seq(Entry)
      BY ConsFacts
    <3> QED BY <2>3, <3>1, <3>2, <3>3 DEF TimelineAt
  <2>4. CASE log[i][1] = "inbound" /\ i > 1 /\ log[i - 1][1] = "outbound"
    <3>1. TimelineAt(i) = <<>> /\ <<>> \in Seq(Entry)
      BY <2>4 DEF TimelineAt
    <3> QED BY <3>1
  <2> QED BY <2>0, <2>1, <2>2, <2>3, <2>4
<1> QED BY <1>1, <1>2, <1>3

\* The turn that starts at position i, by what is in the table.
LEMMA TurnAtFacts ==
  ASSUME TrajectoryTypeOK, NEW n \in Nat, n = Len(log), NEW i \in 1 .. n
  PROVE  /\ IsEvents(GetSessionEvents, n) /\ log[i][1] \in {"outbound", "inbound"}
         /\ TurnAt(GetSessionEvents, n, i) =
              IF log[i][1] = "outbound"
              THEN << [request |-> i,
                       response |-> IF i < n /\ log[i + 1][1] = "inbound" THEN i + 1 ELSE 0] >>
              ELSE IF i > 1 /\ log[i - 1][1] = "outbound" THEN << >>
              ELSE << [request |-> 0, response |-> i] >>
<1>1. /\ GetSessionEvents \in Seq(SessionEvent) /\ Len(GetSessionEvents) = n /\ DOMAIN log = 1 .. n
      /\ \A j \in 1 .. n : log[j] \in EventIds
  BY ReadFacts
<1>2. \A j \in 1 .. n : /\ GetSessionEvents[j].direction = log[j][1]
                        /\ log[j][1] \in {"outbound", "inbound"}
  BY <1>1, ResponseAtFacts DEF EventIds
<1>3. DOMAIN GetSessionEvents = 1 .. n
  BY <1>1
<1>4. IsEvents(GetSessionEvents, n)
  BY <1>1, <1>2, <1>3 DEF IsEvents
<1>5. (i < n => i + 1 \in 1 .. n) /\ (i > 1 => i - 1 \in 1 .. n)
  OBVIOUS
<1> QED BY <1>2, <1>4, <1>5 DEF TurnAt

\* How many turns start up to position i.
TurnCount(i) == Len(Flat(TurnParts(GetSessionEvents, Len(log)), i))
TurnOf(i) == TurnAt(GetSessionEvents, Len(log), i)
Turns == GroupTurns(GetSessionEvents)

\* Where the turn that starts at a position is among the turns.
LEMMA TurnPlaces ==
  ASSUME TrajectoryTypeOK, NEW n \in Nat, n = Len(log)
  PROVE  /\ Turns \in Seq(Turn(n)) /\ Len(Turns) \in Nat /\ DOMAIN Turns = 1 .. Len(Turns)
         /\ TurnCount(0) = 0 /\ TurnCount(n) = Len(Turns)
         /\ \A i \in 0 .. n : TurnCount(i) \in 0 .. Len(Turns)
         /\ \A i \in 0 .. n - 1 :
              /\ TurnCount(i + 1) = TurnCount(i) + Len(TurnOf(i + 1))
              /\ Len(TurnOf(i + 1)) \in {0, 1}
              /\ Len(TurnOf(i + 1)) = 1 => Turns[TurnCount(i) + 1] = TurnOf(i + 1)[1]
<1>1. IsEvents(GetSessionEvents, n)
  <2>1. \A i \in 1 .. n : GetSessionEvents[i].direction \in {"outbound", "inbound"}
    BY ReadFacts, ResponseAtFacts DEF EventIds
  <2>2. Len(GetSessionEvents) = n /\ DOMAIN GetSessionEvents = 1 .. n
    BY ReadFacts
  <2> QED BY <2>1, <2>2 DEF IsEvents
<1>2. PICK f : f = TurnParts(GetSessionEvents, n)
  OBVIOUS
<1>3. \A i \in 1 .. n : /\ f[i] = TurnOf(i) /\ f[i] \in Seq(Turn(n)) /\ Len(f[i]) \in {0, 1}
  <2>1. n \in 0 .. n
    OBVIOUS
  <2> QED BY <1>1, <1>2, <2>1, TurnPartsType DEF TurnOf
<1>4. Turns = Flat(f, n) /\ \A i : TurnCount(i) = Len(Flat(f, i))
  BY <1>1, <1>2, TurnsAre DEF Turns, TurnCount
<1>5. Turns \in Seq(Turn(n))
  BY <1>3, <1>4, FlatType
<1>6. \A k \in 0 .. n - 1 :
            /\ Len(Flat(f, k)) \in Nat /\ Len(Flat(f, k + 1)) \in Nat /\ Len(Flat(f, n)) \in Nat
            /\ Len(Flat(f, k + 1)) = Len(Flat(f, k)) + Len(f[k + 1])
            /\ Len(Flat(f, k + 1)) =< Len(Flat(f, n))
            /\ \A j \in 1 .. Len(f[k + 1]) : Flat(f, n)[Len(Flat(f, k)) + j] = f[k + 1][j]
  <2>1. PICK E : E = Turn(n)
    OBVIOUS
  <2>2. \A i \in 1 .. n : f[i] \in Seq(E)
    BY <1>3, <2>1
  <2> QED BY <2>2, FlatParts
<1>7. PICK m \in Nat : m = Len(Turns) /\ DOMAIN Turns = 1 .. m
  BY <1>5
<1>8. TurnCount(0) = 0 /\ TurnCount(n) = m
  BY <1>4, <1>7, FlatEmpty
<1>9. ASSUME NEW i \in 0 .. n PROVE TurnCount(i) \in 0 .. m
  <2>1. CASE i = 0
    BY <1>8, <2>1
  <2>2. CASE i # 0
    <3>1. i - 1 \in 0 .. n - 1 /\ (i - 1) + 1 = i
      BY <2>2
    <3>2. Len(Flat(f, (i - 1) + 1)) \in Nat /\ Len(Flat(f, (i - 1) + 1)) =< Len(Flat(f, n))
      BY <1>6, <3>1
    <3> QED BY <1>4, <1>7, <3>1, <3>2
  <2> QED BY <2>1, <2>2
<1>10. ASSUME NEW i \in 0 .. n - 1
       PROVE  /\ TurnCount(i + 1) = TurnCount(i) + Len(TurnOf(i + 1))
              /\ Len(TurnOf(i + 1)) \in {0, 1}
              /\ Len(TurnOf(i + 1)) = 1 => Turns[TurnCount(i) + 1] = TurnOf(i + 1)[1]
  <2>1. i + 1 \in 1 .. n /\ f[i + 1] = TurnOf(i + 1) /\ Len(f[i + 1]) \in {0, 1}
    BY <1>3
  <2>2. /\ Len(Flat(f, i + 1)) = Len(Flat(f, i)) + Len(f[i + 1])
        /\ \A j \in 1 .. Len(f[i + 1]) : Flat(f, n)[Len(Flat(f, i)) + j] = f[i + 1][j]
    BY <1>6
  <2>3. Len(f[i + 1]) = 1 => 1 \in 1 .. Len(f[i + 1])
    OBVIOUS
  <2> QED BY <1>4, <2>1, <2>2, <2>3
<1> QED BY <1>5, <1>7, <1>8, <1>9, <1>10

\* The turn after the one that an answer closes starts with the next event.
LEMMA NextTurn ==
  ASSUME TrajectoryTypeOK, NEW r \in DOMAIN log, log[r][1] = "inbound"
  PROVE  LET next == IF TurnCount(r) = Len(Turns) THEN 0 ELSE Turns[TurnCount(r) + 1].request
         IN  next = IF r + 1 \in DOMAIN log /\ log[r + 1][1] = "outbound" THEN r + 1 ELSE 0
<1>0. PICK n \in Nat : n = Len(log) /\ DOMAIN log = 1 .. n
  BY ReadFacts
<1>1. CASE r = n
  <2>1. TurnCount(r) = Len(Turns) /\ r + 1 \notin DOMAIN log
    BY <1>0, <1>1, TurnPlaces
  <2> QED BY <2>1
<1>2. CASE r # n
  <2>1. r + 1 \in 1 .. n /\ r \in 0 .. n - 1 /\ r + 1 > 1 /\ (r + 1) - 1 = r /\ r + 1 \in 0 .. n
    BY <1>0, <1>2
  <2>2. TurnOf(r + 1) = IF log[r + 1][1] = "outbound"
                        THEN << [request |-> r + 1,
                                 response |-> IF r + 1 < n /\ log[(r + 1) + 1][1] = "inbound"
                                              THEN (r + 1) + 1 ELSE 0] >>
                        ELSE << [request |-> 0, response |-> r + 1] >>
    <3>1. /\ log[r + 1][1] \in {"outbound", "inbound"}
          /\ TurnOf(r + 1) =
              IF log[r + 1][1] = "outbound"
              THEN << [request |-> r + 1,
                       response |-> IF r + 1 < n /\ log[(r + 1) + 1][1] = "inbound"
                                    THEN (r + 1) + 1 ELSE 0] >>
              ELSE IF r + 1 > 1 /\ log[(r + 1) - 1][1] = "outbound" THEN << >>
              ELSE << [request |-> 0, response |-> r + 1] >>
      BY <1>0, <2>1, TurnAtFacts DEF TurnOf
    <3> QED BY <2>1, <3>1
  <2>3. Len(TurnOf(r + 1)) = 1 /\ TurnOf(r + 1)[1].request = IF log[r + 1][1] = "outbound" THEN r + 1 ELSE 0
    BY <2>2
  <2>4. /\ TurnCount(r + 1) = TurnCount(r) + 1 /\ TurnCount(r + 1) \in 0 .. Len(Turns)
        /\ TurnCount(r) \in Nat /\ Len(Turns) \in Nat
        /\ Turns[TurnCount(r) + 1] = TurnOf(r + 1)[1]
    <3>1. /\ Len(Turns) \in Nat
          /\ \A i \in 0 .. n : TurnCount(i) \in 0 .. Len(Turns)
          /\ \A i \in 0 .. n - 1 :
              /\ TurnCount(i + 1) = TurnCount(i) + Len(TurnOf(i + 1))
              /\ Len(TurnOf(i + 1)) \in {0, 1}
              /\ Len(TurnOf(i + 1)) = 1 => Turns[TurnCount(i) + 1] = TurnOf(i + 1)[1]
      BY <1>0, TurnPlaces, Zenon
    <3>2. r \in 0 .. n
      BY <2>1
    <3>3. TurnCount(r) \in 0 .. Len(Turns) /\ TurnCount(r + 1) \in 0 .. Len(Turns)
      BY <2>1, <3>1, <3>2
    <3>4. TurnCount(r + 1) = TurnCount(r) + Len(TurnOf(r + 1)) /\ Turns[TurnCount(r) + 1] = TurnOf(r + 1)[1]
      BY <2>1, <2>3, <3>1
    <3>5. Len(TurnOf(r + 1)) = 1
      BY <2>3
    <3>6. TurnCount(r + 1) = TurnCount(r) + 1
      BY <3>4, <3>5
    <3>7. TurnCount(r) \in Nat
      BY <3>1, <3>3
    <3> QED BY <3>1, <3>3, <3>4, <3>6, <3>7, Zenon
  <2>5. TurnCount(r) # Len(Turns)
    BY <2>4
  <2> QED BY <1>0, <2>1, <2>3, <2>4, <2>5
<1> QED BY <1>1, <1>2

\* The entries of the tool calls of an answer.
LEMMA ToolEntriesAre ==
  ASSUME TrajectoryTypeOK, NEW r \in DOMAIN log, log[r][1] = "inbound", NEW next,
         next = IF r + 1 \in DOMAIN log /\ log[r + 1][1] = "outbound" THEN r + 1 ELSE 0
  PROVE  LET events == GetSessionEvents
             calls == events[r].calls
             results == IF next = 0 THEN << >> ELSE events[next].results
         IN  [k \in DOMAIN calls |->
              [step |-> ToolStep(IdAt(events, next), IdAt(events, r), calls[k].id,
                                 TimelineResult(results, calls[k])),
               eventId |-> Or(IdAt(events, next), IdAt(events, r))]] = ToolEntries(r)
<1>0. PICK n \in Nat : n = Len(log) /\ DOMAIN log = 1 .. n /\ r \in 1 .. n
  BY ReadFacts
<1>1. PICK x \in Exchanges : x = log[r][2]
  BY ReadFacts DEF EventIds
<1>2. PICK calls \in Seq(Calls) : calls = CallsOf(x) /\ \A k \in DOMAIN calls : calls[k].id = <<x, k>>
  BY CallsOfFacts
<1>3. GetSessionEvents[r].calls = calls
  BY <1>1, <1>2, ReadFacts, EventFacts
<1>4. IdAt(GetSessionEvents, r) = log[r]
  BY <1>0, LogAtFacts DEF LogAt
<1>5. IdAt(GetSessionEvents, next) = NextRequest(r)
  <2>1. next \in Nat
    BY <1>0
  <2>2. IdAt(GetSessionEvents, next) = LogAt(next)
    BY <2>1, LogAtFacts
  <2>3. 0 \notin DOMAIN log
    BY <1>0
  <2> QED BY <2>2, <2>3 DEF LogAt, NextRequest
<1>6. (IF next = 0 THEN << >> ELSE GetSessionEvents[next].results) = ResultsAt(r + 1)
  <2>1. CASE r + 1 \in DOMAIN log /\ log[r + 1][1] = "outbound"
    <3>1. r + 1 \in Nat /\ r + 1 # 0
      BY <1>0
    <3>2. GetSessionEvents[r + 1].results = ResultsAt(r + 1)
      BY <2>1, <3>1, LogAtFacts
    <3> QED BY <2>1, <3>1, <3>2
  <2>2. CASE ~ (r + 1 \in DOMAIN log /\ log[r + 1][1] = "outbound")
    BY <2>2 DEF ResultsAt
  <2> QED BY <2>1, <2>2
<1>7. DOMAIN calls = 1 .. Len(calls)
  OBVIOUS
<1>8. \A k \in DOMAIN calls :
        [step |-> ToolStep(NextRequest(r), log[r], calls[k].id, TimelineResult(ResultsAt(r + 1), calls[k])),
         eventId |-> Or(NextRequest(r), log[r])] = ToolEntry(r, k)
  BY <1>1, <1>2 DEF ToolEntry
<1>9. ToolEntries(r) = [k \in DOMAIN calls |-> ToolEntry(r, k)]
  BY <1>1, <1>2, <1>7 DEF ToolEntries
<1> QED BY <1>3, <1>4, <1>5, <1>6, <1>8, <1>9

\* The steps of a turn with an answer.
LEMMA ClosedTurn ==
  ASSUME TrajectoryTypeOK, NEW r \in DOMAIN log, log[r][1] = "inbound",
         NEW q \in 0 .. Len(log), NEW t, t = TurnCount(r),
         Turns[t] = [request |-> q, response |-> r]
  PROVE  TimelineSteps(GetSessionEvents, Turns, t) = << ModelEntry(LogAt(q), log[r]) >> \o ToolEntries(r)
<1>0. Len(log) \in Nat /\ r \in Nat /\ r # 0 /\ q \in Nat
  BY ReadFacts
<1>1. PICK next : next = IF t = Len(Turns) THEN 0 ELSE Turns[t + 1].request
  OBVIOUS
<1>2. next = IF r + 1 \in DOMAIN log /\ log[r + 1][1] = "outbound" THEN r + 1 ELSE 0
  BY <1>1, NextTurn
<1>3. PICK calls, results : /\ calls = GetSessionEvents[r].calls
                            /\ results = IF next = 0 THEN << >> ELSE GetSessionEvents[next].results
  OBVIOUS
<1>4. [k \in DOMAIN calls |->
              [step |-> ToolStep(IdAt(GetSessionEvents, next), IdAt(GetSessionEvents, r), calls[k].id,
                                 TimelineResult(results, calls[k])),
               eventId |-> Or(IdAt(GetSessionEvents, next), IdAt(GetSessionEvents, r))]] = ToolEntries(r)
  BY <1>2, <1>3, ToolEntriesAre
<1>5. IdAt(GetSessionEvents, q) = LogAt(q) /\ IdAt(GetSessionEvents, r) = log[r]
  BY <1>0, LogAtFacts DEF LogAt
<1>6. TimelineSteps(GetSessionEvents, Turns, t) =
        << [step |-> ModelStep(IdAt(GetSessionEvents, q), IdAt(GetSessionEvents, r)),
            eventId |-> Or(IdAt(GetSessionEvents, r), IdAt(GetSessionEvents, q))] >>
        \o [k \in DOMAIN calls |->
              [step |-> ToolStep(IdAt(GetSessionEvents, next), IdAt(GetSessionEvents, r), calls[k].id,
                                 TimelineResult(results, calls[k])),
               eventId |-> Or(IdAt(GetSessionEvents, next), IdAt(GetSessionEvents, r))]]
  BY <1>0, <1>1, <1>3 DEF TimelineSteps
<1> QED BY <1>4, <1>5, <1>6 DEF ModelEntry

\* The step of a turn without an answer.
LEMMA OpenTurn ==
  ASSUME TrajectoryTypeOK, NEW q \in DOMAIN log, NEW t, Turns[t] = [request |-> q, response |-> 0]
  PROVE  TimelineSteps(GetSessionEvents, Turns, t) = << ModelEntry(log[q], Null) >>
<1>0. Len(log) \in Nat /\ q \in Nat /\ 0 \notin DOMAIN log /\ 0 \in Nat
  BY ReadFacts
<1>1. IdAt(GetSessionEvents, q) = log[q] /\ IdAt(GetSessionEvents, 0) = Null
  BY <1>0, LogAtFacts DEF LogAt
<1>2. PICK next, results :
          /\ next = IF t = Len(Turns) THEN 0 ELSE Turns[t + 1].request
          /\ results = IF next = 0 THEN << >> ELSE GetSessionEvents[next].results
  OBVIOUS
<1>3. TimelineSteps(GetSessionEvents, Turns, t) =
        << ModelEntry(log[q], Null) >>
        \o [k \in DOMAIN << >> |->
              [step |-> ToolStep(IdAt(GetSessionEvents, next), Null, (<< >>)[k].id,
                                 TimelineResult(results, (<< >>)[k])),
               eventId |-> Or(IdAt(GetSessionEvents, next), Null)]]
  BY <1>0, <1>1, <1>2 DEF TimelineSteps, ModelEntry
<1>4. [k \in DOMAIN << >> |->
              [step |-> ToolStep(IdAt(GetSessionEvents, next), Null, (<< >>)[k].id,
                                 TimelineResult(results, (<< >>)[k])),
               eventId |-> Or(IdAt(GetSessionEvents, next), Null)]] = << >>
  OBVIOUS
<1>5. PICK e \in Entry : e = ModelEntry(log[q], Null)
  BY EntryTypes, ReadFacts
<1>6. << e >> \o << >> = << e >>
  OBVIOUS
<1> QED BY <1>3, <1>4, <1>5, <1>6

\* The steps of a turn are those that start where the turn starts.
LEMMA StepsOfTurn ==
  ASSUME TrajectoryTypeOK, NEW i \in 1 .. Len(log)
  PROVE  \/ TurnCount(i) = TurnCount(i - 1) /\ TimelineAt(i) = << >>
         \/ /\ TurnCount(i) = TurnCount(i - 1) + 1
            /\ TimelineSteps(GetSessionEvents, Turns, TurnCount(i)) = TimelineAt(i)
<1>0. PICK n \in Nat : n = Len(log) /\ DOMAIN log = 1 .. n
  BY ReadFacts
<1>1. /\ \A j \in 0 .. n : TurnCount(j) \in Nat
      /\ \A j \in 0 .. n - 1 :
              /\ TurnCount(j + 1) = TurnCount(j) + Len(TurnOf(j + 1))
              /\ Len(TurnOf(j + 1)) \in {0, 1}
              /\ Len(TurnOf(j + 1)) = 1 => Turns[TurnCount(j) + 1] = TurnOf(j + 1)[1]
  <2>1. /\ Len(Turns) \in Nat
        /\ \A j \in 0 .. n : TurnCount(j) \in 0 .. Len(Turns)
        /\ \A j \in 0 .. n - 1 :
              /\ TurnCount(j + 1) = TurnCount(j) + Len(TurnOf(j + 1))
              /\ Len(TurnOf(j + 1)) \in {0, 1}
              /\ Len(TurnOf(j + 1)) = 1 => Turns[TurnCount(j) + 1] = TurnOf(j + 1)[1]
    BY <1>0, TurnPlaces, Zenon
  <2>2. \A j \in 0 .. n : TurnCount(j) \in Nat
    BY <2>1
  <2> QED BY <2>1, <2>2, Zenon
<1>2. ASSUME NEW j \in 1 .. n
      PROVE  /\ TurnCount(j) \in Nat /\ TurnCount(j - 1) \in Nat
             /\ Len(TurnOf(j)) = 0 => TurnCount(j) = TurnCount(j - 1)
             /\ Len(TurnOf(j)) = 1 => /\ TurnCount(j) = TurnCount(j - 1) + 1
                                      /\ Turns[TurnCount(j)] = TurnOf(j)[1]
  <2>1. j - 1 \in 0 .. n - 1 /\ (j - 1) + 1 = j /\ j \in 0 .. n /\ j - 1 \in 0 .. n
    OBVIOUS
  <2>2. /\ TurnCount(j) = TurnCount(j - 1) + Len(TurnOf(j))
        /\ Len(TurnOf(j)) \in {0, 1}
        /\ Len(TurnOf(j)) = 1 => Turns[TurnCount(j - 1) + 1] = TurnOf(j)[1]
    BY <1>1, <2>1
  <2>3. PICK a, b, t : a = TurnCount(j) /\ b = TurnCount(j - 1) /\ t = TurnOf(j)
                   /\ a \in Nat /\ b \in Nat
    BY <1>1, <2>1
  <2>4. /\ a = b + Len(t)
        /\ Len(t) \in {0, 1}
        /\ Len(t) = 1 => Turns[b + 1] = t[1]
    BY <2>2, <2>3
  <2>5. /\ Len(t) = 0 => a = b
        /\ Len(t) = 1 => a = b + 1 /\ Turns[a] = t[1]
    <3>1. PICK l : l = Len(t)
      OBVIOUS
    <3>2. (l = 0 => a = b) /\ (l = 1 => a = b + 1)
      BY <2>3, <2>4, <3>1
    <3>3. l = 1 => Turns[a] = t[1]
      BY <2>4, <3>1, <3>2
    <3> QED BY <3>1, <3>2, <3>3
  <2> QED BY <2>3, <2>5
<1>3. ASSUME NEW j \in 1 .. n
      PROVE  /\ log[j][1] \in {"outbound", "inbound"}
             /\ TurnOf(j) = IF log[j][1] = "outbound"
                  THEN << [request |-> j,
                           response |-> IF j < n /\ log[j + 1][1] = "inbound" THEN j + 1 ELSE 0] >>
                  ELSE IF j > 1 /\ log[j - 1][1] = "outbound" THEN << >>
                  ELSE << [request |-> 0, response |-> j] >>
  BY <1>0, TurnAtFacts DEF TurnOf
<1>4. i \in 1 .. n /\ i \in DOMAIN log
  BY <1>0
<1>5. CASE log[i][1] = "outbound" /\ i < n /\ log[i + 1][1] = "inbound"
  <2>1. Len(TurnOf(i)) = 1 /\ TurnOf(i)[1] = [request |-> i, response |-> i + 1]
    BY <1>3, <1>4, <1>5
  <2>2. TurnCount(i) = TurnCount(i - 1) + 1 /\ Turns[TurnCount(i)] = [request |-> i, response |-> i + 1]
    BY <1>2, <1>4, <2>1
  <2>3. i + 1 \in 1 .. n /\ i + 1 > 1 /\ (i + 1) - 1 = i /\ i + 1 \in DOMAIN log /\ i \in 0 .. Len(log)
    BY <1>0, <1>4, <1>5
  <2>4. TurnOf(i + 1) = << >>
    <3>1. TurnOf(i + 1) = IF log[i + 1][1] = "outbound"
                  THEN << [request |-> i + 1,
                           response |-> IF i + 1 < n /\ log[(i + 1) + 1][1] = "inbound"
                                        THEN (i + 1) + 1 ELSE 0] >>
                  ELSE IF i + 1 > 1 /\ log[(i + 1) - 1][1] = "outbound" THEN << >>
                  ELSE << [request |-> 0, response |-> i + 1] >>
      BY <1>3, <2>3
    <3> QED BY <1>5, <2>3, <3>1
  <2>5. TurnCount(i + 1) = TurnCount(i)
    <3>1. Len(TurnOf(i + 1)) = 0
      BY <2>4
    <3> QED BY <1>2, <2>3, <3>1
  <2>6. TimelineSteps(GetSessionEvents, Turns, TurnCount(i)) =
          << ModelEntry(LogAt(i), log[i + 1]) >> \o ToolEntries(i + 1)
    BY <1>5, <2>2, <2>3, <2>5, ClosedTurn
  <2>7. LogAt(i) = log[i]
    BY <1>4 DEF LogAt
  <2>8. TimelineAt(i) = << ModelEntry(log[i], log[i + 1]) >> \o ToolEntries(i + 1)
    BY <1>5, <2>3 DEF TimelineAt
  <2> QED BY <2>2, <2>6, <2>7, <2>8
<1>6. CASE log[i][1] = "outbound" /\ ~ (i < n /\ log[i + 1][1] = "inbound")
  <2>1. Len(TurnOf(i)) = 1 /\ TurnOf(i)[1] = [request |-> i, response |-> 0]
    BY <1>3, <1>4, <1>6
  <2>2. TurnCount(i) = TurnCount(i - 1) + 1 /\ Turns[TurnCount(i)] = [request |-> i, response |-> 0]
    BY <1>2, <1>4, <2>1
  <2>3. TimelineSteps(GetSessionEvents, Turns, TurnCount(i)) = << ModelEntry(log[i], Null) >>
    BY <1>4, <2>2, OpenTurn
  <2>4. ~ (i + 1 \in DOMAIN log /\ log[i + 1][1] = "inbound")
    BY <1>0, <1>4, <1>6
  <2>5. TimelineAt(i) = << ModelEntry(log[i], Null) >>
    BY <1>6, <2>4 DEF TimelineAt
  <2> QED BY <2>2, <2>3, <2>5
<1>7. CASE log[i][1] = "inbound" /\ ~ (i > 1 /\ log[i - 1][1] = "outbound")
  <2>1. Len(TurnOf(i)) = 1 /\ TurnOf(i)[1] = [request |-> 0, response |-> i]
    BY <1>3, <1>4, <1>7
  <2>2. TurnCount(i) = TurnCount(i - 1) + 1 /\ Turns[TurnCount(i)] = [request |-> 0, response |-> i]
    BY <1>2, <1>4, <2>1
  <2>3. 0 \in 0 .. Len(log) /\ 0 \notin DOMAIN log
    BY <1>0
  <2>4. TimelineSteps(GetSessionEvents, Turns, TurnCount(i)) =
          << ModelEntry(LogAt(0), log[i]) >> \o ToolEntries(i)
    BY <1>4, <1>7, <2>2, <2>3, ClosedTurn
  <2>5. LogAt(0) = Null
    BY <2>3 DEF LogAt
  <2>6. TimelineAt(i) = << ModelEntry(Null, log[i]) >> \o ToolEntries(i)
    BY <1>7 DEF TimelineAt
  <2> QED BY <2>2, <2>4, <2>5, <2>6
<1>8. CASE log[i][1] = "inbound" /\ i > 1 /\ log[i - 1][1] = "outbound"
  <2>1. TurnOf(i) = << >>
    BY <1>3, <1>4, <1>8
  <2>2. TurnCount(i) = TurnCount(i - 1)
    <3>1. Len(TurnOf(i)) = 0
      BY <2>1
    <3> QED BY <1>2, <1>4, <3>1
  <2>3. TimelineAt(i) = << >>
    BY <1>8 DEF TimelineAt
  <2> QED BY <2>2, <2>3
<1> QED BY <1>3, <1>4, <1>5, <1>6, <1>7, <1>8

\* The steps of a turn are entries of the screen.
LEMMA TimelineStepsType ==
  ASSUME TrajectoryTypeOK, NEW t \in DOMAIN Turns
  PROVE  TimelineSteps(GetSessionEvents, Turns, t) \in Seq(Entry)
<1>0. PICK n \in Nat : n = Len(log) /\ DOMAIN log = 1 .. n /\ DOMAIN GetSessionEvents = 1 .. n
  BY ReadFacts
<1>1. PICK m \in Nat : m = Len(Turns) /\ DOMAIN Turns = 1 .. m
  BY <1>0, TurnPlaces, Zenon
<1>2. \A u \in 1 .. m : Turns[u] \in Turn(n)
  <2>1. Turns \in Seq(Turn(n))
    BY <1>0, TurnPlaces, Zenon
  <2> QED BY <1>1, <2>1
<1>3. PICK q \in 0 .. n, r \in 0 .. n : q = Turns[t].request /\ r = Turns[t].response
  BY <1>1, <1>2 DEF Turn
<1>4. PICK next \in 0 .. n : next = IF t = m THEN 0 ELSE Turns[t + 1].request
  <2>1. CASE t = m
    BY <2>1
  <2>2. CASE t # m
    <3>1. t + 1 \in 1 .. m
      BY <1>1, <2>2
    <3>2. Turns[t + 1].request \in 0 .. n
      BY <1>2, <3>1 DEF Turn
    <3> QED BY <2>2, <3>2
  <2> QED BY <2>1, <2>2
<1>5. PICK a, b, c \in EventIds \cup {Null} :
          a = IdAt(GetSessionEvents, q) /\ b = IdAt(GetSessionEvents, r) /\ c = IdAt(GetSessionEvents, next)
  BY LogAtFacts
<1>60. PICK S : S = Seq(Calls) /\ << >> \in S
  <2>1. << >> \in Seq(Calls)
    OBVIOUS
  <2> QED BY <2>1, Zenon
<1>61. \A j \in 1 .. n : GetSessionEvents[j].calls \in S /\ GetSessionEvents[j].results \in S
  <2>1. PICK V : V = SessionEvent
    OBVIOUS
  <2>2. GetSessionEvents \in Seq(V)
    BY <2>1, ReadFacts
  <2>3. \A j \in 1 .. n : GetSessionEvents[j] \in V
    BY <1>0, <2>2
  <2> QED BY <1>60, <2>1, <2>3 DEF SessionEvent
<1>6. PICK calls \in S : calls = IF r = 0 THEN << >> ELSE GetSessionEvents[r].calls
  <2>1. r # 0 => GetSessionEvents[r].calls \in S
    BY <1>61
  <2> QED BY <1>60, <2>1
<1>7. PICK results \in S : results = IF next = 0 THEN << >> ELSE GetSessionEvents[next].results
  <2>1. next # 0 => GetSessionEvents[next].results \in S
    BY <1>61
  <2> QED BY <1>60, <2>1
<1>70. calls \in Seq(Calls) /\ results \in Seq(Calls)
  BY <1>60
<1>8. PICK tools : tools = [k \in DOMAIN calls |->
          [step |-> ToolStep(c, b, calls[k].id, TimelineResult(results, calls[k])), eventId |-> Or(c, b)]]
  OBVIOUS
<1>9. ASSUME NEW k \in DOMAIN calls
      PROVE  [step |-> ToolStep(c, b, calls[k].id, TimelineResult(results, calls[k])), eventId |-> Or(c, b)]
                \in Entry
  <2>0. calls[k] \in Calls
    BY <1>70
  <2>1. calls[k].id \in CallIds
    BY <2>0 DEF Calls
  <2>2. PICK w \in CallIds \cup {Null} : w = TimelineResult(results, calls[k])
    BY <1>70, <2>0, <2>1, TimelineResultFacts
  <2>3. ToolStep(c, b, calls[k].id, w) \in Step /\ Or(c, b) \in EventIds \cup {Null}
    BY <2>1 DEF ToolStep, Step, Or
  <2> QED BY <2>2, <2>3 DEF Entry
<1>10. tools \in Seq(Entry)
  <2>1. DOMAIN calls = 1 .. Len(calls) /\ Len(calls) \in Nat
    BY <1>70
  <2>2. PICK E : E = Entry
    OBVIOUS
  <2>3. \A k \in 1 .. Len(calls) : tools[k] \in E
    BY <1>8, <1>9, <2>1, <2>2
  <2> QED BY <1>8, <2>1, <2>2, <2>3
<1>11. PICK e \in Entry : e = ModelEntry(a, b)
  BY EntryTypes
<1>12. TimelineSteps(GetSessionEvents, Turns, t) = << e >> \o tools
  BY <1>1, <1>3, <1>4, <1>5, <1>6, <1>7, <1>8, <1>11 DEF TimelineSteps, ModelEntry
<1> QED BY <1>10, <1>12, ConsFacts

\* The screen is the steps that start at each position of the table, in order.
LEMMA TimelineFacts ==
  ASSUME TrajectoryTypeOK
  PROVE  /\ Timeline = Flat(TimelineParts, Len(log)) /\ Timeline \in Seq(Entry)
         /\ \A i \in 1 .. Len(log) : TimelineParts[i] = TimelineAt(i) /\ TimelineParts[i] \in Seq(Entry)
         /\ ToSet(Timeline) = UNION {ToSet(TimelineParts[i]) : i \in 1 .. Len(log)}
<1>0. PICK n \in Nat : n = Len(log) /\ DOMAIN log = 1 .. n
  BY ReadFacts
<1>1. PICK E : E = Entry
  OBVIOUS
<1>2. PICK g : g = TimelineParts
  OBVIOUS
<1>3. \A i \in 1 .. n : g[i] = TimelineAt(i) /\ g[i] \in Seq(E)
  BY <1>0, <1>1, <1>2, EntryTypes DEF TimelineParts
<1>4. PICK m \in Nat : m = Len(Turns) /\ DOMAIN Turns = 1 .. m
  BY <1>0, TurnPlaces, Zenon
<1>5. PICK p : p = [i \in 0 .. n |-> TurnCount(i)]
  OBVIOUS
<1>6. p \in [0 .. n -> 0 .. m] /\ p[0] = 0 /\ p[n] = m
  <2>1. /\ TurnCount(0) = 0 /\ TurnCount(n) = Len(Turns)
        /\ \A i \in 0 .. n : TurnCount(i) \in 0 .. Len(Turns)
    BY <1>0, TurnPlaces, Zenon
  <2> QED BY <1>4, <1>5, <2>1
<1>7. PICK f : f = [t \in 1 .. m |-> TimelineSteps(GetSessionEvents, Turns, t)]
  OBVIOUS
<1>8. ASSUME NEW i \in 1 .. n
      PROVE  \/ p[i] = p[i - 1] /\ g[i] = << >>
             \/ p[i] = p[i - 1] + 1 /\ p[i] \in 1 .. m /\ f[p[i]] = g[i]
  <2>1. i \in 0 .. n /\ i - 1 \in 0 .. n
    OBVIOUS
  <2>2. p[i] = TurnCount(i) /\ p[i - 1] = TurnCount(i - 1) /\ p[i] \in 0 .. m /\ p[i - 1] \in 0 .. m
    BY <1>5, <1>6, <2>1
  <2>3. \/ p[i] = p[i - 1] /\ g[i] = << >>
        \/ p[i] = p[i - 1] + 1 /\ TimelineSteps(GetSessionEvents, Turns, p[i]) = g[i]
    BY <1>0, <1>3, <2>2, StepsOfTurn
  <2> QED BY <1>7, <2>2, <2>3
<1>9. \A i \in 1 .. n : Joins(f, g, p, i)
  BY <1>8 DEF Joins
<1>10. \A t \in 1 .. m : f[t] \in Seq(E)
  BY <1>1, <1>4, <1>7, TimelineStepsType
<1>11. Flat(f, m) = Flat(g, n)
  <2>1. Regroups(E, f, m, g, n, p)
    BY <1>3, <1>6, <1>9, <1>10 DEF Regroups
  <2> QED BY <2>1, FlatRegroup
<1>12. Timeline = Flat(f, m)
  BY <1>4, <1>7 DEF Timeline, BuildTimeline, Turns, Flat
<1>13. Flat(g, n) \in Seq(E) /\ ToSet(Flat(g, n)) = UNION {ToSet(g[i]) : i \in 1 .. n}
  BY <1>3, FlatType, FlatElements
<1> QED BY <1>0, <1>1, <1>2, <1>3, <1>11, <1>12, <1>13

-----------------------------------------------------------------------------
(* Results of calls on the screen                                          *)

\* What an entry of the screen is: a model step or a call of an answer.
LEMMA EntryIs ==
  ASSUME TrajectoryTypeOK, NEW i \in DOMAIN log, NEW e \in ToSet(TimelineAt(i))
  PROVE  \/ \E q, r \in EventIds \cup {Null} : e = ModelEntry(q, r)
         \/ \E r \in DOMAIN log : /\ log[r][1] = "inbound"
                                  /\ \E k \in 1 .. Len(CallsOf(log[r][2])) : e = ToolEntry(r, k)
<1>0. \A j \in DOMAIN log : log[j] \in EventIds
  BY ReadFacts
<1>1. ASSUME NEW r \in DOMAIN log, log[r][1] = "inbound", NEW q \in EventIds \cup {Null},
             e \in ToSet(<< ModelEntry(q, log[r]) >> \o ToolEntries(r))
      PROVE  \/ e = ModelEntry(q, log[r])
             \/ \E k \in 1 .. Len(CallsOf(log[r][2])) : e = ToolEntry(r, k)
  <2>1. PICK m \in Entry : m = ModelEntry(q, log[r])
    BY <1>0, <1>1, EntryTypes
  <2>2. PICK t \in Seq(Entry) : t = ToolEntries(r)
    BY <1>1, EntryTypes
  <2>3. ToSet(<< m >> \o t) = {m} \cup ToSet(t)
    BY ConsFacts
  <2>4. \A x \in ToSet(t) : \E k \in 1 .. Len(CallsOf(log[r][2])) : x = ToolEntry(r, k)
    BY <2>2 DEF ToSet, ToolEntries
  <2> QED BY <1>1, <2>1, <2>2, <2>3, <2>4
<1>2. \A x, y : x \in ToSet(<< y >>) => x = y
  BY DEF ToSet
<1>3. \A x : x \notin ToSet(<< >>)
  BY DEF ToSet
<1>4. CASE log[i][1] = "outbound"
  <2>1. CASE i + 1 \in DOMAIN log /\ log[i + 1][1] = "inbound"
    <3>1. TimelineAt(i) = << ModelEntry(log[i], log[i + 1]) >> \o ToolEntries(i + 1)
      BY <1>4, <2>1 DEF TimelineAt
    <3> QED BY <1>0, <1>1, <2>1, <3>1
  <2>2. CASE ~ (i + 1 \in DOMAIN log /\ log[i + 1][1] = "inbound")
    <3>1. TimelineAt(i) = << ModelEntry(log[i], Null) >>
      BY <1>4, <2>2 DEF TimelineAt
    <3> QED BY <1>0, <1>2, <3>1
  <2> QED BY <2>1, <2>2
<1>5. CASE log[i][1] # "outbound"
  <2>1. log[i][1] = "inbound"
    BY <1>0, <1>5 DEF EventIds
  <2>2. TimelineAt(i) # << >>
    BY <1>3
  <2>3. TimelineAt(i) = << ModelEntry(Null, log[i]) >> \o ToolEntries(i)
    BY <1>5, <2>2 DEF TimelineAt
  <2>4. \/ e = ModelEntry(Null, log[i])
        \/ \E k \in 1 .. Len(CallsOf(log[i][2])) : e = ToolEntry(i, k)
    BY <1>1, <2>1, <2>3
  <2> QED BY <1>0, <2>1, <2>4
<1> QED BY <1>4, <1>5

\* The dashboard looks a result up by the id of the call.
LEMMA OwnResultsOfScreen ==
  ASSUME TrajectoryTypeOK, NEW e \in ToSet(Timeline)
  PROVE  e.step.result \in {Null, e.step.call}
<1>1. PICK i \in DOMAIN log : e \in ToSet(TimelineAt(i))
  <2>1. PICK i \in 1 .. Len(log) : e \in ToSet(TimelineParts[i])
    BY TimelineFacts
  <2> QED BY <2>1, ReadFacts, TimelineFacts
<1>2. CASE \E q, r \in EventIds \cup {Null} : e = ModelEntry(q, r)
  BY <1>2 DEF ModelEntry, ModelStep
<1>3. ASSUME NEW r \in DOMAIN log, log[r][1] = "inbound",
             NEW k \in 1 .. Len(CallsOf(log[r][2])), e = ToolEntry(r, k)
      PROVE  e.step.result \in {Null, e.step.call}
  <2>1. PICK x \in Exchanges : x = log[r][2]
    BY ReadFacts DEF EventIds
  <2>2. PICK calls \in Seq(Calls) : calls = CallsOf(x) /\ \A j \in DOMAIN calls : calls[j].id = <<x, j>>
    BY CallsOfFacts
  <2>3. r + 1 \in Nat
    BY ReadFacts
  <2>4. PICK results \in Seq(Calls) : results = ResultsAt(r + 1)
    BY <2>3, LogAtFacts
  <2>5. calls[k] \in Calls /\ calls[k].id = <<x, k>>
    BY <1>3, <2>1, <2>2
  <2>6. TimelineResult(results, calls[k]) \in {Null, <<x, k>>}
    BY <2>5, TimelineResultFacts
  <2>7. e.step.result = TimelineResult(results, calls[k]) /\ e.step.call = <<x, k>>
    BY <1>3, <2>1, <2>2, <2>4 DEF ToolEntry, ToolStep
  <2> QED BY <2>6, <2>7
<1> QED BY <1>1, <1>2, <1>3, EntryIs

\* A tool call is shown with its own result or none, whatever is lost, late or
\* interleaved.
THEOREM ResultsAlwaysOwn == TrajectorySpec => []OwnResults
<1>1. TrajectoryTypeOK => OwnResults
  BY OwnResultsOfExport, OwnResultsOfScreen DEF OwnResults
<1> QED BY <1>1, TrajectoryTypeCorrect, PTL

-----------------------------------------------------------------------------
(* Agreement of the two readers                                            *)

\* The answers without a request on the screen, and what the export has of an entry.
Orphans == {e.step.response : e \in
              {f \in ToSet(Timeline) : f.step.kind = "model" /\ f.step.request = Null}}
Exported == [e \in Entry |-> IF e.step.response # Null /\ e.step.response \in Orphans
                             THEN << >> ELSE << Seen(e.step) >>]
Listed == [s \in Step |-> << Seen(s) >>]
Sights == {Seen(s) : s \in Step}

\* An answer next to its request is no orphan, one behind another answer or at the
\* start is one.
LEMMA OrphansAre ==
  ASSUME TrajectoryTypeOK, NEW i \in DOMAIN log, log[i][1] = "inbound"
  PROVE  log[i] \in Orphans <=> ~ (i > 1 /\ log[i - 1][1] = "outbound")
<1>0. PICK n \in Nat : n = Len(log) /\ DOMAIN log = 1 .. n /\ \A j \in 1 .. n : log[j] \in EventIds
  BY ReadFacts
<1>1. /\ \A q, r : /\ ModelEntry(q, r).step.kind = "model" /\ ModelEntry(q, r).step.request = q
                   /\ ModelEntry(q, r).step.response = r
      /\ \A r, k : ToolEntry(r, k).step.kind = "tool"
  BY DEF ModelEntry, ModelStep, ToolEntry, ToolStep
<1>2. CASE ~ (i > 1 /\ log[i - 1][1] = "outbound")
  <2>1. TimelineAt(i) = << ModelEntry(Null, log[i]) >> \o ToolEntries(i)
    BY <1>2 DEF TimelineAt
  <2>2. PICK m \in Entry, t \in Seq(Entry) : m = ModelEntry(Null, log[i]) /\ t = ToolEntries(i)
    BY <1>0, EntryTypes
  <2>3. m \in ToSet(TimelineAt(i))
    BY <2>1, <2>2, ConsFacts
  <2>4. m \in ToSet(Timeline)
    <3>1. ToSet(Timeline) = UNION {ToSet(TimelineParts[j]) : j \in 1 .. Len(log)} /\ i \in 1 .. Len(log)
          /\ TimelineParts[i] = TimelineAt(i)
      BY <1>0, TimelineFacts
    <3> QED BY <2>3, <3>1
  <2> QED BY <1>1, <1>2, <2>2, <2>4 DEF Orphans
<1>3. CASE i > 1 /\ log[i - 1][1] = "outbound"
  <2> SUFFICES ASSUME NEW e \in ToSet(Timeline), e.step.kind = "model", e.step.request = Null,
                      e.step.response = log[i]
               PROVE  FALSE
    BY <1>3 DEF Orphans
  <2>1. PICK j \in 1 .. n : e \in ToSet(TimelineAt(j))
    <3>1. PICK j \in 1 .. Len(log) : e \in ToSet(TimelineParts[j])
      BY TimelineFacts
    <3> QED BY <1>0, <3>1, TimelineFacts
  <2>2. ~ \E r, k : e = ToolEntry(r, k)
    BY <1>1
  <2>3. \A r \in DOMAIN log, q \in EventIds \cup {Null} :
          log[r][1] = "inbound" /\ e \in ToSet(<< ModelEntry(q, log[r]) >> \o ToolEntries(r))
            => e = ModelEntry(q, log[r])
    <3> SUFFICES ASSUME NEW r \in DOMAIN log, NEW q \in EventIds \cup {Null}, log[r][1] = "inbound",
                        e \in ToSet(<< ModelEntry(q, log[r]) >> \o ToolEntries(r))
                 PROVE  e = ModelEntry(q, log[r])
      OBVIOUS
    <3>1. PICK m \in Entry, t \in Seq(Entry) : m = ModelEntry(q, log[r]) /\ t = ToolEntries(r)
      BY <1>0, EntryTypes
    <3>2. e = m \/ e \in ToSet(t)
      BY <3>1, ConsFacts
    <3>3. \A x \in ToSet(t) : \E k : x = ToolEntry(r, k)
      BY <3>1 DEF ToolEntries, ToSet
    <3> QED BY <2>2, <3>1, <3>2, <3>3
  <2>4. \A x, y : x \in ToSet(<< y >>) => x = y
    BY DEF ToSet
  <2>5. \A x : x \notin ToSet(<< >>)
    BY DEF ToSet
  <2>6. Null \notin EventIds
    BY IdAssumption
  <2>7. CASE log[j][1] = "outbound"
    <3>1. CASE j + 1 \in DOMAIN log /\ log[j + 1][1] = "inbound"
      <4>1. TimelineAt(j) = << ModelEntry(log[j], log[j + 1]) >> \o ToolEntries(j + 1)
        BY <2>7, <3>1 DEF TimelineAt
      <4>2. e = ModelEntry(log[j], log[j + 1])
        BY <1>0, <2>1, <2>3, <3>1, <4>1
      <4> QED BY <1>0, <1>1, <2>6, <4>2
    <3>2. CASE ~ (j + 1 \in DOMAIN log /\ log[j + 1][1] = "inbound")
      <4>1. TimelineAt(j) = << ModelEntry(log[j], Null) >>
        BY <2>7, <3>2 DEF TimelineAt
      <4>2. e = ModelEntry(log[j], Null)
        BY <2>1, <2>4, <4>1
      <4> QED BY <1>0, <1>1, <2>6, <4>2
    <3> QED BY <3>1, <3>2
  <2>8. CASE log[j][1] # "outbound" /\ j > 1 /\ log[j - 1][1] = "outbound"
    <3>1. TimelineAt(j) = << >>
      BY <2>8 DEF TimelineAt
    <3> QED BY <2>1, <2>5, <3>1
  <2>9. CASE log[j][1] # "outbound" /\ ~ (j > 1 /\ log[j - 1][1] = "outbound")
    <3>1. TimelineAt(j) = << ModelEntry(Null, log[j]) >> \o ToolEntries(j)
      BY <2>9 DEF TimelineAt
    <3>2. log[j][1] = "inbound" /\ j \in DOMAIN log
      BY <1>0, <2>9 DEF EventIds
    <3>3. e = ModelEntry(Null, log[j])
      BY <2>1, <2>3, <3>1, <3>2
    <3>4. log[j] = log[i]
      BY <1>1, <3>3
    <3>5. j = i
      BY <3>2, <3>4 DEF TrajectoryTypeOK
    <3> QED BY <1>3, <2>9, <3>5
  <2> QED BY <2>7, <2>8, <2>9
<1> QED BY <1>2, <1>3

\* Both programs find the same result of a call, if no tool is called twice.
LEMMA SameResult ==
  ASSUME TrajectoryTypeOK, ToolsDiffer, NEW r \in DOMAIN log, log[r][1] = "inbound",
         NEW k \in 1 .. Len(CallsOf(log[r][2]))
  PROVE  LET call == CallsOf(log[r][2])[k]
         IN  ResultOf(ResultsAt(r + 1), call) = TimelineResult(ResultsAt(r + 1), call)
<1>1. PICK x \in Exchanges : x = log[r][2]
  BY ReadFacts DEF EventIds
<1>2. PICK calls \in Seq(Calls) : calls = CallsOf(x) /\ \A j \in DOMAIN calls : calls[j].id = <<x, j>>
  BY CallsOfFacts
<1>3. r + 1 \in Nat
  BY ReadFacts
<1>4. PICK results \in Seq(Calls) : results = ResultsAt(r + 1)
  BY <1>3, LogAtFacts
<1>5. PICK call \in Calls : call = calls[k] /\ call \in ToSet(CallsOf(x))
  <2>1. calls[k] \in Calls /\ k \in DOMAIN calls
    BY <1>1, <1>2
  <2> QED BY <1>2, <2>1 DEF ToSet
<1>6. ToSet(results) \subseteq UNION {ToSet(CallsOf(y)) : y \in Exchanges}
  <2>1. CASE r + 1 \in DOMAIN log /\ log[r + 1][1] = "outbound"
    <3>1. PICK y \in Exchanges : y = log[r + 1][2]
      BY <2>1, ReadFacts DEF EventIds
    <3>2. ToSet(results) = UNION {ToSet(CallsOf(<<y[1], n>>)) : n \in 1 .. y[2] - 1}
      BY <1>4, <2>1, <3>1, ConversationFacts DEF ResultsAt
    <3>3. \A n \in 1 .. y[2] - 1 : <<y[1], n>> \in Exchanges
      BY TrajectoryAssumption DEF Exchanges
    <3> QED BY <3>2, <3>3
  <2>2. CASE ~ (r + 1 \in DOMAIN log /\ log[r + 1][1] = "outbound")
    BY <1>4, <2>2 DEF ResultsAt, ToSet
  <2> QED BY <2>1, <2>2
<1>7. \A s \in ToSet(results) : s.id = call.id \/ s.name = call.name => s.id = call.id
  <2>1. \A c, d \in UNION {ToSet(CallsOf(y)) : y \in Exchanges} : c.name = d.name => c = d
    BY DEF ToolsDiffer
  <2>2. call \in UNION {ToSet(CallsOf(y)) : y \in Exchanges}
    BY <1>5
  <2> QED BY <1>6, <2>1, <2>2
<1>8. CASE \E s \in ToSet(results) : s.id = call.id
  <2>1. TimelineResult(results, call) = call.id
    BY <1>8, TimelineResultFacts
  <2>2. ResultOf(results, call) = call.id
    BY <1>7, <1>8, ResultOfFacts
  <2> QED BY <1>1, <1>2, <1>4, <1>5, <2>1, <2>2
<1>9. CASE ~ \E s \in ToSet(results) : s.id = call.id
  <2>1. TimelineResult(results, call) = Null
    BY <1>9, TimelineResultFacts
  <2>2. ResultOf(results, call) = Null
    BY <1>7, <1>9, ResultOfFacts
  <2> QED BY <1>1, <1>2, <1>4, <1>5, <2>1, <2>2
<1> QED BY <1>8, <1>9

\* What is seen of a step, and when an entry is left out.
LEMMA SightTypes ==
  /\ \A s \in Step : Listed[s] = << Seen(s) >> /\ Listed[s] \in Seq(Sights) /\ Seen(s) \in Sights
  /\ \A e \in Entry : Exported[e] \in Seq(Sights)
  /\ \A e \in Entry : e.step.response = Null \/ e.step.response \notin Orphans
       => Exported[e] = << Seen(e.step) >>
  /\ \A e \in Entry : e.step.response # Null /\ e.step.response \in Orphans => Exported[e] = << >>
<1>1. \A s \in Step : Listed[s] = << Seen(s) >> /\ Seen(s) \in Sights
  BY DEF Listed, Sights
<1>2. \A g \in Sights : << g >> \in Seq(Sights)
  OBVIOUS
<1>3. << >> \in Seq(Sights)
  OBVIOUS
<1>4. \A e \in Entry : e.step \in Step
  BY DEF Entry
<1>5. \A e \in Entry : /\ e.step.response = Null \/ e.step.response \notin Orphans
                              => Exported[e] = << Seen(e.step) >>
                       /\ e.step.response # Null /\ e.step.response \in Orphans => Exported[e] = << >>
  BY DEF Exported
<1>6. ASSUME NEW e \in Entry PROVE Exported[e] \in Seq(Sights)
  <2>1. PICK g \in Sights : g = Seen(e.step)
    BY <1>1, <1>4
  <2>2. Exported[e] = << g >> \/ Exported[e] = << >>
    BY <1>5, <2>1
  <2> QED BY <1>2, <1>3, <2>2
<1>7. ASSUME NEW s \in Step PROVE Listed[s] \in Seq(Sights)
  <2>1. PICK g \in Sights : g = Seen(s)
    BY <1>1
  <2> QED BY <1>1, <1>2, <2>1
<1> QED BY <1>1, <1>5, <1>6, <1>7

\* A tool call in both programs.
LEMMA SameCall ==
  ASSUME TrajectoryTypeOK, ToolsDiffer, NEW r \in DOMAIN log, log[r][1] = "inbound",
         NEW k \in 1 .. Len(CallsOf(log[r][2])), NEW s \in Step,
         s = ToolStepAt(r, k, ResultOf(ResultsAt(r + 1), CallsOf(log[r][2])[k]))
  PROVE  /\ Seen(s) = Seen(ToolEntry(r, k).step)
         /\ ToolEntry(r, k).step.response = log[r]
<1>1. PICK w : /\ w = ResultOf(ResultsAt(r + 1), CallsOf(log[r][2])[k])
               /\ w = TimelineResult(ResultsAt(r + 1), CallsOf(log[r][2])[k])
  BY SameResult
<1>2. s = ToolStep(LogAt(r + 1), log[r], <<log[r][2], k>>, w)
  BY <1>1 DEF ToolStepAt
<1>3. ToolEntry(r, k).step = ToolStep(NextRequest(r), log[r], <<log[r][2], k>>, w)
  BY <1>1 DEF ToolEntry
<1>4. \A q, c : Seen(ToolStep(q, log[r], c, w)) = <<log[r], c, w>>
                /\ ToolStep(q, log[r], c, w).response = log[r]
  BY DEF Seen, ToolStep
<1> QED BY <1>2, <1>3, <1>4

\* What starts at a position shows the same in both programs.
LEMMA SameAt ==
  ASSUME TrajectoryTypeOK, ToolsDiffer, NEW i \in DOMAIN log
  PROVE  Each(Listed, Step)[PartsOf[i]] = Each(Exported, Entry)[TimelineAt(i)]
<1>0. PICK n \in Nat : n = Len(log) /\ DOMAIN log = 1 .. n /\ \A j \in 1 .. n : log[j] \in EventIds
  BY ReadFacts
<1>1. /\ PartsOf[i] = StepsAt(GetSessionEvents, i) /\ TimelineAt(i) \in Seq(Entry)
      /\ log[i][1] \in {"outbound", "inbound"}
  BY <1>0, ReviewStepsFacts, EntryTypes DEF EventIds
<1>2. CASE log[i][1] = "outbound" /\ i + 1 \in DOMAIN log /\ log[i + 1][1] = "inbound"
  <2>1. PICK r \in DOMAIN log : r = i + 1 /\ log[r][1] = "inbound"
    BY <1>2
  <2>2. PICK calls \in Seq(Calls) : calls = CallsOf(log[r][2])
    BY <2>1, ToolStepsFacts
  <2>3. PICK m \in Nat : m = Len(calls)
    OBVIOUS
  <2>4. PICK s \in Seq(Step) :
          /\ s = ToolSteps(GetSessionEvents, r)
          /\ s = [k \in 1 .. m |-> ToolStepAt(r, k, ResultOf(ResultsAt(r + 1), calls[k]))]
    BY <2>1, <2>2, <2>3, ToolStepsFacts
  <2>5. PICK t \in Seq(Entry) : t = ToolEntries(r) /\ t = [k \in 1 .. m |-> ToolEntry(r, k)]
    BY <2>1, <2>2, <2>3, EntryTypes DEF ToolEntries
  <2>6. PICK a \in Step : a = ModelStep(log[i], log[r])
    BY <1>0, <2>1 DEF ModelStep, Step
  <2>7. PICK b \in Entry : b = ModelEntry(log[i], log[r])
    BY <1>0, <2>1, EntryTypes
  <2>8. b.step = a /\ b.step.response = log[r]
    BY <2>6, <2>7 DEF ModelEntry, ModelStep
  <2>9. log[r] \notin Orphans
    <3>1. r > 1 /\ r - 1 = i
      BY <1>0, <2>1
    <3> QED BY <1>2, <2>1, <3>1, OrphansAre
  <2>10. Listed[a] = Exported[b]
    BY <2>8, <2>9, SightTypes
  <2>11. Len(s) = m /\ Len(t) = m
    BY <2>3, <2>4, <2>5
  <2>12. ASSUME NEW k \in 1 .. m PROVE Listed[s[k]] = Exported[t[k]]
    <3>1. PICK x \in Step : x = s[k]
      BY <2>11
    <3>2. PICK y \in Entry : y = t[k]
      BY <2>11
    <3>3. x = ToolStepAt(r, k, ResultOf(ResultsAt(r + 1), calls[k]))
      BY <2>4, <3>1
    <3>4. y = ToolEntry(r, k)
      BY <2>5, <3>2
    <3>5. Seen(x) = Seen(y.step) /\ y.step.response = log[r]
      BY <2>1, <2>2, <2>3, <3>3, <3>4, SameCall
    <3>6. Listed[x] = Exported[y]
      BY <2>9, <3>5, SightTypes
    <3> QED BY <3>1, <3>2, <3>6
  <2>13. PICK S \in Seq(Step) : S = << a >> \o s
    BY ConsFacts
  <2>14. PICK T \in Seq(Entry) : T = << b >> \o t
    BY ConsFacts
  <2>15. /\ Len(S) = m + 1 /\ S[1] = a /\ \A j \in 1 .. m : S[j + 1] = s[j]
         /\ Len(T) = m + 1 /\ T[1] = b /\ \A j \in 1 .. m : T[j + 1] = t[j]
    BY <2>11, <2>13, <2>14, ConsFacts
  <2>16. ASSUME NEW j \in 1 .. m + 1 PROVE Listed[S[j]] = Exported[T[j]]
    <3>1. CASE j = 1
      BY <2>10, <2>15, <3>1
    <3>2. CASE j # 1
      <4>1. PICK k \in 1 .. m : j = k + 1
        <5>1. j - 1 \in 1 .. m /\ (j - 1) + 1 = j
          BY <3>2
        <5> QED BY <5>1
      <4>2. S[k + 1] = s[k] /\ T[k + 1] = t[k]
        BY <2>15
      <4>3. Listed[s[k]] = Exported[t[k]]
        BY <2>12
      <4> QED BY <4>1, <4>2, <4>3
    <3> QED BY <3>1, <3>2
  <2>17. Each(Listed, Step)[S] = Each(Exported, Entry)[T]
    <3>1. Alike(Listed, S, Exported, T)
      BY <2>15, <2>16 DEF Alike
    <3> QED BY <3>1, EachSame
  <2>18. PartsOf[i] = S
    BY <1>1, <1>2, <2>1, <2>4, <2>6, <2>13, StepsAtFacts
  <2>19. TimelineAt(i) = T
    BY <1>2, <2>1, <2>5, <2>7, <2>14 DEF TimelineAt
  <2> QED BY <2>17, <2>18, <2>19
<1>3. CASE log[i][1] = "outbound" /\ ~ (i + 1 \in DOMAIN log /\ log[i + 1][1] = "inbound")
  <2>1. PICK a \in Step : a = ModelStep(log[i], Null) /\ a.response = Null
    <3>1. ModelStep(log[i], Null) \in Step /\ ModelStep(log[i], Null).response = Null
      BY <1>0 DEF ModelStep, Step
    <3> QED BY <3>1
  <2>2. PICK b \in Entry : b = ModelEntry(log[i], Null)
    BY <1>0, EntryTypes
  <2>3. b.step = a
    BY <2>1, <2>2 DEF ModelEntry
  <2>4. Listed[a] = Exported[b]
    BY <2>1, <2>3, SightTypes
  <2>5. PartsOf[i] = << a >>
    BY <1>1, <1>3, <2>1, StepsAtFacts
  <2>6. TimelineAt(i) = << b >>
    BY <1>3, <2>2 DEF TimelineAt
  <2>7. << a >> \in Seq(Step) /\ << b >> \in Seq(Entry) /\ Len(<< a >>) = 1 /\ Len(<< b >>) = 1
    OBVIOUS
  <2>8. PICK S \in Seq(Step), T \in Seq(Entry) : S = << a >> /\ T = << b >>
    BY <2>7, Zenon
  <2>9. Alike(Listed, S, Exported, T)
    BY <2>4, <2>8 DEF Alike
  <2>10. Each(Listed, Step)[S] = Each(Exported, Entry)[T]
    BY <2>9, EachSame
  <2> QED BY <2>5, <2>6, <2>8, <2>10, Zenon
<1>4. CASE log[i][1] = "inbound"
  <2>1. PartsOf[i] = << >> /\ << >> \in Seq(Step) /\ Len(<< >>) = 0
    BY <1>1, <1>4, StepsAtFacts
  <2>2. Each(Listed, Step)[<< >>] = << >>
    <3>1. LeftOut(Listed, << >>)
      BY <2>1 DEF LeftOut
    <3> QED BY <2>1, <3>1, EachNone
  <2>3. PICK T \in Seq(Entry) : T = TimelineAt(i)
    BY <1>1
  <2>4. ASSUME NEW j \in 1 .. Len(T) PROVE Exported[T[j]] = << >>
    <3>1. PICK e \in Entry : e = T[j]
      OBVIOUS
    <3>2. T # << >>
      OBVIOUS
    <3>3. ~ (i > 1 /\ log[i - 1][1] = "outbound")
      BY <1>4, <2>3, <3>2 DEF TimelineAt
    <3>4. log[i] \in Orphans /\ log[i] # Null
      BY <1>0, <1>4, <3>3, OrphansAre, IdAssumption
    <3>5. PICK b \in Entry : b = ModelEntry(Null, log[i])
      BY <1>0, EntryTypes
    <3>6. PICK t \in Seq(Entry) : t = ToolEntries(i)
      BY <1>4, EntryTypes
    <3>7. T = << b >> \o t
      BY <1>4, <2>3, <3>3, <3>5, <3>6 DEF TimelineAt
    <3>8. e = b \/ \E k \in 1 .. Len(t) : e = t[k]
      <4>1. e \in ToSet(T)
        BY <3>1 DEF ToSet
      <4>2. e = b \/ e \in ToSet(t)
        BY <3>7, <4>1, ConsFacts
      <4> QED BY <4>2 DEF ToSet
    <3>9. e.step.response = log[i]
      <4>1. b.step.response = log[i]
        BY <3>5 DEF ModelEntry, ModelStep
      <4>2. ASSUME NEW k \in 1 .. Len(t) PROVE t[k].step.response = log[i]
        <5>1. t[k] = ToolEntry(i, k)
          BY <3>6 DEF ToolEntries
        <5> QED BY <5>1 DEF ToolEntry, ToolStep
      <4> QED BY <3>8, <4>1, <4>2
    <3> QED BY <3>1, <3>4, <3>9, SightTypes
  <2>5. Each(Exported, Entry)[T] = << >>
    <3>1. LeftOut(Exported, T)
      BY <2>4 DEF LeftOut
    <3> QED BY <3>1, EachNone
  <2> QED BY <2>1, <2>2, <2>3, <2>5
<1> QED BY <1>1, <1>2, <1>3, <1>4

\* What the two lists show is what their parts show in a row.
LEMMA Agreement == TrajectoryTypeOK => ReadersAgree
<1> SUFFICES ASSUME TrajectoryTypeOK, ToolsDiffer
             PROVE  [i \in DOMAIN ReviewSteps |-> Seen(ReviewSteps[i])]
                      = FlattenSeq([i \in DOMAIN Timeline |->
                          IF Timeline[i].step.response # Null /\ Timeline[i].step.response \in Orphans
                          THEN << >> ELSE << Seen(Timeline[i].step) >>])
  BY DEF ReadersAgree, Orphans
<1>0. PICK n \in Nat : n = Len(log) /\ DOMAIN log = 1 .. n
  BY ReadFacts
<1>1. PICK s \in Seq(Step) : s = ReviewSteps /\ s = Flat(PartsOf, n)
  BY <1>0, ReviewStepsFacts
<1>2. PICK t \in Seq(Entry) : t = Timeline /\ t = Flat(TimelineParts, n)
  BY <1>0, TimelineFacts
<1>3. MapsSeq(Each(Listed, Step), Step, Sights) /\ MapsSeq(Each(Exported, Entry), Entry, Sights)
  BY SightTypes, EachMaps
<1>4. PICK g : g = [i \in 1 .. n |-> Each(Listed, Step)[PartsOf[i]]]
  OBVIOUS
<1>5. Each(Listed, Step)[s] = Flat(g, n)
  <2>1. \A i \in 1 .. n : PartsOf[i] \in Seq(Step)
    BY <1>0, ReviewStepsFacts
  <2>2. \A i \in 1 .. n : g[i] = Each(Listed, Step)[PartsOf[i]]
    BY <1>4
  <2> QED BY <1>1, <1>3, <2>1, <2>2, FlatMaps
<1>6. Each(Exported, Entry)[t] = Flat(g, n)
  <2>1. \A i \in 1 .. n : TimelineParts[i] \in Seq(Entry) /\ TimelineParts[i] = TimelineAt(i)
    BY <1>0, TimelineFacts
  <2>2. \A i \in 1 .. n : g[i] = Each(Exported, Entry)[TimelineParts[i]]
    BY <1>0, <1>4, <2>1, SameAt
  <2> QED BY <1>2, <1>3, <2>1, <2>2, FlatMaps
<1>7. Each(Listed, Step)[s] = [i \in DOMAIN s |-> Seen(s[i])]
  <2>1. PICK z : z = [i \in DOMAIN s |-> Seen(s[i])]
    OBVIOUS
  <2>2. PICK m \in Nat : m = Len(s) /\ DOMAIN s = 1 .. m
    OBVIOUS
  <2>3. \A i \in 1 .. m : s[i] \in Step
    BY <2>2
  <2>4. \A i \in 1 .. m : z[i] \in Sights /\ Listed[s[i]] = << z[i] >>
    BY <2>1, <2>2, <2>3, SightTypes
  <2>5. OneEach(Listed, s, z, Sights)
    BY <2>2, <2>4 DEF OneEach
  <2>7. Each(Listed, Step)[s] = Row(z, m)
    <3>1. Each(Listed, Step)[s] = Row(z, Len(s))
      BY <2>5, EachOne
    <3> QED BY <2>2, <3>1
  <2>6. Row(z, m) = z
    BY <2>1, <2>2 DEF Row
  <2> QED BY <2>1, <2>6, <2>7
<1>8. Each(Exported, Entry)[t] =
        FlattenSeq([i \in DOMAIN t |->
                      IF t[i].step.response # Null /\ t[i].step.response \in Orphans
                      THEN << >> ELSE << Seen(t[i].step) >>])
  <2>1. DOMAIN t = 1 .. Len(t) /\ \A i \in 1 .. Len(t) : t[i] \in Entry
    OBVIOUS
  <2>2. [i \in 1 .. Len(t) |-> Exported[t[i]]] =
          [i \in DOMAIN t |->
                      IF t[i].step.response # Null /\ t[i].step.response \in Orphans
                      THEN << >> ELSE << Seen(t[i].step) >>]
    BY <2>1 DEF Exported
  <2> QED BY <2>2 DEF Each
<1> QED BY <1>1, <1>2, <1>5, <1>6, <1>7, <1>8

\* The export and the dashboard agree on every session in which no tool is called
\* twice, up to the answers without a request.
THEOREM ReadersAlwaysAgree == TrajectorySpec => []ReadersAgree
<1> QED BY Agreement, TrajectoryTypeCorrect, PTL

-----------------------------------------------------------------------------
(* A complete table                                                        *)

\* The events and the steps of one exchange, and how many events come before it.
LogPart(t, k) ==
    << Outbound(<<t, k>>) >> \o IF Answered(<<t, k>>) THEN << Inbound(<<t, k>>) >> ELSE << >>
LogParts(t) == [k \in 1 .. asked[t] |-> LogPart(t, k)]
EventsUpTo(t, k) == Len(Flat(LogParts(t), k))

NextOf(t, k) == IF k < asked[t] THEN Outbound(<<t, k + 1>>) ELSE Null
ResponseOf(t, k) == IF Answered(<<t, k>>) THEN Inbound(<<t, k>>) ELSE Null
ToolsOf(t, k) == [c \in DOMAIN CallsOf(<<t, k>>) |->
                    ToolStep(NextOf(t, k), ResponseOf(t, k), CallsOf(<<t, k>>)[c].id,
                             IF NextOf(t, k) = Null THEN Null ELSE CallsOf(<<t, k>>)[c].id)]
StepPart(t, k) == << ModelStep(Outbound(<<t, k>>), ResponseOf(t, k)) >> \o ToolsOf(t, k)

\* Where the events of an exchange are in a complete table.
LEMMA CompleteTable ==
  ASSUME TrajectoryTypeOK, NEW t \in Threads, Complete(t), NEW m \in Nat, m = asked[t]
  PROVE  /\ EventsUpTo(t, 0) = 0 /\ EventsUpTo(t, m) = Len(log)
         /\ \A k \in 1 .. m : <<t, k>> \in Exchanges
         /\ \A k \in 0 .. m : EventsUpTo(t, k) \in 0 .. Len(log)
         /\ \A k \in 1 .. m :
              /\ EventsUpTo(t, k) = EventsUpTo(t, k - 1) + IF Answered(<<t, k>>) THEN 2 ELSE 1
              /\ log[EventsUpTo(t, k - 1) + 1] = Outbound(<<t, k>>)
              /\ Answered(<<t, k>>) => log[EventsUpTo(t, k - 1) + 2] = Inbound(<<t, k>>)
<1>0. m \in 0 .. MaxAsked /\ MaxAsked \in Nat
  BY TrajectoryAssumption DEF TrajectoryTypeOK
<1>1. m \in Nat /\ \A k \in 1 .. m : <<t, k>> \in Exchanges
  BY <1>0 DEF Exchanges
<1>2. PICK f : f = LogParts(t)
  OBVIOUS
<1>3. PICK E : E = EventIds
  OBVIOUS
<1>4. ASSUME NEW k \in 1 .. m
      PROVE  /\ f[k] \in Seq(E) /\ f[k][1] = Outbound(<<t, k>>)
             /\ Answered(<<t, k>>) => Len(f[k]) = 2 /\ f[k][2] = Inbound(<<t, k>>)
             /\ ~ Answered(<<t, k>>) => Len(f[k]) = 1
  <2>1. f[k] = LogPart(t, k)
    BY <1>2 DEF LogParts
  <2>2. PICK a \in E, b \in E : a = Outbound(<<t, k>>) /\ b = Inbound(<<t, k>>)
    BY <1>1, <1>3 DEF Outbound, Inbound, EventIds
  <2>3. CASE Answered(<<t, k>>)
    <3>1. f[k] = << a >> \o << b >>
      BY <2>1, <2>2, <2>3 DEF LogPart
    <3>2. PICK u \in Seq(E) : u = << b >> /\ Len(u) = 1 /\ u[1] = b
      <4>1. << b >> \in Seq(E) /\ Len(<< b >>) = 1 /\ (<< b >>)[1] = b
        OBVIOUS
      <4> QED BY <4>1, Zenon
    <3>3. /\ << a >> \o u \in Seq(E) /\ Len(<< a >> \o u) = Len(u) + 1 /\ (<< a >> \o u)[1] = a
          /\ \A j \in 1 .. Len(u) : (<< a >> \o u)[j + 1] = u[j]
      BY ConsFacts
    <3>4. (<< a >> \o u)[1 + 1] = u[1]
      <4>1. 1 \in 1 .. Len(u)
        BY <3>2
      <4> QED BY <3>3, <4>1, Zenon
    <3> QED BY <2>2, <2>3, <3>1, <3>2, <3>3, <3>4
  <2>4. CASE ~ Answered(<<t, k>>)
    <3>1. f[k] = << a >> \o << >>
      BY <2>1, <2>2, <2>4 DEF LogPart
    <3>2. << a >> \o << >> = << a >>
      OBVIOUS
    <3> QED BY <2>2, <2>4, <3>1, <3>2
  <2> QED BY <2>3, <2>4
<1>5. log = Flat(f, m)
  <2>1. LogOf(t) = FlattenSeq([k \in 1 .. m |-> LogPart(t, k)])
    BY DEF LogOf, LogPart
  <2>2. [k \in 1 .. m |-> f[k]] = [k \in 1 .. m |-> LogPart(t, k)]
    BY <1>2 DEF LogParts
  <2> QED BY <2>1, <2>2 DEF Complete, Flat
<1>6. \A k : EventsUpTo(t, k) = Len(Flat(f, k))
  BY <1>2 DEF EventsUpTo
<1>7. \A k \in 0 .. m - 1 :
            /\ Len(Flat(f, k)) \in Nat /\ Len(Flat(f, k + 1)) \in Nat /\ Len(Flat(f, m)) \in Nat
            /\ Len(Flat(f, k + 1)) = Len(Flat(f, k)) + Len(f[k + 1])
            /\ Len(Flat(f, k + 1)) =< Len(Flat(f, m))
            /\ \A j \in 1 .. Len(f[k + 1]) : Flat(f, m)[Len(Flat(f, k)) + j] = f[k + 1][j]
  <2>1. \A k \in 1 .. m : f[k] \in Seq(E)
    BY <1>4
  <2>2. PICK n \in Nat : n = m
    OBVIOUS
  <2>3. \A k \in 1 .. n : f[k] \in Seq(E)
    BY <2>1, <2>2
  <2>4. \A k \in 0 .. n - 1 :
            /\ Len(Flat(f, k)) \in Nat /\ Len(Flat(f, k + 1)) \in Nat /\ Len(Flat(f, n)) \in Nat
            /\ Len(Flat(f, k + 1)) = Len(Flat(f, k)) + Len(f[k + 1])
            /\ Len(Flat(f, k + 1)) =< Len(Flat(f, n))
            /\ \A j \in 1 .. Len(f[k + 1]) : Flat(f, n)[Len(Flat(f, k)) + j] = f[k + 1][j]
    BY <2>3, FlatParts
  <2> QED BY <2>2, <2>4, Zenon
<1>8. Len(log) \in Nat
  BY ReadFacts
<1>9. EventsUpTo(t, 0) = 0 /\ EventsUpTo(t, m) = Len(log)
  BY <1>5, <1>6, FlatEmpty
<1>10. ASSUME NEW k \in 1 .. m
       PROVE  /\ EventsUpTo(t, k) \in 0 .. Len(log)
              /\ EventsUpTo(t, k) = EventsUpTo(t, k - 1) + IF Answered(<<t, k>>) THEN 2 ELSE 1
              /\ log[EventsUpTo(t, k - 1) + 1] = Outbound(<<t, k>>)
              /\ Answered(<<t, k>>) => log[EventsUpTo(t, k - 1) + 2] = Inbound(<<t, k>>)
  <2>1. k - 1 \in 0 .. m - 1 /\ (k - 1) + 1 = k
    BY <1>1
  <2>2. /\ Len(Flat(f, k - 1)) \in Nat /\ Len(Flat(f, k)) \in Nat
        /\ Len(Flat(f, k)) = Len(Flat(f, k - 1)) + Len(f[k])
        /\ Len(Flat(f, k)) =< Len(Flat(f, m))
        /\ \A j \in 1 .. Len(f[k]) : Flat(f, m)[Len(Flat(f, k - 1)) + j] = f[k][j]
    BY <1>7, <2>1
  <2>3. PICK p, q, s : p = EventsUpTo(t, k - 1) /\ q = EventsUpTo(t, k) /\ s = f[k]
                   /\ p \in Nat /\ q \in Nat
    BY <1>6, <2>2
  <2>4. /\ q = p + Len(s) /\ q =< Len(log)
        /\ \A j \in 1 .. Len(s) : log[p + j] = s[j]
    BY <1>5, <1>6, <2>2, <2>3
  <2>5. /\ s[1] = Outbound(<<t, k>>)
        /\ Answered(<<t, k>>) => Len(s) = 2 /\ s[2] = Inbound(<<t, k>>)
        /\ ~ Answered(<<t, k>>) => Len(s) = 1
    BY <1>4, <2>3
  <2>6. CASE Answered(<<t, k>>)
    <3>1. Len(s) = 2 /\ 1 \in 1 .. 2 /\ 2 \in 1 .. 2
      BY <2>5, <2>6
    <3>2. q = p + 2 /\ log[p + 1] = s[1] /\ log[p + 2] = s[2]
      BY <2>4, <3>1
    <3> QED BY <1>8, <2>3, <2>4, <2>5, <2>6, <3>2
  <2>7. CASE ~ Answered(<<t, k>>)
    <3>1. Len(s) = 1 /\ 1 \in 1 .. 1
      BY <2>5, <2>7
    <3>2. q = p + 1 /\ log[p + 1] = s[1]
      BY <2>4, <3>1
    <3> QED BY <1>8, <2>3, <2>4, <2>5, <2>7, <3>2
  <2> QED BY <2>6, <2>7
<1>11. \A k \in 0 .. m : EventsUpTo(t, k) \in 0 .. Len(log)
  <2> SUFFICES ASSUME NEW k \in 0 .. m PROVE EventsUpTo(t, k) \in 0 .. Len(log)
    OBVIOUS
  <2>1. k = 0 \/ k \in 1 .. m
    BY <1>1
  <2>2. 0 \in 0 .. Len(log)
    BY <1>8
  <2> QED BY <1>9, <1>10, <2>1, <2>2, Zenon
<1> QED BY <1>1, <1>9, <1>10, <1>11

\* What comes after an exchange in a complete table.
LEMMA AfterExchange ==
  ASSUME TrajectoryTypeOK, NEW t \in Threads, Complete(t), NEW m \in Nat, m = asked[t],
         NEW k \in 1 .. m, NEW e, e = EventsUpTo(t, k)
  PROVE  /\ e \in DOMAIN log
         /\ LogAt(e + 1) = NextOf(t, k)
         /\ ~ (e + 1 \in DOMAIN log /\ log[e + 1][1] = "inbound")
         /\ ResultsAt(e + 1) = IF k < m THEN Conversation(<<t, k + 1>>) ELSE << >>
         /\ k < m => NextOf(t, k) # Null
         /\ k = m => e = Len(log) /\ NextOf(t, k) = Null
<1>0. PICK n \in Nat : n = Len(log) /\ DOMAIN log = 1 .. n
  BY ReadFacts
<1>1. /\ EventsUpTo(t, m) = n
      /\ \A j \in 1 .. m : <<t, j>> \in Exchanges
      /\ \A j \in 0 .. m : EventsUpTo(t, j) \in 0 .. n
      /\ \A j \in 1 .. m :
              /\ EventsUpTo(t, j) = EventsUpTo(t, j - 1) + IF Answered(<<t, j>>) THEN 2 ELSE 1
              /\ log[EventsUpTo(t, j - 1) + 1] = Outbound(<<t, j>>)
  BY <1>0, CompleteTable, Zenon
<1>2. e \in 0 .. n /\ EventsUpTo(t, k - 1) \in 0 .. n
  <2>1. k \in 0 .. m /\ k - 1 \in 0 .. m
    OBVIOUS
  <2> QED BY <1>1, <2>1
<1>3. e \in 1 .. n
  <2>1. e = EventsUpTo(t, k - 1) + IF Answered(<<t, k>>) THEN 2 ELSE 1
    BY <1>1
  <2> QED BY <1>2, <2>1
<1>4. CASE k = m
  <2>1. e = n /\ e + 1 \notin DOMAIN log
    BY <1>0, <1>1, <1>4
  <2> QED BY <1>0, <1>3, <1>4, <2>1 DEF LogAt, ResultsAt, NextOf
<1>5. CASE k # m
  <2>1. k + 1 \in 1 .. m /\ (k + 1) - 1 = k /\ k < m
    BY <1>5
  <2>2. log[e + 1] = Outbound(<<t, k + 1>>)
    <3>1. log[EventsUpTo(t, (k + 1) - 1) + 1] = Outbound(<<t, k + 1>>)
      BY <1>1, <2>1
    <3> QED BY <2>1, <3>1
  <2>3. e + 1 \in DOMAIN log
    <3>1. PICK c \in 0 .. n : c = EventsUpTo(t, k + 1)
      <4>1. k + 1 \in 0 .. m
        BY <2>1
      <4> QED BY <1>1, <4>1
    <3>2. c = EventsUpTo(t, (k + 1) - 1) + IF Answered(<<t, k + 1>>) THEN 2 ELSE 1
      BY <1>1, <2>1, <3>1
    <3>3. c = e + 1 \/ c = e + 2
      BY <2>1, <3>2
    <3> QED BY <1>0, <1>3, <3>3
  <2>4. log[e + 1][1] = "outbound" /\ log[e + 1][2] = <<t, k + 1>> /\ "outbound" # "inbound"
    BY <2>2 DEF Outbound
  <2>5. Outbound(<<t, k + 1>>) \in EventIds
    BY <1>1, <2>1 DEF Outbound, EventIds
  <2>6. NextOf(t, k) = Outbound(<<t, k + 1>>) /\ NextOf(t, k) # Null
    BY <2>1, <2>5, IdAssumption DEF NextOf
  <2>7. LogAt(e + 1) = NextOf(t, k)
    BY <2>2, <2>3, <2>6 DEF LogAt
  <2>8. ResultsAt(e + 1) = Conversation(<<t, k + 1>>)
    BY <2>3, <2>4 DEF ResultsAt
  <2> QED BY <1>0, <1>3, <2>1, <2>4, <2>6, <2>7, <2>8
<1> QED BY <1>4, <1>5

\* The results of the tools of an exchange are found in the request after it.
LEMMA ResultsArrive ==
  ASSUME TrajectoryTypeOK, ToolsDiffer, NEW t \in Threads, Complete(t), NEW m \in Nat, m = asked[t],
         NEW k \in 1 .. m, NEW c \in DOMAIN CallsOf(<<t, k>>)
  PROVE  ResultOf(ResultsAt(EventsUpTo(t, k) + 1), CallsOf(<<t, k>>)[c])
            = IF NextOf(t, k) = Null THEN Null ELSE CallsOf(<<t, k>>)[c].id
<1>1. PICK x \in Exchanges : x = <<t, k>>
  BY CompleteTable
<1>2. PICK calls \in Seq(Calls) : calls = CallsOf(x)
  BY CallsOfFacts
<1>3. PICK call \in Calls : call = calls[c] /\ call \in ToSet(CallsOf(x))
  <2>1. calls[c] \in Calls
    BY <1>1, <1>2
  <2> QED BY <1>1, <1>2, <2>1 DEF ToSet
<1>4. CASE k = m
  <2>1. ResultsAt(EventsUpTo(t, k) + 1) = << >> /\ NextOf(t, k) = Null
    BY <1>4, AfterExchange
  <2>2. << >> \in Seq(Calls) /\ ToSet(<< >>) = {}
    BY DEF ToSet
  <2>3. ResultOf(<< >>, call) = Null
    BY <2>2, ResultOfFacts
  <2> QED BY <1>1, <1>2, <1>3, <2>1, <2>3
<1>5. CASE k # m
  <2>1. k < m /\ k + 1 \in 1 .. m /\ k \in 1 .. (k + 1) - 1
    BY <1>5
  <2>2. PICK y \in Exchanges : y = <<t, k + 1>> /\ y[1] = t /\ y[2] = k + 1
    BY <2>1, CompleteTable
  <2>3. PICK results \in Seq(Calls) :
          /\ results = Conversation(y)
          /\ ToSet(results) = UNION {ToSet(CallsOf(<<y[1], j>>)) : j \in 1 .. y[2] - 1}
    BY ConversationFacts
  <2>4. ResultsAt(EventsUpTo(t, k) + 1) = results /\ NextOf(t, k) # Null
    BY <2>1, <2>2, <2>3, AfterExchange
  <2>5. call \in ToSet(results)
    BY <1>1, <1>3, <2>1, <2>2, <2>3
  <2>6. ToSet(results) \subseteq UNION {ToSet(CallsOf(z)) : z \in Exchanges}
    <3>1. \A j \in 1 .. y[2] - 1 : <<y[1], j>> \in Exchanges
      BY TrajectoryAssumption DEF Exchanges
    <3> QED BY <2>3, <3>1
  <2>7. \A s \in ToSet(results) : s.id = call.id \/ s.name = call.name => s.id = call.id
    <3>1. \A a, b \in UNION {ToSet(CallsOf(z)) : z \in Exchanges} : a.name = b.name => a = b
      BY DEF ToolsDiffer
    <3>2. call \in UNION {ToSet(CallsOf(z)) : z \in Exchanges}
      BY <1>3
    <3> QED BY <2>6, <3>1, <3>2
  <2>8. ResultOf(results, call) = call.id
    BY <2>5, <2>7, ResultOfFacts
  <2> QED BY <1>1, <1>2, <1>3, <2>4, <2>8
<1> QED BY <1>4, <1>5

\* The steps that start at the request of an exchange are those of the exchange.
LEMMA ExchangeSteps ==
  ASSUME TrajectoryTypeOK, ToolsDiffer, NEW t \in Threads, Complete(t), NEW m \in Nat, m = asked[t],
         NEW k \in 1 .. m
  PROVE  /\ PartsOf[EventsUpTo(t, k - 1) + 1] = StepPart(t, k)
         /\ Answered(<<t, k>>) => PartsOf[EventsUpTo(t, k - 1) + 2] = << >>
<1>0. PICK n \in Nat : n = Len(log) /\ DOMAIN log = 1 .. n /\ \A j \in 1 .. n : log[j] \in EventIds
  BY ReadFacts
<1>1. PICK x \in Exchanges : x = <<t, k>>
  BY CompleteTable
<1>2. PICK e \in 0 .. n : e = EventsUpTo(t, k - 1)
  <2>1. k - 1 \in 0 .. m
    OBVIOUS
  <2> QED BY <1>0, <2>1, CompleteTable
<1>3. PICK d \in 1 .. n : d = EventsUpTo(t, k)
  BY <1>0, AfterExchange
<1>4. /\ d = e + IF Answered(x) THEN 2 ELSE 1
      /\ log[e + 1] = Outbound(x)
      /\ Answered(x) => log[e + 2] = Inbound(x)
  BY <1>1, <1>2, <1>3, CompleteTable
<1>5. /\ e + 1 \in 1 .. n /\ (e + 1) + 1 = e + 2
      /\ log[e + 1][1] = "outbound"
  BY <1>4 DEF Outbound
<1>6. \A i \in 1 .. n : PartsOf[i] = StepsAt(GetSessionEvents, i)
  BY <1>0, ReviewStepsFacts
<1>7. PICK calls \in Seq(Calls) : calls = CallsOf(x) /\ \A c \in DOMAIN calls : calls[c].id = <<x, c>>
  BY CallsOfFacts
<1>8. CASE Answered(x)
  <2>1. d = e + 2 /\ log[d] = Inbound(x) /\ log[d][1] = "inbound" /\ log[d][2] = x
    BY <1>2, <1>4, <1>8 DEF Inbound
  <2>2. PartsOf[d] = << >>
    BY <1>0, <1>6, <2>1, StepsAtFacts
  <2>3. PartsOf[e + 1] = << ModelStep(log[e + 1], log[d]) >> \o ToolSteps(GetSessionEvents, d)
    BY <1>0, <1>5, <1>6, <2>1, StepsAtFacts
  <2>4. ToolSteps(GetSessionEvents, d) =
          [c \in 1 .. Len(calls) |-> ToolStepAt(d, c, ResultOf(ResultsAt(d + 1), calls[c]))]
    BY <1>0, <1>7, <2>1, ToolStepsFacts
  <2>5. ASSUME NEW c \in 1 .. Len(calls)
        PROVE  ToolStepAt(d, c, ResultOf(ResultsAt(d + 1), calls[c])) =
                 ToolStep(NextOf(t, k), ResponseOf(t, k), calls[c].id,
                          IF NextOf(t, k) = Null THEN Null ELSE calls[c].id)
    <3>1. c \in DOMAIN calls /\ calls[c].id = <<x, c>>
      BY <1>7
    <3>2. ResultOf(ResultsAt(d + 1), calls[c]) = IF NextOf(t, k) = Null THEN Null ELSE calls[c].id
      BY <1>1, <1>3, <1>7, <3>1, ResultsArrive
    <3>3. LogAt(d + 1) = NextOf(t, k)
      BY <1>3, AfterExchange
    <3>4. log[d] = ResponseOf(t, k)
      BY <1>1, <1>8, <2>1 DEF ResponseOf
    <3> QED BY <2>1, <3>1, <3>2, <3>3, <3>4 DEF ToolStepAt
  <2>6. DOMAIN calls = 1 .. Len(calls)
    OBVIOUS
  <2>7. ToolSteps(GetSessionEvents, d) = ToolsOf(t, k)
    <3>1. ToolsOf(t, k) = [c \in 1 .. Len(calls) |->
                 ToolStep(NextOf(t, k), ResponseOf(t, k), calls[c].id,
                          IF NextOf(t, k) = Null THEN Null ELSE calls[c].id)]
      BY <1>1, <1>7, <2>6 DEF ToolsOf
    <3> QED BY <2>4, <2>5, <3>1
  <2>8. ModelStep(log[e + 1], log[d]) = ModelStep(Outbound(<<t, k>>), ResponseOf(t, k))
    BY <1>1, <1>4, <1>8, <2>1 DEF ResponseOf
  <2> QED BY <1>2, <2>1, <2>2, <2>3, <2>7, <2>8 DEF StepPart
<1>9. CASE ~ Answered(x)
  <2>1. d = e + 1
    BY <1>2, <1>4, <1>9
  <2>2. PartsOf[e + 1] = << ModelStep(log[e + 1], Null) >>
    <3>1. ~ (d + 1 \in DOMAIN log /\ log[d + 1][1] = "inbound")
      BY <1>3, AfterExchange
    <3>2. PartsOf[d] = << ModelStep(log[d], Null) >>
      BY <1>0, <1>5, <1>6, <2>1, <3>1, StepsAtFacts
    <3> QED BY <2>1, <3>2
  <2>3. ToolsOf(t, k) = << >>
    <3>1. CallsOf(<<t, k>>) = << >>
      BY <1>1, <1>9, CallsOfFacts
    <3> QED BY <3>1 DEF ToolsOf
  <2>4. PICK a \in Step : a = ModelStep(Outbound(x), Null)
    BY <1>1 DEF ModelStep, Step, Outbound, EventIds
  <2>5. << a >> \o << >> = << a >>
    OBVIOUS
  <2>6. StepPart(t, k) = << a >> \o << >>
    BY <1>1, <1>9, <2>3, <2>4 DEF StepPart, ResponseOf
  <2> QED BY <1>1, <1>2, <1>4, <1>9, <2>2, <2>4, <2>5, <2>6
<1> QED BY <1>8, <1>9

\* Of a complete table the export is the conversation, exchange by exchange.
LEMMA CompleteExact == TrajectoryTypeOK => CompleteIsExact
<1> SUFFICES ASSUME TrajectoryTypeOK, ToolsDiffer, NEW t \in Threads, Complete(t)
             PROVE  ReviewSteps = StepsOf(t)
  BY DEF CompleteIsExact
<1>0. PICK n \in Nat : n = Len(log) /\ DOMAIN log = 1 .. n
  BY ReadFacts
<1>1. PICK m \in Nat : m = asked[t]
  BY TrajectoryAssumption DEF TrajectoryTypeOK
<1>2. PICK E : E = Step
  OBVIOUS
<1>3. PICK f, g, p : f = PartsOf /\ g = [k \in 1 .. m |-> StepPart(t, k)]
                     /\ p = [k \in 0 .. m |-> EventsUpTo(t, k)]
  OBVIOUS
<1>4. \A i \in 1 .. n : f[i] \in Seq(E)
  BY <1>0, <1>2, <1>3, ReviewStepsFacts
<1>5. p \in [0 .. m -> 0 .. n] /\ p[0] = 0 /\ p[m] = n
  <2>1. /\ EventsUpTo(t, 0) = 0 /\ EventsUpTo(t, m) = n
        /\ \A k \in 0 .. m : EventsUpTo(t, k) \in 0 .. n
    BY <1>0, <1>1, CompleteTable, Zenon
  <2> QED BY <1>3, <2>1
<1>6. ASSUME NEW k \in 1 .. m PROVE Joins(f, g, p, k) /\ g[k] \in Seq(E)
  <2>1. k \in 0 .. m /\ k - 1 \in 0 .. m
    OBVIOUS
  <2>2. p[k] = EventsUpTo(t, k) /\ p[k - 1] = EventsUpTo(t, k - 1) /\ p[k] \in 0 .. n /\ p[k - 1] \in 0 .. n
    BY <1>3, <1>5, <2>1
  <2>3. p[k] = p[k - 1] + IF Answered(<<t, k>>) THEN 2 ELSE 1
    BY <1>1, <2>2, CompleteTable
  <2>4. g[k] = StepPart(t, k)
    BY <1>3
  <2>5. f[p[k - 1] + 1] = g[k] /\ (Answered(<<t, k>>) => f[p[k - 1] + 2] = << >>)
    BY <1>1, <1>3, <2>2, <2>4, ExchangeSteps
  <2>6. p[k - 1] + 1 \in 1 .. n
    BY <2>2, <2>3
  <2>7. g[k] \in Seq(E)
    BY <1>4, <2>5, <2>6
  <2>8. Joins(f, g, p, k)
    BY <2>3, <2>5 DEF Joins
  <2> QED BY <2>7, <2>8
<1>7. Flat(f, n) = Flat(g, m)
  <2>1. \A k \in 1 .. m : Joins(f, g, p, k)
    BY <1>6
  <2>2. \A k \in 1 .. m : g[k] \in Seq(E)
    BY <1>6
  <2>3. Regroups(E, f, n, g, m, p)
    BY <1>4, <1>5, <2>1, <2>2 DEF Regroups
  <2> QED BY <2>3, FlatRegroup
<1>8. ReviewSteps = Flat(f, n)
  BY <1>0, <1>3, ReviewStepsFacts
<1>9. StepsOf(t) = FlattenSeq([k \in 1 .. m |-> StepPart(t, k)])
  BY <1>1 DEF StepsOf, StepPart, ToolsOf, NextOf, ResponseOf
<1>10. Flat(g, m) = FlattenSeq([k \in 1 .. m |-> StepPart(t, k)])
  <2>1. [k \in 1 .. m |-> g[k]] = [k \in 1 .. m |-> StepPart(t, k)]
    BY <1>3
  <2> QED BY <2>1 DEF Flat
<1> QED BY <1>7, <1>8, <1>9, <1>10

\* The export returns the conversation, also while it is under way and with failed
\* and repeated requests, as long as nothing is lost or late and no tool is called
\* twice.
THEOREM CompleteAlwaysExact == TrajectorySpec => []CompleteIsExact
<1> QED BY CompleteExact, TrajectoryTypeCorrect, PTL

-----------------------------------------------------------------------------
(* A finished conversation                                                 *)

\* Parts of two elements, each with an empty one behind it, the last of one element.
Alternates(E, f, m) ==
    /\ \A i \in 1 .. 2 * m : f[i] \in Seq(E)
    /\ \A k \in 1 .. m : Len(f[2 * k - 1]) = (IF k < m THEN 2 ELSE 1) /\ f[2 * k] = << >>

\* A list of the elements of such parts.
Lists(w, f, m) ==
    /\ Len(w) = 2 * m - 1
    /\ \A k \in 1 .. m : /\ w[2 * k - 1] = f[2 * k - 1][1]
                         /\ k < m => w[2 * k] = f[2 * k - 1][2]

\* The concatenation of such parts is that list.
LEMMA AlternatingList ==
  ASSUME NEW E, NEW m \in Nat, m > 0, NEW f, Alternates(E, f, m)
  PROVE  Lists(Flat(f, 2 * m), f, m)
<1>0. PICK n \in Nat : n = 2 * m
  OBVIOUS
<1>1. \A i \in 1 .. n : f[i] \in Seq(E)
  BY <1>0 DEF Alternates
<1>2. \A k \in 0 .. n - 1 :
            /\ Len(Flat(f, k)) \in Nat /\ Len(Flat(f, k + 1)) \in Nat /\ Len(Flat(f, n)) \in Nat
            /\ Len(Flat(f, k + 1)) = Len(Flat(f, k)) + Len(f[k + 1])
            /\ Len(Flat(f, k + 1)) =< Len(Flat(f, n))
            /\ \A j \in 1 .. Len(f[k + 1]) : Flat(f, n)[Len(Flat(f, k)) + j] = f[k + 1][j]
  BY <1>1, FlatParts
<1>3. ASSUME NEW k \in 1 .. m, Len(Flat(f, 2 * k - 2)) = 2 * k - 2
      PROVE  /\ Len(Flat(f, 2 * k)) = IF k < m THEN 2 * k ELSE 2 * k - 1
             /\ Flat(f, n)[2 * k - 1] = f[2 * k - 1][1]
             /\ k < m => Flat(f, n)[2 * k] = f[2 * k - 1][2]
  <2>1. PICK a \in Nat : a = 2 * k - 2 /\ a \in 0 .. n - 1 /\ a + 1 \in 0 .. n - 1
                         /\ a + 1 = 2 * k - 1 /\ (a + 1) + 1 = 2 * k
    BY <1>0
  <2>2. Len(f[a + 1]) = (IF k < m THEN 2 ELSE 1) /\ Len(f[(a + 1) + 1]) = 0
    <3>1. Len(f[2 * k - 1]) = (IF k < m THEN 2 ELSE 1) /\ f[2 * k] = << >>
      BY DEF Alternates
    <3>2. Len(f[2 * k]) = 0
      BY <3>1
    <3> QED BY <2>1, <3>1, <3>2
  <2>3. PICK s : s = f[a + 1]
    OBVIOUS
  <2>4. /\ Len(Flat(f, a + 1)) = Len(Flat(f, a)) + Len(s)
        /\ \A j \in 1 .. Len(s) : Flat(f, n)[Len(Flat(f, a)) + j] = s[j]
    BY <1>2, <2>1, <2>3
  <2>5. /\ Len(Flat(f, (a + 1) + 1)) = Len(Flat(f, a + 1)) + Len(f[(a + 1) + 1])
        /\ Len(Flat(f, a + 1)) \in Nat
    BY <1>2, <2>1
  <2>6. Len(Flat(f, a)) = a
    BY <1>3, <2>1
  <2>7. Len(Flat(f, 2 * k)) = a + Len(s)
    <3>1. Len(Flat(f, 2 * k)) = Len(Flat(f, a + 1))
      BY <2>1, <2>2, <2>5
    <3> QED BY <2>4, <2>6, <3>1
  <2>8. \A j \in 1 .. Len(s) : Flat(f, n)[a + j] = s[j]
    BY <2>4, <2>6
  <2>9. CASE k < m
    <3>1. Len(s) = 2 /\ 1 \in 1 .. 2 /\ 2 \in 1 .. 2
      BY <2>2, <2>3, <2>9
    <3>2. Flat(f, n)[a + 1] = s[1] /\ Flat(f, n)[a + 2] = s[2]
      BY <2>8, <3>1
    <3>3. a + 2 = 2 * k /\ a + 1 = 2 * k - 1
      BY <2>1
    <3> QED BY <2>3, <2>7, <2>9, <3>1, <3>2, <3>3
  <2>10. CASE ~ (k < m)
    <3>1. Len(s) = 1 /\ 1 \in 1 .. 1
      BY <2>2, <2>3, <2>10
    <3>2. Flat(f, n)[a + 1] = s[1]
      BY <2>8, <3>1
    <3>3. a + 1 = 2 * k - 1
      BY <2>1
    <3> QED BY <2>3, <2>7, <2>10, <3>1, <3>2, <3>3
  <2> QED BY <2>9, <2>10
<1> DEFINE B == {k \in Nat : k < m => Len(Flat(f, 2 * k)) = 2 * k}
<1>4. 0 \in B
  <2>1. Flat(f, 2 * 0) = << >> /\ Len(<< >>) = 2 * 0
    BY FlatEmpty
  <2> QED BY <2>1
<1>5. ASSUME NEW k \in B PROVE k + 1 \in B
  <2> SUFFICES ASSUME k + 1 < m PROVE Len(Flat(f, 2 * (k + 1))) = 2 * (k + 1)
    OBVIOUS
  <2>1. k \in Nat /\ k + 1 \in 1 .. m /\ 2 * (k + 1) - 2 = 2 * k
    OBVIOUS
  <2>2. Len(Flat(f, 2 * (k + 1) - 2)) = 2 * (k + 1) - 2
    BY <2>1
  <2> HIDE DEF B
  <2> QED BY <1>3, <2>1, <2>2
<1>6. B = Nat
  <2>1. B \in SUBSET Nat
    OBVIOUS
  <2> HIDE DEF B
  <2> QED BY <1>4, <1>5, <2>1, NatSetInduction
<1>7. \A k \in 1 .. m : Len(Flat(f, 2 * k - 2)) = 2 * k - 2
  <2> SUFFICES ASSUME NEW k \in 1 .. m PROVE Len(Flat(f, 2 * k - 2)) = 2 * k - 2
    OBVIOUS
  <2>1. k - 1 \in Nat /\ k - 1 < m /\ 2 * (k - 1) = 2 * k - 2
    OBVIOUS
  <2>2. k - 1 \in B
    <3> HIDE DEF B
    <3> QED BY <1>6, <2>1
  <2>3. Len(Flat(f, 2 * (k - 1))) = 2 * (k - 1)
    BY <2>1, <2>2
  <2> QED BY <2>1, <2>3
<1> HIDE DEF B
<1>8. Len(Flat(f, n)) = 2 * m - 1
  <2>1. m \in 1 .. m /\ ~ (m < m)
    OBVIOUS
  <2> QED BY <1>0, <1>3, <1>7, <2>1
<1> QED BY <1>0, <1>3, <1>7, <1>8 DEF Lists

\* A finished conversation in the table: requests and answers in turns.
LEMMA FinishedTable ==
  ASSUME TrajectoryTypeOK, NEW t \in Threads, Finished(t), NEW m \in Nat, m = asked[t]
  PROVE  /\ m > 0 /\ Len(log) = 2 * m
         /\ \A k \in 1 .. m : /\ <<t, k>> \in Exchanges
                              /\ log[2 * k - 1] = Outbound(<<t, k>>) /\ log[2 * k] = Inbound(<<t, k>>)
                              /\ Len(CallsOf(<<t, k>>)) = IF k < m THEN 1 ELSE 0
<1>1. /\ Complete(t) /\ m > 0
      /\ \A k \in 1 .. m : /\ Answered(<<t, k>>)
                           /\ Len(answer[<<t, k>>].calls) = IF k < m THEN 1 ELSE 0
  BY DEF Finished
<1>2. /\ EventsUpTo(t, 0) = 0 /\ EventsUpTo(t, m) = Len(log)
      /\ \A k \in 1 .. m : <<t, k>> \in Exchanges
      /\ \A k \in 1 .. m :
           /\ EventsUpTo(t, k) = EventsUpTo(t, k - 1) + IF Answered(<<t, k>>) THEN 2 ELSE 1
           /\ log[EventsUpTo(t, k - 1) + 1] = Outbound(<<t, k>>)
           /\ Answered(<<t, k>>) => log[EventsUpTo(t, k - 1) + 2] = Inbound(<<t, k>>)
  BY <1>1, CompleteTable, Zenon
<1> DEFINE B == {k \in Nat : k =< m => EventsUpTo(t, k) = 2 * k}
<1>3. 0 \in B
  BY <1>2
<1>4. ASSUME NEW k \in B PROVE k + 1 \in B
  <2> SUFFICES ASSUME k + 1 =< m PROVE EventsUpTo(t, k + 1) = 2 * (k + 1)
    OBVIOUS
  <2>1. k \in Nat /\ k + 1 \in 1 .. m /\ (k + 1) - 1 = k /\ EventsUpTo(t, k) = 2 * k
    OBVIOUS
  <2>2. EventsUpTo(t, k + 1) = EventsUpTo(t, (k + 1) - 1) + 2
    BY <1>1, <1>2, <2>1
  <2> HIDE DEF B
  <2> QED BY <2>1, <2>2
<1>5. B = Nat
  <2>1. B \in SUBSET Nat
    OBVIOUS
  <2> HIDE DEF B
  <2> QED BY <1>3, <1>4, <2>1, NatSetInduction
<1>6. \A k \in 0 .. m : EventsUpTo(t, k) = 2 * k
  <2> SUFFICES ASSUME NEW k \in 0 .. m PROVE EventsUpTo(t, k) = 2 * k
    OBVIOUS
  <2>1. k \in B
    <3> HIDE DEF B
    <3> QED BY <1>5
  <2> QED BY <2>1
<1> HIDE DEF B
<1>7. ASSUME NEW k \in 1 .. m
      PROVE  log[2 * k - 1] = Outbound(<<t, k>>) /\ log[2 * k] = Inbound(<<t, k>>)
  <2>1. EventsUpTo(t, k - 1) = 2 * (k - 1)
    BY <1>6
  <2>2. 2 * (k - 1) + 1 = 2 * k - 1 /\ 2 * (k - 1) + 2 = 2 * k
    OBVIOUS
  <2> QED BY <1>1, <1>2, <2>1, <2>2
<1>8. ASSUME NEW k \in 1 .. m PROVE Len(CallsOf(<<t, k>>)) = IF k < m THEN 1 ELSE 0
  BY <1>1, <1>2, CallsOfFacts
<1>9. Len(log) = 2 * m
  BY <1>2, <1>6
<1> QED BY <1>1, <1>2, <1>7, <1>8, <1>9

\* The parts of both lists in a finished conversation.
LEMMA FinishedParts ==
  ASSUME TrajectoryTypeOK, NEW t \in Threads, Finished(t), NEW m \in Nat, m = asked[t],
         NEW k \in 1 .. m
  PROVE  /\ PartsOf[2 * k] = << >> /\ TimelineParts[2 * k] = << >>
         /\ Len(PartsOf[2 * k - 1]) = IF k < m THEN 2 ELSE 1
         /\ Len(TimelineParts[2 * k - 1]) = IF k < m THEN 2 ELSE 1
         /\ PartsOf[2 * k - 1][1] = ModelStep(log[2 * k - 1], log[2 * k])
         /\ TimelineParts[2 * k - 1][1] = ModelEntry(log[2 * k - 1], log[2 * k])
         /\ k < m =>
              /\ PartsOf[2 * k - 1][2].kind = "tool" /\ PartsOf[2 * k - 1][2].request = log[2 * k + 1]
              /\ PartsOf[2 * k - 1][2].call = <<log[2 * k][2], 1>>
              /\ TimelineParts[2 * k - 1][2].step.kind = "tool"
              /\ TimelineParts[2 * k - 1][2].step.call = <<log[2 * k][2], 1>>
              /\ TimelineParts[2 * k - 1][2].eventId = log[2 * k + 1]
<1>0. PICK n \in Nat : n = Len(log) /\ DOMAIN log = 1 .. n /\ \A j \in 1 .. n : log[j] \in EventIds
  BY ReadFacts
<1>1. n = 2 * m /\ \A j \in 1 .. m :
          /\ <<t, j>> \in Exchanges
          /\ log[2 * j - 1] = Outbound(<<t, j>>) /\ log[2 * j] = Inbound(<<t, j>>)
          /\ Len(CallsOf(<<t, j>>)) = IF j < m THEN 1 ELSE 0
  BY <1>0, FinishedTable
<1>2. PICK i \in 1 .. n, r \in 1 .. n : i = 2 * k - 1 /\ r = 2 * k /\ r = i + 1 /\ r > 1 /\ r - 1 = i
  <2>1. 2 * k - 1 \in 1 .. n /\ 2 * k \in 1 .. n /\ 2 * k = (2 * k - 1) + 1 /\ 2 * k > 1
    BY <1>1
  <2> QED BY <2>1
<1>3. PICK x \in Exchanges : x = <<t, k>>
  BY <1>1
<1>4. /\ log[i] = Outbound(x) /\ log[i][1] = "outbound"
      /\ log[r] = Inbound(x) /\ log[r][1] = "inbound" /\ log[r][2] = x
      /\ i \in DOMAIN log /\ r \in DOMAIN log
  BY <1>0, <1>1, <1>2, <1>3 DEF Inbound, Outbound
<1>5. /\ PartsOf[r] = << >>
      /\ PartsOf[i] = << ModelStep(log[i], log[r]) >> \o ToolSteps(GetSessionEvents, r)
  <2>1. PartsOf[r] = StepsAt(GetSessionEvents, r) /\ PartsOf[i] = StepsAt(GetSessionEvents, i)
    BY <1>0, ReviewStepsFacts
  <2> QED BY <1>2, <1>4, <2>1, StepsAtFacts
<1>6. /\ TimelineParts[r] = << >>
      /\ TimelineParts[i] = << ModelEntry(log[i], log[r]) >> \o ToolEntries(r)
  <2>1. TimelineParts[r] = TimelineAt(r) /\ TimelineParts[i] = TimelineAt(i)
    BY <1>0, TimelineFacts
  <2>2. TimelineAt(r) = << >>
    BY <1>2, <1>4 DEF TimelineAt
  <2>3. TimelineAt(i) = << ModelEntry(log[i], log[r]) >> \o ToolEntries(r)
    BY <1>2, <1>4 DEF TimelineAt
  <2> QED BY <2>1, <2>2, <2>3
<1>7. PICK calls \in Seq(Calls) : calls = CallsOf(x) /\ \A c \in DOMAIN calls : calls[c].id = <<x, c>>
  BY CallsOfFacts
<1>8. PICK l \in {0, 1} : l = Len(calls) /\ l = IF k < m THEN 1 ELSE 0
  BY <1>1, <1>3, <1>7
<1>9. PICK s \in Seq(Step) :
        /\ s = ToolSteps(GetSessionEvents, r)
        /\ s = [c \in 1 .. l |-> ToolStepAt(r, c, ResultOf(ResultsAt(r + 1), calls[c]))]
  BY <1>4, <1>7, <1>8, ToolStepsFacts
<1>10. PICK e \in Seq(Entry) : e = ToolEntries(r) /\ e = [c \in 1 .. l |-> ToolEntry(r, c)]
  BY <1>4, <1>7, <1>8, EntryTypes DEF ToolEntries
<1>11. Len(s) = l /\ Len(e) = l
  BY <1>9, <1>10
<1>12. PICK a \in Step : a = ModelStep(log[i], log[r])
  BY <1>0 DEF ModelStep, Step
<1>13. PICK b \in Entry : b = ModelEntry(log[i], log[r])
  BY <1>0, EntryTypes
<1>14. PICK S, T : S = PartsOf[i] /\ T = TimelineParts[i]
  OBVIOUS
<1>15. /\ S = << a >> \o s /\ Len(S) = l + 1 /\ S[1] = a /\ \A j \in 1 .. l : S[j + 1] = s[j]
       /\ T = << b >> \o e /\ Len(T) = l + 1 /\ T[1] = b /\ \A j \in 1 .. l : T[j + 1] = e[j]
  <2>1. S = << a >> \o s /\ T = << b >> \o e
    BY <1>5, <1>6, <1>9, <1>10, <1>12, <1>13, <1>14
  <2> QED BY <1>11, <2>1, ConsFacts
<1>16. ASSUME k < m
       PROVE  /\ S[2].kind = "tool" /\ S[2].request = log[r + 1] /\ S[2].call = <<x, 1>>
              /\ T[2].step.kind = "tool" /\ T[2].step.call = <<x, 1>> /\ T[2].eventId = log[r + 1]
  <2>1. l = 1 /\ 1 \in 1 .. l /\ 1 + 1 = 2
    BY <1>8, <1>16
  <2>2. S[2] = s[1] /\ T[2] = e[1]
    BY <1>15, <2>1
  <2>3. s[1] = ToolStepAt(r, 1, ResultOf(ResultsAt(r + 1), calls[1])) /\ e[1] = ToolEntry(r, 1)
    BY <1>9, <1>10, <2>1
  <2>4. k + 1 \in 1 .. m /\ 2 * (k + 1) - 1 = r + 1 /\ r + 1 \in 1 .. n
    BY <1>1, <1>2, <1>16
  <2>5. log[r + 1] = Outbound(<<t, k + 1>>)
    BY <1>1, <2>4
  <2>6. log[r + 1][1] = "outbound" /\ r + 1 \in DOMAIN log /\ log[r + 1] # Null
    <3>1. (Outbound(<<t, k + 1>>))[1] = "outbound"
      BY DEF Outbound
    <3>2. log[r + 1] \in EventIds
      BY <1>0, <2>4
    <3> QED BY <1>0, <2>4, <2>5, <3>1, <3>2, IdAssumption
  <2>7. LogAt(r + 1) = log[r + 1] /\ NextRequest(r) = log[r + 1]
    BY <2>6 DEF LogAt, NextRequest
  <2>8. \A w : /\ ToolStepAt(r, 1, w).kind = "tool" /\ ToolStepAt(r, 1, w).request = log[r + 1]
               /\ ToolStepAt(r, 1, w).call = <<x, 1>>
    BY <1>4, <2>7 DEF ToolStepAt, ToolStep
  <2>9. /\ ToolEntry(r, 1).step.kind = "tool" /\ ToolEntry(r, 1).step.call = <<x, 1>>
        /\ ToolEntry(r, 1).eventId = log[r + 1]
    BY <1>4, <2>6, <2>7 DEF ToolEntry, ToolStep, Or
  <2> QED BY <2>2, <2>3, <2>8, <2>9
<1> QED BY <1>2, <1>4, <1>5, <1>6, <1>8, <1>12, <1>13, <1>14, <1>15, <1>16

\* Both lists of a finished conversation: step i has the event at position i + 1,
\* and a tool step stands behind the step of the model.
LEMMA FinishedLists ==
  ASSUME TrajectoryTypeOK, NEW t \in Threads, Finished(t), NEW l, l = Len(ReviewSteps)
  PROVE  /\ l \in Nat /\ Len(Timeline) = l /\ Len(log) = l + 1
         /\ ReviewSteps \in Seq(Step) /\ Timeline \in Seq(Entry)
         /\ \A i \in 1 .. l :
              /\ PrimaryStepEventId(ReviewSteps[i]) = log[i + 1] /\ Timeline[i].eventId = log[i + 1]
              /\ Timeline[i].step.kind = ReviewSteps[i].kind
              /\ Timeline[i].step.call = ReviewSteps[i].call
         /\ \A i \in 1 .. l - 1 : ReviewSteps[i + 1].kind = "tool" => ReviewSteps[i].kind = "model"
<1>1. PICK m \in Nat : m = asked[t]
  BY TrajectoryAssumption DEF TrajectoryTypeOK
<1>2. m > 0 /\ Len(log) = 2 * m
  BY <1>1, FinishedTable
<1>3. PICK f, g : f = PartsOf /\ g = TimelineParts
  OBVIOUS
<1>4. PICK R \in Seq(Step) : R = ReviewSteps /\ R = Flat(f, 2 * m)
  BY <1>2, <1>3, ReviewStepsFacts
<1>5. PICK T \in Seq(Entry) : T = Timeline /\ T = Flat(g, 2 * m)
  BY <1>2, <1>3, TimelineFacts
<1>6. Alternates(Step, f, m)
  <2>1. \A i \in 1 .. 2 * m : f[i] \in Seq(Step)
    BY <1>2, <1>3, ReviewStepsFacts
  <2>2. \A k \in 1 .. m : Len(f[2 * k - 1]) = (IF k < m THEN 2 ELSE 1) /\ f[2 * k] = << >>
    BY <1>1, <1>3, FinishedParts
  <2> QED BY <2>1, <2>2 DEF Alternates
<1>7. Alternates(Entry, g, m)
  <2>1. \A i \in 1 .. 2 * m : g[i] \in Seq(Entry)
    BY <1>2, <1>3, TimelineFacts
  <2>2. \A k \in 1 .. m : Len(g[2 * k - 1]) = (IF k < m THEN 2 ELSE 1) /\ g[2 * k] = << >>
    BY <1>1, <1>3, FinishedParts
  <2> QED BY <2>1, <2>2 DEF Alternates
<1>8. /\ Len(R) = 2 * m - 1
      /\ \A k \in 1 .. m : /\ R[2 * k - 1] = f[2 * k - 1][1]
                           /\ k < m => R[2 * k] = f[2 * k - 1][2]
  <2>1. Lists(Flat(f, 2 * m), f, m)
    BY <1>2, <1>6, AlternatingList
  <2> QED BY <1>4, <2>1 DEF Lists
<1>9. /\ Len(T) = 2 * m - 1
      /\ \A k \in 1 .. m : /\ T[2 * k - 1] = g[2 * k - 1][1]
                           /\ k < m => T[2 * k] = g[2 * k - 1][2]
  <2>1. Lists(Flat(g, 2 * m), g, m)
    BY <1>2, <1>7, AlternatingList
  <2> QED BY <1>5, <2>1 DEF Lists
<1>10. ASSUME NEW k \in 1 .. m
       PROVE  /\ R[2 * k - 1].kind = "model" /\ T[2 * k - 1].step.kind = "model"
              /\ R[2 * k - 1].call = T[2 * k - 1].step.call
              /\ PrimaryStepEventId(R[2 * k - 1]) = log[2 * k] /\ T[2 * k - 1].eventId = log[2 * k]
              /\ k < m =>
                   /\ R[2 * k].kind = "tool" /\ T[2 * k].step.kind = "tool"
                   /\ R[2 * k].call = T[2 * k].step.call
                   /\ PrimaryStepEventId(R[2 * k]) = log[2 * k + 1] /\ T[2 * k].eventId = log[2 * k + 1]
  <2>1. /\ f[2 * k - 1][1] = ModelStep(log[2 * k - 1], log[2 * k])
        /\ g[2 * k - 1][1] = ModelEntry(log[2 * k - 1], log[2 * k])
        /\ k < m =>
              /\ f[2 * k - 1][2].kind = "tool" /\ f[2 * k - 1][2].request = log[2 * k + 1]
              /\ f[2 * k - 1][2].call = <<log[2 * k][2], 1>>
              /\ g[2 * k - 1][2].step.kind = "tool"
              /\ g[2 * k - 1][2].step.call = <<log[2 * k][2], 1>>
              /\ g[2 * k - 1][2].eventId = log[2 * k + 1]
    BY <1>1, <1>3, FinishedParts
  <2>2. R[2 * k - 1] = ModelStep(log[2 * k - 1], log[2 * k])
        /\ T[2 * k - 1] = ModelEntry(log[2 * k - 1], log[2 * k])
    BY <1>8, <1>9, <2>1
  <2>3. log[2 * k] # Null
    <3>1. 2 * k \in 1 .. Len(log)
      BY <1>2
    <3>2. log[2 * k] \in EventIds
      BY <3>1, ReadFacts
    <3> QED BY <3>2, IdAssumption
  <2>4. /\ R[2 * k - 1].kind = "model" /\ T[2 * k - 1].step.kind = "model"
        /\ R[2 * k - 1].call = T[2 * k - 1].step.call
        /\ PrimaryStepEventId(R[2 * k - 1]) = log[2 * k] /\ T[2 * k - 1].eventId = log[2 * k]
    BY <2>2, <2>3 DEF ModelStep, ModelEntry, PrimaryStepEventId, Or
  <2>5. ASSUME k < m
        PROVE  /\ R[2 * k].kind = "tool" /\ T[2 * k].step.kind = "tool"
               /\ R[2 * k].call = T[2 * k].step.call
               /\ PrimaryStepEventId(R[2 * k]) = log[2 * k + 1] /\ T[2 * k].eventId = log[2 * k + 1]
    <3>1. R[2 * k] = f[2 * k - 1][2] /\ T[2 * k] = g[2 * k - 1][2]
      BY <1>8, <1>9, <2>5
    <3> QED BY <2>1, <2>5, <3>1 DEF PrimaryStepEventId
  <2> QED BY <2>4, <2>5
<1>11. \A i \in 1 .. 2 * m - 1 : \E k \in 1 .. m : i = 2 * k - 1 \/ (k < m /\ i = 2 * k)
  <2> SUFFICES ASSUME NEW i \in 1 .. 2 * m - 1
               PROVE  \E k \in 1 .. m : i = 2 * k - 1 \/ (k < m /\ i = 2 * k)
    OBVIOUS
  <2>1. PICK k \in Nat : i = 2 * k - 1 \/ i = 2 * k
    <3>1. /\ (i + 1) \div 2 \in Nat
          /\ i = 2 * ((i + 1) \div 2) - 1 \/ i = 2 * ((i + 1) \div 2)
      OBVIOUS
    <3> QED BY <3>1
  <2>2. k \in 1 .. m /\ (i = 2 * k => k < m)
    BY <1>2, <2>1
  <2> QED BY <2>1, <2>2
<1>12. ASSUME NEW i \in 1 .. 2 * m - 1
       PROVE  /\ PrimaryStepEventId(R[i]) = log[i + 1] /\ T[i].eventId = log[i + 1]
              /\ T[i].step.kind = R[i].kind /\ T[i].step.call = R[i].call
              /\ R[i].kind = "tool" => \E k \in 1 .. m : i = 2 * k
  <2>1. PICK k \in 1 .. m : i = 2 * k - 1 \/ (k < m /\ i = 2 * k)
    BY <1>11
  <2>2. CASE i = 2 * k - 1
    <3>1. i + 1 = 2 * k
      BY <2>2
    <3> QED BY <1>10, <2>2, <3>1
  <2>3. CASE k < m /\ i = 2 * k
    BY <1>10, <2>3
  <2> QED BY <2>1, <2>2, <2>3
<1>13. ASSUME NEW i \in 1 .. 2 * m - 2, R[i + 1].kind = "tool" PROVE R[i].kind = "model"
  <2>1. i + 1 \in 1 .. 2 * m - 1
    BY <1>2
  <2>2. PICK k \in 1 .. m : i + 1 = 2 * k
    BY <1>12, <1>13, <2>1
  <2>3. i = 2 * k - 1
    BY <2>2
  <2> QED BY <1>10, <2>3
<1>14. l = 2 * m - 1 /\ l \in Nat /\ l + 1 = 2 * m /\ l - 1 = 2 * m - 2
  BY <1>2, <1>4, <1>8
<1> QED BY <1>2, <1>4, <1>5, <1>9, <1>12, <1>13, <1>14

\* A tool step stands behind a model step: no answer calls two tools.
OneToolEach(s) == \A i \in 1 .. Len(s) - 1 : s[i + 1].kind = "tool" => s[i].kind = "model"

\* No step, or a step of the model.
NoneOrModel(s, i) == i = 0 \/ (i \in 1 .. Len(s) /\ s[i].kind = "model")

\* The step that requested the first tool is a model step.
LEMMA FirstToolRequestIsModel ==
  ASSUME NEW s \in Seq(Step), OneToolEach(s)
  PROVE  FirstToolRequest(s) \in Int /\ NoneOrModel(s, FirstToolRequest(s))
<1> DEFINE T == {i \in 1 .. Len(s) - 1 : s[i + 1].kind = "tool"}
<1>1. PICK n \in Nat : n = Len(s)
  OBVIOUS
<1>2. CASE n = 0
  <2>1. 1 .. n - 1 = {} /\ 1 .. 0 = {}
    BY <1>2
  <2>2. PICK r : r = [i \in 1 .. 0 |-> s[i + 1]]
    OBVIOUS
  <2>3. Len(r) = 0
    BY <2>2
  <2>4. SelectInSeq(r, LAMBDA x : x.kind = "tool") = 0
    BY <2>1, <2>3 DEF SelectInSeq
  <2>5. FirstToolRequest(s) = 0
    BY <1>1, <2>1, <2>2, <2>4 DEF FirstToolRequest
  <2> QED BY <2>5 DEF NoneOrModel
<1>3. CASE n # 0
  <2>0. PICK m \in Nat : m = n - 1
    BY <1>3
  <2>1. PICK r : r = [i \in 1 .. m |-> s[i + 1]]
    OBVIOUS
  <2>2. Len(r) = m /\ \A i \in 1 .. m : r[i] = s[i + 1]
    BY <2>0, <2>1
  <2>3. {i \in 1 .. Len(r) : r[i].kind = "tool"} = T
    BY <1>1, <2>0, <2>2
  <2>4. SelectInSeq(r, LAMBDA x : x.kind = "tool") = IF T # {} THEN Min(T) ELSE 0
    <3> HIDE DEF T
    <3> QED BY <2>3 DEF SelectInSeq
  <2>5. FirstToolRequest(s) = IF T # {} THEN Min(T) ELSE 0
    <3> HIDE DEF T
    <3> QED BY <1>1, <2>0, <2>1, <2>4 DEF FirstToolRequest
  <2>6. T \in SUBSET (1 .. m)
    BY <1>1, <2>0
  <2>7. \A i \in T : i \in Int /\ i \in 1 .. Len(s) /\ s[i].kind = "model"
    BY <1>1, <2>0 DEF OneToolEach
  <2> HIDE DEF T
  <2>8. T # {} => Min(T) \in T
    BY <2>6, MinOfNumbers
  <2> QED BY <2>5, <2>7, <2>8 DEF NoneOrModel
<1> QED BY <1>2, <1>3

\* So is the last model step.
LEMMA LastModelStepIsModel ==
  ASSUME NEW s \in Seq(Step)
  PROVE  LastModelStep(s) \in Int /\ NoneOrModel(s, LastModelStep(s))
<1> DEFINE T == {i \in 1 .. Len(s) : s[i].kind = "model"}
<1>1. PICK n \in Nat : n = Len(s)
  OBVIOUS
<1>2. LastModelStep(s) = IF T # {} THEN Max(T) ELSE 0
  BY DEF LastModelStep, SelectLastInSeq
<1>3. T \in SUBSET (1 .. n) /\ \A i \in T : i \in Int /\ i \in 1 .. Len(s) /\ s[i].kind = "model"
  BY <1>1
<1> HIDE DEF T
<1>4. T # {} => Max(T) \in T
  BY <1>3, MaxOfNumbers
<1>5. PICK x : x = LastModelStep(s)
  OBVIOUS
<1>6. x = 0 \/ x \in T
  BY <1>2, <1>4, <1>5
<1>7. x \in Int /\ NoneOrModel(s, x)
  <2>1. CASE x = 0
    BY <2>1 DEF NoneOrModel
  <2>2. CASE x \in T
    <3>1. x \in Int /\ x \in 1 .. Len(s) /\ s[x].kind = "model"
      BY <1>3, <2>2, Zenon
    <3> QED BY <3>1, Zenon DEF NoneOrModel
  <2> QED BY <1>6, <2>1, <2>2
<1> QED BY <1>5, <1>7

\* The failure step is none, the one that the assistant named, or a model step.
LEMMA FailureStepIndexFacts ==
  ASSUME NEW s \in Seq(Step), OneToolEach(s), NEW a \in AssistAnswers(Len(s)),
         NEW i, i = FailureStepIndex(a, s)
  PROVE  /\ i \in 0 .. Len(s)
         /\ i \notin {0, a.index} => s[i].kind = "model"
<1>1. PICK tool \in Int : tool = FirstToolRequest(s) /\ NoneOrModel(s, tool)
  BY FirstToolRequestIsModel
<1>2. PICK last \in Int : last = LastModelStep(s) /\ NoneOrModel(s, last)
  BY LastModelStepIsModel
<1>3. PICK b : b = NormalizePrimeToolReview(a, s)
  OBVIOUS
<1>4. PICK n \in Nat : n = Len(s) /\ DOMAIN s = 1 .. n
  OBVIOUS
<1>5. b.index = a.index \/ b.index = tool
  <2>1. CASE b = a
    BY <2>1
  <2>2. CASE b # a
    <3>1. b = [a EXCEPT !.label = "needs_review", !.failure = "bad_tool_use", !.index = tool]
      BY <1>1, <1>3, <2>2 DEF NormalizePrimeToolReview
    <3> QED BY <3>1 DEF AssistAnswers
  <2> QED BY <2>1, <2>2
<1>6. i = IF b.index \in 1 .. n THEN b.index ELSE FallbackFailureStepIndex(b, s)
  BY <1>3, <1>4 DEF FailureStepIndex
<1>7. FallbackFailureStepIndex(b, s) \in {0, tool, last}
  BY <1>1, <1>2 DEF FallbackFailureStepIndex
<1>8. (i \in 1 .. n /\ i = a.index) \/ i \in {0, tool, last}
  BY <1>5, <1>6, <1>7
<1> QED BY <1>1, <1>2, <1>4, <1>8 DEF NoneOrModel

\* A suggestion marks the step with its index and no other one.
LEMMA SuggestionMarks ==
  ASSUME TrajectoryTypeOK, NEW t \in Threads, Finished(t), NEW i \in 0 .. Len(ReviewSteps)
  PROVE  Marked(Timeline, SuggestedEventId(ReviewSteps, Timeline, i)) = {i} \ {0}
<1>1. PICK l \in Nat : l = Len(ReviewSteps) /\ Len(Timeline) = l /\ Len(log) = l + 1
  BY FinishedLists
<1>2. PICK R \in Seq(Step), T \in Seq(Entry) : R = ReviewSteps /\ T = Timeline
  BY <1>1, FinishedLists
<1>3. DOMAIN R = 1 .. l /\ DOMAIN T = 1 .. l
  BY <1>1, <1>2
<1>4. \A j \in 1 .. l : PrimaryStepEventId(R[j]) = log[j + 1] /\ T[j].eventId = log[j + 1]
  BY <1>1, <1>2, FinishedLists
<1>5. \A j \in 1 .. l : j + 1 \in DOMAIN log /\ log[j + 1] # Null
  <2>1. /\ Len(log) \in Nat /\ DOMAIN log = 1 .. Len(log)
        /\ \A j \in DOMAIN log : log[j] \in EventIds
    BY ReadFacts
  <2> QED BY <1>1, <2>1, IdAssumption
<1>6. \A j, k \in 1 .. l : log[j + 1] = log[k + 1] => j = k
  <2>1. \A j, k \in DOMAIN log : log[j] = log[k] => j = k
    BY DEF TrajectoryTypeOK
  <2> SUFFICES ASSUME NEW j \in 1 .. l, NEW k \in 1 .. l, log[j + 1] = log[k + 1] PROVE j = k
    OBVIOUS
  <2>2. j + 1 = k + 1
    BY <1>5, <2>1
  <2> QED BY <2>2
<1>7. CASE i = 0
  <2>1. i \notin 1 .. l
    BY <1>7
  <2>2. SuggestedEventId(R, T, i) = Null
    BY <1>3, <2>1 DEF SuggestedEventId, Or
  <2>3. Marked(T, Null) = {}
    BY DEF Marked
  <2> QED BY <1>2, <1>7, <2>2, <2>3
<1>8. CASE i # 0
  <2>1. i \in 1 .. l
    BY <1>1, <1>8
  <2>2. SuggestedEventId(R, T, i) = log[i + 1]
    BY <1>3, <1>4, <1>5, <2>1 DEF SuggestedEventId, Or
  <2>3. Marked(T, log[i + 1]) = {j \in 1 .. l : T[j].eventId = log[i + 1]}
    BY <1>3, <1>5, <2>1 DEF Marked
  <2>4. {j \in 1 .. l : T[j].eventId = log[i + 1]} = {i}
    BY <1>4, <1>6, <2>1
  <2> QED BY <1>2, <1>8, <2>2, <2>3, <2>4
<1> QED BY <1>7, <1>8

\* SuggestionMarksItsStep: assist_review numbers the steps of the export, the
\* dashboard finds the step by its event in a list of its own.
THEOREM SuggestionAlwaysMarks == TrajectorySpec => []SuggestionMarksItsStep
<1>1. ASSUME TrajectoryTypeOK PROVE SuggestionMarksItsStep
  <2> SUFFICES ASSUME NEW t \in Threads, Finished(t), NEW a \in AssistAnswers(Len(ReviewSteps)),
                      NEW i, i = FailureStepIndex(a, ReviewSteps)
               PROVE  /\ Marked(Timeline, SuggestedEventId(ReviewSteps, Timeline, i)) = {i} \ {0}
                      /\ i # 0 => /\ Timeline[i].step.kind = ReviewSteps[i].kind
                                  /\ Timeline[i].step.call = ReviewSteps[i].call
                      /\ i \notin {0, a.index} => ReviewSteps[i].kind = "model"
    BY DEF SuggestionMarksItsStep, ReviewSteps, Timeline
  <2>1. PICK l \in Nat : l = Len(ReviewSteps)
    BY <1>1, FinishedLists
  <2>2. /\ ReviewSteps \in Seq(Step)
        /\ \A j \in 1 .. l : /\ Timeline[j].step.kind = ReviewSteps[j].kind
                             /\ Timeline[j].step.call = ReviewSteps[j].call
        /\ \A j \in 1 .. l - 1 :
              ReviewSteps[j + 1].kind = "tool" => ReviewSteps[j].kind = "model"
    BY <1>1, <2>1, FinishedLists
  <2>3. OneToolEach(ReviewSteps)
    BY <2>1, <2>2 DEF OneToolEach
  <2>4. i \in 0 .. l /\ (i \notin {0, a.index} => ReviewSteps[i].kind = "model")
    BY <2>1, <2>2, <2>3, FailureStepIndexFacts
  <2>5. Marked(Timeline, SuggestedEventId(ReviewSteps, Timeline, i)) = {i} \ {0}
    BY <1>1, <2>1, <2>4, SuggestionMarks
  <2> QED BY <2>2, <2>4, <2>5
<1> QED BY <1>1, TrajectoryTypeCorrect, PTL
=============================================================================
