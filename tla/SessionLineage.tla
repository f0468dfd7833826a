--------------------------- MODULE SessionLineage ---------------------------
(***************************************************************************)
(* Sessions and the lineage hash chain: the tasks log_request_event and    *)
(* log_response_event against the SessionTracker they share.               *)
(* Modelled from crates/agentland-proxy/src/proxy/interceptor.rs and       *)
(* crates/agentland-proxy/src/events.rs.                                   *)
(*                                                                         *)
(* Each task builds one event. It takes the tracker's lock twice, once to  *)
(* read the session and the previous hash and once to write its own hash,  *)
(* and any number of tasks run between the two. SHA-256 is taken as free   *)
(* of collisions, so a hash is named by what went into it: an event id is  *)
(* hashed at most once as a genesis and at most once as an event. The      *)
(* tracker is memory only, so a restart is Init again, with other events.  *)
(***************************************************************************)
EXTENDS Integers, FiniteSets

CONSTANTS
    Events,       \* the events that log tasks may build
    Agents,       \* agent identifiers
    AgentOf,      \* the agent_id of the request an event is about
    IdleTimeout,  \* session_idle_timeout, 30 minutes in the code
    MaxTime       \* bound of the model: the last instant of the clock

ASSUME LineageAssumption ==
    /\ AgentOf \in [Events -> Agents]
    /\ "none" \notin Events
    /\ IdleTimeout \in Nat
    /\ MaxTime \in Nat

VARIABLES
    now,          \* the clock, read as Instant::now and as Utc::now
    sessionId,    \* SessionState.session_id of each entry of the sessions map
    lastHash,     \* SessionState.last_lineage_hash and .last_event_id
    lastSeen,     \* SessionState.last_seen
    task,         \* where the task that builds an event stands
    session,      \* the session_id the task read
    prev,         \* the previous hash the task read
    stamp,        \* AgentEvent.timestamp
    openedAt,     \* history: when the event opened its session
    seen          \* history: events of the agent recorded before the task read

tracker == <<sessionId, lastHash, lastSeen>>
vars == <<now, tracker, task, session, prev, stamp, openedAt, seen>>

-----------------------------------------------------------------------------
(* A session id is a fresh UUID, named here by the event that opened it.   *)

NoSession == "none"     \* the map has no entry, the task has read none
NoHash == <<"none">>

\* compute_lineage_hash("GENESIS", e, agent, 0)
Genesis(e) == <<"genesis", e>>
\* compute_lineage_hash(prev[e], e, agent, time)
Lineage(e) == <<"event", e>>

Hashes == {Genesis(e) : e \in Events} \cup {Lineage(e) : e \in Events}

Linked == {e \in Events : task[e] # "idle"}
RecordedOf(a) == {e \in Events : AgentOf[e] = a /\ task[e] = "recorded"}

TypeOK ==
    /\ now \in 0 .. MaxTime
    /\ sessionId \in [Agents -> Events \cup {NoSession}]
    /\ lastHash \in [Agents -> Hashes \cup {NoHash}]
    /\ lastSeen \in [Agents -> 0 .. MaxTime]
    /\ task \in [Events -> {"idle", "linked", "built", "recorded"}]
    /\ session \in [Events -> Events \cup {NoSession}]
    /\ prev \in [Events -> Hashes \cup {NoHash}]
    /\ stamp \in [Events -> 0 .. MaxTime]
    /\ openedAt \in [Events -> 0 .. MaxTime]
    /\ seen \in [Events -> SUBSET Events]

Init ==
    /\ now = 0
    /\ sessionId = [a \in Agents |-> NoSession]
    /\ lastHash = [a \in Agents |-> NoHash]
    /\ lastSeen = [a \in Agents |-> 0]
    /\ task = [e \in Events |-> "idle"]
    /\ session = [e \in Events |-> NoSession]
    /\ prev = [e \in Events |-> NoHash]
    /\ stamp = [e \in Events |-> 0]
    /\ openedAt = [e \in Events |-> 0]
    /\ seen = [e \in Events |-> {}]

-----------------------------------------------------------------------------
(* get_or_create, under the first lock. An entry that is idle for longer   *)
(* than the timeout is removed and replaced.                               *)

HasLiveSession(a) ==
    /\ sessionId[a] # NoSession
    /\ now - lastSeen[a] =< IdleTimeout

\* The entry is read as it is: last_seen is not refreshed.
JoinSession(e) ==
    /\ HasLiveSession(AgentOf[e])
    /\ session' = [session EXCEPT ![e] = sessionId[AgentOf[e]]]
    /\ prev' = [prev EXCEPT ![e] = lastHash[AgentOf[e]]]
    /\ UNCHANGED <<tracker, openedAt>>

\* Faulty variant: the lock is not held from the lookup to the insert, so a
\* task that saw no entry replaces the one another task has just made.
OpenSessionUnlocked(e) ==
    /\ sessionId' = [sessionId EXCEPT ![AgentOf[e]] = e]
    /\ lastHash' = [lastHash EXCEPT ![AgentOf[e]] = Genesis(e)]
    /\ lastSeen' = [lastSeen EXCEPT ![AgentOf[e]] = now]
    /\ openedAt' = [openedAt EXCEPT ![e] = now]
    /\ session' = [session EXCEPT ![e] = e]
    /\ prev' = [prev EXCEPT ![e] = Genesis(e)]

\* Faulty variant: the expired entry keeps its last hash for the new session.
OpenSessionKeepsHash(e) ==
    LET a == AgentOf[e]
        root == IF sessionId[a] = NoSession THEN Genesis(e) ELSE lastHash[a]
    IN  /\ ~HasLiveSession(a)
        /\ sessionId' = [sessionId EXCEPT ![a] = e]
        /\ lastHash' = [lastHash EXCEPT ![a] = root]
        /\ lastSeen' = [lastSeen EXCEPT ![a] = now]
        /\ openedAt' = [openedAt EXCEPT ![e] = now]
        /\ session' = [session EXCEPT ![e] = e]
        /\ prev' = [prev EXCEPT ![e] = root]

\* No live entry: a new one, with a fresh id and the event's own genesis.
OpenSession(e) ==
    /\ ~HasLiveSession(AgentOf[e])
    /\ sessionId' = [sessionId EXCEPT ![AgentOf[e]] = e]
    /\ lastHash' = [lastHash EXCEPT ![AgentOf[e]] = Genesis(e)]
    /\ lastSeen' = [lastSeen EXCEPT ![AgentOf[e]] = now]
    /\ openedAt' = [openedAt EXCEPT ![e] = now]
    /\ session' = [session EXCEPT ![e] = e]
    /\ prev' = [prev EXCEPT ![e] = Genesis(e)]

GetOrCreate(e) ==
    /\ task[e] = "idle"
    /\ JoinSession(e) \/ OpenSession(e)
    /\ task' = [task EXCEPT ![e] = "linked"]
    /\ seen' = [seen EXCEPT ![e] = RecordedOf(AgentOf[e])]
    /\ UNCHANGED <<now, stamp>>

-----------------------------------------------------------------------------
(* Between the locks, and the second lock                                  *)

\* AgentEvent::new reads the clock for the timestamp of the event; parsing and
\* tagging the event follow.
BuildEvent(e) ==
    /\ task[e] = "linked"
    /\ task' = [task EXCEPT ![e] = "built"]
    /\ stamp' = [stamp EXCEPT ![e] = now]
    /\ UNCHANGED <<now, tracker, session, prev, openedAt, seen>>

\* Faulty variant: any task may record the hash of this agent's other events.
RecordEventWrongKey(e) ==
    /\ task[e] = "built"
    /\ \E a \in Agents :
          /\ sessionId[a] # NoSession
          /\ lastHash' = [lastHash EXCEPT ![a] = Lineage(e)]
          /\ lastSeen' = [lastSeen EXCEPT ![a] = now]
    /\ task' = [task EXCEPT ![e] = "recorded"]
    /\ UNCHANGED <<now, sessionId, session, prev, stamp, openedAt, seen>>

\* Faulty variant: the hash the task read is written back.
RecordEventOldHash(e) ==
    /\ task[e] = "built"
    /\ lastHash' = [lastHash EXCEPT ![AgentOf[e]] = prev[e]]
    /\ lastSeen' = [lastSeen EXCEPT ![AgentOf[e]] = now]
    /\ task' = [task EXCEPT ![e] = "recorded"]
    /\ UNCHANGED <<now, sessionId, session, prev, stamp, openedAt, seen>>

\* Faulty variant: the hash is recorded before the event is stamped.
RecordEventBeforeStamp(e) ==
    /\ task[e] \in {"linked", "built"}
    /\ lastHash' = [lastHash EXCEPT ![AgentOf[e]] = Lineage(e)]
    /\ lastSeen' = [lastSeen EXCEPT ![AgentOf[e]] = now]
    /\ task' = [task EXCEPT ![e] = IF task[e] = "linked" THEN "linked" ELSE "recorded"]
    /\ UNCHANGED <<now, sessionId, session, prev, stamp, openedAt, seen>>

\* record_event: whatever entry the agent has by now takes the hash, also when
\* it is the entry of a later session than the event's. The event is then handed
\* to EventSender::send; EventPipeline goes on from there.
RecordEvent(e) ==
    /\ task[e] = "built"
    /\ sessionId[AgentOf[e]] # NoSession
    /\ lastHash' = [lastHash EXCEPT ![AgentOf[e]] = Lineage(e)]
    /\ lastSeen' = [lastSeen EXCEPT ![AgentOf[e]] = now]
    /\ task' = [task EXCEPT ![e] = "recorded"]
    /\ UNCHANGED <<now, sessionId, session, prev, stamp, openedAt, seen>>

Tick ==
    /\ now < MaxTime
    /\ now' = now + 1
    /\ UNCHANGED <<tracker, task, session, prev, stamp, openedAt, seen>>

Next ==
    \/ \E e \in Events :
          GetOrCreate(e) \/ BuildEvent(e) \/ RecordEvent(e)
    \/ Tick

Spec == Init /\ [][Next]_vars

-----------------------------------------------------------------------------
(* Properties                                                              *)

\* Following the hashes back from an event never leaves its agent and always
\* gets closer to the start: a predecessor had been recorded when its successor
\* read the tracker, and had seen less. So the chain has no cycle, and it ends
\* at a genesis.
ChainIsWellFounded ==
    \A e \in Linked, f \in Events : prev[e] = Lineage(f) =>
        /\ AgentOf[f] = AgentOf[e]
        /\ f \in seen[e]
        /\ seen[f] \subseteq seen[e] \ {f}

\* Each session has one genesis, that of the event which opened it, and only
\* events of the session hang on it.
GenesisBelongsToSession ==
    \A e \in Linked, f \in Events :
        prev[e] = Genesis(f) => session[e] = f /\ session[f] = f

\* The chain forks only where tasks of one agent overlap: when two events have
\* the same predecessor, each read the tracker before the other was recorded.
ForkOnlyUnderOverlap ==
    \A e, f \in Linked :
        e # f /\ prev[e] = prev[f] => e \notin seen[f] /\ f \notin seen[e]

\* A link into another session is the work of one race only: the predecessor
\* was still unrecorded when the session of the event was opened.
ForeignLinkOnlyByRace ==
    \A e \in Linked, f \in Events :
        prev[e] = Lineage(f) /\ session[e] # session[f]
            => f \notin seen[session[e]]

\* Two sessions of an agent never start within one idle timeout of each other,
\* however many tasks find no session at the same time.
SessionsStartApart ==
    \A e, f \in Linked :
        e # f /\ AgentOf[e] = AgentOf[f] /\ session[e] = e /\ session[f] = f
            => \/ openedAt[e] - openedAt[f] > IdleTimeout
               \/ openedAt[f] - openedAt[e] > IdleTimeout

\* Timestamps never decrease along the chain, although they are taken outside
\* the lock (as long as the system clock is not set back).
StampsFollowChain ==
    \A e, f \in Events :
        task[e] \notin {"idle", "linked"} /\ prev[e] = Lineage(f)
            => stamp[f] =< stamp[e]
=============================================================================
