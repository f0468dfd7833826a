---------------------------- MODULE EventPipeline ----------------------------
(***************************************************************************)
(* The path of an audit event from the task that built it to PostgreSQL:   *)
(* EventSender::send, the bounded channel, the background writer with its  *)
(* 100 ms / 100 event batches, the insert transaction, the upsert of the   *)
(* agents of the batch, and the counters published as metrics.             *)
(* Modelled from crates/agentland-proxy/src/events.rs.                     *)
(*                                                                         *)
(* A step is what happens between two points where another task can run.   *)
(* An event is sent at most once: each log task builds one event with a    *)
(* fresh UUIDv7 and ends with the send.                                    *)
(***************************************************************************)
EXTENDS Integers, Sequences, FiniteSets, Functions

CONSTANTS
    Events,       \* the events that the log tasks may ever build
    Agents,       \* agent identifiers
    AgentOf,      \* the agent_id field of an event
    Capacity,     \* EVENT_CHANNEL_CAPACITY, 10_000 in the code
    BatchMax,     \* the batch length that forces a flush, 100 in the code
    MaxRestarts   \* bound of the model: how often the process may restart

ASSUME PipelineAssumption ==
    /\ IsFiniteSet(Events)
    /\ AgentOf \in [Events -> Agents]
    /\ Capacity \in Nat \ {0}
    /\ BatchMax \in Nat \ {0}
    /\ MaxRestarts \in Nat

VARIABLES
    hasPool,    \* the writer was given a pool: the database answered at boot
    caller,     \* where the task that owns an event stands in EventSender::send
    queue,      \* the mpsc channel
    batch,      \* the Vec the writer collects events in
    writer,     \* where run_background_writer stands; it owns the receiver, so
                \* the channel is closed when it is gone
    toUpsert,   \* agents of the batch whose upsert has not been tried yet
    seenAgents, \* the HashSet behind the agents_active gauge
    metrics,    \* EventMetrics and the writer's share of Metrics
    rows,       \* the events table, in commit order
    registry,   \* total_requests of each row of the agents table
    dropped,    \* history: events refused at the channel
    lost,       \* history: accepted events that were never stored
    restarts    \* bound: restarts so far

process == <<hasPool, caller, queue, batch, writer, toUpsert, seenAgents,
             metrics>>
vars == <<process, rows, registry, dropped, lost, restarts>>

-----------------------------------------------------------------------------
(* State                                                                   *)

NoRow == 0                        \* the agents table has no row for the agent

Counters == {"sent", "dropped", "processed", "total", "agentsActive"}

TypeOK ==
    /\ hasPool \in BOOLEAN
    /\ caller \in [Events -> {"idle", "sent", "refused", "returned"}]
    /\ queue \in Seq(Events)
    /\ Len(queue) =< Capacity
    /\ batch \in Seq(Events)
    /\ Len(batch) =< BatchMax
    /\ writer \in {"drain", "flush", "upsert", "gone"}
    /\ toUpsert \in SUBSET Agents
    /\ seenAgents \in SUBSET Agents
    /\ metrics \in [Counters -> Nat]
    /\ rows \in Seq(Events)
    /\ registry \in [Agents -> Nat]
    /\ dropped \in SUBSET Events
    /\ lost \in SUBSET Events
    /\ restarts \in 0 .. MaxRestarts

Init ==
    /\ hasPool \in BOOLEAN
    /\ caller = [e \in Events |-> "idle"]
    /\ queue = <<>>
    /\ batch = <<>>
    /\ writer = "drain"
    /\ toUpsert = {}
    /\ seenAgents = {}
    /\ metrics = [c \in Counters |-> 0]
    /\ rows = <<>>
    /\ registry = [a \in Agents |-> NoRow]
    /\ dropped = {}
    /\ lost = {}
    /\ restarts = 0

AgentsIn(events) == {AgentOf[e] : e \in Range(events)}

\* Once the insert has been answered the batch is settled: what is left of the
\* flush reads it only to upsert the agents, and then clears it.
Unsettled == IF writer = "upsert" THEN <<>> ELSE batch

\* Accepted events that are neither stored nor given up yet, oldest first.
Pending == Unsettled \o queue

-----------------------------------------------------------------------------
(* EventSender::send, called by any number of log tasks                    *)

\* try_send succeeds: the channel is open and has a free slot.
TrySendAccepts(e) ==
    /\ caller[e] = "idle"
    /\ writer # "gone"
    /\ Len(queue) < Capacity
    /\ queue' = Append(queue, e)
    /\ caller' = [caller EXCEPT ![e] = "sent"]
    /\ UNCHANGED <<hasPool, batch, writer, toUpsert, seenAgents, metrics,
                   rows, registry, dropped, lost, restarts>>

\* try_send fails with Full or Closed: the event is gone, the caller goes on.
TrySendRefuses(e) ==
    /\ caller[e] = "idle"
    /\ writer = "gone" \/ Len(queue) = Capacity
    /\ caller' = [caller EXCEPT ![e] = "refused"]
    /\ dropped' = dropped \cup {e}
    /\ UNCHANGED <<hasPool, queue, batch, writer, toUpsert, seenAgents,
                   metrics, rows, registry, lost, restarts>>

\* Faulty variant: a refused event is counted as sent as well.
CountSendAlsoRefused(e) ==
    /\ caller[e] \in {"sent", "refused"}
    /\ metrics' = [metrics EXCEPT !["sent"] = @ + 1]
    /\ caller' = [caller EXCEPT ![e] = "returned"]
    /\ UNCHANGED <<hasPool, queue, batch, writer, toUpsert, seenAgents,
                   rows, registry, dropped, lost, restarts>>

\* The counter is bumped after try_send has returned: the writer may have
\* received, and even stored, the event in between.
CountSend(e) ==
    /\ \/ /\ caller[e] = "sent"
          /\ metrics' = [metrics EXCEPT !["sent"] = @ + 1]
       \/ /\ caller[e] = "refused"
          /\ metrics' = [metrics EXCEPT !["dropped"] = @ + 1]
    /\ caller' = [caller EXCEPT ![e] = "returned"]
    /\ UNCHANGED <<hasPool, queue, batch, writer, toUpsert, seenAgents,
                   rows, registry, dropped, lost, restarts>>

-----------------------------------------------------------------------------
(* run_background_writer and flush_batch                                   *)

\* Faulty variant: the batch may grow by one event too many.
ReceiveOneTooMany ==
    /\ writer = "drain"
    /\ queue # <<>>
    /\ batch' = Append(batch, Head(queue))
    /\ queue' = Tail(queue)
    /\ metrics' = [metrics EXCEPT !["processed"] = @ + 1]
    /\ writer' = IF Len(batch') > BatchMax THEN "flush" ELSE "drain"
    /\ UNCHANGED <<hasPool, caller, toUpsert, seenAgents, rows, registry,
                   dropped, lost, restarts>>

\* Faulty variant: the channel is a stack.
ReceiveNewest ==
    /\ writer = "drain"
    /\ queue # <<>>
    /\ batch' = Append(batch, queue[Len(queue)])
    /\ queue' = SubSeq(queue, 1, Len(queue) - 1)
    /\ metrics' = [metrics EXCEPT !["processed"] = @ + 1]
    /\ writer' = IF Len(batch') >= BatchMax THEN "flush" ELSE "drain"
    /\ UNCHANGED <<hasPool, caller, toUpsert, seenAgents, rows, registry,
                   dropped, lost, restarts>>

\* recv yields an event; a full batch is flushed at once. (recv never yields
\* None: main owns a sender until it returns.)
Receive ==
    /\ writer = "drain"
    /\ queue # <<>>
    /\ batch' = Append(batch, Head(queue))
    /\ queue' = Tail(queue)
    /\ metrics' = [metrics EXCEPT !["processed"] = @ + 1]
    /\ writer' = IF Len(batch') >= BatchMax THEN "flush" ELSE "drain"
    /\ UNCHANGED <<hasPool, caller, toUpsert, seenAgents, rows, registry,
                   dropped, lost, restarts>>

\* Faulty variant: the deadline flushes only a batch that is full.
DeadlineFullBatchOnly ==
    /\ writer = "drain"
    /\ queue = <<>>
    /\ Len(batch) >= BatchMax
    /\ writer' = "flush"
    /\ UNCHANGED <<hasPool, caller, queue, batch, toUpsert, seenAgents,
                   metrics, rows, registry, dropped, lost, restarts>>

\* The 100 ms deadline. The select is biased towards recv, so the deadline is
\* seen only with an empty channel; with an empty batch it changes nothing.
DeadlinePasses ==
    /\ writer = "drain"
    /\ queue = <<>>
    /\ batch # <<>>
    /\ writer' = "flush"
    /\ UNCHANGED <<hasPool, caller, queue, batch, toUpsert, seenAgents,
                   metrics, rows, registry, dropped, lost, restarts>>

\* flush_batch without a pool: the batch is logged and cleared.
DiscardBatch ==
    /\ writer = "flush"
    /\ ~hasPool
    /\ lost' = lost \cup Range(batch)
    /\ batch' = <<>>
    /\ writer' = "drain"
    /\ UNCHANGED <<hasPool, caller, queue, toUpsert, seenAgents, metrics,
                   rows, registry, dropped, restarts>>

\* Faulty variant: one statement per event and no transaction, so a failure
\* keeps the rows inserted before it.
InsertWithoutTransaction ==
    /\ writer = "flush"
    /\ hasPool
    /\ \/ /\ rows' = rows \o batch
          /\ metrics' = [metrics EXCEPT !["total"] = @ + Len(batch)]
          /\ UNCHANGED lost
       \/ /\ \E n \in 1 .. Len(batch) : rows' = rows \o SubSeq(batch, 1, n)
          /\ lost' = lost \cup Range(batch)
          /\ UNCHANGED metrics
    /\ writer' = "upsert"
    /\ toUpsert' = AgentsIn(batch)
    /\ UNCHANGED <<hasPool, caller, queue, batch, seenAgents, registry,
                   dropped, restarts>>

\* insert_events_batch, one transaction for the whole batch. It commits, or it
\* rolls back, or it commits and the connection breaks before the answer. The
\* upsert of the agents follows in each case.
InsertBatch ==
    /\ writer = "flush"
    /\ hasPool
    /\ \/ /\ rows' = rows \o batch
          /\ metrics' = [metrics EXCEPT !["total"] = @ + Len(batch)]
          /\ UNCHANGED lost
       \/ /\ rows' = rows \o batch
          /\ UNCHANGED <<metrics, lost>>
       \/ /\ lost' = lost \cup Range(batch)
          /\ UNCHANGED <<rows, metrics>>
    /\ writer' = "upsert"
    /\ toUpsert' = AgentsIn(batch)
    /\ UNCHANGED <<hasPool, caller, queue, batch, seenAgents, registry,
                   dropped, restarts>>

\* upsert_agent for one agent of the batch, in the arbitrary order of the
\* HashMap. The row gets the request count of this batch; an error is logged
\* and the loop goes on.
UpsertAgent(a) ==
    /\ writer = "upsert"
    /\ a \in toUpsert
    /\ \/ registry' = [registry EXCEPT ![a] =
                         Cardinality({i \in DOMAIN batch : AgentOf[batch[i]] = a})]
       \/ UNCHANGED registry
    /\ toUpsert' = toUpsert \ {a}
    /\ UNCHANGED <<hasPool, caller, queue, batch, writer, seenAgents,
                   metrics, rows, dropped, lost, restarts>>

\* Faulty variant: the flushed batch is not cleared.
FinishFlushKeepsBatch ==
    /\ writer = "upsert"
    /\ toUpsert = {}
    /\ seenAgents' = seenAgents \cup AgentsIn(batch)
    /\ metrics' = [metrics EXCEPT !["agentsActive"] = Cardinality(seenAgents')]
    /\ writer' = "drain"
    /\ UNCHANGED <<hasPool, caller, queue, batch, toUpsert, rows, registry,
                   dropped, lost, restarts>>

\* All upserts were tried: the gauge is set and the batch cleared.
FinishFlush ==
    /\ writer = "upsert"
    /\ toUpsert = {}
    /\ seenAgents' = seenAgents \cup AgentsIn(batch)
    /\ metrics' = [metrics EXCEPT !["agentsActive"] = Cardinality(seenAgents')]
    /\ batch' = <<>>
    /\ writer' = "drain"
    /\ UNCHANGED <<hasPool, caller, queue, toUpsert, rows, registry,
                   dropped, lost, restarts>>

\* The writer task panics: the receiver is dropped with what the channel
\* holds, and so is the batch. From then on send finds the channel closed.
WriterExits ==
    /\ writer \in {"drain", "upsert"}
    /\ lost' = lost \cup Range(Pending)
    /\ queue' = <<>>
    /\ batch' = <<>>
    /\ toUpsert' = {}
    /\ writer' = "gone"
    /\ UNCHANGED <<hasPool, caller, seenAgents, metrics, rows, registry, dropped,
                   restarts>>

\* The process stops (SIGINT returns from main without draining anything, or it
\* is killed) and is started again, with or without a database. An insert in
\* progress may have committed.
Restart ==
    /\ restarts < MaxRestarts
    /\ restarts' = restarts + 1
    /\ \/ /\ rows' = rows
          /\ lost' = lost \cup Range(Pending)
       \/ /\ writer = "flush"
          /\ hasPool
          /\ rows' = rows \o batch
          /\ lost' = lost \cup Range(queue)
    /\ hasPool' \in BOOLEAN
    /\ caller' = [e \in Events |-> IF caller[e] = "idle" THEN "idle" ELSE "returned"]
    /\ queue' = <<>>
    /\ batch' = <<>>
    /\ writer' = "drain"
    /\ toUpsert' = {}
    /\ seenAgents' = {}
    /\ metrics' = [c \in Counters |-> 0]
    /\ UNCHANGED <<registry, dropped>>

-----------------------------------------------------------------------------
Send(e) == TrySendAccepts(e) \/ TrySendRefuses(e) \/ CountSend(e)

WriterStep ==
    \/ Receive
    \/ DeadlinePasses
    \/ DiscardBatch
    \/ InsertBatch
    \/ \E a \in Agents : UpsertAgent(a)
    \/ FinishFlush

Next ==
    \/ \E e \in Events : Send(e)
    \/ WriterStep
    \/ WriterExits
    \/ Restart

Spec == Init /\ [][Next]_vars

\* The runtime keeps polling the writer and the timer fires; a statement sent to
\* PostgreSQL is answered, by a result or by an error. Nothing makes a client
\* send, the writer panic or the process restart.
FairSpec == Spec /\ WF_vars(WriterStep)
-----------------------------------------------------------------------------
(* Properties                                                              *)

\* At most once: no event is stored twice, waits twice, or is stored while it
\* still waits to be stored, whatever the batching, failures and restarts.
StoredAtMostOnce == IsInjective(rows \o Pending)

\* Every event handed to send is waiting, stored, lost or dropped, and only one
\* of these: the writer and send never forget an event silently, and nothing
\* that was reported as dropped shows up in the events table.
EveryEventAccounted ==
    /\ {e \in Events : caller[e] # "idle"}
         = Range(rows) \cup Range(Pending) \cup lost \cup dropped
    /\ (Range(rows) \cup Range(Pending)) \cap (lost \cup dropped) = {}
    /\ lost \cap dropped = {}

\* While the channel is open the two EventMetrics counters differ by exactly
\* the queue and the sends that have not reached their counter yet. So
\* events_processed may run ahead of events_sent, by no more than those.
SendCountersAgree ==
    writer # "gone" =>
      metrics["sent"] + Cardinality({e \in Events : caller[e] = "sent"})
        = metrics["processed"] + Len(queue)

\* Nothing waits for ever: every accepted event is settled, also when no other
\* event follows it to fill the batch (the deadline sees to it).
AcceptedIsSettled ==
    \A e \in Events : (e \in Range(Pending)) ~> (e \notin Range(Pending))

\* The pipeline is an append-only, at-most-once log that settles its oldest
\* pending events first, at most BatchMax of them at a time, all or nothing.
Log == INSTANCE EventLog
         WITH pending <- Pending,
              log <- rows,
              accepted <- {e \in Events : caller[e] # "idle"} \ dropped
ImplementsEventLog == Log!FairSpec
=============================================================================
