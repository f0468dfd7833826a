------------------------- MODULE EventPipelineProofs -------------------------
(***************************************************************************)
(* Proofs about EventPipeline, for any events, agents, channel capacity,   *)
(* batch length and number of restarts: its invariants, that its two       *)
(* counters agree, and that it implements the log of EventLog: every step  *)
(* of it is a step of the log or changes nothing in it.                    *)
(***************************************************************************)
EXTENDS EventPipeline, DataFacts

-----------------------------------------------------------------------------
(* Type correctness                                                        *)

\* Where the writer stands says how full the batch is; that bounds the batch,
\* which TypeOK alone does not. The gauge counts agents of events only, so it
\* counts a finite set.
WriterInv ==
    /\ writer = "drain" => Len(batch) < BatchMax
    /\ writer = "flush" => batch # <<>>
    /\ writer = "gone" => queue = <<>> /\ batch = <<>>
    /\ seenAgents \subseteq Range(AgentOf)

TypeInv == TypeOK /\ WriterInv

\* Only finitely many agents ever own an event.
LEMMA AgentRangeFinite == IsFiniteSet(Range(AgentOf))
<1>1. AgentOf \in Surjection(Events, Range(AgentOf))
  BY PipelineAssumption DEF Surjection, Range
<1> QED BY <1>1, PipelineAssumption, FS_Surjection

\* Pending is a sequence of events whenever the state is well typed.
LEMMA PendingTyped ==
  TypeOK => /\ Unsettled \in Seq(Events)
            /\ Pending \in Seq(Events)
            /\ Range(Pending) \subseteq Events
BY EmptySeq, ConcatProperties, RangeOfSeq DEF TypeOK, Unsettled, Pending

\* The initial state is well typed, with the writer draining an empty channel.
LEMMA TypeInvInit == Init => TypeInv
<1> SUFFICES ASSUME Init PROVE TypeInv
  OBVIOUS
<1>1. TypeOK
  BY PipelineAssumption, EmptySeq DEF Init, TypeOK, Counters, NoRow
<1>2. WriterInv
  BY PipelineAssumption, EmptySeq DEF Init, WriterInv
<1> QED BY <1>1, <1>2 DEF TypeInv

\* Every step keeps the types, the bounds of channel and batch, and WriterInv.
LEMMA TypeInvStep == TypeInv /\ [Next]_vars => TypeInv'
<1> SUFFICES ASSUME TypeInv, [Next]_vars PROVE TypeInv'
  OBVIOUS
<1> USE PipelineAssumption
<1>1. ASSUME NEW e \in Events, TrySendAccepts(e) PROVE TypeInv'
  <2>1. /\ queue' \in Seq(Events)
        /\ Len(queue') = Len(queue) + 1
        /\ Len(queue) \in Nat
    BY <1>1, AppendProperties, LenProperties DEF TrySendAccepts, TypeInv, TypeOK
  <2> QED
    BY <1>1, <2>1 DEF TrySendAccepts, TypeInv, TypeOK, WriterInv
<1>2. ASSUME NEW e \in Events, TrySendRefuses(e) PROVE TypeInv'
  BY <1>2 DEF TrySendRefuses, TypeInv, TypeOK, WriterInv
<1>3. ASSUME NEW e \in Events, CountSend(e) PROVE TypeInv'
  <2>1. metrics' \in [Counters -> Nat]
    BY <1>3 DEF CountSend, TypeInv, TypeOK, Counters
  <2> QED
    BY <1>3, <2>1 DEF CountSend, TypeInv, TypeOK, WriterInv
<1>4. CASE Receive
  <2>1. /\ Head(queue) \in Events
        /\ Tail(queue) \in Seq(Events)
        /\ Len(Tail(queue)) = Len(queue) - 1
    BY <1>4, HeadTailProperties DEF Receive, TypeInv, TypeOK, Counters
  <2>2. /\ batch' \in Seq(Events)
        /\ batch' # <<>>
        /\ Len(batch') = Len(batch) + 1
    <3>1. /\ batch \in Seq(Events)
          /\ batch' = Append(batch, Head(queue))
      BY <1>4 DEF Receive, TypeInv, TypeOK
    <3> QED BY <2>1, <3>1, AppendProperties
  <2>3. Len(batch) \in Nat /\ Len(queue) \in Nat
    BY LenProperties DEF TypeInv, TypeOK
  <2>4. metrics' \in [Counters -> Nat]
    <3>1. /\ metrics \in [Counters -> Nat]
          /\ metrics' = [metrics EXCEPT !["processed"] = @ + 1]
      BY <1>4 DEF Receive, TypeInv, TypeOK
    <3> QED BY <3>1 DEF Counters
  <2>5. TypeOK'
    BY <1>4, <2>1, <2>2, <2>3, <2>4 DEF Receive, TypeInv, TypeOK, WriterInv
  <2>6. WriterInv'
    BY <1>4, <2>2, <2>3 DEF Receive, TypeInv, TypeOK, WriterInv
  <2> QED BY <2>5, <2>6 DEF TypeInv
<1>5. CASE DeadlinePasses
  BY <1>5 DEF DeadlinePasses, TypeInv, TypeOK, WriterInv
<1>6. CASE DiscardBatch
  <2>1. Range(batch) \subseteq Events
    BY RangeOfSeq DEF TypeInv, TypeOK
  <2> QED
    BY <1>6, <2>1, EmptySeq DEF DiscardBatch, TypeInv, TypeOK, WriterInv
<1>7. CASE InsertBatch
  <2>1. /\ Range(batch) \subseteq Events
        /\ AgentsIn(batch) \subseteq Agents
    BY RangeOfSeq DEF TypeInv, TypeOK, AgentsIn
  <2>2. /\ rows \o batch \in Seq(Events)
        /\ Len(batch) \in Nat
    BY ConcatProperties, LenProperties DEF TypeInv, TypeOK
  <2>3. metrics' \in [Counters -> Nat]
    BY <1>7, <2>2 DEF InsertBatch, TypeInv, TypeOK, Counters
  <2> QED
    BY <1>7, <2>1, <2>2, <2>3 DEF InsertBatch, TypeInv, TypeOK, WriterInv
<1>8. ASSUME NEW a \in Agents, UpsertAgent(a) PROVE TypeInv'
  <2>1. Cardinality({i \in DOMAIN batch : AgentOf[batch[i]] = a}) \in Nat
    <3>1. IsFiniteSet(DOMAIN batch)
      BY LenProperties, FS_Interval DEF TypeInv, TypeOK
    <3> QED BY <3>1, FS_Subset, FS_CardinalityType
  <2> QED
    BY <1>8, <2>1 DEF UpsertAgent, TypeInv, TypeOK, WriterInv
<1>9. CASE FinishFlush
  <2>1. AgentsIn(batch) \subseteq Agents
    BY RangeOfSeq DEF TypeInv, TypeOK, AgentsIn
  <2>2. seenAgents' \subseteq Range(AgentOf)
    BY <1>9, <2>1, RangeOfSeq DEF FinishFlush, TypeInv, TypeOK, WriterInv, AgentsIn, Range
  <2>3. Cardinality(seenAgents') \in Nat
    BY <2>2, AgentRangeFinite, FS_Subset, FS_CardinalityType
  <2>4. metrics' \in [Counters -> Nat]
    BY <1>9, <2>3 DEF FinishFlush, TypeInv, TypeOK, Counters
  <2>5. seenAgents' \in SUBSET Agents
    BY <1>9, <2>1 DEF FinishFlush, TypeInv, TypeOK, Counters
  <2> QED
    BY <1>9, <2>2, <2>4, <2>5, EmptySeq DEF FinishFlush, TypeInv, TypeOK, WriterInv
<1>10. CASE WriterExits
  <2>1. Range(Pending) \subseteq Events
    BY PendingTyped DEF TypeInv
  <2> QED
    BY <1>10, <2>1, EmptySeq DEF WriterExits, TypeInv, TypeOK, WriterInv
<1>11. CASE Restart
  <2>1. /\ Range(Pending) \subseteq Events
        /\ Range(queue) \subseteq Events
        /\ rows \o batch \in Seq(Events)
    BY PendingTyped, RangeOfSeq, ConcatProperties DEF TypeInv, TypeOK
  <2>2. /\ rows' \in Seq(Events)
        /\ lost' \in SUBSET Events
        /\ restarts' \in 0 .. MaxRestarts
    <3>1. rows' \in Seq(Events) /\ lost' \in SUBSET Events
      <4>1. \/ rows' = rows /\ lost' = lost \cup Range(Pending)
            \/ rows' = rows \o batch /\ lost' = lost \cup Range(queue)
        BY <1>11 DEF Restart
      <4> QED BY <4>1, <2>1 DEF TypeInv, TypeOK
    <3>2. restarts' \in 0 .. MaxRestarts
      <4>1. restarts < MaxRestarts /\ restarts' = restarts + 1
        BY <1>11 DEF Restart
      <4> QED BY <4>1 DEF TypeInv, TypeOK
    <3> QED BY <3>1, <3>2
  <2>3. /\ caller' \in [Events -> {"idle", "sent", "refused", "returned"}]
        /\ metrics' \in [Counters -> Nat]
    BY <1>11 DEF Restart
  <2>4. TypeOK'
    <3>1. /\ queue' \in Seq(Events) /\ Len(queue') =< Capacity
          /\ batch' \in Seq(Events) /\ Len(batch') =< BatchMax
      <4>1. queue' = <<>> /\ batch' = <<>>
        BY <1>11 DEF Restart
      <4>2. <<>> \in Seq(Events) /\ Len(<<>>) = 0
        BY EmptySeq
      <4> QED BY <4>1, <4>2
    <3>2. /\ hasPool' \in BOOLEAN
          /\ writer' \in {"drain", "flush", "upsert", "gone"}
          /\ toUpsert' \in SUBSET Agents
          /\ seenAgents' \in SUBSET Agents
          /\ registry' \in [Agents -> Nat]
          /\ dropped' \in SUBSET Events
      BY <1>11 DEF Restart, TypeInv, TypeOK
    <3> QED BY <2>2, <2>3, <3>1, <3>2 DEF TypeOK
  <2>5. WriterInv'
    BY <1>11, EmptySeq DEF Restart, WriterInv
  <2> QED BY <2>4, <2>5 DEF TypeInv
<1>12. CASE UNCHANGED vars
  BY <1>12 DEF vars, process, TypeInv, TypeOK, WriterInv
<1> QED
  BY <1>1, <1>2, <1>3, <1>4, <1>5, <1>6, <1>7, <1>8, <1>9, <1>10, <1>11, <1>12
     DEF Next, Send, WriterStep

\* Type correctness: every reachable state has the types and bounds of TypeOK,
\* whatever the sizes of channel and batch.
THEOREM TypeCorrect == Spec => []TypeOK
<1>1. Spec => []TypeInv
  BY TypeInvInit, TypeInvStep, PTL DEF Spec
<1>2. TypeInv => TypeOK
  BY DEF TypeInv
<1> QED BY <1>1, <1>2, PTL

-----------------------------------------------------------------------------
(* At most once, and every event accounted for                             *)

\* The events that have been handed to send.
Offered == {e \in Events : caller[e] # "idle"}

\* The places an event can be in, each without repetitions, and no event in
\* two of them. StoredAtMostOnce and EveryEventAccounted speak of these places
\* through the concatenated sequences; here they are taken apart.
PlacesInv ==
    /\ IsInjective(rows) /\ IsInjective(Unsettled) /\ IsInjective(queue)
    /\ Range(rows) \cap Range(Unsettled) = {}
    /\ Range(rows) \cap Range(queue) = {}
    /\ Range(Unsettled) \cap Range(queue) = {}
    /\ (Range(rows) \cup Range(Unsettled) \cup Range(queue)) \cap (lost \cup dropped) = {}
    /\ lost \cap dropped = {}
    /\ Offered = Range(rows) \cup Range(Unsettled) \cup Range(queue) \cup lost \cup dropped

\* The empty sequence has an empty range and no repetitions.
LEMMA EmptyPlace == Range(<<>>) = {} /\ IsInjective(<<>>)
<1>1. DOMAIN <<>> = {}
  OBVIOUS
<1> QED BY <1>1 DEF Range, IsInjective

\* PlacesInv is what the two properties say, for well-typed states.
LEMMA PlacesInvImplies == TypeOK /\ PlacesInv => StoredAtMostOnce /\ EveryEventAccounted
<1> SUFFICES ASSUME TypeOK, PlacesInv PROVE StoredAtMostOnce /\ EveryEventAccounted
  OBVIOUS
<1>1. /\ rows \in Seq(Events) /\ Unsettled \in Seq(Events) /\ queue \in Seq(Events)
      /\ Pending \in Seq(Events)
  BY PendingTyped DEF TypeOK
<1>2. Range(Pending) = Range(Unsettled) \cup Range(queue)
  BY <1>1, RangeConcatenation DEF Pending
<1>3. IsInjective(Pending)
  BY <1>1, ConcatInjectiveSeq DEF Pending, PlacesInv
<1>4. StoredAtMostOnce
  BY <1>1, <1>2, <1>3, ConcatInjectiveSeq DEF PlacesInv, StoredAtMostOnce
<1>5. EveryEventAccounted
  BY <1>2 DEF PlacesInv, EveryEventAccounted, Offered
<1> QED BY <1>4, <1>5

\* At the start nothing has been offered and every place is empty.
LEMMA PlacesInvInit == Init => PlacesInv
BY EmptyPlace DEF Init, PlacesInv, Unsettled, Offered

\* Every step moves events between places without copying or dropping any.
LEMMA PlacesInvStep == TypeInv /\ PlacesInv /\ [Next]_vars => PlacesInv'
<1> SUFFICES ASSUME TypeInv, PlacesInv, [Next]_vars PROVE PlacesInv'
  OBVIOUS
<1>0. /\ rows \in Seq(Events) /\ batch \in Seq(Events) /\ queue \in Seq(Events)
      /\ caller \in [Events -> {"idle", "sent", "refused", "returned"}]
  BY DEF TypeInv, TypeOK
<1>1. ASSUME NEW e \in Events, TrySendAccepts(e) PROVE PlacesInv'
  <2>1. e \notin Offered /\ Offered' = Offered \cup {e}
    BY <1>0, <1>1 DEF TrySendAccepts, Offered
  <2>2. Range(queue') = Range(queue) \cup {e} /\ IsInjective(queue')
    BY <1>0, <1>1, <2>1, AppendInjectiveSeq DEF TrySendAccepts, PlacesInv
  <2>3. UNCHANGED <<rows, Unsettled, lost, dropped>>
    BY <1>1 DEF TrySendAccepts, Unsettled
  <2> QED BY <2>1, <2>2, <2>3 DEF PlacesInv
<1>2. ASSUME NEW e \in Events, TrySendRefuses(e) PROVE PlacesInv'
  <2>1. e \notin Offered /\ Offered' = Offered \cup {e}
    BY <1>0, <1>2 DEF TrySendRefuses, Offered
  <2>2. UNCHANGED <<rows, Unsettled, queue, lost>> /\ dropped' = dropped \cup {e}
    BY <1>2 DEF TrySendRefuses, Unsettled
  <2> QED BY <2>1, <2>2 DEF PlacesInv
<1>3. ASSUME NEW e \in Events, CountSend(e) PROVE PlacesInv'
  <2>1. UNCHANGED <<Offered, rows, Unsettled, queue, lost, dropped>>
    BY <1>0, <1>3 DEF CountSend, Offered, Unsettled
  <2> QED BY <2>1 DEF PlacesInv
<1>4. CASE Receive
  <2>1. /\ batch' = Append(batch, Head(queue))
        /\ queue' = Tail(queue)
        /\ Unsettled = batch /\ Unsettled' = batch'
        /\ UNCHANGED <<Offered, rows, lost, dropped>>
    BY <1>4 DEF Receive, Unsettled, Offered
  <2>2. /\ Range(queue) = {Head(queue)} \cup Range(Tail(queue))
        /\ IsInjective(Tail(queue)) /\ Head(queue) \notin Range(Tail(queue))
        /\ Head(queue) \in Events
    BY <1>0, <1>4, HeadTailInjectiveSeq, HeadTailProperties DEF Receive, PlacesInv
  <2>3. /\ Range(batch') = Range(batch) \cup {Head(queue)}
        /\ IsInjective(batch')
    BY <1>0, <2>1, <2>2, AppendInjectiveSeq DEF PlacesInv
  <2> QED BY <2>1, <2>2, <2>3 DEF PlacesInv
<1>5. CASE DeadlinePasses
  <2>1. UNCHANGED <<Offered, rows, Unsettled, queue, lost, dropped>>
    BY <1>5 DEF DeadlinePasses, Offered, Unsettled
  <2> QED BY <2>1 DEF PlacesInv
<1>6. CASE DiscardBatch
  <2>1. /\ Unsettled = batch /\ Unsettled' = <<>>
        /\ lost' = lost \cup Range(batch)
        /\ UNCHANGED <<Offered, rows, queue, dropped>>
    BY <1>6 DEF DiscardBatch, Offered, Unsettled
  <2> QED BY <2>1, EmptyPlace DEF PlacesInv
<1>7. CASE InsertBatch
  <2>1. /\ Unsettled = batch /\ Unsettled' = <<>>
        /\ UNCHANGED <<Offered, queue, dropped>>
        /\ \/ rows' = rows \o batch /\ lost' = lost
           \/ rows' = rows /\ lost' = lost \cup Range(batch)
    BY <1>7 DEF InsertBatch, Offered, Unsettled
  <2>2. /\ Range(rows \o batch) = Range(rows) \cup Range(batch)
        /\ IsInjective(rows \o batch)
    BY <1>0, <2>1, RangeConcatenation, ConcatInjectiveSeq DEF PlacesInv
  <2> QED BY <2>1, <2>2, EmptyPlace DEF PlacesInv
<1>8. ASSUME NEW a \in Agents, UpsertAgent(a) PROVE PlacesInv'
  <2>1. UNCHANGED <<Offered, rows, Unsettled, queue, lost, dropped>>
    BY <1>8 DEF UpsertAgent, Offered, Unsettled
  <2> QED BY <2>1 DEF PlacesInv
<1>9. CASE FinishFlush
  <2>1. UNCHANGED <<Offered, rows, Unsettled, queue, lost, dropped>>
    BY <1>9 DEF FinishFlush, Offered, Unsettled
  <2> QED BY <2>1 DEF PlacesInv
<1>10. CASE WriterExits
  <2>1. /\ Unsettled' = <<>> /\ queue' = <<>>
        /\ lost' = lost \cup Range(Pending)
        /\ UNCHANGED <<Offered, rows, dropped>>
    BY <1>10 DEF WriterExits, Offered, Unsettled
  <2>2. Range(Pending) = Range(Unsettled) \cup Range(queue)
    BY <1>0, PendingTyped, RangeConcatenation DEF Pending, TypeInv
  <2> QED BY <2>1, <2>2, EmptyPlace DEF PlacesInv
<1>11. CASE Restart
  <2>1. /\ Unsettled' = <<>> /\ queue' = <<>>
        /\ dropped' = dropped
        /\ \/ rows' = rows /\ lost' = lost \cup Range(Pending)
           \/ /\ Unsettled = batch
              /\ rows' = rows \o batch
              /\ lost' = lost \cup Range(queue)
    BY <1>11 DEF Restart, Unsettled
  <2>2. Offered' = Offered
    BY <1>0, <1>11 DEF Restart, Offered
  <2>3. Range(Pending) = Range(Unsettled) \cup Range(queue)
    BY <1>0, PendingTyped, RangeConcatenation DEF Pending, TypeInv
  <2>4. Unsettled = batch => /\ Range(rows \o batch) = Range(rows) \cup Range(batch)
                             /\ IsInjective(rows \o batch)
    BY <1>0, RangeConcatenation, ConcatInjectiveSeq DEF PlacesInv
  <2> QED BY <2>1, <2>2, <2>3, <2>4, EmptyPlace DEF PlacesInv
<1>12. CASE UNCHANGED vars
  <2>1. UNCHANGED <<Offered, rows, Unsettled, queue, lost, dropped>>
    BY <1>12 DEF vars, process, Offered, Unsettled
  <2> QED BY <2>1 DEF PlacesInv
<1> QED
  BY <1>1, <1>2, <1>3, <1>4, <1>5, <1>6, <1>7, <1>8, <1>9, <1>10, <1>11, <1>12
     DEF Next, Send, WriterStep

\* The two invariants hold together in every reachable state.
LEMMA PlacesHold == Spec => [](TypeInv /\ PlacesInv)
BY TypeInvInit, TypeInvStep, PlacesInvInit, PlacesInvStep, PTL DEF Spec

\* No event is stored twice, and none is stored while it still waits, across
\* failed inserts, lost answers, writer panics and restarts.
THEOREM AtMostOnce == Spec => []StoredAtMostOnce
<1>1. TypeInv /\ PlacesInv => StoredAtMostOnce
  BY PlacesInvImplies DEF TypeInv
<1> QED BY <1>1, PlacesHold, PTL

\* Every event handed to send is in exactly one of: waiting, stored, lost and
\* dropped.
THEOREM Accounted == Spec => []EveryEventAccounted
<1>1. TypeInv /\ PlacesInv => EveryEventAccounted
  BY PlacesInvImplies DEF TypeInv
<1> QED BY <1>1, PlacesHold, PTL

-----------------------------------------------------------------------------
(* The refinement                                                          *)

\* The accepted events of the log.
Accepted == Offered \ dropped

\* Nothing is accepted, pending or stored at the start.
LEMMA LogInit == Init => Log!Init
<1> SUFFICES ASSUME Init PROVE Log!Init
  OBVIOUS
<1>1. {e \in Events : caller[e] # "idle"} \ dropped = {}
  BY DEF Init
<1>2. Pending = <<>> /\ rows = <<>>
  BY ConcatEmptySeq, EmptySeq DEF Init, Pending, Unsettled
<1> QED BY <1>1, <1>2 DEF Log!Init

\* A step that leaves the three variables of the log alone.
LEMMA LogStutter ==
  ASSUME Accepted' = Accepted, Pending' = Pending, rows' = rows
  PROVE  UNCHANGED Log!vars
BY DEF Accepted, Offered, Log!vars

\* The batch is settled: what waited in it leaves the line as one group.
LEMMA LogSettles ==
  ASSUME TypeInv, writer = "flush", Pending' = queue, Accepted' = Accepted,
         rows' = rows \/ rows' = rows \o batch
  PROVE  Log!Next
<1>1. /\ batch \in Seq(Events) /\ queue \in Seq(Events) /\ Pending = batch \o queue
      /\ batch # <<>> /\ Len(batch) =< BatchMax
  BY DEF TypeInv, TypeOK, WriterInv, Pending, Unsettled
<1>2. Len(batch) \in 1 .. Len(Pending)
  BY <1>1, ConcatProperties, LenProperties, EmptySeq
<1>3. SubSeq(Pending, 1, Len(batch)) = batch
  BY <1>1, CutConcat
<1>4. SubSeq(Pending, Len(batch) + 1, Len(Pending)) = queue
  BY <1>1, CutConcat
<1>5. Log!Settle(Len(batch))
  BY <1>1, <1>2, <1>3, <1>4 DEF Log!Settle, Log!Oldest, Log!Younger, Accepted, Offered
<1> QED BY <1>2, <1>5 DEF Log!Next, Log!SettleSome

\* The process fails: all that waits is given up, but for a batch whose insert
\* may have been committed.
LEMMA LogFails ==
  ASSUME TypeInv, Pending' = <<>>, Accepted' = Accepted,
         rows' = rows \/ (writer = "flush" /\ rows' = rows \o batch)
  PROVE  Log!Next
<1>1. CASE rows' = rows
  BY <1>1 DEF Log!Next, Log!Fail, Accepted, Offered
<1>2. CASE writer = "flush" /\ rows' = rows \o batch
  <2>1. /\ batch \in Seq(Events) /\ queue \in Seq(Events) /\ Pending = batch \o queue
        /\ batch # <<>> /\ Len(batch) =< BatchMax
    BY <1>2 DEF TypeInv, TypeOK, WriterInv, Pending, Unsettled
  <2>2. Len(batch) \in 1 .. Len(Pending)
    BY <2>1, ConcatProperties, LenProperties, EmptySeq
  <2>3. SubSeq(Pending, 1, Len(batch)) = batch
    BY <2>1, CutConcat
  <2>4. \E n \in 1 .. Len(Pending) : n =< BatchMax /\ rows' = rows \o SubSeq(Pending, 1, n)
    BY <1>2, <2>1, <2>2, <2>3
  <2> QED BY <2>4 DEF Log!Next, Log!Fail, Log!Oldest, Accepted, Offered
<1> QED BY <1>1, <1>2

\* Every step of the pipeline is a step of the log or leaves it alone.
LEMMA LogStep ==
  TypeInv /\ PlacesInv /\ [Next]_vars => [Log!Next]_(Log!vars)
<1> SUFFICES ASSUME TypeInv, PlacesInv, [Next]_vars PROVE Log!Next \/ UNCHANGED Log!vars
  OBVIOUS
<1>0. /\ batch \in Seq(Events) /\ queue \in Seq(Events) /\ Unsettled \in Seq(Events)
      /\ caller \in [Events -> {"idle", "sent", "refused", "returned"}]
      /\ dropped \subseteq Offered
      /\ <<>> \in Seq(Events)
  BY PendingTyped, EmptySeq DEF TypeInv, TypeOK, PlacesInv
<1>1. ASSUME NEW e \in Events, TrySendAccepts(e) PROVE Log!Next
  <2>1. e \notin Offered /\ Accepted' = Accepted \cup {e} /\ e \notin Accepted
    BY <1>0, <1>1 DEF TrySendAccepts, Offered, Accepted
  <2>2. Unsettled' = Unsettled /\ queue' = Append(queue, e) /\ rows' = rows
    BY <1>1 DEF TrySendAccepts, Unsettled
  <2>3. Pending' = Append(Pending, e)
    BY <1>0, <2>2, AppendBehind DEF Pending
  <2>4. Log!Accept(e)
    BY <2>1, <2>2, <2>3 DEF Log!Accept, Accepted, Offered
  <2> QED BY <2>4 DEF Log!Next
<1>2. ASSUME NEW e \in Events, TrySendRefuses(e) PROVE UNCHANGED Log!vars
  <2>1. Accepted' = Accepted
    BY <1>0, <1>2 DEF TrySendRefuses, Accepted, Offered
  <2> QED BY <1>2, <2>1, LogStutter DEF TrySendRefuses, Pending, Unsettled
<1>3. ASSUME NEW e \in Events, CountSend(e) PROVE UNCHANGED Log!vars
  <2>1. Accepted' = Accepted
    BY <1>0, <1>3 DEF CountSend, Accepted, Offered
  <2> QED BY <1>3, <2>1, LogStutter DEF CountSend, Pending, Unsettled
<1>4. CASE Receive
  <2>1. Accepted' = Accepted /\ rows' = rows
    BY <1>4 DEF Receive, Accepted, Offered
  <2>2. Unsettled = batch /\ Unsettled' = Append(batch, Head(queue)) /\ queue' = Tail(queue)
    BY <1>4 DEF Receive, Unsettled
  <2>3. Pending' = Pending
    BY <1>0, <1>4, <2>2, HeadMovesOver DEF Receive, Pending
  <2> QED BY <2>1, <2>3, LogStutter
<1>5. CASE DeadlinePasses
  BY <1>5, LogStutter DEF DeadlinePasses, Pending, Unsettled, Accepted, Offered
<1>6. CASE DiscardBatch
  <2>1. Pending' = queue
    BY <1>0, <1>6, ConcatEmptySeq DEF DiscardBatch, Pending, Unsettled
  <2> QED BY <1>6, <2>1, LogSettles DEF DiscardBatch, Accepted, Offered
<1>7. CASE InsertBatch
  <2>1. Pending' = queue
    BY <1>0, <1>7, ConcatEmptySeq DEF InsertBatch, Pending, Unsettled
  <2> QED BY <1>7, <2>1, LogSettles DEF InsertBatch, Accepted, Offered
<1>8. ASSUME NEW a \in Agents, UpsertAgent(a) PROVE UNCHANGED Log!vars
  BY <1>8, LogStutter DEF UpsertAgent, Pending, Unsettled, Accepted, Offered
<1>9. CASE FinishFlush
  BY <1>9, LogStutter DEF FinishFlush, Pending, Unsettled, Accepted, Offered
<1>10. CASE WriterExits
  <2>1. Pending' = <<>>
    BY <1>0, <1>10, ConcatEmptySeq DEF WriterExits, Pending, Unsettled
  <2> QED BY <1>10, <2>1, LogFails DEF WriterExits, Accepted, Offered
<1>11. CASE Restart
  <2>1. Pending' = <<>>
    BY <1>0, <1>11, ConcatEmptySeq DEF Restart, Pending, Unsettled
  <2>2. Accepted' = Accepted
    BY <1>0, <1>11 DEF Restart, Accepted, Offered
  <2> QED BY <1>11, <2>1, <2>2, LogFails DEF Restart
<1>12. CASE UNCHANGED vars
  BY <1>12, LogStutter DEF vars, process, Pending, Unsettled, Accepted, Offered
<1> QED
  BY <1>1, <1>2, <1>3, <1>4, <1>5, <1>6, <1>7, <1>8, <1>9, <1>10, <1>11, <1>12
     DEF Next, Send, WriterStep

\* The events table is an append-only log of the accepted events, in the order
\* they were accepted, settled in groups of at most BatchMax, each stored or
\* given up as a whole, across failed inserts, lost answers, panics and restarts.
THEOREM PipelineImplementsLog == Spec => Log!Spec
<1>1. TypeInv /\ PlacesInv /\ [Next]_vars => [Log!Next]_(Log!vars)
  BY LogStep
<1> QED BY <1>1, LogInit, PlacesHold, PTL DEF Spec, Log!Spec

-----------------------------------------------------------------------------
(* The counters of the channel                                             *)

\* The tasks that have queued their event and not counted it yet.
Uncounted == {e \in Events : caller[e] = "sent"}

\* Fewer events than there are can be uncounted.
LEMMA UncountedFinite == IsFiniteSet(Uncounted)
BY PipelineAssumption, FS_Subset DEF Uncounted

\* One event more, or one less, counts as one.
LEMMA CountOne ==
  ASSUME NEW S, IsFiniteSet(S), NEW e
  PROVE  /\ Cardinality(S) \in Nat
         /\ e \notin S => Cardinality(S \cup {e}) = Cardinality(S) + 1
         /\ e \in S => Cardinality(S \ {e}) = Cardinality(S) - 1
BY FS_CardinalityType, FS_AddElement, FS_RemoveElement

\* Every step changes the two sides alike, or closes the channel.
LEMMA CountersStep ==
  TypeOK /\ SendCountersAgree /\ [Next]_vars => SendCountersAgree'
<1> SUFFICES ASSUME TypeOK, SendCountersAgree, [Next]_vars, writer' # "gone"
             PROVE  metrics'["sent"] + Cardinality(Uncounted')
                      = metrics'["processed"] + Len(queue')
  BY DEF SendCountersAgree, Uncounted
<1>0. /\ writer # "gone" => metrics["sent"] + Cardinality(Uncounted)
                             = metrics["processed"] + Len(queue)
      /\ metrics \in [Counters -> Nat] /\ queue \in Seq(Events) /\ Len(queue) \in Nat
      /\ metrics["sent"] \in Nat /\ metrics["processed"] \in Nat
      /\ caller \in [Events -> {"idle", "sent", "refused", "returned"}]
      /\ Cardinality(Uncounted) \in Nat
  BY LenProperties, UncountedFinite, FS_CardinalityType
     DEF TypeOK, SendCountersAgree, Uncounted, Counters
<1>1. ASSUME NEW e \in Events, TrySendAccepts(e)
      PROVE  metrics'["sent"] + Cardinality(Uncounted')
               = metrics'["processed"] + Len(queue')
  <2>1. e \notin Uncounted /\ Uncounted' = Uncounted \cup {e}
    BY <1>0, <1>1 DEF TrySendAccepts, Uncounted
  <2>2. Cardinality(Uncounted') = Cardinality(Uncounted) + 1
    BY <2>1, UncountedFinite, CountOne
  <2>3. Len(queue') = Len(queue) + 1
    BY <1>0, <1>1, AppendProperties DEF TrySendAccepts
  <2>4. /\ writer # "gone"
        /\ metrics'["sent"] = metrics["sent"] /\ metrics'["processed"] = metrics["processed"]
    BY <1>1 DEF TrySendAccepts
  <2>5. metrics["sent"] + Cardinality(Uncounted) = metrics["processed"] + Len(queue)
    BY <1>0, <2>4
  <2>6. /\ metrics["sent"] \in Nat /\ metrics["processed"] \in Nat
        /\ Cardinality(Uncounted) \in Nat /\ Len(queue) \in Nat
    BY <1>0
  <2> QED BY <2>2, <2>3, <2>4, <2>5, <2>6
<1>2. ASSUME NEW e \in Events, TrySendRefuses(e)
      PROVE  metrics'["sent"] + Cardinality(Uncounted')
               = metrics'["processed"] + Len(queue')
  <2>1. Uncounted' = Uncounted
    BY <1>0, <1>2 DEF TrySendRefuses, Uncounted
  <2>2. writer # "gone" /\ metrics' = metrics /\ queue' = queue
    BY <1>2 DEF TrySendRefuses
  <2> QED BY <1>0, <2>1, <2>2
<1>3. ASSUME NEW e \in Events, CountSend(e)
      PROVE  metrics'["sent"] + Cardinality(Uncounted')
               = metrics'["processed"] + Len(queue')
  <2>1. writer # "gone" /\ queue' = queue /\ metrics'["processed"] = metrics["processed"]
    BY <1>0, <1>3 DEF CountSend, Counters
  <2>2. CASE caller[e] = "sent"
    <3>1. e \in Uncounted /\ Uncounted' = Uncounted \ {e}
      BY <1>0, <1>3, <2>2 DEF CountSend, Uncounted
    <3>2. Cardinality(Uncounted') = Cardinality(Uncounted) - 1
      BY <3>1, UncountedFinite, CountOne
    <3>3. metrics'["sent"] = metrics["sent"] + 1
      BY <1>0, <1>3, <2>2 DEF CountSend, Counters
    <3>4. metrics["sent"] + Cardinality(Uncounted) = metrics["processed"] + Len(queue)
      BY <1>0, <2>1
    <3>5. /\ metrics["sent"] \in Nat /\ metrics["processed"] \in Nat
          /\ Cardinality(Uncounted) \in Nat /\ Len(queue) \in Nat
      BY <1>0
    <3> QED BY <2>1, <3>2, <3>3, <3>4, <3>5
  <2>3. CASE caller[e] = "refused"
    <3>1. Uncounted' = Uncounted
      BY <1>0, <1>3, <2>3 DEF CountSend, Uncounted
    <3>2. metrics'["sent"] = metrics["sent"]
      BY <1>0, <1>3, <2>3 DEF CountSend, Counters
    <3> QED BY <1>0, <2>1, <3>1, <3>2
  <2> QED BY <1>3, <2>2, <2>3 DEF CountSend
<1>4. CASE Receive
  <2>1. /\ Uncounted' = Uncounted /\ writer # "gone"
        /\ metrics'["sent"] = metrics["sent"]
        /\ metrics'["processed"] = metrics["processed"] + 1
    BY <1>0, <1>4 DEF Receive, Uncounted, Counters
  <2>2. Len(queue') = Len(queue) - 1
    BY <1>0, <1>4, HeadTailProperties DEF Receive
  <2> QED BY <1>0, <2>1, <2>2
<1>5. ASSUME /\ Uncounted' = Uncounted /\ queue' = queue /\ writer # "gone"
             /\ metrics'["sent"] = metrics["sent"]
             /\ metrics'["processed"] = metrics["processed"]
      PROVE  metrics'["sent"] + Cardinality(Uncounted')
               = metrics'["processed"] + Len(queue')
  BY <1>0, <1>5
<1>6. CASE DeadlinePasses
  BY <1>5, <1>6 DEF DeadlinePasses, Uncounted
<1>7. CASE DiscardBatch
  BY <1>5, <1>7 DEF DiscardBatch, Uncounted
<1>8. CASE InsertBatch
  <2>1. metrics'["sent"] = metrics["sent"] /\ metrics'["processed"] = metrics["processed"]
    BY <1>0, <1>8 DEF InsertBatch, Counters
  <2> QED BY <1>5, <1>8, <2>1 DEF InsertBatch, Uncounted
<1>9. ASSUME NEW a \in Agents, UpsertAgent(a)
      PROVE  metrics'["sent"] + Cardinality(Uncounted')
               = metrics'["processed"] + Len(queue')
  BY <1>5, <1>9 DEF UpsertAgent, Uncounted
<1>10. CASE FinishFlush
  <2>1. metrics'["sent"] = metrics["sent"] /\ metrics'["processed"] = metrics["processed"]
    BY <1>0, <1>10 DEF FinishFlush, Counters
  <2> QED BY <1>5, <1>10, <2>1 DEF FinishFlush, Uncounted
<1>11. CASE WriterExits
  BY <1>11 DEF WriterExits
<1>12. CASE Restart
  <2>1. /\ Uncounted' = {} /\ queue' = <<>>
        /\ metrics'["sent"] = 0 /\ metrics'["processed"] = 0
    BY <1>12 DEF Restart, Uncounted, Counters
  <2> QED BY <2>1, FS_EmptySet, EmptySeq
<1>13. CASE UNCHANGED vars
  BY <1>5, <1>13 DEF vars, process, Uncounted
<1> QED
  BY <1>1, <1>2, <1>3, <1>4, <1>6, <1>7, <1>8, <1>9, <1>10, <1>11, <1>12, <1>13
     DEF Next, Send, WriterStep

\* While the channel is open, the counters of sent and of processed events
\* differ by the queue and the sends that are still to be counted, for any
\* number of tasks that send at once.
THEOREM CountersAgree == Spec => []SendCountersAgree
<1>1. Init => SendCountersAgree
  <2>1. SUFFICES ASSUME Init PROVE SendCountersAgree
    OBVIOUS
  <2>2. {e \in Events : caller[e] = "sent"} = {} /\ Len(queue) = 0
    BY <2>1, EmptySeq DEF Init
  <2>3. metrics["sent"] = 0 /\ metrics["processed"] = 0
    BY <2>1 DEF Init, Counters
  <2> QED BY <2>2, <2>3, FS_EmptySet DEF SendCountersAgree
<1>2. TypeInv => TypeOK
  BY DEF TypeInv
<1> QED BY <1>1, <1>2, TypeInvInit, TypeInvStep, CountersStep, PTL DEF Spec
=============================================================================
