---------------------------- MODULE BudgetProofs ----------------------------
(***************************************************************************)
(* Proofs about Budget: its type invariant, that the counters are exactly  *)
(* the usage of one day, and that what was allowed fitted every limit.     *)
(***************************************************************************)
EXTENDS Budget, DataFacts

-----------------------------------------------------------------------------
(* The inductive invariant                                                 *)

WrittenOn(d) == {x \in Exchanges : writtenOn[x] = d}

\* The table holds what was written, by the date of the write.
RowsExact ==
    \A d \in Days, a \in Agents, u \in Units :
        rows[d][a][u] = SumOf(OfAgent(WrittenOn(d), a), u)

\* Where an exchange stands and what was recorded and written of it.
TasksTellLedger ==
    \A x \in Exchanges :
        /\ task[x] \in {"idle", "tagged"} => recordedIn[x] = Never
        /\ task[x] = "recorded" => recordedIn[x] = life
        /\ task[x] # "done" => writtenOn[x] = Never
        /\ writtenOn[x] # Never => recordedIn[x] # Never

\* Nothing is recorded in a later life or, in this life, on a day after that of
\* the counters.
NothingAhead ==
    /\ bootDay =< lastReset
    /\ \A x \in Exchanges :
         /\ recordedIn[x] =< life
         /\ recordedIn[x] = life => recordedOn[x] =< lastReset

\* The counters are the usage of the exchanges they remember.
CountersHold ==
    \A a \in Agents, u \in Units :
        usage[a][u] = SumOf(OfAgent(Remembered(u), a), u)

IInv ==
    /\ TypeOK
    /\ RowsExact
    /\ TasksTellLedger
    /\ NothingAhead
    /\ CountersHold

-----------------------------------------------------------------------------
(* Sums of usage                                                           *)

\* The sum of what a finite set of exchanges cost is a number.
LEMMA SumOfType ==
  ASSUME NEW xs \in SUBSET Exchanges, NEW u \in Units
  PROVE  SumOf(xs, u) \in Nat
<1> DEFINE f == [x \in Exchanges |-> Amount[x][u]]
<1>1. IsFiniteSet(xs) /\ \A x \in xs : f[x] \in Nat
  BY BudgetAssumption, FS_Subset
<1> QED BY <1>1, SumRemove DEF SumOf

\* No exchange costs nothing.
LEMMA SumOfNothing == \A u \in Units : SumOf({}, u) = 0
BY SumEmpty DEF SumOf

\* One exchange more adds what it cost.
LEMMA SumOfMore ==
  ASSUME NEW xs \in SUBSET Exchanges, NEW x \in Exchanges \ xs, NEW u \in Units
  PROVE  SumOf(xs \cup {x}, u) = SumOf(xs, u) + Amount[x][u]
<1> DEFINE f == [y \in Exchanges |-> Amount[y][u]]
<1>1. IsFiniteSet(xs) /\ \A y \in xs \cup {x} : f[y] \in Nat
  BY BudgetAssumption, FS_Subset
<1>2. f[x] = Amount[x][u]
  OBVIOUS
<1> HIDE DEF f
<1>3. SumFunctionOnSet(f, xs \cup {x}) = SumFunctionOnSet(f, xs) + f[x]
  BY <1>1, SumAdd
<1> QED BY <1>2, <1>3 DEF SumOf, f

\* The table is the usage of the exchanges in xs(u), agent by agent.
Holds(table, xs) ==
    \A a \in Agents, u \in Units : table[a][u] = SumOf(OfAgent(xs[u], a), u)

Tables == [Agents -> [Units -> Nat]]

\* An empty table is what no exchange costs.
LEMMA EmptyHoldsNothing ==
  Empty \in Tables /\ Holds(Empty, [u \in Units |-> {}])
BY SumOfNothing DEF Empty, Tables, Holds, OfAgent

\* Plus adds one exchange to what a table holds.
LEMMA PlusHoldsMore ==
  ASSUME NEW table \in Tables, NEW x \in Exchanges,
         NEW xs \in [Units -> SUBSET (Exchanges \ {x})], Holds(table, xs)
  PROVE  /\ Plus(table, x) \in Tables
         /\ Holds(Plus(table, x), [u \in Units |-> xs[u] \cup {x}])
<1>1. AgentOf[x] \in Agents /\ \A u \in Units : Amount[x][u] \in Nat
  BY BudgetAssumption
<1>2. Plus(table, x) \in Tables
  BY <1>1 DEF Plus, Tables
<1>3. ASSUME NEW a \in Agents, NEW u \in Units
      PROVE  Plus(table, x)[a][u] = SumOf(OfAgent(xs[u] \cup {x}, a), u)
  <2>1. table[a][u] = SumOf(OfAgent(xs[u], a), u)
    BY DEF Holds
  <2>2. CASE AgentOf[x] = a
    <3>1. Plus(table, x)[a][u] = table[a][u] + Amount[x][u]
      BY <2>2 DEF Plus, Tables
    <3>2. OfAgent(xs[u] \cup {x}, a) = OfAgent(xs[u], a) \cup {x}
      BY <2>2 DEF OfAgent
    <3>3. OfAgent(xs[u], a) \in SUBSET Exchanges /\ x \in Exchanges \ OfAgent(xs[u], a)
      BY DEF OfAgent
    <3>4. SumOf(OfAgent(xs[u], a) \cup {x}, u) = SumOf(OfAgent(xs[u], a), u) + Amount[x][u]
      BY <3>3, SumOfMore
    <3> QED BY <2>1, <3>1, <3>2, <3>4
  <2>3. CASE AgentOf[x] # a
    <3>1. Plus(table, x)[a][u] = table[a][u]
      BY <2>3 DEF Plus, Tables
    <3>2. OfAgent(xs[u] \cup {x}, a) = OfAgent(xs[u], a)
      BY <2>3 DEF OfAgent
    <3> QED BY <2>1, <3>1, <3>2
  <2> QED BY <2>2, <2>3
<1> QED BY <1>2, <1>3 DEF Holds

\* What a scope has used is the usage of the exchanges its counters hold.
LEMMA GlobalIsAllAgents ==
  ASSUME NEW xs \in [Units -> SUBSET Exchanges], NEW table \in Tables, Holds(table, xs),
         NEW u \in Units
  PROVE  SumFunctionOnSet([a \in Agents |-> table[a][u]], Agents) = SumOf(xs[u], u)
<1> DEFINE f == [x \in Exchanges |-> Amount[x][u]]
<1>1. /\ IsFiniteSet(xs[u]) /\ IsFiniteSet(Agents)
      /\ \A x \in xs[u] : f[x] \in Nat /\ AgentOf[x] \in Agents
  BY BudgetAssumption, FS_Subset
<1>2. \A a \in Agents : table[a][u] = SumFunctionOnSet(f, {x \in xs[u] : AgentOf[x] = a})
  BY DEF Holds, SumOf, OfAgent
<1>3. SumFunctionOnSet(f, xs[u]) = SumOf(xs[u], u)
  BY DEF SumOf
<1> HIDE DEF f
<1>4. SumFunctionOnSet(f, xs[u])
        = SumFunctionOnSet([a \in Agents |-> SumFunctionOnSet(f, {x \in xs[u] : AgentOf[x] = a})],
                           Agents)
  BY <1>1, SumByParts
<1>5. [a \in Agents |-> SumFunctionOnSet(f, {x \in xs[u] : AgentOf[x] = a})]
        = [a \in Agents |-> table[a][u]]
  BY <1>2
<1> QED BY <1>3, <1>4, <1>5

-----------------------------------------------------------------------------
(* The counters                                                            *)

\* The invariant holds at the start: nothing was counted.
LEMMA InitEstablishes == Init => IInv
<1> SUFFICES ASSUME Init PROVE IInv
  OBVIOUS
<1>1. TypeOK
  BY BudgetAssumption
  DEF Init, TypeOK, Empty, Days, Never, Verdicts
<1>2. RowsExact
  <2>1. \A d \in Days : WrittenOn(d) = {}
    BY DEF Init, WrittenOn, Days, Never
  <2> QED BY <2>1, EmptyHoldsNothing DEF Init, RowsExact, Holds
<1>3. TasksTellLedger /\ NothingAhead
  BY DEF Init, TasksTellLedger, NothingAhead, Never
<1>4. CountersHold
  <2>1. \A u \in Units : Remembered(u) = {}
    BY DEF Init, Remembered, UsageOfDay, OfThisLife, Reloaded, Never
  <2> QED BY <2>1, EmptyHoldsNothing DEF Init, CountersHold, Holds
<1> QED BY <1>1, <1>2, <1>3, <1>4 DEF IInv

\* Each action keeps the types.
LEMMA TypeKept == TypeOK /\ TasksTellLedger /\ [Next]_vars => TypeOK'
<1> SUFFICES ASSUME TypeOK, TasksTellLedger, [Next]_vars PROVE TypeOK'
  OBVIOUS
<1> USE BudgetAssumption
<1>1. \A table \in Tables, x \in Exchanges : Plus(table, x) \in Tables
  BY DEF Plus, Tables
<1>2. Empty \in Tables
  BY DEF Empty, Tables
<1>3. ASSUME NEW x \in Exchanges, CheckBudget(x) PROVE TypeOK'
  <2>1. \A k : CheckLimit(k, x) \in Verdicts
    BY DEF CheckLimit, Verdicts
  <2>2. Check(x) \in Verdicts
    BY <2>1 DEF Check, Verdicts
  <2>3. \A u \in Units : Remembered(u) \in SUBSET Exchanges
    BY DEF Remembered, UsageOfDay, OfThisLife, Reloaded
  <2>4. verdict' \in [Exchanges -> Verdicts]
    BY <1>3, <2>2 DEF CheckBudget, TypeOK
  <2>5. known' \in [Exchanges -> [Units -> SUBSET Exchanges]]
    BY <1>3, <2>3 DEF CheckBudget, TypeOK
  <2> QED BY <1>3, <2>4, <2>5 DEF CheckBudget, TypeOK, ledger
<1>4. ASSUME NEW x \in Exchanges, RecordUsage(x) PROVE TypeOK'
  <2>1. usage' \in [Agents -> [Units -> Nat]]
    BY <1>1, <1>2, <1>4 DEF RecordUsage, TypeOK, Tables
  <2> QED BY <1>4, <2>1 DEF RecordUsage, TypeOK, Days
<1>5. ASSUME NEW x \in Exchanges, WriteUsage(x) PROVE TypeOK'
  <2>1. rows' \in [Days -> [Agents -> [Units -> Nat]]]
    <3>1. rows \in [Days -> Tables] /\ today \in Days
      BY DEF TypeOK, Tables
    <3>2. rows' = rows \/ rows' = [rows EXCEPT ![today] = Plus(@, x)]
      BY <1>5 DEF WriteUsage
    <3>3. rows' \in [Days -> Tables]
      BY <1>1, <3>1, <3>2
    <3> QED BY <3>3 DEF Tables
  <2>2. writtenOn' \in [Exchanges -> Days \cup {Never}]
    BY <1>5 DEF WriteUsage, TypeOK
  <2>3. task' \in [Exchanges -> {"idle", "tagged", "recorded", "done"}]
    BY <1>5 DEF WriteUsage, TypeOK
  <2>4. UNCHANGED <<hasPool, today, lastReset, usage, verdict, life, bootDay, recordedOn,
                    recordedIn, known>>
    BY <1>5 DEF WriteUsage
  <2> QED BY <2>1, <2>2, <2>3, <2>4 DEF TypeOK
<1>6. CASE Midnight
  BY <1>6 DEF Midnight, TypeOK, ledger, Days
<1>7. CASE Restart
  <2>1. usage' \in [Agents -> [Units -> Nat]]
    <3>1. rows[today] \in [Agents -> [Units -> Nat]]
      BY DEF TypeOK
    <3>2. \/ usage' = Empty
          \/ usage' = [a \in Agents |-> [rows[today][a] EXCEPT !["cost"] = 0]]
      BY <1>7 DEF Restart
    <3>3. [a \in Agents |-> [rows[today][a] EXCEPT !["cost"] = 0]] \in [Agents -> [Units -> Nat]]
      BY <3>1 DEF Units
    <3> QED BY <1>2, <3>2, <3>3 DEF Tables
  <2> QED BY <1>7, <2>1 DEF Restart, TypeOK, ledger, Days
<1>8. CASE UNCHANGED vars
  BY <1>8 DEF vars, ledger, TypeOK
<1> QED BY <1>3, <1>4, <1>5, <1>6, <1>7, <1>8 DEF Next

\* How far the task of an exchange got tells what is in the ledger, after each step
\* too, and nothing is dated ahead of the day.
LEMMA LedgerKept ==
  IInv /\ TypeOK' /\ [Next]_vars => TasksTellLedger' /\ NothingAhead'
<1> SUFFICES ASSUME IInv, TypeOK', [Next]_vars PROVE TasksTellLedger' /\ NothingAhead'
  OBVIOUS
<1>0. /\ life \in Nat /\ today \in Nat /\ lastReset \in Nat /\ lastReset =< today
      /\ bootDay \in Int /\ bootDay =< lastReset
      /\ task \in [Exchanges -> {"idle", "tagged", "recorded", "done"}]
      /\ recordedOn \in [Exchanges -> Int] /\ recordedIn \in [Exchanges -> Int]
      /\ writtenOn \in [Exchanges -> Int]
      /\ TasksTellLedger /\ NothingAhead
  BY BudgetAssumption DEF IInv, TypeOK, NothingAhead, Days, Never
<1> USE <1>0 DEF TasksTellLedger, NothingAhead, Never, ledger
<1>1. ASSUME NEW x \in Exchanges, CheckBudget(x) PROVE TasksTellLedger' /\ NothingAhead'
  BY <1>1 DEF CheckBudget
<1>2. ASSUME NEW x \in Exchanges, RecordUsage(x) PROVE TasksTellLedger' /\ NothingAhead'
  <2>1. /\ task[x] = "tagged" /\ task'[x] # "tagged" /\ task'[x] # "idle"
        /\ recordedIn'[x] = life /\ recordedOn'[x] = today /\ lastReset' = today
        /\ \A y \in Exchanges \ {x} : /\ task'[y] = task[y] /\ recordedIn'[y] = recordedIn[y]
                                      /\ recordedOn'[y] = recordedOn[y]
        /\ UNCHANGED <<life, bootDay, writtenOn>>
    BY <1>2 DEF RecordUsage
  <2>2. TasksTellLedger'
    BY <2>1
  <2>3. ASSUME NEW y \in Exchanges
        PROVE  recordedIn'[y] =< life /\ (recordedIn'[y] = life => recordedOn'[y] =< today)
    <3>1. CASE y = x
      BY <2>1, <3>1
    <3>2. CASE y # x
      <4>1. recordedIn[y] =< life /\ (recordedIn[y] = life => recordedOn[y] =< lastReset)
        OBVIOUS
      <4>2. recordedOn[y] \in Int
        OBVIOUS
      <4> QED BY <2>1, <3>2, <4>1, <4>2
    <3> QED BY <3>1, <3>2
  <2>4. NothingAhead'
    BY <2>1, <2>3
  <2> QED BY <2>2, <2>4
<1>3. ASSUME NEW x \in Exchanges, WriteUsage(x) PROVE TasksTellLedger' /\ NothingAhead'
  BY <1>3 DEF WriteUsage
<1>4. CASE Midnight
  BY <1>4 DEF Midnight
<1>5. CASE Restart
  <2>1. TasksTellLedger'
    BY <1>5 DEF Restart
  <2>2. NothingAhead'
    BY <1>5 DEF Restart
  <2> QED BY <2>1, <2>2
<1>6. CASE UNCHANGED vars
  BY <1>6 DEF vars
<1> QED BY <1>1, <1>2, <1>3, <1>4, <1>5, <1>6 DEF Next

\* The exchanges written on a day are new in its row exactly when one is.
LEMMA RowsKept == IInv /\ [Next]_vars => RowsExact'
<1> SUFFICES ASSUME IInv, [Next]_vars PROVE RowsExact'
  OBVIOUS
<1>1. CASE UNCHANGED <<rows, writtenOn>>
  BY <1>1 DEF IInv, RowsExact, WrittenOn
<1>2. ASSUME NEW x \in Exchanges, WriteUsage(x), ~ UNCHANGED <<rows, writtenOn>>
      PROVE  RowsExact'
  <2>1. /\ rows' = [rows EXCEPT ![today] = Plus(@, x)]
        /\ writtenOn' = [writtenOn EXCEPT ![x] = today]
        /\ writtenOn[x] = Never
        /\ rows \in [Days -> Tables] /\ today \in Days
        /\ writtenOn \in [Exchanges -> Days \cup {Never}]
    BY <1>2 DEF WriteUsage, IInv, TypeOK, TasksTellLedger, Tables
  <2> DEFINE xs == [u \in Units |-> WrittenOn(today)]
  <2>2. Holds(rows[today], xs)
    BY <2>1 DEF IInv, RowsExact, Holds
  <2>3. xs \in [Units -> SUBSET (Exchanges \ {x})]
    BY <2>1 DEF WrittenOn, Days, Never
  <2>4. Holds(Plus(rows[today], x), [u \in Units |-> xs[u] \cup {x}])
    BY <2>1, <2>2, <2>3, PlusHoldsMore
  <2>5. WrittenOn(today)' = WrittenOn(today) \cup {x}
    BY <2>1, <1>2 DEF WrittenOn, WriteUsage
  <2>6. \A d \in Days \ {today} : WrittenOn(d)' = WrittenOn(d)
    BY <2>1 DEF WrittenOn, Days, Never
  <2>7. ASSUME NEW d \in Days, NEW a \in Agents, NEW u \in Units
        PROVE  rows'[d][a][u] = SumOf(OfAgent(WrittenOn(d)', a), u)
    <3>1. CASE d = today
      <4>1. WrittenOn(d)' = WrittenOn(today) \cup {x} /\ rows'[d] = Plus(rows[today], x)
        BY <2>1, <2>6, <3>1, <2>5 DEF WrittenOn
      <4> QED BY <2>4, <4>1 DEF Holds
    <3>2. CASE d # today
      <4>1. WrittenOn(d)' = WrittenOn(d) /\ rows'[d] = rows[d]
        BY <2>1, <2>6, <3>2
      <4> QED BY <4>1 DEF IInv, RowsExact
    <3> QED BY <3>1, <3>2
  <2> QED BY <2>7 DEF RowsExact, WrittenOn
<1>3. \/ UNCHANGED <<rows, writtenOn>>
      \/ \E x \in Exchanges : WriteUsage(x) /\ ~ UNCHANGED <<rows, writtenOn>>
  BY DEF Next, CheckBudget, RecordUsage, Midnight, Restart, vars, ledger
<1> QED BY <1>1, <1>2, <1>3

RememberedNow == [u \in Units |-> Remembered(u)]

\* What is remembered of a unit is a set of exchanges.
LEMMA RememberedType == RememberedNow \in [Units -> SUBSET Exchanges]
BY DEF RememberedNow, Remembered, UsageOfDay, OfThisLife, Reloaded

\* Recording adds the exchange to what the counters hold, or makes it the only one.
LEMMA RecordingCounts ==
  ASSUME IInv, NEW x \in Exchanges, RecordUsage(x)
  PROVE  \A u \in Units : /\ x \notin Remembered(u)
                          /\ Remembered(u)' =
                               (IF today > lastReset THEN {} ELSE Remembered(u)) \cup {x}
<1>1. /\ task[x] = "tagged"
      /\ recordedIn[x] = Never /\ writtenOn[x] = Never
      /\ lastReset' = today /\ bootDay' = bootDay /\ life' = life /\ writtenOn' = writtenOn
      /\ recordedOn' = [recordedOn EXCEPT ![x] = today]
      /\ recordedIn' = [recordedIn EXCEPT ![x] = life]
      /\ life \in Nat /\ lastReset \in Nat /\ today \in Nat /\ lastReset =< today
      /\ recordedOn \in [Exchanges -> Days \cup {Never}]
      /\ recordedIn \in [Exchanges -> (0 .. MaxRestarts) \cup {Never}]
      /\ bootDay =< lastReset /\ bootDay \in Days \cup {Never}
  BY BudgetAssumption
  DEF RecordUsage, IInv, TypeOK, TasksTellLedger, NothingAhead, Days
<1>2. \A u \in Units : x \notin Remembered(u)
  BY <1>1 DEF Remembered, UsageOfDay, OfThisLife, Reloaded, Never
<1>3. \A u \in Units : x \in Remembered(u)'
  BY <1>1 DEF Remembered, UsageOfDay, OfThisLife, Reloaded
<1>4. ASSUME NEW u \in Units, NEW y \in Exchanges, y # x, today = lastReset
      PROVE  y \in Remembered(u)' <=> y \in Remembered(u)
  BY <1>1, <1>4 DEF Remembered, UsageOfDay, OfThisLife, Reloaded
<1>5. ASSUME NEW u \in Units, NEW y \in Exchanges, y # x, today > lastReset
      PROVE  y \notin Remembered(u)'
  <2>1. recordedIn[y] = life => recordedOn[y] =< lastReset
    BY DEF IInv, NothingAhead
  <2> QED BY <1>1, <1>5, <2>1 DEF Remembered, UsageOfDay, OfThisLife, Reloaded, Days, Never
<1>6. \A u \in Units : Remembered(u) \subseteq Exchanges /\ Remembered(u)' \subseteq Exchanges
  BY DEF Remembered, UsageOfDay, OfThisLife, Reloaded
<1> QED BY <1>1, <1>2, <1>3, <1>4, <1>5, <1>6

\* The counters stay exact.
LEMMA CountersKept == IInv /\ [Next]_vars => CountersHold'
<1> SUFFICES ASSUME IInv, [Next]_vars PROVE CountersHold'
  OBVIOUS
<1>0. usage \in Tables /\ Holds(usage, RememberedNow)
  BY DEF IInv, TypeOK, CountersHold, Holds, RememberedNow, Tables
<1>1. CASE UNCHANGED usage /\ \A u \in Units : Remembered(u)' = Remembered(u)
  BY <1>1 DEF IInv, CountersHold
<1>2. ASSUME NEW x \in Exchanges, CheckBudget(x) PROVE CountersHold'
  BY <1>1, <1>2 DEF CheckBudget, Remembered, UsageOfDay, OfThisLife, Reloaded, ledger
<1>3. ASSUME NEW x \in Exchanges, RecordUsage(x) PROVE CountersHold'
  <2> DEFINE base == IF today > lastReset THEN Empty ELSE usage
             xs == [u \in Units |-> IF today > lastReset THEN {} ELSE Remembered(u)]
  <2>1. base \in Tables /\ Holds(base, xs)
    BY <1>0, EmptyHoldsNothing DEF RememberedNow
  <2>2. xs \in [Units -> SUBSET (Exchanges \ {x})]
    BY <1>3, RecordingCounts, RememberedType DEF RememberedNow
  <2>3. \A u \in Units : Remembered(u)' = xs[u] \cup {x}
    BY <1>3, RecordingCounts
  <2>4. usage' = Plus(base, x)
    BY <1>3 DEF RecordUsage
  <2> HIDE DEF base, xs
  <2>5. Holds(Plus(base, x), [u \in Units |-> xs[u] \cup {x}])
    BY <2>1, <2>2, PlusHoldsMore
  <2> QED BY <2>3, <2>4, <2>5 DEF CountersHold, Holds
<1>4. ASSUME NEW x \in Exchanges, WriteUsage(x) PROVE CountersHold'
  <2>1. /\ recordedIn[x] = life /\ life \in Nat
        /\ UNCHANGED <<usage, lastReset, life, bootDay, recordedOn, recordedIn>>
        /\ writtenOn' \in [Exchanges -> Days \cup {Never}]
        /\ \A y \in Exchanges \ {x} : writtenOn'[y] = writtenOn[y]
    <3>1. task[x] = "recorded" /\ today \in Days /\ life \in Nat
          /\ writtenOn \in [Exchanges -> Days \cup {Never}]
      BY <1>4, BudgetAssumption DEF WriteUsage, IInv, TypeOK
    <3>2. recordedIn[x] = life
      BY <3>1 DEF IInv, TasksTellLedger
    <3> QED BY <1>4, <3>1, <3>2 DEF WriteUsage
  <2>2. \A u \in Units : Remembered(u)' = Remembered(u)
    BY <2>1 DEF Remembered, UsageOfDay, OfThisLife, Reloaded
  <2> QED BY <1>1, <2>1, <2>2
<1>5. CASE Midnight
  BY <1>1, <1>5 DEF Midnight, Remembered, UsageOfDay, OfThisLife, Reloaded, ledger
<1>6. CASE Restart
  <2>1. /\ life' = life + 1 /\ life \in Nat /\ lastReset' = today /\ today \in Days
        /\ UNCHANGED <<recordedIn, recordedOn, writtenOn, rows>>
        /\ recordedIn \in [Exchanges -> (0 .. MaxRestarts) \cup {Never}]
        /\ \A x \in Exchanges : recordedIn[x] =< life
        /\ rows \in [Days -> Tables]
    BY <1>6, BudgetAssumption DEF Restart, IInv, TypeOK, NothingAhead, ledger, Tables
  <2>2. \A x \in Exchanges : recordedIn'[x] < life' /\ recordedIn'[x] # life'
    BY <2>1 DEF Never
  <2>3. CASE bootDay' = Never /\ usage' = Empty
    <3>1. \A u \in Units : Remembered(u)' = {}
      BY <2>1, <2>2, <2>3 DEF Remembered, UsageOfDay, OfThisLife, Reloaded, Days, Never
    <3> QED BY <2>3, <3>1, EmptyHoldsNothing DEF CountersHold, Holds
  <2>4. CASE /\ bootDay' = today
             /\ usage' = [a \in Agents |-> [rows[today][a] EXCEPT !["cost"] = 0]]
    <3>1. Remembered("tokens")' = WrittenOn(today)
      BY <2>1, <2>2, <2>4 DEF Remembered, UsageOfDay, OfThisLife, Reloaded, WrittenOn
    <3>2. Remembered("cost")' = {}
      BY <2>1, <2>2 DEF Remembered, UsageOfDay, OfThisLife, Reloaded
    <3>3. ASSUME NEW a \in Agents
          PROVE  usage'[a]["tokens"] = SumOf(OfAgent(Remembered("tokens")', a), "tokens")
      <4>1. usage'[a]["tokens"] = rows[today][a]["tokens"]
        BY <2>1, <2>4 DEF Tables, Units
      <4> QED BY <2>1, <3>1, <4>1 DEF IInv, RowsExact, Units
    <3>4. ASSUME NEW a \in Agents
          PROVE  usage'[a]["cost"] = SumOf(OfAgent(Remembered("cost")', a), "cost")
      <4>1. usage'[a]["cost"] = 0
        BY <2>1, <2>4 DEF Tables, Units
      <4> QED BY <3>2, <4>1, SumOfNothing DEF OfAgent, Units
    <3> QED BY <3>3, <3>4 DEF CountersHold, Units
  <2> QED BY <1>6, <2>3, <2>4 DEF Restart
<1>7. CASE UNCHANGED vars
  BY <1>1, <1>7 DEF vars, ledger, Remembered, UsageOfDay, OfThisLife, Reloaded
<1> QED BY <1>2, <1>3, <1>4, <1>5, <1>6, <1>7 DEF Next

\* The state of the budgets is always well formed, and the strengthened invariant
\* holds in every behaviour.
THEOREM InductiveInvariant == Spec => []IInv
<1>1. Init => IInv
  BY InitEstablishes
<1>2. IInv /\ [Next]_vars => IInv'
  <2> SUFFICES ASSUME IInv, [Next]_vars PROVE IInv'
    OBVIOUS
  <2>1. TypeOK'
    BY TypeKept DEF IInv
  <2>2. TasksTellLedger' /\ NothingAhead'
    BY <2>1, LedgerKept
  <2>3. RowsExact' /\ CountersHold'
    BY RowsKept, CountersKept
  <2> QED BY <2>1, <2>2, <2>3 DEF IInv
<1> QED BY <1>1, <1>2, PTL DEF Spec

\* The tables, the counters and the tasks have their types, and no counter is
\* negative.
THEOREM TypeCorrect == Spec => []TypeOK
<1>1. IInv => TypeOK
  BY DEF IInv
<1> QED BY <1>1, InductiveInvariant, PTL

\* More exchanges have not cost less.
LEMMA SumOfGrows ==
  ASSUME NEW xs \in SUBSET Exchanges, NEW ys \in SUBSET Exchanges, NEW u \in Units
  PROVE  SumOf(xs, u) =< SumOf(xs \cup ys, u)
<1> DEFINE F == {T \in SUBSET Exchanges : SumOf(xs, u) =< SumOf(xs \cup T, u)}
<1>1. \A T \in SUBSET Exchanges : SumOf(T, u) \in Nat
  BY SumOfType
<1>2. {} \in F
  <2>1. xs \cup {} = xs
    OBVIOUS
  <2> QED BY <1>1, <2>1
<1>3. ASSUME NEW T \in F, NEW x \in Exchanges \ T PROVE T \cup {x} \in F
  <2>1. T \in SUBSET Exchanges /\ SumOf(xs, u) =< SumOf(xs \cup T, u)
    OBVIOUS
  <2>2. T \cup {x} \in SUBSET Exchanges /\ xs \cup (T \cup {x}) = (xs \cup T) \cup {x}
    BY <2>1
  <2>3. CASE x \in xs \cup T
    <3>1. xs \cup (T \cup {x}) = xs \cup T
      BY <2>3
    <3> QED BY <2>1, <2>2, <3>1
  <2>4. CASE x \notin xs \cup T
    <3>1. xs \cup T \in SUBSET Exchanges /\ x \in Exchanges \ (xs \cup T)
      BY <2>1, <2>4
    <3>2. SumOf((xs \cup T) \cup {x}, u) = SumOf(xs \cup T, u) + Amount[x][u]
      BY <3>1, SumOfMore
    <3>3. Amount[x][u] \in Nat /\ SumOf(xs, u) \in Nat /\ SumOf(xs \cup T, u) \in Nat
      BY <1>1, <3>1, BudgetAssumption
    <3>4. SumOf(xs, u) =< SumOf((xs \cup T) \cup {x}, u)
      BY <2>1, <3>2, <3>3
    <3> QED BY <2>2, <3>4
  <2> QED BY <2>3, <2>4
<1>4. F = SUBSET Exchanges
  <2> HIDE DEF F
  <2>1. F \in SUBSET SUBSET Exchanges
    BY DEF F
  <2> QED BY <1>2, <1>3, <2>1, BudgetAssumption, SubsetInduction
<1> QED BY <1>4

\* The in-memory counters are about the day of the last reset alone. The tokens are
\* exactly its usage, with what a restart found written; the dollars are between
\* those of this life and those of the day.
THEOREM CountersAlwaysExact == Spec => []CountersExact
<1>1. ASSUME IInv PROVE CountersExact
  <2> SUFFICES ASSUME NEW a \in Agents
               PROVE  /\ usage[a]["tokens"] = SumOf(OfAgent(UsageOfDay, a), "tokens")
                      /\ usage[a]["cost"] >= SumOf(OfAgent(OfThisLife, a), "cost")
                      /\ usage[a]["cost"] =< SumOf(OfAgent(UsageOfDay, a), "cost")
    BY DEF CountersExact
  <2> DEFINE old == OfAgent(Reloaded, a)
             own == OfAgent(OfThisLife, a)
  <2>1. "tokens" \in Units /\ "cost" \in Units
    BY DEF Units
  <2>2. usage[a]["tokens"] = SumOf(OfAgent(UsageOfDay, a), "tokens")
    BY <1>1, <2>1 DEF IInv, CountersHold, Remembered
  <2>3. usage[a]["cost"] = SumOf(own, "cost")
    BY <1>1, <2>1 DEF IInv, CountersHold, Remembered
  <2>4. own \in SUBSET Exchanges /\ old \in SUBSET Exchanges
    BY DEF OfAgent, OfThisLife, Reloaded
  <2>5. OfAgent(UsageOfDay, a) = own \cup old
    BY DEF OfAgent, UsageOfDay
  <2> HIDE DEF own, old
  <2>6. SumOf(own, "cost") \in Nat /\ SumOf(own, "cost") =< SumOf(own \cup old, "cost")
    BY <2>1, <2>4, SumOfType, SumOfGrows
  <2> QED BY <2>2, <2>3, <2>5, <2>6 DEF own
<1> QED BY <1>1, InductiveInvariant, PTL

-----------------------------------------------------------------------------
(* What was allowed                                                        *)

\* check_budget allows an exchange only when each limit there is has room for it.
LEMMA AllowFitsCounters ==
  ASSUME IInv, NEW x \in Exchanges, Check(x) = "allow",
         NEW scope, NEW u \in Units, scope = AgentOf[x] \/ scope = Global,
         <<scope, u>> \in DOMAIN LimitOf
  PROVE  ~ (Used(scope, u) + Amount[x][u] > LimitOf[<<scope, u>>])
<1> DEFINE keys == Keys(AgentOf[x])
           k == <<scope, u>>
<1>1. \A i \in DOMAIN keys : CheckLimit(keys[i], x) = "none"
  BY DEF Check, CheckLimit
<1>2. \E i \in DOMAIN keys : keys[i] = k
  <2>1. DOMAIN keys = 1 .. 4
    BY DEF Keys
  <2> QED BY <2>1 DEF Keys, Units
<1>3. CheckLimit(k, x) = "none"
  BY <1>1, <1>2
<1>4. ~ (Projected(k, x) > LimitOf[k])
  BY <1>3 DEF CheckLimit
<1> QED BY <1>4 DEF Projected

\* The counters of the agent and of everyone are sums over what they hold.
LEMMA UsedIsRemembered ==
  ASSUME IInv, NEW u \in Units
  PROVE  /\ Used(Global, u) = SumOf(Remembered(u), u)
         /\ \A a \in Agents \ {Global} : Used(a, u) = SumOf(OfAgent(Remembered(u), a), u)
<1>1. usage \in Tables /\ Holds(usage, RememberedNow)
  BY DEF IInv, TypeOK, CountersHold, Holds, RememberedNow, Tables
<1>2. SumFunctionOnSet([a \in Agents |-> usage[a][u]], Agents) = SumOf(RememberedNow[u], u)
  BY <1>1, RememberedType, GlobalIsAllAgents
<1> QED BY <1>2 DEF Used, IInv, CountersHold, RememberedNow

\* No step makes an answer of check_limit wrong that was right.
LEMMA AllowKept == IInv /\ AllowIsSound /\ [Next]_vars => AllowIsSound'
<1> SUFFICES ASSUME IInv, AllowIsSound, [Next]_vars PROVE AllowIsSound'
  OBVIOUS
<1>1. CASE UNCHANGED <<verdict, known>>
  BY <1>1 DEF AllowIsSound
<1>2. ASSUME NEW x \in Exchanges, CheckBudget(x) PROVE AllowIsSound'
  <2> DEFINE a == AgentOf[x]
  <2>1. /\ verdict' = [verdict EXCEPT ![x] = Check(x)]
        /\ known' = [known EXCEPT ![x] =
                       [u \in Units |-> IF lastReset = today THEN Remembered(u) ELSE {}]]
        /\ verdict \in [Exchanges -> Verdicts]
        /\ known \in [Exchanges -> [Units -> SUBSET Exchanges]]
    BY <1>2 DEF CheckBudget, IInv, TypeOK
  <2>2. a \in Agents \ {Global} /\ \A u \in Units : Amount[x][u] \in Nat
    BY BudgetAssumption
  <2>3. ASSUME NEW u \in Units, Check(x) = "allow"
        PROVE  /\ <<a, u>> \in DOMAIN LimitOf =>
                    SumOf(OfAgent(known'[x][u], a), u) + Amount[x][u] =< LimitOf[<<a, u>>]
               /\ <<Global, u>> \in DOMAIN LimitOf =>
                    SumOf(known'[x][u], u) + Amount[x][u] =< LimitOf[<<Global, u>>]
    <3> DEFINE held == known'[x][u]
    <3>1. held = Remembered(u) \/ held = {}
      BY <2>1
    <3>2. Remembered(u) \in SUBSET Exchanges /\ OfAgent(Remembered(u), a) \in SUBSET Exchanges
      BY DEF Remembered, UsageOfDay, OfThisLife, Reloaded, OfAgent
    <3>3. /\ SumOf(Remembered(u), u) \in Nat /\ SumOf(OfAgent(Remembered(u), a), u) \in Nat
          /\ SumOf({}, u) = 0 /\ OfAgent({}, a) = {}
      BY <3>2, SumOfType, SumOfNothing DEF OfAgent
    <3>4. SumOf(held, u) \in Nat /\ SumOf(held, u) =< Used(Global, u)
      BY <3>1, <3>3, UsedIsRemembered
    <3>5. SumOf(OfAgent(held, a), u) \in Nat /\ SumOf(OfAgent(held, a), u) =< Used(a, u)
      <4>1. Used(a, u) = SumOf(OfAgent(Remembered(u), a), u)
        BY <2>2, UsedIsRemembered
      <4> QED BY <3>1, <3>3, <4>1
    <3>6. Used(Global, u) \in Nat /\ Used(a, u) \in Nat /\ Amount[x][u] \in Nat
      BY <2>2, <3>3, UsedIsRemembered
    <3>7. ASSUME NEW scope \in {a, Global}, <<scope, u>> \in DOMAIN LimitOf
          PROVE  Used(scope, u) + Amount[x][u] =< LimitOf[<<scope, u>>]
      <4>1. LimitOf[<<scope, u>>] \in Nat
        BY <3>7, BudgetAssumption
      <4>2. ~ (Used(scope, u) + Amount[x][u] > LimitOf[<<scope, u>>])
        BY <2>3, <3>7, AllowFitsCounters
      <4>3. Used(scope, u) \in Nat
        BY <3>6
      <4> QED BY <3>6, <4>1, <4>2, <4>3
    <3> HIDE DEF held, a
    <3>8. <<a, u>> \in DOMAIN LimitOf =>
             SumOf(OfAgent(held, a), u) + Amount[x][u] =< LimitOf[<<a, u>>]
      <4> HAVE <<a, u>> \in DOMAIN LimitOf
      <4>1. LimitOf[<<a, u>>] \in Nat
        BY BudgetAssumption
      <4> QED BY <3>5, <3>6, <3>7, <4>1
    <3>9. <<Global, u>> \in DOMAIN LimitOf =>
             SumOf(held, u) + Amount[x][u] =< LimitOf[<<Global, u>>]
      <4> HAVE <<Global, u>> \in DOMAIN LimitOf
      <4>1. LimitOf[<<Global, u>>] \in Nat
        BY BudgetAssumption
      <4> QED BY <3>4, <3>6, <3>7, <4>1
    <3> QED BY <3>8, <3>9 DEF held
  <2>4. ASSUME NEW y \in Exchanges, y # x
        PROVE  verdict'[y] = verdict[y] /\ known'[y] = known[y]
    BY <2>1, <2>4
  <2>5. verdict'[x] = Check(x)
    BY <2>1
  <2> HIDE DEF a
  <2> QED BY <2>3, <2>4, <2>5 DEF AllowIsSound, a
<1>3. UNCHANGED <<verdict, known>> \/ \E x \in Exchanges : CheckBudget(x)
  BY DEF Next, RecordUsage, WriteUsage, Midnight, Restart, vars
<1> QED BY <1>1, <1>2, <1>3

\* An exchange is tagged as allowed only when it fits every limit, of its agent and
\* of all agents, together with all the usage of the day that was known at its
\* check.
THEOREM AllowAlwaysSound == Spec => []AllowIsSound
<1>1. Init => AllowIsSound
  BY DEF Init, AllowIsSound
<1>2. IInv /\ AllowIsSound /\ [Next]_vars => AllowIsSound'
  BY AllowKept
<1> QED BY <1>1, <1>2, InductiveInvariant, PTL DEF Spec
=============================================================================
