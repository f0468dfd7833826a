------------------------------- MODULE Budget -------------------------------
(***************************************************************************)
(* Daily budgets: the in-memory BudgetTracker behind its mutex, the tag of *)
(* a response event and the recording of its usage as two critical         *)
(* sections, the spawned write to budget_daily, midnight, and the restart  *)
(* that loads the counters of the day.                                     *)
(* Modelled from crates/agentland-proxy/src/policy/budget.rs and           *)
(* crates/agentland-proxy/src/policy/engine.rs.                            *)
(*                                                                         *)
(* Tokens and dollars go through the same code, so they are two units of   *)
(* one table; dollars are counted in some smallest unit, so that the sums  *)
(* of f64 are exact. A request event is tagged with an estimate of zero    *)
(* and records nothing. The verdict is a tag: no verdict stops traffic.    *)
(***************************************************************************)
EXTENDS Integers, FiniteSets, FiniteSetsExt, Functions

CONSTANTS
    Exchanges,    \* the responses whose usage is recorded
    Agents,       \* agent identifiers
    AgentOf,      \* the agent of an exchange
    Amount,       \* what an exchange uses, for each unit
    LimitOf,      \* BudgetPolicy: the limit of a scope in a unit, where it has one
    MaxDay,       \* bound of the model: the last day
    MaxRestarts   \* bound of the model: how often the process may restart

Units == {"tokens", "cost"}
Global == "global"

ASSUME BudgetAssumption ==
    /\ IsFiniteSet(Exchanges)
    /\ IsFiniteSet(Agents)
    /\ Global \notin Agents   \* the limits of all agents together are a field of their own
    /\ AgentOf \in [Exchanges -> Agents]
    /\ Amount \in [Exchanges -> [Units -> Nat]]
    /\ DOMAIN LimitOf \subseteq (Agents \cup {Global}) \X Units
    /\ \A k \in DOMAIN LimitOf : LimitOf[k] \in Nat
    /\ MaxDay \in Nat
    /\ MaxRestarts \in Nat

VARIABLES
    hasPool,      \* the database answered when the process started
    today,        \* the UTC date, for the process and for CURRENT_DATE
    lastReset,    \* BudgetTracker::last_reset
    usage,        \* BudgetTracker::daily_usage
    rows,         \* budget_daily, by date
    task,         \* where the log task of an exchange stands
    verdict,      \* what check_budget returned for the tag of the exchange
    life,         \* history: the life of the process, counted in restarts
    bootDay,      \* history: the date it started on, Never before a restart or
                  \* when it could not load budget_daily
    recordedOn,   \* history: the date the usage was recorded on
    recordedIn,   \* history: the life it was recorded in
    writtenOn,    \* history: the date its row was written on
    known         \* history: the usage of the day known at the check, for each unit

ledger == <<recordedOn, recordedIn, writtenOn>>
vars == <<hasPool, today, lastReset, usage, rows, task, verdict, life, bootDay,
          ledger, known>>

-----------------------------------------------------------------------------
Days == 0 .. MaxDay
Never == -1
Verdicts == {"none", "allow", "alert", "block"}

SumOf(xs, u) == SumFunctionOnSet([x \in Exchanges |-> Amount[x][u]], xs)
OfAgent(xs, a) == {x \in xs : AgentOf[x] = a}

Empty == [a \in Agents |-> [u \in Units |-> 0]]
Plus(table, x) ==
    [table EXCEPT ![AgentOf[x]] = [u \in Units |-> @[u] + Amount[x][u]]]

TypeOK ==
    /\ hasPool \in BOOLEAN
    /\ today \in Days
    /\ lastReset \in Days
    /\ lastReset =< today
    /\ usage \in [Agents -> [Units -> Nat]]
    /\ rows \in [Days -> [Agents -> [Units -> Nat]]]
    /\ task \in [Exchanges -> {"idle", "tagged", "recorded", "done"}]
    /\ verdict \in [Exchanges -> Verdicts]
    /\ life \in 0 .. MaxRestarts
    /\ bootDay \in Days \cup {Never}
    /\ recordedOn \in [Exchanges -> Days \cup {Never}]
    /\ recordedIn \in [Exchanges -> (0 .. MaxRestarts) \cup {Never}]
    /\ writtenOn \in [Exchanges -> Days \cup {Never}]
    /\ known \in [Exchanges -> [Units -> SUBSET Exchanges]]

Init ==
    /\ hasPool \in BOOLEAN
    /\ today = 0
    /\ lastReset = 0
    /\ usage = Empty
    /\ rows = [d \in Days |-> Empty]
    /\ task = [x \in Exchanges |-> "idle"]
    /\ verdict = [x \in Exchanges |-> "none"]
    /\ life = 0
    /\ bootDay = Never
    /\ recordedOn = [x \in Exchanges |-> Never]
    /\ recordedIn = [x \in Exchanges |-> Never]
    /\ writtenOn = [x \in Exchanges |-> Never]
    /\ known = [x \in Exchanges |-> [u \in Units |-> {}]]

-----------------------------------------------------------------------------
(* check_budget                                                            *)

\* The limits in the order they are looked at.
Keys(a) == << <<a, "tokens">>, <<a, "cost">>, <<Global, "tokens">>, <<Global, "cost">> >>

Used(scope, u) ==
    IF scope = Global THEN SumFunctionOnSet([a \in Agents |-> usage[a][u]], Agents)
    ELSE usage[scope][u]

Projected(k, x) == Used(k[1], k[2]) + Amount[x][k[2]]

\* Faulty variant: the estimate is left out.
CheckLimitNoEstimate(k, x) ==
    IF k \notin DOMAIN LimitOf THEN "none"
    ELSE IF Used(k[1], k[2]) > LimitOf[k] THEN "block"
    ELSE IF 10 * Used(k[1], k[2]) > 9 * LimitOf[k] THEN "alert"
    ELSE "none"

\* check_token_limit and check_cost_limit: above the limit, above 90 % of it, or
\* nothing to say. The limit is missing for most keys.
CheckLimit(k, x) ==
    IF k \notin DOMAIN LimitOf THEN "none"
    ELSE IF Projected(k, x) > LimitOf[k] THEN "block"
    ELSE IF 10 * Projected(k, x) > 9 * LimitOf[k] THEN "alert"
    ELSE "none"

\* The first limit that has something to say decides, the rest is not looked at.
Check(x) ==
    LET keys == Keys(AgentOf[x])
        speaking == {i \in DOMAIN keys : CheckLimit(keys[i], x) # "none"}
    IN  IF speaking = {} THEN "allow" ELSE CheckLimit(keys[Min(speaking)], x)

\* The usage of the day of the counters, as far as the process recorded it or could
\* find it when it started: what this life recorded on that day, and what earlier
\* lives had written for it when the start of this life read the table.
OfThisLife == {x \in Exchanges : recordedIn[x] = life /\ recordedOn[x] = lastReset}

Reloaded ==
    {x \in Exchanges :
       bootDay = lastReset /\ recordedIn[x] < life /\ writtenOn[x] = bootDay}

UsageOfDay == OfThisLife \cup Reloaded

\* What of it a check has before it: of the dollars only those of this life, because
\* Restart reads the others as zero.
Remembered(u) == IF u = "tokens" THEN UsageOfDay ELSE OfThisLife

\* compliance_tag of the response event. check_budget takes the counters as they
\* are, whatever the date.
CheckBudget(x) ==
    /\ task[x] = "idle"
    /\ task' = [task EXCEPT ![x] = "tagged"]
    /\ verdict' = [verdict EXCEPT ![x] = Check(x)]
    /\ known' = [known EXCEPT ![x] =
                   [u \in Units |-> IF lastReset = today THEN Remembered(u) ELSE {}]]
    /\ UNCHANGED <<hasPool, today, lastReset, usage, rows, life, bootDay, ledger>>

-----------------------------------------------------------------------------
(* record_usage_with_db                                                    *)

\* Faulty variant: the date is moved on without clearing the counters.
RecordUsageNoClear(x) ==
    /\ task[x] = "tagged"
    /\ usage' = Plus(usage, x)
    /\ lastReset' = today
    /\ task' = [task EXCEPT ![x] = IF hasPool THEN "recorded" ELSE "done"]
    /\ recordedOn' = [recordedOn EXCEPT ![x] = today]
    /\ recordedIn' = [recordedIn EXCEPT ![x] = life]
    /\ UNCHANGED <<hasPool, today, rows, verdict, life, bootDay, writtenOn, known>>

\* maybe_reset_daily, then the usage is added; with a pool the write is spawned.
RecordUsage(x) ==
    /\ task[x] = "tagged"
    /\ usage' = Plus(IF today > lastReset THEN Empty ELSE usage, x)
    /\ lastReset' = today
    /\ task' = [task EXCEPT ![x] = IF hasPool THEN "recorded" ELSE "done"]
    /\ recordedOn' = [recordedOn EXCEPT ![x] = today]
    /\ recordedIn' = [recordedIn EXCEPT ![x] = life]
    /\ UNCHANGED <<hasPool, today, rows, verdict, life, bootDay, writtenOn, known>>

\* upsert_budget_usage: the row of CURRENT_DATE, which may be the day after. An
\* error is logged and the usage is missing from the table.
WriteUsage(x) ==
    /\ task[x] = "recorded"
    /\ \/ /\ rows' = [rows EXCEPT ![today] = Plus(@, x)]
          /\ writtenOn' = [writtenOn EXCEPT ![x] = today]
       \/ UNCHANGED <<rows, writtenOn>>
    /\ task' = [task EXCEPT ![x] = "done"]
    /\ UNCHANGED <<hasPool, today, lastReset, usage, verdict, life, bootDay,
                   recordedOn, recordedIn, known>>

-----------------------------------------------------------------------------
Midnight ==
    /\ today < MaxDay
    /\ today' = today + 1
    /\ UNCHANGED <<hasPool, lastReset, usage, rows, task, verdict, life, bootDay,
                   ledger, known>>

\* load_budget_from_db into a new tracker, unless the query fails or there is no
\* database. The column of the dollars is NUMERIC and is read as f64, which sqlx
\* refuses: unwrap_or makes it zero, for every row. Tasks of the old process are
\* gone, with the writes they spawned.
Restart ==
    /\ life < MaxRestarts
    /\ life' = life + 1
    /\ hasPool' \in BOOLEAN
    /\ lastReset' = today
    /\ \/ /\ hasPool'
          /\ bootDay' = today
          /\ usage' = [a \in Agents |-> [rows[today][a] EXCEPT !["cost"] = 0]]
       \/ /\ bootDay' = Never
          /\ usage' = Empty
    /\ task' = [x \in Exchanges |-> IF task[x] = "idle" THEN "idle" ELSE "done"]
    /\ UNCHANGED <<today, rows, verdict, ledger, known>>

Next ==
    \/ \E x \in Exchanges : CheckBudget(x) \/ RecordUsage(x) \/ WriteUsage(x)
    \/ Midnight
    \/ Restart

Spec == Init /\ [][Next]_vars

-----------------------------------------------------------------------------
(* Properties                                                              *)

\* The counters are about one day, that of the last reset, and no other day leaks
\* into them, whatever the order of records, midnights and restarts. The tokens are
\* exactly the usage of that day, with all of it that a restart found written. The
\* dollars are at least those this life recorded and at most those of the day. That
\* they are those of the day, as policy/budget.rs:12-14 says of all counters, is not
\* so after a restart that found any (store/budget.rs:129).
CountersExact ==
    \A a \in Agents :
        /\ usage[a]["tokens"] = SumOf(OfAgent(UsageOfDay, a), "tokens")
        /\ usage[a]["cost"] >= SumOf(OfAgent(OfThisLife, a), "cost")
        /\ usage[a]["cost"] =< SumOf(OfAgent(UsageOfDay, a), "cost")

\* An exchange is tagged as allowed only when, with all that was known of the day
\* at its check, it fits every limit. (The dollars that a restart forgot are not
\* known.) So exchanges that were allowed and together exceed a limit were tagged
\* before the other's usage was recorded.
AllowIsSound ==
    \A x \in Exchanges : verdict[x] = "allow" =>
        \A u \in Units :
            /\ <<AgentOf[x], u>> \in DOMAIN LimitOf =>
                 SumOf(OfAgent(known[x][u], AgentOf[x]), u) + Amount[x][u]
                   =< LimitOf[<<AgentOf[x], u>>]
            /\ <<Global, u>> \in DOMAIN LimitOf =>
                 SumOf(known[x][u], u) + Amount[x][u] =< LimitOf[<<Global, u>>]
=============================================================================
