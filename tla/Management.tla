----------------------------- MODULE Management -----------------------------
(***************************************************************************)
(* The management API over the tables agents, projects and budget_config:  *)
(* calls of several clients that are made of one to three SQL statements   *)
(* each, with no transaction around them, while the background writer      *)
(* upserts the agents it sees and the processes of Boot come and go.       *)
(* Modelled from crates/agentland-store/src/agents.rs, projects.rs and     *)
(* budget.rs, and the handlers of crates/agentland-proxy/src/api/handlers. *)
(*                                                                         *)
(* A statement is atomic. A call on a table that does not exist fails with *)
(* 500. No statement deletes an agent. The id of a project is used once.   *)
(***************************************************************************)
EXTENDS Boot, Sequences, SequencesExt, Functions

CONSTANTS
    Clients,          \* callers of the API
    Agents,           \* agent identifiers
    Projects,         \* the identifiers that gen_random_uuid may choose
    AgentsTable,      \* the migration that creates agents
    ProjectsTable,    \* the migration that creates projects and agents.project_id
    BudgetTable,      \* the migration that creates budget_config
    Filters,          \* the filters of list_agents that the clients use
    PageSize,         \* the limit of a page after the clamp
    MaxCalls          \* bound of the model: how many calls are made

Null == "null"
Fields == {"name", "labels"}
Statuses == {"active", "blocked"}
Limits == {"daily_token_limit", "daily_cost_limit_usd"}

\* A filter says which statuses, agents (those of a type, which no statement
\* changes) and names it lets through; one that is not given lets all through,
\* and a pattern for the name no NULL.
FilterType ==
    [status : SUBSET Statuses, ofType : SUBSET Agents, name : SUBSET (Clients \cup {Null})]

ASSUME ManagementAssumption ==
    /\ AgentsTable \in Migrations /\ ProjectsTable \in Migrations
    /\ BudgetTable \in Migrations
    /\ Filters \subseteq FilterType
    /\ PageSize \in Nat \ {0}
    /\ MaxCalls \in Nat
    /\ Null \notin Projects
    /\ IsFiniteSet(Projects)   \* a UUID has 128 bits

VARIABLES
    rows,       \* the agents with a row, the one seen last first
    status,     \* agents.status
    text,       \* agents.name and agents.labels
    project,    \* agents.project_id
    projects,   \* the projects with a row
    title,      \* projects.name and projects.description
    budget,     \* the rows of budget_config: the limits that are not NULL
    call,       \* the call each client is in, and where it stands
    made,       \* how many calls were made
    used,       \* history: the project identifiers used so far
    edited,     \* history: the last text a client gave each field
    deletions,  \* history: how many calls were told they deleted the project
    due,        \* history: what a walk through the pages still has to show
    gone        \* history: how many agents left the filter during the walk

tables == <<rows, status, text, project, projects, title, budget>>
walks == <<due, gone>>
history == <<used, edited, deletions, walks>>
vars == <<bootVars, tables, call, made, history>>

-----------------------------------------------------------------------------
Idle == [op |-> "idle"]
Known(a) == a \in Range(rows)
Has(table) == table \in schema
SomeoneServes == \E s \in Services : Serving(s) /\ boot[s] # "stub"

Calls ==
    [op : {"idle"}]
      \cup [op : {"edit"}, at : {"check", "write", "read"}, agent : Agents,
            fields : (SUBSET Fields) \ {{}}]
      \cup [op : {"retire"}, at : {"check", "write"}, agent : Agents]
      \cup [op : {"update"}, at : {"write", "read"}, project : Projects]
      \cup [op : {"delete"}, at : {"count", "delete"}, project : Projects, late : SUBSET Agents]
      \cup [op : {"list"}, filter : Filters, offset : Nat, got : SUBSET Agents]

TypeOK ==
    /\ BootTypeOK
    /\ rows \in Seq(Agents) /\ IsInjective(rows)
    /\ status \in [Agents -> Statuses]
    /\ text \in [Agents -> [Fields -> Clients \cup {Null}]]
    /\ project \in [Agents -> Projects \cup {Null}]
    /\ projects \subseteq used
    /\ title \in [Projects -> {"created", "updated"}]
    /\ DOMAIN budget \subseteq Agents
    /\ \A a \in DOMAIN budget : budget[a] \subseteq Limits
    /\ call \in [Clients -> Calls]
    /\ made \in 0 .. MaxCalls
    /\ used \subseteq Projects
    /\ edited \in [Agents -> [Fields -> Clients \cup {Null}]]
    /\ deletions \in [Projects -> Nat]
    /\ due \in [Clients -> SUBSET Agents]
    /\ gone \in [Clients -> Nat]

NoText == [f \in Fields |-> Null]

Init ==
    /\ BootInit
    /\ rows = <<>>
    /\ status = [a \in Agents |-> "active"]
    /\ text = [a \in Agents |-> NoText]
    /\ project = [a \in Agents |-> Null]
    /\ projects = {}
    /\ title = [p \in Projects |-> "created"]
    /\ budget = <<>>
    /\ call = [c \in Clients |-> Idle]
    /\ made = 0
    /\ used = {}
    /\ edited = [a \in Agents |-> NoText]
    /\ deletions = [p \in Projects |-> 0]
    /\ due = [c \in Clients |-> {}]
    /\ gone = [c \in Clients |-> 0]

-----------------------------------------------------------------------------
(* The filter of a list                                                    *)

Fits(f, a, itsStatus, itsName) ==
    itsStatus \in f.status /\ a \in f.ofType /\ itsName \in f.name

Matches(f, a) == Fits(f, a, status[a], text[a]["name"])

\* The row of a, which a step writes, is let through before it and not after.
Leaves(f, a) == Matches(f, a) /\ ~ Fits(f, a, status'[a], text'[a]["name"])

Losing(a) == {c \in Clients : call[c].op = "list" /\ Leaves(call[c].filter, a)}

\* A walk need not show an agent that leaves its filter, nor one that is seen.
Note(a, seen) ==
    /\ due' = [c \in Clients |-> IF seen \/ c \in Losing(a) THEN due[c] \ {a} ELSE due[c]]
    /\ gone' = [c \in Clients |-> IF c \in Losing(a) THEN gone[c] + 1 ELSE gone[c]]

-----------------------------------------------------------------------------
(* The background writer                                                   *)

\* Faulty variant: the agent seen last comes last.
UpsertAgentLast(a) ==
    /\ Has(AgentsTable)
    /\ SomeoneServes
    /\ rows' = Append(RemoveFirst(rows, a), a)
    /\ status' = [status EXCEPT ![a] = "active"]
    /\ UNCHANGED text
    /\ Note(a, TRUE)
    /\ UNCHANGED <<bootVars, project, projects, title, budget, call, made, used, edited, deletions>>

\* ON CONFLICT leaves name, labels and project_id alone.
UpsertAgent(a) ==
    /\ Has(AgentsTable)
    /\ SomeoneServes
    /\ rows' = Cons(a, RemoveFirst(rows, a))
    /\ status' = [status EXCEPT ![a] = "active"]
    /\ UNCHANGED text
    /\ Note(a, TRUE)
    /\ UNCHANGED <<bootVars, project, projects, title, budget, call, made, used, edited, deletions>>

-----------------------------------------------------------------------------
(* Calls of the API                                                        *)

\* A client makes a call to a process that has a pool.
Asks(c) ==
    /\ call[c] = Idle
    /\ made < MaxCalls
    /\ SomeoneServes
    /\ made' = made + 1

Enter(c, what) == call' = [call EXCEPT ![c] = what]
Goto(c, where) == call' = [call EXCEPT ![c].at = where]
Answer(c) == call' = [call EXCEPT ![c] = Idle]
At(c, op, where) == call[c].op = op /\ call[c].at = where

\* PUT and POST of an agent first look whether it exists.
BeginEdit(c) ==
    /\ Asks(c)
    /\ \E a \in Agents, fs \in (SUBSET Fields) \ {{}} :
          Enter(c, [op |-> "edit", at |-> "check", agent |-> a, fields |-> fs])
    /\ UNCHANGED <<bootVars, tables, history>>

BeginRetire(c) ==
    /\ Asks(c)
    /\ \E a \in Agents : Enter(c, [op |-> "retire", at |-> "check", agent |-> a])
    /\ UNCHANGED <<bootVars, tables, history>>

CheckAgent(c) ==
    /\ At(c, "edit", "check") \/ At(c, "retire", "check")
    /\ IF Has(AgentsTable) /\ Known(call[c].agent) THEN Goto(c, "write") ELSE Answer(c)
    /\ UNCHANGED <<bootVars, tables, made, history>>

\* The text written is named after the client who wrote it.
Written(old, c) ==
    [old EXCEPT ![call[c].agent] =
        [f \in Fields |-> IF f \in call[c].fields THEN c ELSE @[f]]]

\* Faulty variant: a column that is not given becomes NULL.
WriteEditWhole(c) ==
    /\ At(c, "edit", "write")
    /\ text' = [text EXCEPT ![call[c].agent] =
                  [f \in Fields |-> IF f \in call[c].fields THEN c ELSE Null]]
    /\ edited' = Written(edited, c)
    /\ UNCHANGED status
    /\ Note(call[c].agent, FALSE)
    /\ Goto(c, "read")
    /\ UNCHANGED <<bootVars, rows, project, projects, title, budget, made, used, deletions>>

\* update_agent_metadata sets the columns that were given and no other.
WriteEdit(c) ==
    /\ At(c, "edit", "write")
    /\ text' = Written(text, c)
    /\ edited' = Written(edited, c)
    /\ UNCHANGED status
    /\ Note(call[c].agent, FALSE)
    /\ Goto(c, "read")
    /\ UNCHANGED <<bootVars, rows, project, projects, title, budget, made, used, deletions>>

WriteRetire(c) ==
    /\ At(c, "retire", "write")
    /\ status' = [status EXCEPT ![call[c].agent] = "blocked"]
    /\ UNCHANGED text
    /\ Note(call[c].agent, FALSE)
    /\ Answer(c)
    /\ UNCHANGED <<bootVars, rows, project, projects, title, budget, made, used, edited, deletions>>

\* The row is read once more for the answer.
ReadBack(c) ==
    /\ At(c, "edit", "read") \/ At(c, "update", "read")
    /\ Answer(c)
    /\ UNCHANGED <<bootVars, tables, made, history>>

\* Whoever counted the agents of p before does not know of this one.
SeenLate(a, p) ==
    [c \in Clients |->
       IF call[c].op = "delete" /\ call[c].at = "delete" /\ call[c].project = p
       THEN [call[c] EXCEPT !.late = @ \cup {a}]
       ELSE call[c]]

\* One UPDATE; the foreign key refuses a project that does not exist.
AssignAgent(c) ==
    /\ Asks(c)
    /\ \E a \in Agents, p \in Projects \cup {Null} :
          IF Has(ProjectsTable) /\ Known(a) /\ p \in projects \cup {Null}
          THEN /\ project' = [project EXCEPT ![a] = p]
               /\ call' = SeenLate(a, p)
          ELSE UNCHANGED <<project, call>>
    /\ UNCHANGED <<bootVars, rows, status, text, projects, title, budget, history>>

InsertProject(p) ==
    /\ projects' = projects \cup {p}
    /\ used' = used \cup {p}

CreateProject(c) ==
    /\ Asks(c)
    /\ IF Has(ProjectsTable) THEN \E p \in Projects \ used : InsertProject(p)
       ELSE UNCHANGED <<projects, used>>
    /\ UNCHANGED <<bootVars, rows, status, text, project, title, budget, call>>
    /\ UNCHANGED <<edited, deletions, walks>>

\* Without a field to set nothing is written and the answer is 404.
BeginUpdate(c) ==
    /\ Asks(c)
    /\ \/ \E p \in used : Enter(c, [op |-> "update", at |-> "write", project |-> p])
       \/ UNCHANGED call
    /\ UNCHANGED <<bootVars, tables, history>>

WriteUpdate(c) ==
    /\ At(c, "update", "write")
    /\ IF call[c].project \in projects
       THEN title' = [title EXCEPT ![call[c].project] = "updated"] /\ Goto(c, "read")
       ELSE UNCHANGED title /\ Answer(c)
    /\ UNCHANGED <<bootVars, rows, status, text, project, projects, budget, made, history>>

\* The count and the DELETE are two statements.
BeginDelete(c) ==
    /\ Asks(c)
    /\ \E p \in used :
          Enter(c, [op |-> "delete", at |-> "count", project |-> p, late |-> {}])
    /\ UNCHANGED <<bootVars, tables, history>>

Members(p) == {a \in Range(rows) : project[a] = p}

\* Faulty variant: the count does not decide.
CountMembersOnly(c) ==
    /\ At(c, "delete", "count")
    /\ Goto(c, "delete")
    /\ UNCHANGED <<bootVars, tables, made, history>>

CountMembers(c) ==
    /\ At(c, "delete", "count")
    /\ IF Members(call[c].project) = {} THEN Goto(c, "delete") ELSE Answer(c)
    /\ UNCHANGED <<bootVars, tables, made, history>>

\* Faulty variant: no ON DELETE SET NULL, and whoever found no agent has
\* deleted the project.
DeleteProjectUncounted(c) ==
    LET p == call[c].project IN
    /\ At(c, "delete", "delete")
    /\ projects' = projects \ {p}
    /\ deletions' = [deletions EXCEPT ![p] = @ + 1]
    /\ Answer(c)
    /\ UNCHANGED <<bootVars, rows, status, text, project, title, budget, made, used, edited, walks>>

\* ON DELETE SET NULL; the answer says "deleted" when a row was affected.
DeleteProject(c) ==
    LET p == call[c].project IN
    /\ At(c, "delete", "delete")
    /\ projects' = projects \ {p}
    /\ project' = [a \in Agents |-> IF project[a] = p THEN Null ELSE project[a]]
    /\ deletions' = [deletions EXCEPT ![p] = IF p \in projects THEN @ + 1 ELSE @]
    /\ Answer(c)
    /\ UNCHANGED <<bootVars, rows, status, text, title, budget, made, used, edited, walks>>

\* A limit that is not given becomes NULL.
UpsertBudgetConfig(a, limits) ==
    budget' = [b \in DOMAIN budget \cup {a} |-> IF b = a THEN limits ELSE budget[b]]

DeleteBudgetConfig(a) == budget' = Restrict(budget, DOMAIN budget \ {a})

\* The agent need not be known.
SetBudget(c) ==
    /\ Asks(c)
    /\ IF Has(BudgetTable)
       THEN \E a \in Agents, limits \in SUBSET Limits : UpsertBudgetConfig(a, limits)
       ELSE UNCHANGED budget
    /\ UNCHANGED <<bootVars, rows, status, text, project, projects, title, call, history>>

DeleteBudget(c) ==
    /\ Asks(c)
    /\ \E a \in Agents : DeleteBudgetConfig(a)
    /\ UNCHANGED <<bootVars, rows, status, text, project, projects, title, call, history>>

\* A client walks through the pages of the agents that a filter lets through.
BeginList(c) ==
    /\ Asks(c)
    /\ Has(AgentsTable)
    /\ \E f \in Filters :
          /\ Enter(c, [op |-> "list", filter |-> f, offset |-> 0, got |-> {}])
          /\ due' = [due EXCEPT ![c] = {a \in Range(rows) : Matches(f, a)}]
    /\ UNCHANGED <<bootVars, tables, used, edited, deletions, gone>>

\* The place of a row among those that the filter lets through, the one seen
\* last first.
RowsUpTo(f, b) ==
    {a \in Range(rows) : /\ Matches(f, a)
                         /\ \E i, j \in DOMAIN rows : i =< j /\ rows[i] = a /\ rows[j] = b}
Rank(f, b) == Cardinality(RowsUpTo(f, b))

\* WHERE, ORDER BY, LIMIT and OFFSET.
ListAgents(f, limit, offset) ==
    {b \in Range(rows) : Matches(f, b) /\ Rank(f, b) \in offset + 1 .. offset + limit}

ReadPage(c) ==
    LET page == ListAgents(call[c].filter, PageSize, call[c].offset) IN
    /\ call[c].op = "list"
    /\ \/ /\ page = {}
          /\ Answer(c)
          /\ due' = [due EXCEPT ![c] = {}]
          /\ gone' = [gone EXCEPT ![c] = 0]
       \/ /\ page # {}
          /\ Enter(c, [call[c] EXCEPT !.offset = @ + PageSize, !.got = @ \cup page])
          /\ UNCHANGED walks
    /\ UNCHANGED <<bootVars, tables, made, used, edited, deletions>>

-----------------------------------------------------------------------------
\* The calls of the API, and the steps of a call after its first.
Ask(c) ==
    \/ BeginEdit(c) \/ BeginRetire(c) \/ BeginUpdate(c) \/ BeginDelete(c)
    \/ AssignAgent(c) \/ CreateProject(c) \/ SetBudget(c) \/ DeleteBudget(c)
    \/ BeginList(c)

Continue(c) ==
    \/ CheckAgent(c) \/ WriteEdit(c) \/ WriteRetire(c) \/ ReadBack(c)
    \/ WriteUpdate(c) \/ CountMembers(c) \/ DeleteProject(c) \/ ReadPage(c)

Boots == BootNext /\ UNCHANGED <<tables, call, made, history>>

Next ==
    \/ Boots
    \/ \E a \in Agents : UpsertAgent(a)
    \/ \E c \in Clients : Ask(c) \/ Continue(c)

Spec == Init /\ [][Next]_vars /\ BootFairness

-----------------------------------------------------------------------------
(* Reads                                                                   *)

\* get_project and list_projects count over a join with agents.
AgentCount(p) == Cardinality(Members(p))

-----------------------------------------------------------------------------
(* Properties                                                              *)

(* What clients wrote on an agent (name, labels) is what its row shows,    *)
(* each column with the last value given for it, whatever other clients    *)
(* edit at the same time and however often the writer upserts the row      *)
(* (agents.rs:68-77, 324-336).                                             *)
EditsSurvive == text = edited

(* Each agent that names a project is on the page of exactly this project, *)
(* the counts of the pages add up, and at most one of the calls that race  *)
(* to delete a project is told that it did (projects.rs:146-171,           *)
(* 008_create_projects.sql:15).                                            *)
ProjectsConsistent ==
    /\ \A a \in Agents : project[a] \in projects \cup {Null}
    /\ SumFunctionOnSet([p \in projects |-> AgentCount(p)], projects)
          = Cardinality({a \in Range(rows) : project[a] # Null})
    /\ \A p \in Projects : deletions[p] =< IF p \in used \ projects THEN 1 ELSE 0

(* A client that goes through the pages of the agents that a filter lets   *)
(* through gets all of them, but for those that left the filter or were    *)
(* seen by the proxy meanwhile, and for at most one more for each agent    *)
(* that left the filter and let the rows behind it move up past the offset *)
(* (agents.rs:144-180). Without a filter nobody leaves, and the walk misses*)
(* none but those that were seen and moved to pages already read.          *)
PagesMissOnlyTheSeen ==
    [][\A c \in Clients :
         call[c].op = "list" /\ call'[c].op # "list"
           => Cardinality(due[c] \ call[c].got) =< gone[c]]_vars

(* A deletion takes a project from an agent only when the agent was        *)
(* assigned after the deletion had counted the agents of the project       *)
(* (projects.rs:145 says that it "Returns false if project has assigned    *)
(* agents").                                                               *)
OrphansAreLate ==
    [][\A c \in Clients :
         At(c, "delete", "delete") /\ call'[c] = Idle
           => Members(call[c].project) \subseteq call[c].late]_vars
=============================================================================
