# Agentland: formal models and proofs

TLA+ models of the Agentland audit proxy (the Rust workspace under `src/crates`, with the review
page of its dashboard), the TLC configurations that check them and the TLAPS proofs about them.
Every definition is translated from the code at the lines that `PROJECT.json` names under `map`.

## 1. The system

Agentland is an HTTP proxy between AI agents and their providers. It forwards each request,
records one event for the request and one for the answer, and serves a management API over the
recorded data. It is *fail-open* throughout: no fault of the database, the policy engine or the
event pipeline may stop traffic. The cargo workspace builds `agentland-common`, `-store`,
`-proxy`, `-cli` and `-reports`. The crates `agentland-policy`, `-server`, `-identity`, `-keygen`
and `-oss-common`, called the platform here, lie beside them and are not members of the workspace.

| Component | State | Operations | Interacts with |
|---|---|---|---|
| Routing (`proxy/handler.rs`, `agent_detect.rs`, `proxy/upstream.rs`) | none | protocol, streaming, agent, target of a request | request handler |
| Request handler (`proxy/handler.rs`) | one task per request | kill-switch lookup, spawn request event, forward, spawn response event, answer | agents table (read), log tasks, upstream |
| Log tasks (`proxy/interceptor.rs`) | one task per event | read session and previous hash, parse, price and tag the event, record usage, write the hash, send | session tracker, policy hook, event channel |
| Protocol parsers (`common/protocols`, `proxy/streaming.rs`) | none | parse a body, accumulate a stream | log tasks |
| Pricing (`common/models/pricing.rs`) | two hash maps | price of a model, five tiers | log tasks |
| Session tracker (`events.rs`) | map agent → (session, last hash, last seen) behind a mutex | `get_or_create`, `record_event` | log tasks |
| Event pipeline (`events.rs`, `store/events.rs`, `store/agents.rs`) | bounded channel, batch, set of seen agents, counters; `events` and `agents` tables | `send`, background writer, batch insert, agent upsert | log tasks, PostgreSQL, metrics |
| Policy engine (`policy/*`) | `policies.yaml`, read once | evaluate, compliance tag, PII scan | log tasks, budgets |
| Budgets (`policy/budget.rs`, `policy/engine.rs`, `store/budget.rs`) | counters per agent and day behind a mutex; `budget_daily` table | check, record, spawned write, reload at boot | log tasks, PostgreSQL |
| Management API (`api/handlers`, `store/*`) | tables `agents`, `projects`, `budget_config` | list, edit, retire, assign, create, delete | writer's upsert, kill switch, migrations |
| Trajectory reviews (`api/handlers/reviews.rs`, `store/reviews.rs`, the dashboard's `ReviewPage.tsx`) | `trajectory_reviews` table; the page's form and caches | pair events into steps, save, assist, list, export | events table, a model provider |
| Migrations (`store/db.rs`, `init/`) | schema | run all scripts in one transaction at boot | PostgreSQL |
| Platform policy engine (`agentland-policy`) | rules behind a lock, two ledgers of the budget | evaluate, charge, scan, report | platform server |
| Platform server, license, key generator (`agentland-server`, `-oss-common`, `-keygen`) | license, configuration, tenants | start, reload, report | policy engine |

What is hard in it:

* **Interleaving.** Log tasks are spawned and never joined. Those of one agent share a tracker
  entry and take its lock twice, with other tasks in between. The budget check and the recording
  of the usage are separate critical sections, in the proxy and in the platform. A retirement races
  the events in flight. A call of the management API is up to three statements without a
  transaction. Services boot at once against one database.
* **Ordering.** The task that logs a response may run before the one that logs its request. The
  sent counter is bumped after the send. Timestamps are taken outside the lock. Two hash maps are
  searched in an order that differs from process to process. Answers reach the review page after
  another session is shown.
* **Failure.** An insert fails, or commits while its answer is lost. The database is away at boot,
  or fails now and then. The upstream times out, a stream is cut, the client disconnects, the
  writer task dies, the process stops with a full channel or in the middle of a migration.
* **Time.** Sessions expire by idle time, budgets by UTC date; both are noticed only by the next
  operation that looks.
* **Bounds.** The channel is bounded and a full one drops. Token counts are `i32` numbers that the
  provider chooses. Pages and exports have limits.

`PROJECT.json` lists these as hazards at their lines, with the properties that cover each.

What makes the parts correct:

* *pipeline*: an event is stored at most once; every event is waiting, stored, lost or dropped, and
  only one of these; counters never claim more than happened; every accepted event is settled;
* *lineage*: a hash links to an older event of the same agent; forks and links into other sessions
  arise only from named races; sessions start an idle timeout apart;
* *handler*: the events of a request match its outcome; the kill switch holds; every request ends;
* *parsers, pricing, tags*: a stream is read as the same answer would be in one piece; nothing is
  recorded that was not meant; the price is that of the best name; the tag is that of the worst
  finding;
* *budgets*: counters are about one day and forget none of its tokens; an allowed exchange fitted
  every limit;
* *management*: edits are not lost, pages skip only what moves under them, a project and its agents
  agree;
* *reviews*: the steps shown are what happened wherever nothing is missing, gaps do not mix
  exchanges up silently, all readers agree, a suggestion marks the step it names, and a review is
  about the session it is stored under;
* *migrations*: the schema is complete or untouched, whoever boots, fails or is killed;
* *platform*: the ledgers agree with the tags, and the reports with what is done.

## 2. Modules

| Module | Models |
|---|---|
| `EventPipeline` | `EventSender::send`, channel, background writer, insert, upsert, metrics, restart |
| `EventLog` | what the pipeline promises: an append-only log with groups settled oldest first |
| `SessionLineage` | the session tracker and the log tasks that race on it |
| `ProxyHandler` | one request from arrival to answer, the kill switch, the registry status |
| `Budget` | the budget tracker, midnight, persistence and reload |
| `Routing` | protocol, streaming, agent and target of a request |
| `Wire` | the parsers of OpenAI and Anthropic answers, in one piece and streamed |
| `Pricing` | the lookup of a price as a pass over unordered maps, and the tiers it promises |
| `Tagging` | `policies.yaml`, the scan for personal data, the policies and the tag |
| `Exchange` | one request and its answer line by line, composed of the four above |
| `LogicalSteps` | events of a session into steps, in the proxy and in the dashboard; the suggested failure step |
| `Trajectory` | how the events of a session come in, for a reader of `LogicalSteps` |
| `ReviewDesk` | the review page in its tabs, the saved reviews, the list and the export |
| `Boot` | processes that migrate one database |
| `Management` | the API over agents, projects and budgets, composed with `Boot` |
| `Compliance` | licenses, generated keys, compliance reports and checks |
| `Platform` | the platform server's tags, ledgers and reloads, over `Compliance` |
| `MC…` | one per component: values for the constants, symmetry |
| `EventPipelineProofs` | theorems about `EventPipeline` and its refinement of `EventLog` |
| `SessionProofs` | theorems about `SessionLineage` and `Trajectory` |
| `ProxyHandlerProofs`, `BudgetProofs`, `PlatformProofs` | theorems about the module they are named for |
| `ExchangeProofs` | theorems about `Exchange` and `Pricing` |
| `ApiProofs` | theorems about `Boot`, `Management` and `ReviewDesk` |
| `DataFacts` | lemmas about numbers, finite sets, sums, folds and sequences, for all of them |

Definitions named in a comment as a *faulty variant* are not part of the specification: they are
a plausible bug in the definition that follows, and show that a property would notice it.

### EventPipeline

A step is what happens between two points where another task can run. `caller[e]` is the program
counter of `send` for event `e` (try_send, then the counter); `writer` that of the background
writer: `drain` (in the `select!`), `flush` (before the insert), `upsert` (in the loop over the
agents), `gone` (the task died, so the channel is closed). `InsertBatch` is one database
transaction with three outcomes: committed, rolled back, committed with the answer lost. The
deadline is `DeadlinePasses`; since the `select!` is biased it is seen only with an empty channel.
`recv` never yields `None`, since `main` owns a sender until it returns; `Restart` is the return
of `main` (which drains nothing) or a kill, followed by a boot with or without a database. The
branch `None` of the writer is therefore unreachable and not modelled.

`dropped`, `lost` and `restarts` are history and bound; everything else is state of the code. An
event carries only its agent.

### SessionLineage

SHA-256 is taken as injective, so a hash is the name of what was hashed: `Genesis(e)` or
`Lineage(e)`. A session id is the name of the event that opened it. `GetOrCreate` is the first
lock, `BuildEvent` the construction of the event (which stamps it), `RecordEvent` the second lock.
`last_event_id` is always the event of the last hash, so one variable stands for both. `seen` and
`openedAt` are history. The clock is one number for `Instant` and `Utc`, so `StampsFollowChain`
assumes that the system clock is not set back.

### ProxyHandler

`phase[r]` is the handler's position: `received` (body read), `allowed` and `denied` (the `SELECT`
of the agent was carried out, and the handler has not resumed yet), `refused` (403), `forwarding`,
`answered`, `failed` (502), and `left` / `cut` for a client that disconnects before / during the
upstream call, which makes hyper drop the handler. `LookUp` reads the status; `Refuse` and `Admit`
decide on what it read, so a retirement may be committed in between. `requestLog` and `responseLog`
are the spawned tasks. The database is absent, flaky or reliable for a whole behaviour. The event
pipeline is abstracted to a set of waiting events from which the writer takes any subset of one
agent, which contains every order the real one can produce.

### Budget

Tokens and dollars run through the same code and are two units of one table; sums of `f64` are
exact here, and the 90 % threshold is integer arithmetic. `CheckBudget` is the critical section in
`evaluate_budget_policy`, `RecordUsage` the one in `record_usage_with_db`, `WriteUsage` the
spawned upsert. The process and the database are assumed to agree on the date. A request event is
checked with an estimate of zero and records nothing, so it changes no state.

`UsageOfDay` and `OfThisLife` are what the counters are compared with, the exchanges of the day that
were recorded since the boot or had been written before it, and those of this boot alone. Tokens are
the former. Dollars restart at zero, because the column is read as a number of another type
(`store/budget.rs:129`): they lie between the two, and are not the usage of the day that the
comments promise (section 5).

### Routing, Wire, Pricing, Tagging and Exchange

`Exchange` follows one exchange. `SendLine`, `SpoilLine` and `EndStream` bring the lines of an
answer (`OpenAiScript`, `AnthropicScript` and `Body` are what a provider sends, external); a line
may be spoiled and the rest may be missing. `Read` is the parser, which the *request* chooses:
`detect_protocol` with the refinement by the body's `stream` field. An answer in another form
than announced is read by the wrong parser and yields nothing. `LookUp` is the lookup of the price,
one name of a map per step. `LogEvent` tags the event, records its usage and sends it.

JSON is told apart by the fields that are read. An optional field is a sequence of at most one
value. `i32` has the width that `IntMax` gives it: `Wrap` is the cast and the addition of a release
build, `AsUnsigned` the cast to `u64`. In `Pricing` a name is a sequence of characters and a price
the name it was found under; the three exact tiers are guards, the pass over a map is `Scan(key)`
for any `key` that is left, which is every order a `HashMap` can have. In `Tagging` a text is the
set of matches of the patterns in it, so the regular expressions are external and `IsValidSsn` is
what the code computes itself.

### LogicalSteps and Trajectory

`LogicalSteps` has no state: `BuildLogicalSteps` is `build_logical_steps` and `BuildTimeline` is
the dashboard's own reconstruction (`groupTurns`, `buildTimeline`), both over the same list of
events. An event keeps its direction and what the two look at, the tool calls of an answer and the
tool messages of a request. The assistant's answer is a label, a failure type and an index;
`overruled` stands for the texts that `normalize_prime_tool_review` recognises.

`Trajectory` produces the lists: conversations of one agent that share a session, calls that fail,
log tasks that run in any order. `log` is the table in the order of the timestamps. A reader cannot
tell an event that is on its way or lost from one whose task has not run, so stamping and storing
are one step, and an event is lost by never taking it. Only answers of OpenAI that are not streamed
have calls these readers find: a streamed one is stored as text, one of Anthropic has no `choices`.

### ReviewDesk

A tab holds the list it has loaded, the session that was clicked, a cache of details by session,
the form, a review being posted and a question to the assistant. Every step of a tab ends with
`Render`, which runs the effect of `ReviewPage.tsx:356` when its dependencies have changed; React
and the query library are external. `saved` is the table in the order of `updated_at`; a saved
review is a new row each time, since it gets a fresh id. `SaveElsewhere` is another client of the
API, of which any session, any failure event and any valid label are stored (`reviews.rs:98`). An
event is its session, so a failure event of another session is what `StrayEventIsStale` is about: in
a table that anyone writes, such an event was put there under the name of the session by another
client (`NamedElsewhere`), or by a page whose form was filled for another session. `stale`,
`elsewhere` and `dirty` are history.

### Boot and Management

`boot[s]` is where a process stands in `main`. `TakeLock` is `pg_advisory_xact_lock`, one
`ApplyMigration` per script, `FailMigration` a statement that cannot be repeated (the trigger of
002), `CommitMigrations` the commit. `LoseDatabase` is every other error that one of these
statements may return (the connection or the server is lost, a time limit passes, an extension is
missing); it may also hit the answer to a commit that took place. `Kill` ends the process, and with
it transaction and lock. A process that failed serves all the same. `broken` is history.

`Management` adds the API. `call[c]` holds the call a client is in with what it has read so far; a
statement is one step, so that other clients, the writer's upsert and boots run in between. A call
on a table that the schema lacks fails. Reads of one statement (events, costs) change nothing and
are not actions; `list_agents`, of which a client reads page after page under one filter of status,
type and name, is one. `due` and `gone` are history: the agents a walk still owes, and how many have
left its filter.

### Compliance and Platform

`ChargeGlobal` and `ChargeAgent` are the two locks of the platform's `BudgetTracker`, between which
other tasks run; an agent's refusal leaves the global record as it is. `Evaluate` takes the rules
once. A reload replaces them for the tasks that come later. License, configuration, rules and
contents come from small sets with every tier, an expired key, overrides, an unreadable file, and a
rule that names an unknown field.

## 3. What the runs show

| Run | Instance | Properties |
|---|---|---|
| `pipeline` | 3 events, 2 agents, capacity 2, batch 2, 1 restart | `TypeOK`, `StoredAtMostOnce`, `EveryEventAccounted`, `SendCountersAgree`, `AcceptedIsSettled`; `ImplementsEventLog`, the refinement of `EventLog` with fairness |
| `lineage_safety` | 4 tasks, 2 agents, timeout 1, 4 instants | `ChainIsWellFounded`, `GenesisBelongsToSession`, `ForkOnlyUnderOverlap`, `ForeignLinkOnlyByRace`, `SessionsStartApart`, `StampsFollowChain` |
| `handler` | 3 requests, 2 agents, 2 retirements | `TrailMatchesOutcome`, `SealedStaysSealed`, `EveryRequestEnds`, `AnsweredIsLogged` |
| `handler_retired` | 2 requests of one agent | **violated**: `RetiredStaysBlocked` |
| `budget_safety` | 3 exchanges, 2 agents, 2 days, 1 restart | `CountersExact`, `AllowIsSound` |
| `exchange` | 11 requests, answers with counts around an `i32` of 4 bits, 10 policy files, 2 faults | `PriceIsJustified`, `StreamReadsAsBody`, `NothingInvented`, `CountIsReported`, `TagIsWorst` |
| `trajectory` | 3 exchanges, 1 or 2 conversations, 2 tools | `CompleteIsExact`, `ForeignAnswerNeedsTwoGaps`, `OwnResults`, `ReadersAgree`, `SuggestionMarksItsStep` |
| `desk` | 2 sessions, 1 tab, 2 saves, 2 clicks or edits, 2 words, exports of 1 | `StrayEventIsStale`, `ExportShowsList`, `EditsLostOnlyToNews` |
| `boot` | 2 processes, 9 migrations, 3 databases, 2 kills | `SchemaSound`, `EveryBootEnds` |
| `boot_schema` | same | **violated**: `ReturnedIsComplete` |
| `management` | 2 clients, 2 agents, 1 project, pages of 1, 3 filters, 3 calls, 1 boot | `EditsSurvive`, `ProjectsConsistent`, `PagesMissOnlyTheSeen`, `OrphansAreLate` |
| `platform` | 3 events, 2 agents, 7 keys, 5 documents, 1 reload | `LedgersMatchTags`, `MaskingIsDone`, `ReportsAgree` |

The comment above each property says what it states and of which lines. The runs take between a
few seconds and two and a half minutes; the largest are `desk` (2.0 million states), `management`
(1.5 million) and `platform` (0.3 million).

The two violated runs check a sentence of a comment against the code; `findings` in `PROJECT.json`
quotes both. A retired agent becomes active again when an event of it that is in flight is flushed
(`agents.rs:70`); `SealedStaysSealed` is what does hold: once a blocked agent has nothing in flight,
and no request whose lookup was carried out before it was blocked, it stays blocked, as long as the
database answers. And a database that was initialised with the first eight files (`install.sh:205`)
never gets the ninth: the trigger of 002 cannot be created twice, so each boot rolls all nine back
and serves without the table of the reviews.

Several properties have premises, which are what the code needs; each fails without them.

* `ToolsDiffer` (trajectory): the proxy takes a tool message with the name of the function for the
  result of the call, and a request repeats all earlier messages, so a second call of a tool gets
  the first one's result in the export (the dashboard compares ids only). `InOrder`: two
  conversations of one agent can be shown with each other's answers though nothing is missing.
  `Finished`: an event id does not identify a step of the screen, since parallel calls share the
  next request.
* `Sane` (exchange): with larger counts the sum wraps and a negative total becomes a huge count of
  the day. `Understood`: an answer that ignores `stream`, or the request of an Anthropic client
  whose `system` is a list of blocks (`anthropic.rs:26`; it counts as not streaming), has no
  reading at all.
* `TagIsWorst` says what a stream does to the scan: it is scanned as one string of 4000 characters,
  so what is late or split over chunks is not seen, and the ten digits of `created` look like a
  phone number.
* `stale` and `NamedElsewhere` (desk), and *seen in the meantime*, *left the filter* and *assigned
  after the count* (management): the ways in which a review marks another session's event, a page is
  short of an agent, and a deletion orphans one. They are reachable; the properties say that nothing
  else does these things. Each agent that leaves the filter of a walk costs it one row at most, the
  one that moves up past the offset.
* `broken` (boot): a process that lost the database fails at whatever statement it was at. One that
  did not fails only at a statement that the committed schema does not let it repeat.
* `~ Overrides` (platform): a key whose override turns the policies off also turns off the scan,
  and the SOC 2 report still passes data protection.

*Bounds.* Three events with capacity 2 fill the channel, make a batch of two that is followed by
another, and a batch that holds one agent twice or two agents; one restart may come at any point. An
event dropped while a batch of two is being written would be a fifth, which only the theorems about
the pipeline reach. Three tasks of one agent are needed for a third event to follow a race of two;
timeout 1 and four instants let a session expire while a task of it is under way, and a second one
start. Two requests of one agent are needed for one to be in flight while the other is refused, or
looked up before the retirement and forwarded after it; two retirements for a second one after a
reactivation. Two days and one restart give every order of check, midnight, record, write and
reload. Three exchanges are needed for two answers with calls before a final one, and for a gap of
two events between an earlier and a later exchange. Two faults spoil any two lines of a stream, or
spoil one and cut it anywhere; `IntMax = 7` puts the counts 6 + 5 and 9 on either side of the
overflow. Two saves and an export of one are the first case in which an export leaves a review out;
two clicks are one away and one edit, or one there and back. Pages of one row make each row a
boundary, and three calls let two clients interfere with a third call that is paging; the three
filters are none, one that a retirement leaves and one that an edit leaves. Of the nine migrations
the management instance keeps three groups, before, with and after the one that cannot be repeated.
Two tasks of one agent and one of another meet in either lock of the platform's budget.

*Deadlock* is not checked: every instance has finitely many inputs and stops when all is done.

*Fairness.* `WF(WriterStep)`: the runtime polls the writer, its timer fires, and a statement sent to
PostgreSQL returns a result or an error. In `ProxyHandler` each handler decision, upstream call (30
s timeout) and spawned task is weakly fair. In `Boot` each step of a process is weakly fair and
`TakeLock` strongly, since PostgreSQL grants a lock in the order of the requests. Clients,
operators, crashes, kills, restarts and lost connections have none. The other specifications are
safety only.

*Type invariants.* Each stateful module but `EventLog` states one, and all of them are proved: those
of `Boot` and `Pricing` as a part of the invariants in the proofs about these modules, the others as
theorems. In the runs only that of the pipeline is listed; the others hold on the instances above.

## 4. What is proved

All with TLAPS, for every value of the constants that satisfies the named assumptions.

| Theorem | Statement |
|---|---|
| `EventPipelineProofs!TypeCorrect` | `Spec => []TypeOK` |
| `EventPipelineProofs!AtMostOnce` | `Spec => []StoredAtMostOnce` |
| `EventPipelineProofs!Accounted` | `Spec => []EveryEventAccounted` |
| `EventPipelineProofs!PipelineImplementsLog` | `Spec => Log!Spec` |
| `EventPipelineProofs!CountersAgree` | `Spec => []SendCountersAgree` |
| `SessionProofs!TypeCorrect` | `Spec => []TypeOK` |
| `SessionProofs!ChainCorrect` | `Spec => []ChainIsWellFounded` |
| `SessionProofs!GenesisCorrect` | `Spec => []GenesisBelongsToSession` |
| `SessionProofs!ForkCorrect` | `Spec => []ForkOnlyUnderOverlap` |
| `SessionProofs!ForeignLinkCorrect` | `Spec => []ForeignLinkOnlyByRace` |
| `SessionProofs!ApartCorrect` | `Spec => []SessionsStartApart` |
| `SessionProofs!StampsCorrect` | `Spec => []StampsFollowChain` |
| `SessionProofs!TrajectoryTypeCorrect` | `TrajectorySpec => []TrajectoryTypeOK` |
| `SessionProofs!CompleteAlwaysExact` | `TrajectorySpec => []CompleteIsExact` |
| `SessionProofs!ForeignAnswersNeedTwoGaps` | `TrajectorySpec => []ForeignAnswerNeedsTwoGaps` |
| `SessionProofs!ResultsAlwaysOwn` | `TrajectorySpec => []OwnResults` |
| `SessionProofs!ReadersAlwaysAgree` | `TrajectorySpec => []ReadersAgree` |
| `SessionProofs!SuggestionAlwaysMarks` | `TrajectorySpec => []SuggestionMarksItsStep` |
| `ProxyHandlerProofs!TypeCorrect` | `Spec => []TypeOK` |
| `ProxyHandlerProofs!TrailCorrect` | `Spec => []TrailMatchesOutcome` |
| `ProxyHandlerProofs!TotalCorrect` | `Spec => []RequestsTotalExact` |
| `ProxyHandlerProofs!KillSwitch` | `Spec => SealedStaysSealed` |
| `BudgetProofs!TypeCorrect` | `Spec => []TypeOK` |
| `BudgetProofs!CountersAlwaysExact` | `Spec => []CountersExact` |
| `BudgetProofs!AllowAlwaysSound` | `Spec => []AllowIsSound` |
| `ExchangeProofs!PriceAlwaysJustified` | `LookupSpec => []PriceIsJustified` |
| `ExchangeProofs!PricesDifferOnlyInTies` | `LookupSpec => []PriceIsUnique` |
| `ExchangeProofs!ExchangeTypeCorrect` | `Spec => []TypeOK` |
| `ExchangeProofs!StreamAlwaysReadsAsBody` | `Spec => []StreamReadsAsBody` |
| `ExchangeProofs!NothingEverInvented` | `Spec => []NothingInvented` |
| `ExchangeProofs!CountAlwaysReported` | `Spec => []CountIsReported` |
| `ExchangeProofs!TagAlwaysWorst` | `Spec => []TagIsWorst` |
| `ExchangeProofs!ExchangePriceJustified` | `Spec => []PriceIsJustified` |
| `ApiProofs!SchemaAlwaysSound` | `BootSpec => []SchemaSound` |
| `ApiProofs!MigrationsExcludeEachOther` | `BootSpec => []MigratesAlone` |
| `ApiProofs!TypeCorrect` | `Spec => []TypeOK` |
| `ApiProofs!EditsAlwaysSurvive` | `Spec => []EditsSurvive` |
| `ApiProofs!ProjectsAlwaysConsistent` | `Spec => []ProjectsConsistent` |
| `ApiProofs!PagesAlwaysMissOnlyTheSeen` | `Spec => PagesMissOnlyTheSeen` |
| `ApiProofs!OrphansAreAlwaysLate` | `Spec => OrphansAreLate` |
| `ApiProofs!ManagementKeepsBoot` | `Spec => BootSpec` |
| `ApiProofs!DeskTypeCorrect` | `DeskSpec => []DeskTypeOK` |
| `ApiProofs!StrayEventsAlwaysStale` | `DeskSpec => []StrayEventIsStale` |
| `ApiProofs!EditsAlwaysLostToNews` | `DeskSpec => EditsLostOnlyToNews` |
| `ApiProofs!ExportAlwaysShowsList` | `DeskSpec => []ExportShowsList` |
| `PlatformProofs!TypeCorrect` | `Spec => []TypeOK` |
| `PlatformProofs!LedgersAlwaysMatch` | `Spec => []LedgersMatchTags` |
| `PlatformProofs!MaskingAlwaysDone` | `Spec => []MaskingIsDone` |
| `PlatformProofs!ReportsAlwaysAgree` | `Spec => []ReportsAgree` |

So every invariant and every action property that a passing run checks is also a theorem. A `Spec`
in the table is that of the module the property belongs to. The theorems without a property of a run
state types, the inductive invariants, what two specifications have to do with each other
(`PipelineImplementsLog`, `ManagementKeepsBoot`), and three facts no run lists:
`RequestsTotalExact`, `MigratesAlone` and `PriceIsUnique`.

*Assumptions.* Each module names what it assumes of its constants. Most say that a set is finite or
a bound a number. Those that say more: `Global` is no agent (a field of its own in `BudgetPolicy`),
`Null` is no event id and no project, there are finitely many projects (a UUID has 128 bits),
`IsAnswer` and `IsPolicyList` (what a provider can mean, and what serde accepts as a policy file),
and a count of the day is wider than the sum of two `i32`.

*Data.* A theorem of induction takes the property as an operator, and such a theorem cannot be
instantiated here. `DataFacts` therefore states induction over the natural numbers, over finite sets
and along a sequence of *sets*: of the numbers, of the subsets, of the values for which the property
holds. Sums over finite sets and folds over sequences rest on them, so what the models compute with
`FoldLeft` and `FlattenSeq` is proved for every input. A concatenation of parts, `Flat`, is a fold
of its own: its length is the sum of those of the parts, an element of it has a part and a place
there (`FlatParts`), empty parts may be dropped (`FlatRegroup`), and a replacement of each element
by a list goes through it (`FlatMaps`).

*Pipeline.* `TypeInv` adds to the type invariant that the batch has room while draining and that a
writer that is gone holds nothing (`WriterInv`). `PlacesInv` is the conjunction of the two safety
invariants and of the fact that the sequence of all places, `rows \o batch \o queue`, is free of
duplicates also while the batch of an answered insert is still around. It is inductive relative to
`TypeInv`: an event enters the last place once, when its caller leaves `idle`, and moves forward.
The facts about sequences without duplicates are in `DataFacts`.

*Refinement.* `PipelineImplementsLog` maps each step of the pipeline to one of the log or to a
stutter. An acceptance appends behind the batch and the queue; an insert settles the oldest events,
which are the batch, so a concatenation has to be cut again where the batch ends; a restart and a
death of the writer are the log's `Fail`. What the map needs of a state is again `TypeInv` and
`PlacesInv`. `CountersAgree` is inductive relative to `TypeOK`, by counting the callers between
their two steps, a finite set that gains or loses one.

*Lineage.* None of the session properties is inductive: each relates two tasks of an agent, while a
step reads only the agent's entry. `LineageInv` says where an entry comes from (`EntryInv`), what a
task that has read it keeps (`LinkInv`: the session's genesis, or an event it could see, which could
see less itself and was not recorded when the session was opened), that no reading of the clock is
in the future (`TimeInv`), and that the predecessor of a recorded event is nobody's last hash any
more (`SpentInv`). The last one gives the fork property: a second task that links to the same
predecessor must have read the entry before the first was recorded. `LinkInv` gives the chain, the
genesis and the foreign link, `EntryInv` and `TimeInv` the distance between two sessions.

*Handler.* `TrailMatchesOutcome` relates each request's outcome to what was spawned for it and is
inductive once types are known. `RequestsTotalExact` follows by cardinalities, each spawn adding one
request to a finite set. `SealedStaysSealed` needs the types alone: the only step that unblocks an
agent is taken by a request of that agent in flight, which a sealed agent has not, and the only step
that forwards a request starts from a lookup that found the agent not blocked, which is in flight
too.

*Migrations.* `SchemaSound` is inductive once types are known: the schema changes in a commit alone,
which comes after the last migration, and a failure that no lost database explains is at a migration
that the committed schema has. A lost answer to a commit leaves all of them, a lost statement none.
It needs no lock; `LockInv`, that exactly the holder of the lock is applying, is what gives
`MigratesAlone`.

*Pricing.* `ScanInv` says of the names seen so far, in whatever order, that `best_forward` is a
longest that begins the query and `best_reverse` a shortest that continues it, with the first map
preferred. At the end all names were seen, so the best of those seen is the one that is promised.
`PriceIsUnique` follows from what two justified prices have in common: two names of one length that
begin one query are the same name, two that continue it need not be. So the price of a model can
differ between two processes, but only in such a tie.

*Budget.* The inductive invariant is `TypeOK /\ RowsExact /\ TasksTellLedger /\ NothingAhead /\
CountersHold`. A counter is the sum over a set of exchanges, so recording one more is one more
element of a finite set. `CountersHold` says exactly which sum a counter is in each unit, of the day
for tokens and of this life for dollars; `CountersExact` follows, since a sum grows with its set.
`NothingAhead` (in this life nothing is recorded on a later day than that of the counters) is what
makes a reset clear everything that is not of today; `RowsExact` and `TasksTellLedger` say what is
in the database and on its way there, without which a reload could bring back anything. That all
agents' counters add up to the usage of all exchanges is `SumByParts`. `AllowIsSound` then needs
only what the check compares.

*Exchange.* `ExchangeInv` is `TypeOK`, that the answer is one the request may get, and one conjunct
for each stage: `WireInv` (every line on the wire is one of the answer or spoiled, and all are in
place when nothing was spoiled), `ReadInv` (the reading has no more than the answer), `CountInv`,
`TagIsWorst` and `LookupInv`, the invariant of the pass over the price table. Each parser is written
as one fold over the lines, with a step for a line as in the code, so a claim about a reading is one
about a step (`ValueCarries`), and a whole stream is read part by part, header, choices or blocks,
end (`ValueConcat`, `ValueAppend`). With faults the claim is weaker and goes through every line: no
step takes a name or a count from a line that the provider did not mean. A tag is as bad as the
worst decision, a maximum that is carried through the fold over the policies.

*Management.* The inductive invariant is `TypeOK /\ AssignedAreKnown /\ DeletedOnce /\ WalksInv /\
OrphansKnown /\ EditsSurvive`. `DeletedOnce` has the foreign key besides the deletions; that the
counts of the pages add up is again `SumByParts`. `WalksInv` says of each walk that the agents it
still owes are let through by its filter, and that of those it has passed without showing them there
are at most as many as have left the filter. It rests on the places of the rows under a filter: two
rows have two places (`RanksDiffer`), a row that leaves lowers the places behind it by one, so only
one row moves from right behind the offset to the offset, and an upsert lowers none but that of the
agent it moves to the front. An empty page is the last one (`EmptyPageIsLast`).
`ManagementKeepsBoot` shows that a step of a client or of the writer stutters for `Boot`.

*Reviews.* `DeskInv` follows a review from the table to the screen and back: `CacheInv` (a cached
detail of a session is a review of it), `RanInv` (the effect has run for what is shown), `FormInv`
(a form that is not stale names an event of its session or one that another client named for it),
`SavingInv` (so does what is being posted) and `StrayEventIsStale` itself. What was named for a
session stays in the table, so later saves do not break these. `ExportShowsList` needs the types
alone: it is about a list of reviews numbered downwards, cut after the limit.

*Platform.* The inductive invariant is `TypeOK /\ StagesSound /\ LedgersMatchTags`. `StagesSound`
says what a call has behind it: it waits for a lock only if no rule blocked it, and is tagged as
clean only after the scan, which gives `MaskingIsDone`. `ReportsAgree` is about the switches that
one license and one configuration file can give, so it needs the types and a case for each tier.

*Trajectory.* Only the type invariant is inductive: no event is in the table twice, and each one's
task was spawned. The properties are about what the readers compute from *any* such table, in any
order and with any losses. Both lists of steps are shown to be `Flat` of parts, one for each
position of the table: for the proxy that is how it computes them (`ReviewStepsFacts`), for the
dashboard the fold that groups turns is unfolded to one turn or none for each position (`TurnsAre`,
`TurnPlaces`) and the empty ones are dropped (`TimelineFacts`). A step thus has a position
(`StepIs`, `EntryIs`), which gives `OwnResults` and `ForeignAnswerNeedsTwoGaps`: a foreign answer
needs two neighbours in the table with two exchanges, and `InOrder` leaves no place for the events
between them. `ReadersAgree` compares the parts at each position, after each entry has been replaced
by what it shows. In a complete table the place of each exchange is known by the lengths of the
parts before it (`CompleteTable`), and the result of a call is found in the next request, past the
results of earlier calls, because tools differ (`CompleteIsExact`). In a finished conversation step
`i` has the event at position `i + 1` in both lists (`FinishedLists`); since no event occurs twice,
it marks one step.

*Model-checked only.* Liveness and the fairness part of the refinement are out of the prover's
reach: `AcceptedIsSettled`, `EveryRequestEnds`, `AnsweredIsLogged`, `EveryBootEnds` and the liveness
of `ImplementsEventLog`.

## 5. What else the code does

Seen while modelling, stated by no run:

* `total_requests` is overwritten with the count of the last batch (`store/agents.rs:71`), while
  `models/agent.rs:114` calls it "Total number of proxy requests from this agent."
* A request whose lookup was carried out before its agent was retired is forwarded after it
  (`handler.rs:87`). An answer that takes longer than the idle timeout of a session puts its event
  in another session than that of its request (`events.rs:375`).
* The API stores a failure event of any session with a review (`reviews.rs:120-141`), also one of a
  session labelled good.
* The hashes fork where tasks overlap (`interceptor.rs:127`, `ForkOnlyUnderOverlap`), while
  `events.rs:316` speaks of a "Merkle-like chain".
* `check_budget` does not reset the counters at midnight, `record_usage` does
  (`policy/budget.rs:114`); the first limit that speaks hides the later ones (`:126`, against "the
  most restrictive applies" at `:52`); what it reads may be of yesterday and still blocks or alerts,
  while `:7` says "Fail-open: if budget data is unavailable or stale, `Allow` is returned." Costs
  are reloaded as zero (`store/budget.rs:129`), while `policy/budget.rs:12-14` has the tracker
  "pre-populate today's counters from the `budget_daily` table so counters survive restarts", and
  `policy/engine.rs:320-321` and `init/006_budget_daily.sql:3-6` repeat it. `CountersExact` states
  the bounds the code keeps, not that promise. The limits that the API stores in `budget_config` are
  never read by the tracker.
* A step without an answer has no event id in the export (`reviews.rs:496`, against
  `docs/session-handoff.md:43`), and several exported lines of one session share a `global_key`.
* A stored body above the limit is reported as truncated and passed on whole (`upstream.rs:150`);
  the streaming path drops all headers of an answer but its content type.
* A platform rule of `not_equals` or `contains` matches on a field nobody knows, although
  `engine.rs:202` says that it never accidentally matches; the hook scans the URL and the tags, not
  the payload (`hook.rs:56`); it tags events over budget and blocks none, since the proxy never
  calls `check_request`; one unreadable value in the configuration discards all limits
  (`config.rs:84`), and an agent's limit on costs counts only beside one on tokens
  (`agentland-server/src/main.rs:226`).
* The platform's crates are outside the workspace (`Cargo.toml:3-9`), and two of them name
  `agentland-common` twice, so they do not build at this commit; they are modelled as written. Both
  routers of the platform server define `/health` (`router.rs:82`, `api.rs:387`), which axum refuses
  when they are merged with a pool; without a pool the platform's routes are not served.

## 6. Not modelled

* Authentication and CORS: a comparison of one header, without state.
* Retention: one `DELETE` that nothing in the proxy calls.
* The aggregating queries of events and costs, reports and the command line: single `SELECT`
  statements and formatting.
* Header filtering, the arithmetic of the cost and the price table itself, and the texts that are
  laid out for the assistant and for Labelbox.
* `mcp.rs` and what of `proxy/streaming.rs` lies beyond its data lines: nothing on the path of an
  exchange calls them.
* `agentland-identity` (certificates and mTLS) and the session recordings of `agentland-policy`.
* The rest of the dashboard, the video, the scripts and the deployment files.

Left for later: more than 10000 events in one session, of which every reader loses the latest
(`store/events.rs:390`), and a composition of `ProxyHandler`, `SessionLineage` and `EventPipeline`
over one exchange, each of which now abstracts the others.
