-------------------------------- MODULE Boot --------------------------------
(***************************************************************************)
(* What a process does to the schema when it starts: it connects, applies  *)
(* the bundled migrations in one transaction under an advisory lock, and   *)
(* serves, whatever came of it.                                            *)
(* Modelled from crates/agentland-store/src/db.rs,                         *)
(* crates/agentland-proxy/src/main.rs and the files of init/.              *)
(*                                                                         *)
(* PostgreSQL is external: a transaction that fails or loses its           *)
(* connection gives up its locks and leaves nothing behind, unless it was  *)
(* the answer to its commit that got lost.                                 *)
(***************************************************************************)
EXTENDS Integers, FiniteSets

CONSTANTS
    Services,        \* the processes that boot against one database
    LastMigration,   \* MIGRATIONS are numbered 1 .. LastMigration
    OnceOnly,        \* the migrations that fail when they are applied again
    InitialSchemas,  \* what the database may hold before: how many were applied
    StartModes,      \* what a start may lead to, a subset of Modes
    MaxKills         \* bound of the model: how many processes are killed

Nobody == "nobody"
Migrations == 1 .. LastMigration
Modes == {"waiting", "disabled", "stub"}

ASSUME BootAssumption ==
    /\ LastMigration \in Nat \ {0}
    /\ OnceOnly \subseteq Migrations
    /\ InitialSchemas \subseteq 0 .. LastMigration
    /\ StartModes \subseteq Modes
    /\ MaxKills \in Nat
    /\ Nobody \notin Services

VARIABLES
    schema,    \* the migrations the database has committed
    lock,      \* who holds the advisory lock 728519540001
    boot,      \* where each process stands
    applied,   \* how many migrations its open transaction has applied
    kills,     \* how many processes were killed
    initial,   \* history: the schema before the first boot
    broken     \* history: the processes whose present start lost the database

bootVars == <<schema, lock, boot, applied, kills, initial, broken>>

Stages == {"down", "waiting", "applying", "migrated", "failed", "disabled", "stub"}

BootTypeOK ==
    /\ schema \in SUBSET Migrations
    /\ initial \in SUBSET Migrations
    /\ lock \in Services \cup {Nobody}
    /\ boot \in [Services -> Stages]
    /\ applied \in [Services -> 0 .. LastMigration]
    /\ kills \in 0 .. MaxKills
    /\ broken \in SUBSET Services

BootInit ==
    /\ \E n \in InitialSchemas : schema = 1 .. n
    /\ initial = schema
    /\ lock = Nobody
    /\ boot = [s \in Services |-> "down"]
    /\ applied = [s \in Services |-> 0]
    /\ kills = 0
    /\ broken = {}

-----------------------------------------------------------------------------
\* The pool is established or not, and AGENTLAND_RUN_MIGRATIONS may forbid
\* the migrations.
Connect(s) ==
    /\ boot[s] = "down"
    /\ \E to \in StartModes : boot' = [boot EXCEPT ![s] = to]
    /\ UNCHANGED <<schema, lock, applied, kills, initial, broken>>

TakeLock(s) ==
    /\ boot[s] = "waiting"
    /\ lock = Nobody
    /\ lock' = s
    /\ boot' = [boot EXCEPT ![s] = "applying"]
    /\ applied' = [applied EXCEPT ![s] = 0]
    /\ UNCHANGED <<schema, kills, initial, broken>>

\* The statements are CREATE ... IF NOT EXISTS, but for the trigger of 002.
CanApply(m) == m \notin OnceOnly \/ m \notin schema

\* Faulty variant: each migration is committed on its own.
ApplyMigrationAtOnce(s) ==
    /\ boot[s] = "applying"
    /\ applied[s] < LastMigration
    /\ CanApply(applied[s] + 1)
    /\ applied' = [applied EXCEPT ![s] = @ + 1]
    /\ schema' = schema \cup {applied[s] + 1}
    /\ UNCHANGED <<lock, boot, kills, initial, broken>>

ApplyMigration(s) ==
    /\ boot[s] = "applying"
    /\ applied[s] < LastMigration
    /\ CanApply(applied[s] + 1)
    /\ applied' = [applied EXCEPT ![s] = @ + 1]
    /\ UNCHANGED <<schema, lock, boot, kills, initial, broken>>

\* Faulty variant: a lock of the session outlives the transaction.
FailMigrationLocked(s) ==
    /\ boot[s] = "applying"
    /\ applied[s] < LastMigration
    /\ ~ CanApply(applied[s] + 1)
    /\ boot' = [boot EXCEPT ![s] = "failed"]
    /\ applied' = [applied EXCEPT ![s] = 0]
    /\ UNCHANGED <<schema, lock, kills, initial, broken>>

\* The migration is refused whenever it is tried on this schema. The
\* transaction is dropped on the error, which main only logs.
FailMigration(s) ==
    /\ boot[s] = "applying"
    /\ applied[s] < LastMigration
    /\ ~ CanApply(applied[s] + 1)
    /\ lock' = Nobody
    /\ boot' = [boot EXCEPT ![s] = "failed"]
    /\ applied' = [applied EXCEPT ![s] = 0]
    /\ UNCHANGED <<schema, kills, initial, broken>>

CommitMigrations(s) ==
    /\ boot[s] = "applying"
    /\ applied[s] = LastMigration
    /\ schema' = schema \cup Migrations
    /\ lock' = Nobody
    /\ boot' = [boot EXCEPT ![s] = "migrated"]
    /\ applied' = [applied EXCEPT ![s] = 0]
    /\ UNCHANGED <<kills, initial, broken>>

\* Any other error, at any of the statements: the connection or the server is
\* lost, a time limit passes, an extension is missing. It may hit the answer
\* to a commit that took place. main logs it and serves all the same.
LoseDatabase(s) ==
    /\ boot[s] \in {"waiting", "applying"}
    /\ \/ schema' = schema
       \/ /\ boot[s] = "applying"
          /\ applied[s] = LastMigration
          /\ schema' = schema \cup Migrations
    /\ lock' = IF lock = s THEN Nobody ELSE lock
    /\ boot' = [boot EXCEPT ![s] = "failed"]
    /\ applied' = [applied EXCEPT ![s] = 0]
    /\ broken' = broken \cup {s}
    /\ UNCHANGED <<kills, initial>>

\* The process is killed and started again; its transaction is rolled back.
Kill(s) ==
    /\ boot[s] # "down"
    /\ kills < MaxKills
    /\ kills' = kills + 1
    /\ boot' = [boot EXCEPT ![s] = "down"]
    /\ applied' = [applied EXCEPT ![s] = 0]
    /\ lock' = IF lock = s THEN Nobody ELSE lock
    /\ broken' = broken \ {s}
    /\ UNCHANGED <<schema, initial>>

\* What a boot does by itself, which the database answers sooner or later.
Starts(s) ==
    \/ Connect(s)
    \/ TakeLock(s)
    \/ ApplyMigration(s)
    \/ FailMigration(s)
    \/ CommitMigrations(s)

BootNext == \E s \in Services : Starts(s) \/ LoseDatabase(s) \/ Kill(s)

BootFairness == \A s \in Services : WF_bootVars(Starts(s)) /\ SF_bootVars(TakeLock(s))

BootSpec == BootInit /\ [][BootNext]_bootVars /\ BootFairness

-----------------------------------------------------------------------------
Serving(s) == boot[s] \in {"migrated", "failed", "disabled", "stub"}

(* No boot leaves a part of the migrations behind, however many boot at    *)
(* once, fail or are killed in the middle (db.rs:64-74).                   *)
AllOrNothing == schema = initial \/ schema = Migrations

(* Once run_migrations has succeeded in a process, the schema is complete; *)
(* and where the database was not lost it fails only if a migration that   *)
(* cannot be repeated is committed (init/002_create_agents.sql:69): never  *)
(* for an empty database, and never for one that another process, killed   *)
(* or failing itself, had only begun to migrate.                           *)
FailureIsExplained ==
    \A s \in Services :
        /\ boot[s] = "migrated" => schema = Migrations
        /\ boot[s] = "failed" /\ s \notin broken => schema \cap OnceOnly # {}

(* Both hold at all times.                                                 *)
SchemaSound == AllOrNothing /\ FailureIsExplained

(* Every process that starts ends up serving or is killed: no boot waits   *)
(* for ever for the lock of another.                                       *)
EveryBootEnds == \A s \in Services : boot[s] = "down" ~> Serving(s)

(* Once the call of run_migrations has returned in a process that did not  *)
(* lose the database, the schema is complete. db.rs:41 says that           *)
(* "deployment should not depend on a separate manual `psql` step" and     *)
(* CONTRIBUTING.md:156 that the migrations are idempotent. It fails for a  *)
(* database that the container initialised with the first eight files,     *)
(* which are the ones install.sh:205 downloads.                            *)
ReturnedIsComplete ==
    \A s \in Services :
        boot[s] \in {"migrated", "failed"} /\ s \notin broken => schema = Migrations
=============================================================================
