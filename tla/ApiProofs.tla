------------------------------ MODULE ApiProofs -----------------------------
(***************************************************************************)
(* Proofs about what the management API serves: Boot, the migrations of    *)
(* its database; Management, its agents, projects and budgets, which are   *)
(* composed with Boot; and ReviewDesk, its reviews with the page that      *)
(* edits them. For any services, migrations, clients, agents, projects,    *)
(* tabs, sessions and limits.                                              *)
(***************************************************************************)
EXTENDS Management, ReviewDesk, DataFacts

-----------------------------------------------------------------------------
(* The processes that boot                                                 *)

\* Whoever is applying migrations holds the lock, and nobody else does.
LockInv == \A s \in Services : boot[s] = "applying" <=> lock = s

\* SchemaSound needs the types and no lock: the transaction alone keeps the
\* schema whole. The lock is needed for one process at a time.
BootInv == BootTypeOK /\ LockInv /\ SchemaSound

\* A database that starts with the first n migrations is sound.
LEMMA BootInvInit == BootInit => BootInv
<1> SUFFICES ASSUME BootInit PROVE BootInv
  OBVIOUS
<1> USE BootAssumption DEF BootInit
<1>1. schema \subseteq Migrations /\ initial = schema
  BY DEF Migrations
<1>2. BootTypeOK
  BY <1>1 DEF BootTypeOK, Stages
<1>3. LockInv
  BY DEF LockInv, Nobody
<1>4. SchemaSound
  BY <1>1 DEF SchemaSound, AllOrNothing, FailureIsExplained
<1> QED BY <1>2, <1>3, <1>4 DEF BootInv

\* Every step keeps the types.
LEMMA BootTypeStep == BootTypeOK /\ [BootNext]_bootVars => BootTypeOK'
<1> SUFFICES ASSUME BootTypeOK, [BootNext]_bootVars PROVE BootTypeOK'
  OBVIOUS
<1> USE BootAssumption DEF BootTypeOK, Stages
<1>1. ASSUME NEW s \in Services, Connect(s) PROVE BootTypeOK'
  BY <1>1 DEF Connect, Modes
<1>2. ASSUME NEW s \in Services, TakeLock(s) PROVE BootTypeOK'
  BY <1>2 DEF TakeLock
<1>3. ASSUME NEW s \in Services, ApplyMigration(s) PROVE BootTypeOK'
  BY <1>3 DEF ApplyMigration
<1>4. ASSUME NEW s \in Services, FailMigration(s) PROVE BootTypeOK'
  BY <1>4 DEF FailMigration
<1>5. ASSUME NEW s \in Services, CommitMigrations(s) PROVE BootTypeOK'
  BY <1>5 DEF CommitMigrations
<1>6. ASSUME NEW s \in Services, Kill(s) PROVE BootTypeOK'
  <2>1. kills' \in 0 .. MaxKills
    BY <1>6 DEF Kill
  <2> QED BY <1>6, <2>1 DEF Kill
<1>8. ASSUME NEW s \in Services, LoseDatabase(s) PROVE BootTypeOK'
  BY <1>8 DEF LoseDatabase
<1>7. CASE UNCHANGED bootVars
  BY <1>7 DEF bootVars
<1> QED BY <1>1, <1>2, <1>3, <1>4, <1>5, <1>6, <1>7, <1>8 DEF BootNext, Starts

\* The lock is taken by whoever begins, and given up on every way out.
LEMMA LockStep == BootTypeOK /\ LockInv /\ [BootNext]_bootVars => LockInv'
<1> SUFFICES ASSUME BootTypeOK, LockInv, [BootNext]_bootVars PROVE LockInv'
  OBVIOUS
<1> USE BootAssumption DEF BootTypeOK, LockInv
<1>1. ASSUME NEW s \in Services, Connect(s) PROVE LockInv'
  BY <1>1 DEF Connect, Modes
<1>2. ASSUME NEW s \in Services, TakeLock(s) PROVE LockInv'
  BY <1>2 DEF TakeLock
<1>3. ASSUME NEW s \in Services, ApplyMigration(s) PROVE LockInv'
  BY <1>3 DEF ApplyMigration
<1>4. ASSUME NEW s \in Services, FailMigration(s) PROVE LockInv'
  BY <1>4 DEF FailMigration
<1>5. ASSUME NEW s \in Services, CommitMigrations(s) PROVE LockInv'
  BY <1>5 DEF CommitMigrations
<1>6. ASSUME NEW s \in Services, Kill(s) PROVE LockInv'
  BY <1>6 DEF Kill
<1>8. ASSUME NEW s \in Services, LoseDatabase(s) PROVE LockInv'
  BY <1>8 DEF LoseDatabase
<1>7. CASE UNCHANGED bootVars
  BY <1>7 DEF bootVars
<1> QED BY <1>1, <1>2, <1>3, <1>4, <1>5, <1>6, <1>7, <1>8 DEF BootNext, Starts

\* The schema changes by a commit alone, which completes it; a process that
\* keeps its database fails at a migration that the schema has and that cannot
\* be repeated.
LEMMA SchemaStep ==
  BootTypeOK /\ SchemaSound /\ [BootNext]_bootVars => SchemaSound'
<1> SUFFICES ASSUME BootTypeOK, SchemaSound, [BootNext]_bootVars PROVE SchemaSound'
  OBVIOUS
<1> USE BootAssumption DEF BootTypeOK, SchemaSound, AllOrNothing, FailureIsExplained
<1>1. ASSUME NEW s \in Services, Connect(s) PROVE SchemaSound'
  BY <1>1 DEF Connect, Modes
<1>2. ASSUME NEW s \in Services, TakeLock(s) PROVE SchemaSound'
  BY <1>2 DEF TakeLock
<1>3. ASSUME NEW s \in Services, ApplyMigration(s) PROVE SchemaSound'
  BY <1>3 DEF ApplyMigration
<1>4. ASSUME NEW s \in Services, FailMigration(s) PROVE SchemaSound'
  <2>1. schema \cap OnceOnly # {}
    BY <1>4 DEF FailMigration, CanApply
  <2> QED BY <1>4, <2>1 DEF FailMigration
<1>5. ASSUME NEW s \in Services, CommitMigrations(s) PROVE SchemaSound'
  <2>1. schema' = Migrations
    BY <1>5 DEF CommitMigrations
  <2>2. \A t \in Services : boot'[t] = "failed" /\ t \notin broken' => schema \cap OnceOnly # {}
    BY <1>5 DEF CommitMigrations
  <2>3. \A t \in Services : boot'[t] = "failed" /\ t \notin broken' => schema' \cap OnceOnly # {}
    BY <2>1, <2>2
  <2> QED BY <2>1, <2>3
<1>6. ASSUME NEW s \in Services, Kill(s) PROVE SchemaSound'
  BY <1>6 DEF Kill
<1>8. ASSUME NEW s \in Services, LoseDatabase(s) PROVE SchemaSound'
  <2>1. schema' \in {schema, Migrations} /\ schema \subseteq schema'
    BY <1>8 DEF LoseDatabase
  <2>2. \A t \in Services : boot'[t] = "migrated" => boot[t] = "migrated"
    BY <1>8 DEF LoseDatabase
  <2>3. \A t \in Services :
          boot'[t] = "failed" /\ t \notin broken' => boot[t] = "failed" /\ t \notin broken
    BY <1>8 DEF LoseDatabase
  <2>4. initial' = initial
    BY <1>8 DEF LoseDatabase
  <2> QED BY <2>1, <2>2, <2>3, <2>4
<1>7. CASE UNCHANGED bootVars
  BY <1>7 DEF bootVars
<1> QED BY <1>1, <1>2, <1>3, <1>4, <1>5, <1>6, <1>7, <1>8 DEF BootNext, Starts

\* However many processes boot at once against one database, whatever error
\* hits any of their statements and whoever is killed: the schema is the one
\* there was or the complete one, a boot that reports success has left a
\* complete one, and one that failed without losing the database met a
\* migration that is committed and cannot be repeated.
THEOREM SchemaAlwaysSound == BootSpec => []SchemaSound
<1>1. BootInit => BootInv
  BY BootInvInit
<1>2. BootInv /\ [BootNext]_bootVars => BootInv'
  BY BootTypeStep, LockStep, SchemaStep DEF BootInv
<1>3. BootInv => SchemaSound
  BY DEF BootInv
<1> QED BY <1>1, <1>2, <1>3, PTL DEF BootSpec

\* Two processes never run migrations at the same time, which is what the
\* advisory lock is taken for (db.rs:41-43).
MigratesAlone ==
    \A s, t \in Services : boot[s] = "applying" /\ boot[t] = "applying" => s = t

\* The lock excludes every other process, killed holders included.
THEOREM MigrationsExcludeEachOther == BootSpec => []MigratesAlone
<1>1. BootInit => BootTypeOK /\ LockInv
  BY BootInvInit DEF BootInv
<1>2. BootTypeOK /\ LockInv /\ [BootNext]_bootVars => (BootTypeOK /\ LockInv)'
  BY BootTypeStep, LockStep
<1>3. LockInv => MigratesAlone
  BY DEF LockInv, MigratesAlone
<1> QED BY <1>1, <1>2, <1>3, PTL DEF BootSpec

-----------------------------------------------------------------------------
(* The inductive invariant of Management                                   *)

\* An agent with a project has a row.
AssignedAreKnown == \A a \in Agents : project[a] # Null => Known(a)

\* A project that is not there has been used and deleted, at most by one call.
DeletedOnce ==
    /\ \A a \in Agents : project[a] \in projects \cup {Null}
    /\ \A p \in Projects : deletions[p] =< IF p \in used \ projects THEN 1 ELSE 0

\* What a walk is due and has not got although its offset has passed it.
Missed(c) == {a \in due[c] \ call[c].got : Rank(call[c].filter, a) =< call[c].offset}

\* What a walk is due is let through by its filter, and for each agent that left
\* the filter it misses one at most. A row slips past the offset when one in
\* front of it leaves, and only one row is the next.
WalkInv(c) ==
    call[c].op = "list" =>
      /\ \A a \in due[c] : Known(a) /\ Matches(call[c].filter, a)
      /\ Cardinality(Missed(c)) =< gone[c]

WalksInv == \A c \in Clients : WalkInv(c)

\* The agents of a project whose deletion has counted none were assigned since.
OrphansKnown ==
    \A c \in Clients : At(c, "delete", "delete") => Members(call[c].project) \subseteq call[c].late

IInv ==
    /\ TypeOK
    /\ AssignedAreKnown
    /\ DeletedOnce
    /\ WalksInv
    /\ OrphansKnown
    /\ EditsSurvive

-----------------------------------------------------------------------------
(* The places of the rows under a filter                                   *)

\* A sequence has finitely many values.
LEMMA RangeIsFinite == ASSUME NEW S, NEW s \in Seq(S) PROVE IsFiniteSet(Range(s))
<1>1. Len(s) \in Nat /\ DOMAIN s = 1 .. Len(s)
  BY LenProperties
<1>2. s \in [1 .. Len(s) -> Range(s)]
  BY <1>1 DEF Range
<1>3. s \in Surjection(1 .. Len(s), Range(s))
  BY <1>1, <1>2 DEF Surjection, Range
<1>4. IsFiniteSet(1 .. Len(s))
  BY <1>1, FS_Interval
<1> QED BY <1>3, <1>4, FS_Surjection

\* A table has finitely many rows.
LEMMA RowsAreFinite == TypeOK => IsFiniteSet(Range(rows))
BY RangeIsFinite DEF TypeOK

\* a is b or a row in front of b.
Before(a, b) == \E i, j \in DOMAIN rows : i =< j /\ rows[i] = a /\ rows[j] = b

\* The rows up to one are finitely many, and a row that is let through is the
\* first at least.
LEMMA RanksAreNumbers ==
  ASSUME TypeOK, NEW f, NEW b
  PROVE  /\ RowsUpTo(f, b) = {a \in Range(rows) : Matches(f, a) /\ Before(a, b)}
         /\ IsFiniteSet(RowsUpTo(f, b)) /\ Rank(f, b) \in Nat
         /\ Known(b) /\ Matches(f, b) => b \in RowsUpTo(f, b) /\ Rank(f, b) >= 1
<1>1. RowsUpTo(f, b) = {a \in Range(rows) : Matches(f, a) /\ Before(a, b)}
  BY DEF RowsUpTo, Before
<1>2. IsFiniteSet(RowsUpTo(f, b))
  BY <1>1, RowsAreFinite, FS_Subset
<1>3. Rank(f, b) \in Nat
  BY <1>2, FS_CardinalityType DEF Rank
<1>4. ASSUME Known(b), Matches(f, b) PROVE b \in RowsUpTo(f, b) /\ Rank(f, b) >= 1
  <2>1. PICK i \in DOMAIN rows : rows[i] = b
    BY <1>4 DEF Known, Range
  <2>2. i \in Nat
    BY LenProperties DEF TypeOK
  <2>3. b \in RowsUpTo(f, b)
    BY <1>1, <1>4, <2>1, <2>2 DEF Before, Known
  <2>4. RowsUpTo(f, b) # {}
    BY <2>3
  <2> QED BY <1>2, <1>3, <2>3, <2>4, FS_EmptySet DEF Rank
<1> QED BY <1>1, <1>2, <1>3, <1>4

\* A row behind another one has a higher place.
LEMMA RanksAscend ==
  ASSUME TypeOK, NEW f, NEW i \in DOMAIN rows, NEW j \in DOMAIN rows, i < j,
         Matches(f, rows[i]), Matches(f, rows[j])
  PROVE  Rank(f, rows[i]) < Rank(f, rows[j])
<1>0. /\ rows \in Seq(Agents) /\ DOMAIN rows = 1 .. Len(rows) /\ Len(rows) \in Nat
      /\ \A k, n \in DOMAIN rows : rows[k] = rows[n] => k = n
  BY LenProperties DEF TypeOK, IsInjective
<1>1. RowsUpTo(f, rows[i]) \in SUBSET RowsUpTo(f, rows[j])
  <2> SUFFICES ASSUME NEW a \in RowsUpTo(f, rows[i]) PROVE a \in RowsUpTo(f, rows[j])
    OBVIOUS
  <2>1. a \in Range(rows) /\ Matches(f, a)
    BY RanksAreNumbers
  <2>2. PICK k, n \in DOMAIN rows : k =< n /\ rows[k] = a /\ rows[n] = rows[i]
    BY RanksAreNumbers DEF Before
  <2>3. k =< j
    BY <1>0, <2>2
  <2>4. Before(a, rows[j])
    BY <2>2, <2>3 DEF Before
  <2> QED BY <2>1, <2>4, RanksAreNumbers
<1>2. rows[j] \in RowsUpTo(f, rows[j])
  BY RanksAreNumbers DEF Known, Range
<1>3. rows[j] \notin RowsUpTo(f, rows[i])
  <2> SUFFICES ASSUME rows[j] \in RowsUpTo(f, rows[i]) PROVE FALSE
    OBVIOUS
  <2>1. PICK k, n \in DOMAIN rows : k =< n /\ rows[k] = rows[j] /\ rows[n] = rows[i]
    BY RanksAreNumbers DEF Before
  <2> QED BY <1>0, <2>1
<1>4. Rank(f, rows[i]) =< Rank(f, rows[j]) /\ Rank(f, rows[i]) # Rank(f, rows[j])
  BY <1>1, <1>2, <1>3, RanksAreNumbers, FS_Subset DEF Rank
<1>5. Rank(f, rows[i]) \in Nat /\ Rank(f, rows[j]) \in Nat
  BY RanksAreNumbers
<1> QED BY <1>4, <1>5

\* No two rows have the same place.
LEMMA RanksDiffer ==
  ASSUME TypeOK, NEW f, NEW a \in Range(rows), NEW b \in Range(rows),
         Matches(f, a), Matches(f, b), Rank(f, a) = Rank(f, b)
  PROVE  a = b
<1>1. PICK i \in DOMAIN rows : rows[i] = a
  BY DEF Range
<1>2. PICK j \in DOMAIN rows : rows[j] = b
  BY DEF Range
<1>3. i \in Nat /\ j \in Nat
  BY LenProperties DEF TypeOK
<1>4. ~ (i < j) /\ ~ (j < i)
  <2>1. Rank(f, a) \in Nat
    BY RanksAreNumbers
  <2>2. i < j => Rank(f, a) < Rank(f, b)
    BY <1>1, <1>2, RanksAscend
  <2>3. j < i => Rank(f, b) < Rank(f, a)
    BY <1>1, <1>2, RanksAscend
  <2> QED BY <2>1, <2>2, <2>3
<1> QED BY <1>1, <1>2, <1>3, <1>4

\* When no row is on a page, none is behind it.
LEMMA EmptyPageIsLast ==
  ASSUME TypeOK, NEW f, NEW offset \in Nat, ListAgents(f, PageSize, offset) = {},
         NEW b \in Range(rows), Matches(f, b)
  PROVE  Rank(f, b) =< offset
<1> DEFINE P == {i \in DOMAIN rows : Matches(f, rows[i]) /\ Rank(f, rows[i]) > offset}
<1> SUFFICES ASSUME Rank(f, b) > offset PROVE FALSE
  BY RanksAreNumbers
<1>0. /\ rows \in Seq(Agents) /\ DOMAIN rows = 1 .. Len(rows) /\ Len(rows) \in Nat
      /\ \A k, n \in DOMAIN rows : rows[k] = rows[n] => k = n
      /\ PageSize \in Nat \ {0}
  BY LenProperties, ManagementAssumption DEF TypeOK, IsInjective
<1>1. PICK n \in DOMAIN rows : rows[n] = b
  BY DEF Range
<1>2. P # {} /\ P \in SUBSET (1 .. Len(rows))
  BY <1>0, <1>1
<1>3. PICK i \in P : \A k \in P : i =< k
  <2> HIDE DEF P
  <2>1. Min(P) \in P /\ \A x \in P : Min(P) =< x
    BY <1>0, <1>2, MinOfNumbers
  <2> QED BY <2>1
<1> DEFINE a == rows[i]
<1>4. i \in DOMAIN rows /\ i \in Nat /\ a \in Range(rows) /\ Known(a) /\ Matches(f, a) /\ Rank(f, a) > offset
  BY <1>0 DEF Range, Known
<1>5. Rank(f, a) \in Nat /\ Rank(f, a) \notin offset + 1 .. offset + PageSize
  BY <1>4, RanksAreNumbers DEF ListAgents
<1>6. Rank(f, a) > offset + 1
  BY <1>0, <1>4, <1>5
<1> DEFINE D == {k \in DOMAIN rows : k < i /\ Matches(f, rows[k])}
<1>7. CASE D = {}
  <2>1. ASSUME NEW x \in RowsUpTo(f, a) PROVE x = a
    <3>1. Matches(f, x)
      BY RanksAreNumbers
    <3>2. PICK k, m \in DOMAIN rows : k =< m /\ rows[k] = x /\ rows[m] = a
      BY RanksAreNumbers DEF Before
    <3>3. m = i
      BY <1>0, <1>4, <3>2
    <3>4. ~ (k < i)
      BY <1>7, <3>1, <3>2
    <3> QED BY <1>0, <1>4, <3>2, <3>3, <3>4
  <2>2. RowsUpTo(f, a) = {a}
    BY <1>4, <2>1, RanksAreNumbers
  <2>3. Rank(f, a) = 1
    BY <2>2, FS_Singleton DEF Rank
  <2> QED BY <1>6, <2>3
<1>8. CASE D # {}
  <2>1. D \in SUBSET (1 .. Len(rows))
    BY <1>0
  <2>2. PICK k \in D : \A m \in D : m =< k
    <3> HIDE DEF D
    <3> QED BY <1>0, <1>8, <2>1, MaxOfNumbers
  <2> DEFINE d == rows[k]
  <2>3. k \in DOMAIN rows /\ k \in Nat /\ k < i /\ Matches(f, d) /\ d \in Range(rows) /\ d # a
    BY <1>0, <1>4 DEF Range
  <2>4. ASSUME NEW x PROVE x \in RowsUpTo(f, d) <=> x \in RowsUpTo(f, a) \ {a}
    <3>1. ASSUME x \in RowsUpTo(f, d) PROVE x \in RowsUpTo(f, a) \ {a}
      <4>1. x \in Range(rows) /\ Matches(f, x)
        BY <3>1, RanksAreNumbers
      <4>2. PICK q, m \in DOMAIN rows : q =< m /\ rows[q] = x /\ rows[m] = d
        BY <3>1, RanksAreNumbers DEF Before
      <4>3. m = k
        BY <1>0, <2>3, <4>2
      <4>4. q < i
        BY <1>0, <1>4, <2>3, <4>2, <4>3
      <4>5. q =< i /\ x # a
        BY <1>0, <1>4, <4>2, <4>4
      <4>6. Before(x, a)
        BY <1>4, <4>2, <4>5 DEF Before
      <4> QED BY <4>1, <4>5, <4>6, RanksAreNumbers
    <3>2. ASSUME x \in RowsUpTo(f, a) \ {a} PROVE x \in RowsUpTo(f, d)
      <4>1. x \in Range(rows) /\ Matches(f, x)
        BY <3>2, RanksAreNumbers
      <4>2. PICK q, m \in DOMAIN rows : q =< m /\ rows[q] = x /\ rows[m] = a
        BY <3>2, RanksAreNumbers DEF Before
      <4>3. m = i /\ q # i
        BY <1>0, <1>4, <3>2, <4>2
      <4>4. q < i
        BY <1>0, <1>4, <4>2, <4>3
      <4>5. q =< k
        BY <2>2, <4>1, <4>2, <4>4
      <4>6. Before(x, d)
        BY <2>3, <4>2, <4>5 DEF Before
      <4> QED BY <4>1, <4>6, RanksAreNumbers
    <3> QED BY <3>1, <3>2
  <2>5. RowsUpTo(f, d) = RowsUpTo(f, a) \ {a}
    BY <2>4
  <2>6. Rank(f, d) = Rank(f, a) - 1
    BY <1>4, <2>5, RanksAreNumbers, FS_RemoveElement DEF Rank
  <2>7. ~ (Rank(f, d) > offset)
    BY <1>3, <1>4, <2>3
  <2>8. Rank(f, d) \in Nat
    BY RanksAreNumbers
  <2> QED BY <1>5, <1>6, <2>6, <2>7, <2>8
<1> QED BY <1>7, <1>8

-----------------------------------------------------------------------------
(* The types                                                               *)

EditCalls == [op : {"edit"}, at : {"check", "write", "read"}, agent : Agents,
              fields : (SUBSET Fields) \ {{}}]
RetireCalls == [op : {"retire"}, at : {"check", "write"}, agent : Agents]
UpdateCalls == [op : {"update"}, at : {"write", "read"}, project : Projects]
DeleteCalls == [op : {"delete"}, at : {"count", "delete"}, project : Projects, late : SUBSET Agents]
ListCalls == [op : {"list"}, filter : Filters, offset : Nat, got : SUBSET Agents]

\* A call has the fields of its kind.
LEMMA CallsByKind ==
  /\ Idle \in Calls
  /\ EditCalls \subseteq Calls /\ RetireCalls \subseteq Calls /\ UpdateCalls \subseteq Calls
  /\ DeleteCalls \subseteq Calls /\ ListCalls \subseteq Calls
  /\ \A x \in Calls : /\ x.op = "edit" => x \in EditCalls
                      /\ x.op = "retire" => x \in RetireCalls
                      /\ x.op = "update" => x \in UpdateCalls
                      /\ x.op = "delete" => x \in DeleteCalls
                      /\ x.op = "list" => x \in ListCalls
BY DEF Calls, Idle, EditCalls, RetireCalls, UpdateCalls, DeleteCalls, ListCalls

\* What the statements of the calls do to the calls.
LEMMA CallTypes ==
  ASSUME TypeOK, NEW c \in Clients
  PROVE  /\ \A x \in Calls : Enter(c, x) => call' \in [Clients -> Calls]
         /\ Answer(c) => call' \in [Clients -> Calls]
         /\ At(c, "edit", "check") /\ Goto(c, "write") => call' \in [Clients -> Calls]
         /\ At(c, "edit", "write") /\ Goto(c, "read") => call' \in [Clients -> Calls]
         /\ At(c, "retire", "check") /\ Goto(c, "write") => call' \in [Clients -> Calls]
         /\ At(c, "update", "write") /\ Goto(c, "read") => call' \in [Clients -> Calls]
         /\ At(c, "delete", "count") /\ Goto(c, "delete") => call' \in [Clients -> Calls]
<1>0. call \in [Clients -> Calls] /\ call[c] \in Calls
  BY DEF TypeOK
<1>1. \A x \in Calls : Enter(c, x) => call' \in [Clients -> Calls]
  BY <1>0 DEF Enter
<1>2. Answer(c) => call' \in [Clients -> Calls]
  BY <1>0, CallsByKind DEF Answer
<1>3. ASSUME NEW where, [call[c] EXCEPT !.at = where] \in Calls, Goto(c, where)
      PROVE  call' \in [Clients -> Calls]
  BY <1>0, <1>3 DEF Goto
<1>4. At(c, "edit", "check") => [call[c] EXCEPT !.at = "write"] \in Calls
  <2> HAVE At(c, "edit", "check")
  <2>1. call[c] \in EditCalls
    BY <1>0, CallsByKind DEF At
  <2>2. [call[c] EXCEPT !.at = "write"] \in EditCalls
    BY <2>1 DEF EditCalls
  <2> QED BY <2>2, CallsByKind
<1>5. At(c, "edit", "write") => [call[c] EXCEPT !.at = "read"] \in Calls
  <2> HAVE At(c, "edit", "write")
  <2>1. call[c] \in EditCalls
    BY <1>0, CallsByKind DEF At
  <2>2. [call[c] EXCEPT !.at = "read"] \in EditCalls
    BY <2>1 DEF EditCalls
  <2> QED BY <2>2, CallsByKind
<1>6. At(c, "retire", "check") => [call[c] EXCEPT !.at = "write"] \in Calls
  <2> HAVE At(c, "retire", "check")
  <2>1. call[c] \in RetireCalls
    BY <1>0, CallsByKind DEF At
  <2>2. [call[c] EXCEPT !.at = "write"] \in RetireCalls
    BY <2>1 DEF RetireCalls
  <2> QED BY <2>2, CallsByKind
<1>7. At(c, "update", "write") => [call[c] EXCEPT !.at = "read"] \in Calls
  <2> HAVE At(c, "update", "write")
  <2>1. call[c] \in UpdateCalls
    BY <1>0, CallsByKind DEF At
  <2>2. [call[c] EXCEPT !.at = "read"] \in UpdateCalls
    BY <2>1 DEF UpdateCalls
  <2> QED BY <2>2, CallsByKind
<1>8. At(c, "delete", "count") => [call[c] EXCEPT !.at = "delete"] \in Calls
  <2> HAVE At(c, "delete", "count")
  <2>1. call[c] \in DeleteCalls
    BY <1>0, CallsByKind DEF At
  <2>2. [call[c] EXCEPT !.at = "delete"] \in DeleteCalls
    BY <2>1 DEF DeleteCalls
  <2> QED BY <2>2, CallsByKind
<1> QED BY <1>1, <1>2, <1>3, <1>4, <1>5, <1>6, <1>7, <1>8

\* The page that a list reads, and where the list stands after it.
PageOf(l) == ListAgents(l.filter, PageSize, l.offset)
TurnPage(l) == [l EXCEPT !.offset = @ + PageSize, !.got = @ \cup PageOf(l)]

\* A list stays a list.
LEMMA TurnPageType ==
  ASSUME TypeOK, NEW l \in ListCalls
  PROVE  /\ TurnPage(l) \in ListCalls
         /\ TurnPage(l).filter = l.filter
         /\ TurnPage(l).offset = l.offset + PageSize
         /\ TurnPage(l).got = l.got \cup PageOf(l)
<1>1. l.offset \in Nat /\ l.got \subseteq Agents
  BY DEF ListCalls
<1>2. PageOf(l) \subseteq Range(rows)
  BY DEF PageOf, ListAgents
<1>3. l.got \cup PageOf(l) \in SUBSET Agents
  BY <1>1, <1>2, RangeOfSeq DEF TypeOK
<1>4. l.offset + PageSize \in Nat
  BY <1>1, ManagementAssumption
<1>5. ASSUME NEW n \in Nat, NEW g \in SUBSET Agents
      PROVE  /\ [l EXCEPT !.offset = n, !.got = g] \in ListCalls
             /\ [l EXCEPT !.offset = n, !.got = g].filter = l.filter
             /\ [l EXCEPT !.offset = n, !.got = g].offset = n
             /\ [l EXCEPT !.offset = n, !.got = g].got = g
  BY DEF ListCalls
<1> DEFINE n == l.offset + PageSize
           g == l.got \cup PageOf(l)
           t == [l EXCEPT !.offset = n, !.got = g]
<1>6. TurnPage(l) = t
  BY DEF TurnPage
<1>7. t \in ListCalls /\ t.filter = l.filter /\ t.offset = n /\ t.got = g
  <2> HIDE DEF n, g
  <2>1. n \in Nat /\ g \in SUBSET Agents
    BY <1>3, <1>4 DEF n, g
  <2> QED BY <1>5, <2>1
<1> HIDE DEF t
<1> QED BY <1>6, <1>7

\* What is noted of the walks has its type.
LEMMA NoteType ==
  ASSUME TypeOK, NEW a, NEW seen, Note(a, seen)
  PROVE  due' \in [Clients -> SUBSET Agents] /\ gone' \in [Clients -> Nat]
<1> DEFINE lose == Losing(a)
<1>1. /\ due' = [c \in Clients |-> IF seen \/ c \in lose THEN due[c] \ {a} ELSE due[c]]
      /\ gone' = [c \in Clients |-> IF c \in lose THEN gone[c] + 1 ELSE gone[c]]
  BY DEF Note
<1>2. due \in [Clients -> SUBSET Agents] /\ gone \in [Clients -> Nat]
  BY DEF TypeOK
<1> HIDE DEF lose
<1>3. due' \in [Clients -> SUBSET Agents]
  BY <1>1, <1>2
<1>4. gone' \in [Clients -> Nat]
  BY <1>1, <1>2
<1> QED BY <1>3, <1>4

\* At the start the tables are empty and nobody calls.
LEMMA InitInv == Init => IInv
<1> SUFFICES ASSUME Init PROVE IInv
  OBVIOUS
<1>1. BootTypeOK
  BY BootInvInit DEF Init, BootInv
<1>2. rows \in Seq(Agents) /\ IsInjective(rows)
  BY EmptySeq DEF Init, IsInjective
<1>3. call \in [Clients -> Calls]
  BY CallsByKind DEF Init
<1>4. /\ text \in [Agents -> [Fields -> Clients \cup {Null}]]
      /\ edited \in [Agents -> [Fields -> Clients \cup {Null}]]
  BY DEF Init, NoText
<1>5. TypeOK
  BY <1>1, <1>2, <1>3, <1>4, ManagementAssumption DEF Init, TypeOK, Statuses
<1>6. AssignedAreKnown /\ DeletedOnce /\ EditsSurvive
  BY DEF Init, AssignedAreKnown, DeletedOnce, EditsSurvive
<1>7. WalksInv /\ OrphansKnown
  BY DEF Init, WalksInv, WalkInv, OrphansKnown, Idle, At
<1> QED BY <1>5, <1>6, <1>7 DEF IInv

\* The tables of a process that starts are as they were, and the schema is not
\* touched by anybody else.
LEMMA BootStepsOnly == [Next]_vars => [BootNext]_bootVars
BY DEF Next, Boots, vars, Ask, Continue, UpsertAgent, BeginEdit, BeginRetire, BeginUpdate,
         BeginDelete, AssignAgent, CreateProject, SetBudget, DeleteBudget, BeginList,
         CheckAgent, WriteEdit, WriteRetire, ReadBack, WriteUpdate, CountMembers,
         DeleteProject, ReadPage

\* So the types of Boot are kept by the steps of Management too.
LEMMA BootTypesKept == BootTypeOK /\ [Next]_vars => BootTypeOK'
BY BootStepsOnly, BootTypeStep

\* Every step keeps the types of the tables and of the calls.
LEMMA TypeKept == TypeOK /\ [Next]_vars => TypeOK'
<1> SUFFICES ASSUME TypeOK, [Next]_vars PROVE TypeOK'
  OBVIOUS
<1> USE ManagementAssumption
<1>0. BootTypeOK'
  BY BootTypesKept DEF TypeOK
<1>1. call \in [Clients -> Calls]
  BY DEF TypeOK
<1>2. CASE Boots
  BY <1>0, <1>2 DEF Boots, TypeOK, tables, history, walks
<1>3. ASSUME NEW a \in Agents, UpsertAgent(a) PROVE TypeOK'
  <2>1. rows' \in Seq(Agents) /\ IsInjective(rows')
    BY <1>3, MovesToFront DEF UpsertAgent, TypeOK
  <2>2. status' \in [Agents -> Statuses]
    BY <1>3 DEF UpsertAgent, TypeOK, Statuses
  <2>3. due' \in [Clients -> SUBSET Agents] /\ gone' \in [Clients -> Nat]
    BY <1>3, NoteType DEF UpsertAgent
  <2> QED BY <1>0, <1>3, <2>1, <2>2, <2>3 DEF UpsertAgent, TypeOK
<1>4. ASSUME NEW c \in Clients, Ask(c) PROVE TypeOK'
  <2>0. made' \in 0 .. MaxCalls
    BY <1>4 DEF Ask, Asks, TypeOK, BeginEdit, BeginRetire, BeginUpdate, BeginDelete,
                AssignAgent, CreateProject, SetBudget, DeleteBudget, BeginList
  <2>1. CASE BeginEdit(c)
    <3>1. call' \in [Clients -> Calls]
      <4>1. PICK a \in Agents, fs \in (SUBSET Fields) \ {{}} :
               Enter(c, [op |-> "edit", at |-> "check", agent |-> a, fields |-> fs])
        BY <2>1 DEF BeginEdit
      <4>2. [op |-> "edit", at |-> "check", agent |-> a, fields |-> fs] \in EditCalls
        BY DEF EditCalls
      <4> QED BY <4>1, <4>2, CallsByKind, CallTypes
    <3> QED BY <1>0, <2>0, <2>1, <3>1 DEF BeginEdit, TypeOK, tables, history, walks
  <2>2. CASE BeginRetire(c)
    <3>1. call' \in [Clients -> Calls]
      <4>1. PICK a \in Agents : Enter(c, [op |-> "retire", at |-> "check", agent |-> a])
        BY <2>2 DEF BeginRetire
      <4>2. [op |-> "retire", at |-> "check", agent |-> a] \in RetireCalls
        BY DEF RetireCalls
      <4> QED BY <4>1, <4>2, CallsByKind, CallTypes
    <3> QED BY <1>0, <2>0, <2>2, <3>1 DEF BeginRetire, TypeOK, tables, history, walks
  <2>3. CASE BeginUpdate(c)
    <3>1. call' \in [Clients -> Calls]
      <4>1. CASE call' = call
        BY <1>1, <4>1
      <4>2. CASE call' # call
        <5>1. PICK p \in used : Enter(c, [op |-> "update", at |-> "write", project |-> p])
          BY <2>3, <4>2 DEF BeginUpdate
        <5>2. [op |-> "update", at |-> "write", project |-> p] \in UpdateCalls
          BY DEF UpdateCalls, TypeOK
        <5> QED BY <5>1, <5>2, CallsByKind, CallTypes
      <4> QED BY <4>1, <4>2
    <3> QED BY <1>0, <2>0, <2>3, <3>1 DEF BeginUpdate, TypeOK, tables, history, walks
  <2>4. CASE BeginDelete(c)
    <3>1. call' \in [Clients -> Calls]
      <4>1. PICK p \in used :
               Enter(c, [op |-> "delete", at |-> "count", project |-> p, late |-> {}])
        BY <2>4 DEF BeginDelete
      <4>2. [op |-> "delete", at |-> "count", project |-> p, late |-> {}] \in DeleteCalls
        BY DEF DeleteCalls, TypeOK
      <4> QED BY <4>1, <4>2, CallsByKind, CallTypes
    <3> QED BY <1>0, <2>0, <2>4, <3>1 DEF BeginDelete, TypeOK, tables, history, walks
  <2>5. CASE AssignAgent(c)
    <3>1. project' \in [Agents -> Projects \cup {Null}] /\ call' \in [Clients -> Calls]
      <4>1. \A a \in Agents, x \in DeleteCalls : [x EXCEPT !.late = @ \cup {a}] \in DeleteCalls
        BY DEF DeleteCalls
      <4>2. \A a \in Agents, p \in Projects \cup {Null} : SeenLate(a, p) \in [Clients -> Calls]
        BY <1>1, <4>1, CallsByKind DEF SeenLate
      <4>3. CASE project' = project /\ call' = call
        BY <1>1, <4>3 DEF TypeOK
      <4>4. CASE ~ (project' = project /\ call' = call)
        <5>1. PICK a \in Agents, p \in Projects \cup {Null} :
                 project' = [project EXCEPT ![a] = p] /\ call' = SeenLate(a, p)
          BY <2>5, <4>4 DEF AssignAgent
        <5>2. project' \in [Agents -> Projects \cup {Null}]
          BY <5>1 DEF TypeOK
        <5> QED BY <4>2, <5>1, <5>2
      <4> QED BY <4>3, <4>4
    <3> QED BY <1>0, <2>0, <2>5, <3>1 DEF AssignAgent, TypeOK, history, walks
  <2>6. CASE CreateProject(c)
    <3>1. projects' \subseteq used' /\ used' \subseteq Projects
      BY <2>6 DEF CreateProject, InsertProject, TypeOK
    <3> QED BY <1>0, <2>0, <2>6, <3>1 DEF CreateProject, TypeOK, walks
  <2>7. CASE SetBudget(c)
    <3>1. DOMAIN budget' \subseteq Agents /\ \A a \in DOMAIN budget' : budget'[a] \subseteq Limits
      <4>1. CASE budget' = budget
        BY <4>1 DEF TypeOK
      <4>2. CASE budget' # budget
        <5>1. PICK a \in Agents, limits \in SUBSET Limits : UpsertBudgetConfig(a, limits)
          BY <2>7, <4>2 DEF SetBudget
        <5> QED BY <5>1 DEF UpsertBudgetConfig, TypeOK
      <4> QED BY <4>1, <4>2
    <3> QED BY <1>0, <2>0, <2>7, <3>1 DEF SetBudget, TypeOK, history, walks
  <2>8. CASE DeleteBudget(c)
    <3>1. DOMAIN budget' \subseteq Agents /\ \A a \in DOMAIN budget' : budget'[a] \subseteq Limits
      BY <2>8 DEF DeleteBudget, DeleteBudgetConfig, TypeOK, Restrict
    <3> QED BY <1>0, <2>0, <2>8, <3>1 DEF DeleteBudget, TypeOK, history, walks
  <2>9. CASE BeginList(c)
    <3>1. PICK f \in Filters :
             /\ Enter(c, [op |-> "list", filter |-> f, offset |-> 0, got |-> {}])
             /\ due' = [due EXCEPT ![c] = {a \in Range(rows) : Matches(f, a)}]
      BY <2>9 DEF BeginList
    <3>2. [op |-> "list", filter |-> f, offset |-> 0, got |-> {}] \in ListCalls
      BY DEF ListCalls
    <3>3. call' \in [Clients -> Calls]
      BY <3>1, <3>2, CallsByKind, CallTypes
    <3>4. due' \in [Clients -> SUBSET Agents]
      BY <3>1, RangeOfSeq DEF TypeOK
    <3> QED BY <1>0, <2>0, <2>9, <3>3, <3>4 DEF BeginList, TypeOK, tables
  <2> QED BY <1>4, <2>1, <2>2, <2>3, <2>4, <2>5, <2>6, <2>7, <2>8, <2>9 DEF Ask
<1>5. ASSUME NEW c \in Clients, Continue(c) PROVE TypeOK'
  <2>1. CASE CheckAgent(c)
    <3>1. call' \in [Clients -> Calls]
      BY <2>1, CallTypes DEF CheckAgent
    <3> QED BY <1>0, <2>1, <3>1 DEF CheckAgent, TypeOK, tables, history, walks
  <2>2. CASE WriteEdit(c)
    <3>1. call' \in [Clients -> Calls]
      BY <2>2, CallTypes DEF WriteEdit
    <3>2. \A old \in [Agents -> [Fields -> Clients \cup {Null}]] :
             Written(old, c) \in [Agents -> [Fields -> Clients \cup {Null}]]
      BY DEF Written
    <3>3. /\ text' \in [Agents -> [Fields -> Clients \cup {Null}]]
          /\ edited' \in [Agents -> [Fields -> Clients \cup {Null}]]
      BY <2>2, <3>2 DEF WriteEdit, TypeOK
    <3>4. due' \in [Clients -> SUBSET Agents] /\ gone' \in [Clients -> Nat]
      BY <2>2, NoteType DEF WriteEdit
    <3> QED BY <1>0, <2>2, <3>1, <3>3, <3>4 DEF WriteEdit, TypeOK
  <2>3. CASE WriteRetire(c)
    <3>1. call' \in [Clients -> Calls]
      BY <2>3, CallTypes DEF WriteRetire
    <3>2. status' \in [Agents -> Statuses]
      BY <2>3 DEF WriteRetire, TypeOK, Statuses
    <3>3. due' \in [Clients -> SUBSET Agents] /\ gone' \in [Clients -> Nat]
      BY <2>3, NoteType DEF WriteRetire
    <3> QED BY <1>0, <2>3, <3>1, <3>2, <3>3 DEF WriteRetire, TypeOK
  <2>4. CASE ReadBack(c)
    <3>1. call' \in [Clients -> Calls]
      BY <2>4, CallTypes DEF ReadBack
    <3> QED BY <1>0, <2>4, <3>1 DEF ReadBack, TypeOK, tables, history, walks
  <2>5. CASE WriteUpdate(c)
    <3>1. call' \in [Clients -> Calls]
      BY <2>5, CallTypes DEF WriteUpdate
    <3>2. title' \in [Projects -> {"created", "updated"}]
      BY <2>5 DEF WriteUpdate, TypeOK
    <3> QED BY <1>0, <2>5, <3>1, <3>2 DEF WriteUpdate, TypeOK, history, walks
  <2>6. CASE CountMembers(c)
    <3>1. call' \in [Clients -> Calls]
      BY <2>6, CallTypes DEF CountMembers
    <3> QED BY <1>0, <2>6, <3>1 DEF CountMembers, TypeOK, tables, history, walks
  <2>7. CASE DeleteProject(c)
    <3>1. call' \in [Clients -> Calls]
      BY <2>7, CallTypes DEF DeleteProject
    <3>2. project' \in [Agents -> Projects \cup {Null}] /\ projects' \subseteq used
      BY <2>7 DEF DeleteProject, TypeOK
    <3>3. deletions' \in [Projects -> Nat]
      <4> DEFINE p == call[c].project
                 d == IF p \in projects THEN deletions[p] + 1 ELSE deletions[p]
      <4>1. call[c] \in DeleteCalls
        BY <1>1, <2>7, CallsByKind DEF DeleteProject, At
      <4>2. p \in Projects
        BY <4>1 DEF DeleteCalls
      <4>3. deletions' = [deletions EXCEPT ![p] = d]
        BY <2>7 DEF DeleteProject
      <4> HIDE DEF p
      <4>4. d \in Nat
        BY <4>2 DEF TypeOK
      <4> HIDE DEF d
      <4> QED BY <4>3, <4>4 DEF TypeOK
    <3> QED BY <1>0, <2>7, <3>1, <3>2, <3>3 DEF DeleteProject, TypeOK, walks
  <2>8. CASE ReadPage(c)
    <3>1. call[c] \in ListCalls
      BY <1>1, <2>8, CallsByKind DEF ReadPage
    <3>2. TurnPage(call[c]) \in ListCalls
      BY <3>1, TurnPageType
    <3>3. Answer(c) \/ Enter(c, TurnPage(call[c]))
      BY <2>8 DEF ReadPage, TurnPage, PageOf
    <3>4. Answer(c) => call' \in [Clients -> Calls]
      BY CallTypes
    <3>5. Enter(c, TurnPage(call[c])) => call' \in [Clients -> Calls]
      BY <3>2, CallsByKind, CallTypes
    <3>7. call' \in [Clients -> Calls]
      BY <3>3, <3>4, <3>5
    <3>6. \/ due' = [due EXCEPT ![c] = {}] /\ gone' = [gone EXCEPT ![c] = 0]
          \/ due' = due /\ gone' = gone
      BY <2>8 DEF ReadPage, walks
    <3>8. due' \in [Clients -> SUBSET Agents] /\ gone' \in [Clients -> Nat]
      <4>1. due \in [Clients -> SUBSET Agents] /\ gone \in [Clients -> Nat]
        BY DEF TypeOK
      <4>2. CASE due' = [due EXCEPT ![c] = {}] /\ gone' = [gone EXCEPT ![c] = 0]
        BY <4>1, <4>2
      <4>3. CASE due' = due /\ gone' = gone
        BY <4>1, <4>3
      <4> QED BY <3>6, <4>2, <4>3
    <3> QED BY <1>0, <2>8, <3>7, <3>8 DEF ReadPage, TypeOK, tables
  <2> QED BY <1>5, <2>1, <2>2, <2>3, <2>4, <2>5, <2>6, <2>7, <2>8 DEF Continue
<1>6. CASE UNCHANGED vars
  BY <1>0, <1>6 DEF vars, TypeOK, tables, history, walks
<1> QED BY <1>2, <1>3, <1>4, <1>5, <1>6 DEF Next

-----------------------------------------------------------------------------
(* What the steps do to the calls                                          *)

\* The call of a client changes at its own step, and no step of another makes
\* one of it.
LEMMA OthersStay ==
  ASSUME TypeOK, NEW c \in Clients, NEW d \in Clients, d # c
  PROVE  /\ \A x : Enter(c, x) => call'[d] = call[d]
         /\ \A x : Goto(c, x) => call'[d] = call[d]
         /\ Answer(c) => call'[d] = call[d]
BY DEF TypeOK, Enter, Goto, Answer

\* Where the client of a step stands after it.
LEMMA OwnCall ==
  ASSUME TypeOK, NEW c \in Clients
  PROVE  /\ \A x : Enter(c, x) => call'[c] = x
         /\ \A x : Goto(c, x) => call'[c] = [call[c] EXCEPT !.at = x]
         /\ Answer(c) => call'[c] = Idle
BY DEF TypeOK, Enter, Goto, Answer

OtherCalls == EditCalls \cup RetireCalls \cup UpdateCalls \cup DeleteCalls

\* A place in a call leaves the rest of the call alone.
LEMMA PlaceOnly ==
  ASSUME NEW q \in OtherCalls, NEW where
  PROVE  /\ [q EXCEPT !.at = where].op = q.op
         /\ q \in DeleteCalls => [q EXCEPT !.at = where].project = q.project
<1>1. ASSUME NEW e \in EditCalls PROVE [e EXCEPT !.at = where].op = e.op
  BY DEF EditCalls
<1>2. ASSUME NEW e \in RetireCalls PROVE [e EXCEPT !.at = where].op = e.op
  BY DEF RetireCalls
<1>3. ASSUME NEW e \in UpdateCalls PROVE [e EXCEPT !.at = where].op = e.op
  BY DEF UpdateCalls
<1>4. ASSUME NEW e \in DeleteCalls
      PROVE  /\ [e EXCEPT !.at = where].op = e.op
             /\ [e EXCEPT !.at = where].project = e.project
  BY DEF DeleteCalls
<1> QED BY <1>1, <1>2, <1>3, <1>4 DEF OtherCalls

\* An assignment is noted by the deletions of this project that have counted,
\* and by no other call.
LEMMA LateCalls ==
  ASSUME TypeOK, NEW a \in Agents, NEW p, call' = SeenLate(a, p), NEW d \in Clients
  PROVE  /\ ~ At(d, "delete", "delete") \/ call[d].project # p => call'[d] = call[d]
         /\ At(d, "delete", "delete") /\ call[d].project = p =>
              /\ call'[d].op = "delete" /\ call'[d].at = "delete"
              /\ call'[d].project = p
              /\ call'[d].late = call[d].late \cup {a}
<1>1. call'[d] = IF call[d].op = "delete" /\ call[d].at = "delete" /\ call[d].project = p
                 THEN [call[d] EXCEPT !.late = @ \cup {a}] ELSE call[d]
  BY DEF SeenLate
<1>2. CASE At(d, "delete", "delete") /\ call[d].project = p
  <2>1. call[d] \in DeleteCalls
    BY <1>2, CallsByKind DEF TypeOK, At
  <2>2. call'[d] = [call[d] EXCEPT !.late = @ \cup {a}]
    BY <1>1, <1>2 DEF At
  <2>3. \A l : \A q \in DeleteCalls :
           /\ [q EXCEPT !.late = l].op = q.op
           /\ [q EXCEPT !.late = l].at = q.at
           /\ [q EXCEPT !.late = l].project = q.project
           /\ [q EXCEPT !.late = l].late = l
    BY DEF DeleteCalls
  <2> QED BY <1>2, <2>1, <2>2, <2>3 DEF At
<1> QED BY <1>1, <1>2 DEF At

\* The assignment that is refused changes nothing.
LEMMA AssignSteps ==
  ASSUME NEW c, AssignAgent(c)
  PROVE  \/ project' = project /\ call' = call
         \/ \E a \in Agents, p \in projects \cup {Null} :
               /\ a \in Range(rows)
               /\ project' = [project EXCEPT ![a] = p]
               /\ call' = SeenLate(a, p)
<1> SUFFICES ASSUME ~ (project' = project /\ call' = call)
             PROVE  \E a \in Agents, p \in projects \cup {Null} :
                      /\ a \in Range(rows)
                      /\ project' = [project EXCEPT ![a] = p]
                      /\ call' = SeenLate(a, p)
  OBVIOUS
<1> QED BY DEF AssignAgent, Known

\* A step of a call that is not a list: the client is answered, enters a call, or
\* goes to its next statement.
Proceeds(c) ==
    /\ rows' = rows
    /\ call[c].op # "list"
    /\ \/ Answer(c)
       \/ \E x \in OtherCalls : x.at # "delete" /\ Enter(c, x)
       \/ call[c] \in OtherCalls /\ \E x : Goto(c, x) /\ (x = "delete" => CountMembers(c))

\* All that a step can be, to those who ask what became of the calls, of the rows
\* and of the projects of the agents.
LEMMA StepShapes ==
  ASSUME TypeOK, [Next]_vars
  PROVE  \/ UNCHANGED <<rows, call, project>>
         \/ \E a \in Agents : UpsertAgent(a)
         \/ \E c \in Clients : AssignAgent(c) \/ BeginList(c) \/ ReadPage(c)
         \/ \E c \in Clients : Proceeds(c) /\ (project' = project \/ DeleteProject(c))
<1>0. \A c \in Clients : call[c] \in Calls
  BY DEF TypeOK
<1> DEFINE Goal == \/ UNCHANGED <<rows, call, project>>
                   \/ \E c \in Clients : Proceeds(c) /\ (project' = project \/ DeleteProject(c))
<1>1. ASSUME NEW c \in Clients, BeginEdit(c) PROVE Goal
  <2>1. PICK a \in Agents, fs \in (SUBSET Fields) \ {{}} :
           Enter(c, [op |-> "edit", at |-> "check", agent |-> a, fields |-> fs])
    BY <1>1 DEF BeginEdit
  <2>2. [op |-> "edit", at |-> "check", agent |-> a, fields |-> fs] \in OtherCalls
    BY DEF EditCalls, OtherCalls
  <2> QED BY <1>1, <2>1, <2>2 DEF BeginEdit, Proceeds, tables, Asks, Idle
<1>2. ASSUME NEW c \in Clients, BeginRetire(c) PROVE Goal
  <2>1. PICK a \in Agents : Enter(c, [op |-> "retire", at |-> "check", agent |-> a])
    BY <1>2 DEF BeginRetire
  <2>2. [op |-> "retire", at |-> "check", agent |-> a] \in OtherCalls
    BY DEF RetireCalls, OtherCalls
  <2> QED BY <1>2, <2>1, <2>2 DEF BeginRetire, Proceeds, tables, Asks, Idle
<1>3. ASSUME NEW c \in Clients, BeginUpdate(c) PROVE Goal
  <2>1. CASE call' = call
    BY <1>3, <2>1 DEF BeginUpdate, tables
  <2>2. CASE call' # call
    <3>1. PICK p \in used : Enter(c, [op |-> "update", at |-> "write", project |-> p])
      BY <1>3, <2>2 DEF BeginUpdate
    <3>2. [op |-> "update", at |-> "write", project |-> p] \in OtherCalls
      BY DEF UpdateCalls, OtherCalls, TypeOK
    <3> QED BY <1>3, <3>1, <3>2 DEF BeginUpdate, Proceeds, tables, Asks, Idle
  <2> QED BY <2>1, <2>2
<1>4. ASSUME NEW c \in Clients, BeginDelete(c) PROVE Goal
  <2>1. PICK p \in used : Enter(c, [op |-> "delete", at |-> "count", project |-> p, late |-> {}])
    BY <1>4 DEF BeginDelete
  <2>2. [op |-> "delete", at |-> "count", project |-> p, late |-> {}] \in OtherCalls
    BY DEF DeleteCalls, OtherCalls, TypeOK
  <2> QED BY <1>4, <2>1, <2>2 DEF BeginDelete, Proceeds, tables, Asks, Idle
<1>5. ASSUME NEW c \in Clients, CheckAgent(c) PROVE Goal
  <2>1. call[c] \in OtherCalls
    BY <1>0, <1>5, CallsByKind DEF CheckAgent, At, OtherCalls
  <2> QED BY <1>5, <2>1 DEF CheckAgent, Proceeds, tables, At
<1>6. ASSUME NEW c \in Clients, WriteEdit(c) PROVE Goal
  <2>1. call[c] \in OtherCalls
    BY <1>0, <1>6, CallsByKind DEF WriteEdit, At, OtherCalls
  <2> QED BY <1>6, <2>1 DEF WriteEdit, Proceeds, At
<1>7. ASSUME NEW c \in Clients, WriteUpdate(c) PROVE Goal
  <2>1. call[c] \in OtherCalls
    BY <1>0, <1>7, CallsByKind DEF WriteUpdate, At, OtherCalls
  <2> QED BY <1>7, <2>1 DEF WriteUpdate, Proceeds, At
<1>8. ASSUME NEW c \in Clients, CountMembers(c) PROVE Goal
  <2>1. call[c] \in OtherCalls
    BY <1>0, <1>8, CallsByKind DEF CountMembers, At, OtherCalls
  <2> QED BY <1>8, <2>1 DEF CountMembers, Proceeds, tables, At
<1>9. ASSUME NEW c \in Clients, WriteRetire(c) \/ ReadBack(c) \/ DeleteProject(c) PROVE Goal
  BY <1>9 DEF WriteRetire, ReadBack, DeleteProject, Proceeds, tables, At
<1>10. ASSUME NEW c \in Clients, CreateProject(c) \/ SetBudget(c) \/ DeleteBudget(c) PROVE Goal
  BY <1>10 DEF CreateProject, SetBudget, DeleteBudget
<1>11. CASE Boots \/ UNCHANGED vars
  BY <1>11 DEF Boots, vars, tables
<1> DEFINE Shape == \/ Goal
                    \/ \E a \in Agents : UpsertAgent(a)
                    \/ \E c \in Clients : AssignAgent(c) \/ BeginList(c) \/ ReadPage(c)
<1>12. ASSUME NEW c \in Clients, Ask(c) PROVE Shape
  <2> HIDE DEF Goal
  <2>1. CASE AssignAgent(c) \/ BeginList(c)
    BY <2>1
  <2>2. CASE ~ (AssignAgent(c) \/ BeginList(c))
    BY <1>1, <1>2, <1>3, <1>4, <1>10, <1>12, <2>2 DEF Ask
  <2> QED BY <2>1, <2>2
<1>13. ASSUME NEW c \in Clients, Continue(c) PROVE Shape
  <2> HIDE DEF Goal
  <2>1. CASE ReadPage(c)
    BY <2>1
  <2>2. CASE ~ ReadPage(c)
    BY <1>5, <1>6, <1>7, <1>8, <1>9, <1>13, <2>2 DEF Continue
  <2> QED BY <2>1, <2>2
<1>14. ASSUME NEW a \in Agents, UpsertAgent(a) PROVE Shape
  BY <1>14
<1>15. CASE Boots \/ UNCHANGED vars
  BY <1>11, <1>15
<1>16. Shape
  <2>1. CASE Next
    <3>1. \/ Boots
          \/ \E a \in Agents : UpsertAgent(a)
          \/ \E c \in Clients : Ask(c)
          \/ \E c \in Clients : Continue(c)
      BY <2>1 DEF Next
    <3> QED BY <1>12, <1>13, <1>14, <1>15, <3>1
  <2> QED BY <1>15, <2>1
<1> QED BY <1>16

-----------------------------------------------------------------------------
(* The conjuncts of the invariant, one by one                              *)

\* Rows are never deleted, and an agent gets a project when its row is there.
LEMMA AssignedKept == TypeOK /\ AssignedAreKnown /\ [Next]_vars => AssignedAreKnown'
<1> SUFFICES ASSUME TypeOK, AssignedAreKnown, [Next]_vars, NEW b \in Agents, project'[b] # Null
             PROVE  b \in Range(rows')
  BY DEF AssignedAreKnown, Known
<1>0. project[b] # Null => b \in Range(rows)
  BY DEF AssignedAreKnown, Known
<1>1. ASSUME NEW a \in Agents, UpsertAgent(a) PROVE b \in Range(rows')
  BY <1>0, <1>1, MovesToFront DEF UpsertAgent, TypeOK
<1>2. ASSUME NEW c \in Clients, AssignAgent(c) PROVE b \in Range(rows')
  BY <1>0, <1>2 DEF AssignAgent, TypeOK, Known
<1>3. ASSUME NEW c \in Clients, DeleteProject(c) PROVE b \in Range(rows')
  BY <1>0, <1>3 DEF DeleteProject
<1>4. CASE project' = project /\ rows' = rows
  BY <1>0, <1>4
<1> QED BY <1>1, <1>2, <1>3, <1>4
        DEF Next, Boots, vars, tables, history, Ask, Continue, BeginEdit, BeginRetire, BeginUpdate,
            BeginDelete, CreateProject, SetBudget, DeleteBudget, BeginList, CheckAgent,
            WriteEdit, WriteRetire, ReadBack, WriteUpdate, CountMembers, ReadPage

\* The foreign key, ON DELETE SET NULL, the row count of the DELETE and the fresh
\* identifier of the INSERT.
LEMMA DeletedOnceKept == TypeOK /\ DeletedOnce /\ [Next]_vars => DeletedOnce'
<1> SUFFICES ASSUME TypeOK, DeletedOnce, [Next]_vars PROVE DeletedOnce'
  OBVIOUS
<1>0. projects \subseteq used /\ used \subseteq Projects /\ deletions \in [Projects -> Nat]
  BY DEF TypeOK
<1>1. ASSUME NEW c \in Clients, AssignAgent(c) PROVE DeletedOnce'
  <2>1. \A a \in Agents : project'[a] \in projects \cup {Null}
    BY <1>1, AssignSteps DEF TypeOK, DeletedOnce
  <2>2. projects' = projects /\ used' = used /\ deletions' = deletions
    BY <1>1 DEF AssignAgent, history
  <2> QED BY <2>1, <2>2 DEF DeletedOnce
<1>2. ASSUME NEW c \in Clients, CreateProject(c) PROVE DeletedOnce'
  <2>1. CASE projects' = projects /\ used' = used
    BY <1>2, <2>1 DEF CreateProject, DeletedOnce
  <2>2. CASE ~ (projects' = projects /\ used' = used)
    <3>1. PICK p \in Projects \ used : InsertProject(p)
      BY <1>2, <2>2 DEF CreateProject
    <3>2. \A q \in Projects : q \in used' \ projects' <=> q \in used \ projects
      BY <1>0, <3>1 DEF InsertProject
    <3>3. deletions' = deletions /\ project' = project
      BY <1>2 DEF CreateProject
    <3>4. \A q \in Projects : deletions'[q] =< IF q \in used' \ projects' THEN 1 ELSE 0
      BY <3>2, <3>3 DEF DeletedOnce
    <3>5. \A a \in Agents : project'[a] \in projects' \cup {Null}
      BY <3>1, <3>3 DEF InsertProject, DeletedOnce
    <3> QED BY <3>4, <3>5 DEF DeletedOnce
  <2> QED BY <2>1, <2>2
<1>3. ASSUME NEW c \in Clients, DeleteProject(c) PROVE DeletedOnce'
  <2>1. PICK p : p = call[c].project
    OBVIOUS
  <2>2. /\ projects' = projects \ {p} /\ used' = used
        /\ project' = [a \in Agents |-> IF project[a] = p THEN Null ELSE project[a]]
        /\ deletions' = [deletions EXCEPT ![p] = IF p \in projects THEN @ + 1 ELSE @]
    BY <1>3, <2>1 DEF DeleteProject
  <2>3. \A a \in Agents : project'[a] \in projects' \cup {Null}
    BY <2>2 DEF DeletedOnce
  <2>4. ASSUME NEW q \in Projects
        PROVE  deletions'[q] =< IF q \in used' \ projects' THEN 1 ELSE 0
    <3>0. deletions[q] \in Nat /\ deletions[q] =< IF q \in used \ projects THEN 1 ELSE 0
      BY <1>0 DEF DeletedOnce
    <3>1. CASE q = p /\ p \in projects
      <4>1. deletions'[q] = deletions[q] + 1 /\ deletions[q] =< 0 /\ q \in used' \ projects'
        BY <1>0, <2>2, <3>0, <3>1
      <4> QED BY <3>0, <4>1
    <3>2. CASE ~ (q = p /\ p \in projects)
      <4>1. deletions'[q] = deletions[q]
        BY <1>0, <2>2, <3>2
      <4>2. q \in used' \ projects' <=> q \in used \ projects
        BY <2>2, <3>2
      <4> QED BY <3>0, <4>1, <4>2
    <3> QED BY <3>1, <3>2
  <2> QED BY <2>3, <2>4 DEF DeletedOnce
<1>4. CASE UNCHANGED <<project, projects, used, deletions>>
  BY <1>4 DEF DeletedOnce
<1> QED BY <1>1, <1>2, <1>3, <1>4
        DEF Next, Boots, vars, tables, history, UpsertAgent, Ask, Continue, BeginEdit, BeginRetire,
            BeginUpdate, BeginDelete, SetBudget, DeleteBudget, BeginList, CheckAgent,
            WriteEdit, WriteRetire, ReadBack, WriteUpdate, CountMembers, ReadPage

\* One statement writes the columns that were given and no other.
LEMMA EditsKept == EditsSurvive /\ [Next]_vars => EditsSurvive'
<1> SUFFICES ASSUME text = edited, [Next]_vars PROVE text' = edited'
  BY DEF EditsSurvive
<1>1. ASSUME NEW c \in Clients, WriteEdit(c) PROVE text' = edited'
  BY <1>1 DEF WriteEdit, Written
<1>2. CASE UNCHANGED <<text, edited>>
  BY <1>2
<1> QED BY <1>1, <1>2
        DEF Next, Boots, vars, tables, history, UpsertAgent, Ask, Continue, BeginEdit,
            BeginRetire, BeginUpdate, BeginDelete, SetBudget, DeleteBudget, BeginList, CheckAgent,
            WriteRetire, ReadBack, WriteUpdate, CountMembers, ReadPage, AssignAgent, CreateProject,
            DeleteProject

\* What a step that writes the row of x leaves of the other rows: they match what
\* they matched, and none comes in front of another, or of x unless x is seen.
Touches(x, seen) ==
    /\ \A y \in Agents \ {x} : status'[y] = status[y] /\ text'[y]["name"] = text[y]["name"]
    /\ Range(rows) \subseteq Range(rows')
    /\ \A y, b \in Range(rows) : (b # x \/ ~ seen) /\ Before(y, b) => Before(y, b)'

\* The writer touches the agent it sees.
LEMMA SeenTouches == ASSUME TypeOK, NEW a \in Agents, UpsertAgent(a) PROVE Touches(a, TRUE)
<1>1. /\ rows' = Cons(a, RemoveFirst(rows, a)) /\ rows \in Seq(Agents) /\ IsInjective(rows)
      /\ status' = [status EXCEPT ![a] = "active"] /\ text' = text
      /\ status \in [Agents -> Statuses]
  BY DEF UpsertAgent, TypeOK
<1>2. Range(rows') = Range(rows) \cup {a} /\ rows' \in Seq(Agents)
  BY <1>1, MovesToFront
<1>3. /\ 1 \in DOMAIN rows' /\ rows'[1] = a
      /\ \A i, m \in DOMAIN rows : i =< m /\ rows[i] # a /\ rows[m] # a =>
           \E j, n \in DOMAIN rows' : j =< n /\ rows'[j] = rows[i] /\ rows'[n] = rows[m]
  BY <1>1, FrontKeepsOrder
<1>4. ASSUME NEW y \in Range(rows), NEW b \in Range(rows), b # a, Before(y, b)
      PROVE  Before(y, b)'
  <2>1. PICK i, m \in DOMAIN rows : i =< m /\ rows[i] = y /\ rows[m] = b
    BY <1>4 DEF Before
  <2>2. CASE y = a
    <3>1. PICK n \in DOMAIN rows' : rows'[n] = b
      BY <1>2, <1>4 DEF Range
    <3>2. 1 =< n
      BY <1>2, LenProperties
    <3> QED BY <1>3, <2>2, <3>1, <3>2 DEF Before
  <2>3. CASE y # a
    <3>1. \E j, n \in DOMAIN rows' : j =< n /\ rows'[j] = rows[i] /\ rows'[n] = rows[m]
      BY <1>3, <1>4, <2>1, <2>3
    <3> QED BY <2>1, <3>1 DEF Before
  <2> QED BY <2>2, <2>3
<1>5. \A y \in Agents \ {a} : status'[y] = status[y] /\ text'[y]["name"] = text[y]["name"]
  BY <1>1
<1> QED BY <1>2, <1>4, <1>5 DEF Touches

\* A client touches the agent it writes.
LEMMA WriteTouches ==
  ASSUME TypeOK, NEW c \in Clients, WriteEdit(c) \/ WriteRetire(c)
  PROVE  Touches(call[c].agent, FALSE)
<1>1. /\ \A y \in Agents \ {call[c].agent} :
           status'[y] = status[y] /\ text'[y]["name"] = text[y]["name"]
      /\ rows' = rows
  BY DEF WriteEdit, WriteRetire, Written, TypeOK
<1>2. \A y, b : Before(y, b) => Before(y, b)'
  BY <1>1 DEF Before
<1> QED BY <1>1, <1>2 DEF Touches

\* What a step that writes the row of x does to the places of the others: each moves
\* up by one at most, and by none unless x leaves the filter.
LEMMA RanksMove ==
  ASSUME TypeOK, TypeOK', NEW x \in Agents, NEW seen \in BOOLEAN, Touches(x, seen),
         NEW f, NEW b \in Range(rows), b # x \/ ~ seen, b # x \/ ~ Leaves(f, x)
  PROVE  /\ Rank(f, b)' \in Nat
         /\ Rank(f, b)' >= Rank(f, b) - 1
         /\ ~ Leaves(f, x) => Rank(f, b)' >= Rank(f, b)
<1> DEFINE old == RowsUpTo(f, b)
           new == RowsUpTo(f, b)'
<1>1. /\ old = {a \in Range(rows) : Matches(f, a) /\ Before(a, b)}
      /\ IsFiniteSet(old) /\ Cardinality(old) \in Nat
  BY RanksAreNumbers, FS_CardinalityType
<1>2. /\ new = {a \in Range(rows') : Matches(f, a)' /\ Before(a, b)'}
      /\ IsFiniteSet(new) /\ Cardinality(new) \in Nat
  <2>2. RowsUpTo(f, b)' = {a \in Range(rows') : Matches(f, a)' /\ Before(a, b)'}
    BY DEF RowsUpTo, Before
  <2>3. IsFiniteSet(Range(rows'))
    BY RangeIsFinite DEF TypeOK
  <2>1. IsFiniteSet(RowsUpTo(f, b)')
    BY <2>2, <2>3, FS_Subset
  <2> QED BY <2>1, <2>2, FS_CardinalityType
<1>3. Range(rows) \subseteq Agents
  BY RangeOfSeq DEF TypeOK
<1>4. ASSUME NEW a \in old, a # x \/ ~ Leaves(f, x) PROVE a \in new
  <2>1. a \in Range(rows) /\ Matches(f, a) /\ Before(a, b)
    BY <1>1, <1>4
  <2>2. a \in Range(rows') /\ Before(a, b)'
    BY <2>1 DEF Touches
  <2>3. Matches(f, a)'
    <3>1. CASE a # x
      <4>1. status'[a] = status[a] /\ text'[a]["name"] = text[a]["name"]
        BY <1>3, <2>1, <3>1 DEF Touches
      <4> QED BY <2>1, <4>1 DEF Matches, Fits
    <3>2. CASE a = x
      BY <1>4, <2>1, <3>2 DEF Leaves, Matches, Fits
    <3> QED BY <3>1, <3>2
  <2> QED BY <1>2, <2>2, <2>3
<1> HIDE DEF old, new
<1>5. old \ {x} \in SUBSET new
  BY <1>4
<1>6. Cardinality(old \ {x}) >= Cardinality(old) - 1
  <2>1. Cardinality(old \ {x}) = Cardinality(old) - 1 \/ Cardinality(old \ {x}) = Cardinality(old)
    BY <1>1, FS_RemoveElement
  <2> QED BY <1>1, <2>1
<1>7. Cardinality(old \ {x}) =< Cardinality(new) /\ Cardinality(old \ {x}) \in Nat
  BY <1>1, <1>2, <1>5, FS_Subset, FS_RemoveElement, FS_CardinalityType
<1>8. ~ Leaves(f, x) => Cardinality(old) =< Cardinality(new)
  <2> SUFFICES ASSUME ~ Leaves(f, x) PROVE Cardinality(old) =< Cardinality(new)
    OBVIOUS
  <2>1. old \in SUBSET new
    BY <1>4
  <2> QED BY <1>2, <2>1, FS_Subset
<1>9. Rank(f, b) = Cardinality(old) /\ Rank(f, b)' = Cardinality(new)
  BY DEF Rank, old, new
<1> QED BY <1>1, <1>2, <1>6, <1>7, <1>8, <1>9

\* What a walk misses are rows, finitely many.
LEMMA MissedIsFinite ==
  ASSUME TypeOK, NEW d \in Clients, \A a \in due[d] : Known(a)
  PROVE  IsFiniteSet(Missed(d)) /\ Cardinality(Missed(d)) \in Nat
<1>1. Missed(d) \in SUBSET Range(rows)
  BY DEF Missed, Known
<1> QED BY <1>1, RowsAreFinite, FS_Subset, FS_CardinalityType

\* A walk during which an agent is seen or written misses one more at most, and
\* none unless the agent leaves the filter.
LEMMA NoteKeeps ==
  ASSUME TypeOK, TypeOK', NEW x \in Agents, NEW seen \in BOOLEAN, Touches(x, seen), Note(x, seen),
         NEW d \in Clients, call[d].op = "list", call'[d] = call[d], WalkInv(d)
  PROVE  WalkInv(d)'
<1> DEFINE f == call[d].filter
           o == call[d].offset
           slip == {y \in due[d] : Rank(f, y) = o + 1}
<1>0. /\ call[d] \in ListCalls /\ o \in Nat
      /\ Range(rows) \subseteq Agents
      /\ gone[d] \in Nat /\ due[d] \subseteq Agents
      /\ \A a \in due[d] : a \in Range(rows) /\ Matches(f, a)
      /\ Cardinality(Missed(d)) =< gone[d]
  BY CallsByKind, RangeOfSeq DEF TypeOK, ListCalls, WalkInv, Known
<1>1. /\ due'[d] = IF seen \/ Leaves(f, x) THEN due[d] \ {x} ELSE due[d]
      /\ gone'[d] = IF Leaves(f, x) THEN gone[d] + 1 ELSE gone[d]
  <2>1. d \in Losing(x) <=> Leaves(f, x)
    BY DEF Losing
  <2> QED BY <2>1 DEF Note
<1>2. call'[d].filter = f /\ call'[d].offset = o /\ call'[d].got = call[d].got
  OBVIOUS
<1>3. ASSUME NEW a \in due'[d] PROVE Known(a)' /\ Matches(f, a)'
  <2>1. a \in due[d] /\ (a = x => ~ Leaves(f, x))
    BY <1>1
  <2>2. a \in Range(rows') /\ Matches(f, a)
    BY <1>0, <2>1 DEF Touches
  <2>3. Matches(f, a)'
    <3>1. CASE a # x
      <4>1. status'[a] = status[a] /\ text'[a]["name"] = text[a]["name"]
        BY <1>0, <2>1, <3>1 DEF Touches
      <4> QED BY <2>2, <4>1 DEF Matches, Fits
    <3>2. CASE a = x
      BY <2>1, <2>2, <3>2 DEF Leaves, Matches, Fits
    <3> QED BY <3>1, <3>2
  <2> QED BY <2>2, <2>3 DEF Known
<1>4. ASSUME NEW a \in Missed(d)'
      PROVE  /\ a \in Missed(d) \cup slip
             /\ ~ Leaves(f, x) => a \in Missed(d)
  <2>1. a \in due'[d] /\ a \notin call[d].got /\ Rank(f, a)' =< o
    BY <1>2 DEF Missed
  <2>2. a \in due[d] /\ a \in Range(rows) /\ (a # x \/ ~ seen) /\ (a # x \/ ~ Leaves(f, x))
    BY <1>0, <1>1, <2>1
  <2>3. /\ Rank(f, a)' \in Nat /\ Rank(f, a)' >= Rank(f, a) - 1
        /\ ~ Leaves(f, x) => Rank(f, a)' >= Rank(f, a)
    BY <2>2, RanksMove
  <2>4. Rank(f, a) \in Nat
    BY RanksAreNumbers
  <2>5. Rank(f, a) =< o + 1 /\ (~ Leaves(f, x) => Rank(f, a) =< o)
    BY <1>0, <2>1, <2>3, <2>4
  <2>6. Rank(f, a) =< o \/ Rank(f, a) = o + 1
    BY <1>0, <2>4, <2>5
  <2> QED BY <2>1, <2>2, <2>5, <2>6 DEF Missed
<1>5. IsFiniteSet(Missed(d)) /\ Cardinality(Missed(d)) \in Nat
  BY <1>0, MissedIsFinite DEF Known
<1>6. Cardinality(Missed(d)') =< gone'[d]
  <2> DEFINE m == Missed(d)'
  <2>1. CASE ~ Leaves(f, x)
    <3>1. m \in SUBSET Missed(d)
      BY <1>4, <2>1
    <3>2. IsFiniteSet(m) /\ Cardinality(m) =< Cardinality(Missed(d))
      BY <1>5, <3>1, FS_Subset
    <3>3. Cardinality(m) \in Nat
      BY <3>2, FS_CardinalityType
    <3> QED BY <1>0, <1>1, <1>5, <2>1, <3>2, <3>3
  <2>2. CASE Leaves(f, x)
    <3>1. \A y, z \in slip : y = z
      BY <1>0, RanksDiffer
    <3>2. PICK z : slip \subseteq {z}
      BY <3>1
    <3>3. m \in SUBSET (Missed(d) \cup {z})
      BY <1>4, <3>2
    <3>4. /\ IsFiniteSet(Missed(d) \cup {z})
          /\ Cardinality(Missed(d) \cup {z}) =< Cardinality(Missed(d)) + 1
          /\ Cardinality(Missed(d) \cup {z}) \in Nat
      <4>1. /\ IsFiniteSet(Missed(d) \cup {z})
            /\ \/ Cardinality(Missed(d) \cup {z}) = Cardinality(Missed(d))
               \/ Cardinality(Missed(d) \cup {z}) = Cardinality(Missed(d)) + 1
        BY <1>5, FS_AddElement
      <4> QED BY <1>5, <4>1
    <3>5. IsFiniteSet(m) /\ Cardinality(m) =< Cardinality(Missed(d) \cup {z})
      BY <3>3, <3>4, FS_Subset
    <3>6. Cardinality(m) \in Nat
      BY <3>5, FS_CardinalityType
    <3> QED BY <1>0, <1>1, <1>5, <2>2, <3>4, <3>5, <3>6
  <2> QED BY <2>1, <2>2
<1> QED BY <1>2, <1>3, <1>6 DEF WalkInv

\* A step that writes no row leaves the places as they were.
LEMMA SameRanks ==
  ASSUME rows' = rows, status' = status, text' = text
  PROVE  \A f, a : Matches(f, a)' = Matches(f, a) /\ Known(a)' = Known(a) /\ Rank(f, a)' = Rank(f, a)
<1>1. \A f, a : Matches(f, a)' = Matches(f, a)
  BY DEF Matches, Fits
<1>2. \A f, a : RowsUpTo(f, a)' = RowsUpTo(f, a)
  BY <1>1 DEF RowsUpTo
<1>3. \A f, a : Rank(f, a)' = Rank(f, a)
  BY <1>2 DEF Rank
<1>4. \A a : Known(a)' = Known(a)
  BY DEF Known
<1> QED BY <1>1, <1>3, <1>4

\* A step that writes no row and is not one of the walk leaves it as it was.
LEMMA WalkStays ==
  ASSUME NEW d \in Clients, WalkInv(d), call'[d] = call[d], rows' = rows,
         status' = status, text' = text, due'[d] = due[d], gone'[d] = gone[d]
  PROVE  WalkInv(d)'
<1>1. \A f, a : Matches(f, a)' = Matches(f, a) /\ Known(a)' = Known(a) /\ Rank(f, a)' = Rank(f, a)
  BY SameRanks
<1>2. Missed(d)' = Missed(d)
  BY <1>1 DEF Missed
<1> QED BY <1>1, <1>2 DEF WalkInv

\* A walk begins with nothing behind its offset.
LEMMA WalkBegins ==
  ASSUME TypeOK, NEW d \in Clients, BeginList(d) PROVE WalkInv(d)'
<1>1. PICK f \in Filters :
         /\ Enter(d, [op |-> "list", filter |-> f, offset |-> 0, got |-> {}])
         /\ due' = [due EXCEPT ![d] = {a \in Range(rows) : Matches(f, a)}]
  BY DEF BeginList
<1>2. call'[d] = [op |-> "list", filter |-> f, offset |-> 0, got |-> {}]
  BY <1>1, OwnCall
<1>3. due'[d] = {a \in Range(rows) : Matches(f, a)}
  BY <1>1 DEF TypeOK
<1>4. rows' = rows /\ status' = status /\ text' = text /\ gone'[d] \in Nat
  BY DEF BeginList, tables, TypeOK
<1>5. \A a : Matches(f, a)' = Matches(f, a) /\ Known(a)' = Known(a) /\ Rank(f, a)' = Rank(f, a)
  BY <1>4, SameRanks
<1>6. ASSUME NEW a \in Missed(d)' PROVE FALSE
  <2>1. a \in due'[d] /\ Rank(f, a)' =< 0
    BY <1>2 DEF Missed
  <2>2. Rank(f, a) \in Nat /\ Rank(f, a) >= 1
    BY <1>3, <2>1, RanksAreNumbers DEF Known
  <2> QED BY <1>5, <2>1, <2>2
<1>7. Cardinality(Missed(d)') = 0
  BY <1>6, FS_EmptySet
<1> QED BY <1>2, <1>3, <1>4, <1>5, <1>7 DEF WalkInv, Known

\* A page has every row up to where the next one begins.
LEMMA WalkProceeds ==
  ASSUME TypeOK, NEW d \in Clients, WalkInv(d), ReadPage(d), call'[d].op = "list"
  PROVE  WalkInv(d)'
<1> DEFINE l == call[d]
           f == l.filter
<1>1. call[d].op = "list" /\ call[d] \in ListCalls
  BY CallsByKind DEF ReadPage, TypeOK
<1>2. ~ Answer(d)
  BY OwnCall DEF Idle
<1>3. Enter(d, TurnPage(l)) /\ due' = due /\ gone' = gone
  BY <1>2 DEF ReadPage, TurnPage, PageOf, walks
<1>4. /\ call'[d].filter = f
      /\ call'[d].offset = l.offset + PageSize
      /\ call'[d].got = l.got \cup PageOf(l)
  BY <1>1, <1>3, OwnCall, TurnPageType
<1>5. rows' = rows /\ status' = status /\ text' = text
  BY DEF ReadPage, tables
<1>6. \A g, a : Matches(g, a)' = Matches(g, a) /\ Known(a)' = Known(a) /\ Rank(g, a)' = Rank(g, a)
  BY <1>5, SameRanks
<1>7. \A a \in due[d] : Known(a) /\ Matches(f, a)
  BY <1>1 DEF WalkInv
<1>8. l.offset \in Nat /\ PageSize \in Nat
  BY <1>1, ManagementAssumption DEF ListCalls
<1>9. Missed(d)' \in SUBSET Missed(d)
  <2> SUFFICES ASSUME NEW a \in Missed(d)' PROVE a \in Missed(d)
    OBVIOUS
  <2>1. a \in due[d] /\ a \notin l.got /\ a \notin PageOf(l) /\ Rank(f, a) =< l.offset + PageSize
    BY <1>3, <1>4, <1>6 DEF Missed
  <2>2. Rank(f, a) \notin l.offset + 1 .. l.offset + PageSize
    BY <1>7, <2>1 DEF PageOf, ListAgents, Known
  <2>3. Rank(f, a) \in Nat
    BY RanksAreNumbers
  <2>4. Rank(f, a) =< l.offset
    BY <1>8, <2>1, <2>2, <2>3
  <2> QED BY <2>1, <2>4 DEF Missed
<1>10. IsFiniteSet(Missed(d)) /\ Cardinality(Missed(d)) \in Nat
  BY <1>7, MissedIsFinite
<1>11. Cardinality(Missed(d)') =< Cardinality(Missed(d)) /\ Cardinality(Missed(d)') \in Nat
  <2> DEFINE m == Missed(d)'
  <2>1. m \in SUBSET Missed(d)
    BY <1>9
  <2> HIDE DEF m
  <2>2. IsFiniteSet(m) /\ Cardinality(m) =< Cardinality(Missed(d)) /\ Cardinality(m) \in Nat
    BY <1>10, <2>1, FS_Subset, FS_CardinalityType
  <2> QED BY <2>2 DEF m
<1>12. Cardinality(Missed(d)) =< gone[d] /\ gone[d] \in Nat
  BY <1>1 DEF WalkInv, TypeOK
<1>13. Cardinality(Missed(d)') =< gone'[d]
  BY <1>3, <1>10, <1>11, <1>12
<1> QED BY <1>3, <1>4, <1>6, <1>7, <1>13 DEF WalkInv

\* A walk begins and proceeds by its own steps alone, and ends by a page.
LEMMA ListsStay ==
  ASSUME TypeOK, [Next]_vars, NEW d \in Clients
  PROVE  /\ call'[d].op = "list" => call'[d] = call[d] \/ BeginList(d) \/ ReadPage(d)
         /\ call[d].op = "list" => call'[d] = call[d] \/ ReadPage(d)
<1> DEFINE Goal == /\ call'[d].op = "list" => call'[d] = call[d] \/ BeginList(d) \/ ReadPage(d)
                   /\ call[d].op = "list" => call'[d] = call[d] \/ ReadPage(d)
<1>1. CASE call'[d] = call[d]
  BY <1>1
<1>2. ASSUME NEW a \in Agents, UpsertAgent(a) PROVE call'[d] = call[d]
  BY <1>2 DEF UpsertAgent
<1>3. ASSUME NEW c \in Clients, AssignAgent(c) PROVE Goal
  <2>1. ASSUME NEW a \in Agents, NEW p, call' = SeenLate(a, p) PROVE Goal
    <3>1. CASE At(d, "delete", "delete") /\ call[d].project = p
      <4>1. call'[d].op = "delete" /\ call[d].op = "delete"
        BY <2>1, <3>1, LateCalls DEF At
      <4> QED BY <4>1
    <3>2. CASE ~ (At(d, "delete", "delete") /\ call[d].project = p)
      BY <1>1, <2>1, <3>2, LateCalls
    <3> QED BY <3>1, <3>2
  <2> QED BY <1>1, <1>3, <2>1, AssignSteps
<1>4. ASSUME NEW c \in Clients, BeginList(c) PROVE Goal
  <2>1. CASE d = c
    <3>1. call[c] = Idle
      BY <1>4 DEF BeginList, Asks
    <3>2. call[d].op # "list"
      BY <2>1, <3>1 DEF Idle
    <3> QED BY <1>4, <2>1, <3>2
  <2>2. CASE d # c
    BY <1>1, <1>4, <2>2, OthersStay DEF BeginList
  <2> QED BY <2>1, <2>2
<1>5. ASSUME NEW c \in Clients, ReadPage(c) PROVE Goal
  <2>1. Answer(c) \/ Enter(c, TurnPage(call[c]))
    BY <1>5 DEF ReadPage, TurnPage, PageOf
  <2>2. CASE d = c
    BY <1>5, <2>2
  <2>3. CASE d # c
    BY <1>1, <2>1, <2>3, OthersStay
  <2> QED BY <2>2, <2>3
<1>6. ASSUME NEW c \in Clients, Proceeds(c) PROVE Goal
  <2>1. CASE d # c
    BY <1>1, <1>6, <2>1, OthersStay DEF Proceeds
  <2>2. CASE d = c
    <3>0. call[d].op # "list"
      BY <1>6, <2>2 DEF Proceeds
    <3>1. call'[d].op # "list"
      <4>1. CASE Answer(c)
        BY <2>2, <4>1, OwnCall DEF Idle
      <4>2. ASSUME NEW y \in OtherCalls, Enter(c, y) PROVE call'[d].op # "list"
        BY <2>2, <4>2, OwnCall
           DEF OtherCalls, EditCalls, RetireCalls, UpdateCalls, DeleteCalls
      <4>3. ASSUME call[c] \in OtherCalls, NEW y, Goto(c, y) PROVE call'[d].op # "list"
        <5>1. call'[d] = [call[c] EXCEPT !.at = y]
          BY <2>2, <4>3, OwnCall
        <5>2. [call[c] EXCEPT !.at = y].op = call[c].op
          BY <4>3, PlaceOnly
        <5> QED BY <2>2, <3>0, <5>1, <5>2
      <4> QED BY <1>6, <4>1, <4>2, <4>3 DEF Proceeds
    <3> QED BY <3>0, <3>1
  <2> QED BY <2>1, <2>2
<1>7. CASE UNCHANGED <<rows, call, project>>
  BY <1>1, <1>7
<1> QED BY <1>1, <1>2, <1>3, <1>4, <1>5, <1>6, <1>7, StepShapes

\* All that a step can be, to those who ask what became of the rows and the walks.
LEMMA WalkShapes ==
  ASSUME TypeOK, [Next]_vars
  PROVE  \/ UNCHANGED <<rows, status, text, due, gone>>
         \/ \E a \in Agents : UpsertAgent(a)
         \/ \E c \in Clients : WriteEdit(c) \/ WriteRetire(c) \/ BeginList(c) \/ ReadPage(c)
BY DEF Next, Boots, vars, tables, history, walks, Ask, Continue, BeginEdit, BeginRetire,
       BeginUpdate, BeginDelete, AssignAgent, CreateProject, SetBudget, DeleteBudget, CheckAgent,
       ReadBack, WriteUpdate, CountMembers, DeleteProject

\* No step makes a walk miss more than it may.
LEMMA WalksKept == TypeOK /\ WalksInv /\ [Next]_vars => WalksInv'
<1> SUFFICES ASSUME TypeOK, WalksInv, [Next]_vars, NEW d \in Clients, call'[d].op = "list"
             PROVE  WalkInv(d)'
  BY DEF WalksInv, WalkInv
<1>0. TypeOK' /\ WalkInv(d)
  BY TypeKept DEF WalksInv
<1>1. CASE BeginList(d)
  BY <1>1, WalkBegins
<1>2. CASE ReadPage(d)
  BY <1>0, <1>2, WalkProceeds
<1>3. CASE ~ BeginList(d) /\ ~ ReadPage(d)
  <2>0. call'[d] = call[d]
    BY <1>3, ListsStay
  <2>1. CASE UNCHANGED <<rows, status, text, due, gone>>
    BY <1>0, <2>0, <2>1, WalkStays
  <2>2. ASSUME NEW a \in Agents, UpsertAgent(a) PROVE WalkInv(d)'
    <3>1. Touches(a, TRUE) /\ Note(a, TRUE)
      BY <2>2, SeenTouches DEF UpsertAgent
    <3> QED BY <1>0, <2>0, <3>1, NoteKeeps
  <2>3. ASSUME NEW c \in Clients, WriteEdit(c) \/ WriteRetire(c) PROVE WalkInv(d)'
    <3>1. Touches(call[c].agent, FALSE) /\ Note(call[c].agent, FALSE)
      BY <2>3, WriteTouches DEF WriteEdit, WriteRetire
    <3>2. call[c].agent \in Agents
      <4>1. call[c] \in Calls /\ (call[c].op = "edit" \/ call[c].op = "retire")
        BY <2>3 DEF WriteEdit, WriteRetire, At, TypeOK
      <4>2. call[c] \in EditCalls \/ call[c] \in RetireCalls
        BY <4>1, CallsByKind
      <4> QED BY <4>2 DEF EditCalls, RetireCalls
    <3> QED BY <1>0, <2>0, <3>1, <3>2, NoteKeeps
  <2>4. ASSUME NEW c \in Clients, BeginList(c) \/ ReadPage(c) PROVE WalkInv(d)'
    <3>1. c # d
      BY <1>3, <2>4
    <3>2. due'[d] = due[d] /\ gone'[d] = gone[d]
      BY <2>4, <3>1 DEF BeginList, ReadPage, walks, TypeOK
    <3>3. rows' = rows /\ status' = status /\ text' = text
      BY <2>4 DEF BeginList, ReadPage, tables
    <3> QED BY <1>0, <2>0, <3>2, <3>3, WalkStays
  <2> QED BY <2>1, <2>2, <2>3, <2>4, WalkShapes
<1> QED BY <1>1, <1>2, <1>3

\* A deletion goes on when it has counted no agent, and notes those that are
\* assigned from there on; the other deletions only take agents away.
LEMMA OrphansKept ==
  TypeOK /\ AssignedAreKnown /\ OrphansKnown /\ [Next]_vars => OrphansKnown'
<1> SUFFICES ASSUME TypeOK, AssignedAreKnown, OrphansKnown, [Next]_vars,
                    NEW d \in Clients, call'[d].op = "delete", call'[d].at = "delete",
                    NEW b \in Range(rows'), project'[b] = call'[d].project
             PROVE  b \in call'[d].late
  BY DEF OrphansKnown, At, Members
<1>0. /\ At(d, "delete", "delete") /\ b \in Range(rows) /\ project[b] = call[d].project
           => b \in call[d].late
      /\ call[d] \in Calls /\ project \in [Agents -> Projects \cup {Null}]
      /\ call[d].op = "delete" => call[d] \in DeleteCalls /\ call[d].project \in Projects
  BY CallsByKind DEF OrphansKnown, Members, TypeOK, DeleteCalls
<1>00. rows \in Seq(Agents) /\ Range(rows) \subseteq Agents
  BY RangeOfSeq DEF TypeOK
<1>1. CASE call'[d] = call[d] /\ rows' = rows /\ project' = project
  BY <1>0, <1>1 DEF At
<1>2. ASSUME NEW a \in Agents, UpsertAgent(a) PROVE b \in call'[d].late
  <2>1. call'[d] = call[d]
    BY <1>2 DEF UpsertAgent
  <2>2. project' = project /\ Range(rows') = Range(rows) \cup {a}
    <3>1. project' = project /\ rows' = Cons(a, RemoveFirst(rows, a))
      BY <1>2 DEF UpsertAgent
    <3>2. rows \in Seq(Agents) /\ IsInjective(rows)
      BY DEF TypeOK
    <3> QED BY <3>1, <3>2, MovesToFront
  <2>3. project[b] # Null /\ b \in Agents
    BY <1>0, <1>00, <2>1, <2>2, ManagementAssumption
  <2>4. b \in Range(rows)
    BY <2>3 DEF AssignedAreKnown, Known
  <2> QED BY <1>0, <2>1, <2>2, <2>4 DEF At
<1>3. ASSUME NEW c \in Clients, AssignAgent(c) PROVE b \in call'[d].late
  <2>1. rows' = rows
    BY <1>3 DEF AssignAgent
  <2>2. CASE project' = project /\ call' = call
    BY <1>1, <2>1, <2>2
  <2>3. ASSUME NEW a \in Agents, NEW p \in projects \cup {Null},
               project' = [project EXCEPT ![a] = p], call' = SeenLate(a, p)
        PROVE  b \in call'[d].late
    <3>1. CASE At(d, "delete", "delete") /\ call[d].project = p
      <4>1. call'[d].project = p /\ call'[d].late = call[d].late \cup {a}
        BY <2>3, <3>1, LateCalls
      <4>2. b = a \/ project[b] = p
        BY <1>0, <2>3, <4>1
      <4> QED BY <1>0, <2>1, <3>1, <4>1, <4>2
    <3>2. CASE ~ At(d, "delete", "delete") \/ call[d].project # p
      <4>1. call'[d] = call[d]
        BY <2>3, <3>2, LateCalls
      <4>2. At(d, "delete", "delete") /\ call[d].project # p
        BY <3>2, <4>1 DEF At
      <4>3. project[b] = call[d].project
        BY <1>0, <1>00, <2>1, <2>3, <4>1, <4>2
      <4> QED BY <1>0, <2>1, <4>1, <4>2, <4>3
    <3> QED BY <3>1, <3>2
  <2> QED BY <1>3, <2>2, <2>3, AssignSteps
<1>4. ASSUME NEW c \in Clients, BeginList(c) PROVE b \in call'[d].late
  <2>1. d # c
    BY <1>4, OwnCall DEF BeginList
  <2> QED BY <1>1, <1>4, <2>1, OthersStay DEF BeginList, tables
<1>5. ASSUME NEW c \in Clients, ReadPage(c) PROVE b \in call'[d].late
  <2>1. Answer(c) \/ Enter(c, TurnPage(call[c]))
    BY <1>5 DEF ReadPage, TurnPage, PageOf
  <2>2. call[c] \in ListCalls
    BY <1>5, CallsByKind DEF ReadPage, TypeOK
  <2>3. TurnPage(call[c]).op = "list"
    BY <2>2, TurnPageType DEF ListCalls
  <2>4. d # c
    BY <2>1, <2>3, OwnCall DEF Idle
  <2> QED BY <1>1, <1>5, <2>1, <2>4, OthersStay DEF ReadPage, tables
<1>6. ASSUME NEW c \in Clients, Proceeds(c), project' = project \/ DeleteProject(c)
      PROVE  b \in call'[d].late
  <2>0. rows' = rows
    BY <1>6 DEF Proceeds
  <2>1. CASE d # c
    <3>1. call'[d] = call[d]
      BY <1>6, <2>1, OthersStay DEF Proceeds
    <3>2. CASE project' = project
      BY <1>1, <2>0, <3>1, <3>2
    <3>3. CASE DeleteProject(c)
      <4>1. project'[b] = Null \/ project'[b] = project[b]
        BY <1>00, <2>0, <3>3 DEF DeleteProject
      <4>2. project[b] = call[d].project
        BY <1>0, <3>1, <4>1, ManagementAssumption
      <4> QED BY <1>0, <2>0, <3>1, <4>2 DEF At
    <3> QED BY <1>6, <3>2, <3>3
  <2>2. CASE d = c
    <3>1. ~ Answer(c)
      BY <2>2, OwnCall DEF Idle
    <3>2. ASSUME NEW x \in OtherCalls, x.at # "delete", Enter(c, x) PROVE FALSE
      BY <2>2, <3>2, OwnCall
    <3>3. ASSUME call[c] \in OtherCalls, NEW x, Goto(c, x), x = "delete" => CountMembers(c)
          PROVE  b \in call'[d].late
      <4>1. call'[d] = [call[c] EXCEPT !.at = x]
        BY <2>2, <3>3, OwnCall
      <4>2. call[c].op = "delete"
        BY <3>3, <4>1, PlaceOnly
      <4>3. call[c] \in DeleteCalls
        BY <1>0, <2>2, <4>2
      <4>4. [call[c] EXCEPT !.at = x].at = x /\ call'[d].project = call[c].project
        BY <3>3, <4>1, <4>3, PlaceOnly DEF DeleteCalls
      <4>5. CountMembers(c)
        BY <3>3, <4>1, <4>4
      <4>6. Members(call[c].project) = {}
        BY <3>1, <4>5 DEF CountMembers
      <4>7. project' = project
        BY <4>5 DEF CountMembers, tables
      <4> QED BY <2>0, <4>4, <4>6, <4>7 DEF Members
    <3> QED BY <1>6, <3>1, <3>2, <3>3 DEF Proceeds
  <2> QED BY <2>1, <2>2
<1> QED BY <1>1, <1>2, <1>3, <1>4, <1>5, <1>6, StepShapes

-----------------------------------------------------------------------------
(* What the invariant gives                                                *)

\* Every step from a state of the invariant leads to one.
LEMMA InvKept == IInv /\ [Next]_vars => IInv'
BY TypeKept, AssignedKept, DeletedOnceKept, WalksKept, OrphansKept, EditsKept DEF IInv

\* The tables agree with the history of the calls and with the lists and deletions
\* that are under way, however the statements of the clients, the background
\* writer and the booting processes interleave.
THEOREM InductiveInvariant == Spec => []IInv
<1>1. Init => IInv
  BY InitInv
<1> QED BY <1>1, InvKept, PTL DEF Spec

\* The tables and the calls have their types: no agent has two rows and a project
\* that is there was created.
THEOREM TypeCorrect == Spec => []TypeOK
<1>1. IInv => TypeOK
  BY DEF IInv
<1> QED BY <1>1, InductiveInvariant, PTL

\* However many clients edit an agent at once, each column shows the last value
\* that was given for it.
THEOREM EditsAlwaysSurvive == Spec => []EditsSurvive
<1>1. IInv => EditsSurvive
  BY DEF IInv
<1> QED BY <1>1, InductiveInvariant, PTL

\* The pages of the projects share the agents that have one among them.
LEMMA PagesAddUp ==
  TypeOK /\ DeletedOnce =>
    SumFunctionOnSet([p \in projects |-> AgentCount(p)], projects)
      = Cardinality({a \in Range(rows) : project[a] # Null})
<1> DEFINE S == {a \in Range(rows) : project[a] # Null}
           counts == [p \in projects |-> AgentCount(p)]
           parts == [p \in projects |-> Cardinality({a \in S : project[a] = p})]
<1> SUFFICES ASSUME TypeOK, DeletedOnce PROVE SumFunctionOnSet(counts, projects) = Cardinality(S)
  OBVIOUS
<1>1. projects \subseteq Projects /\ Range(rows) \subseteq Agents
  BY RangeOfSeq DEF TypeOK
<1>2. IsFiniteSet(projects)
  BY <1>1, ManagementAssumption, FS_Subset
<1>3. IsFiniteSet(S)
  BY RowsAreFinite, FS_Subset
<1>4. \A a \in S : project[a] \in projects
  BY <1>1 DEF DeletedOnce
<1>5. Cardinality(S) = SumFunctionOnSet(parts, projects)
  <2> HIDE DEF S
  <2> QED BY <1>2, <1>3, <1>4, CountByParts
<1>6. ASSUME NEW p \in projects PROVE {a \in S : project[a] = p} = Members(p)
  BY <1>1, ManagementAssumption DEF Members
<1>7. parts = counts
  BY <1>6 DEF AgentCount
<1> QED BY <1>5, <1>7

\* Every agent that names a project is on the page of this one, the counts of the
\* pages add up, and one deletion of a project at most is told that it was done,
\* however many race.
THEOREM ProjectsAlwaysConsistent == Spec => []ProjectsConsistent
<1>1. IInv => ProjectsConsistent
  BY PagesAddUp DEF IInv, DeletedOnce, ProjectsConsistent
<1> QED BY <1>1, InductiveInvariant, PTL

\* A walk ends at a page that is empty, so that whatever it was due and did not get
\* lies behind its offset.
LEMMA PagesStep ==
  ASSUME IInv, [Next]_vars, NEW d \in Clients, call[d].op = "list", call'[d].op # "list"
  PROVE  Cardinality(due[d] \ call[d].got) =< gone[d]
<1> DEFINE l == call[d]
<1>0. TypeOK /\ WalkInv(d) /\ l \in ListCalls
  BY CallsByKind DEF IInv, WalksInv, TypeOK
<1>1. ReadPage(d)
  BY <1>0, ListsStay
<1>2. TurnPage(l).op = "list"
  BY <1>0, TurnPageType DEF ListCalls
<1>3. ~ Enter(d, TurnPage(l))
  BY <1>0, <1>2, OwnCall
<1>4. ListAgents(l.filter, PageSize, l.offset) = {}
  BY <1>1, <1>3 DEF ReadPage, TurnPage, PageOf
<1>5. l.offset \in Nat
  BY <1>0 DEF ListCalls
<1>6. \A a \in due[d] : Rank(l.filter, a) =< l.offset
  BY <1>0, <1>4, <1>5, EmptyPageIsLast DEF WalkInv, Known
<1>7. due[d] \ l.got = Missed(d)
  BY <1>6 DEF Missed
<1> QED BY <1>0, <1>7 DEF WalkInv

\* A walk through the pages of a filter misses, of the agents it was due that neither
\* left the filter nor were seen meanwhile, at most one for each that left: without
\* departures none.
THEOREM PagesAlwaysMissOnlyTheSeen == Spec => PagesMissOnlyTheSeen
<1> DEFINE A == \A c \in Clients :
                   call[c].op = "list" /\ call'[c].op # "list"
                     => Cardinality(due[c] \ call[c].got) =< gone[c]
<1>1. IInv /\ [Next]_vars => A
  BY PagesStep
<1>2. IInv /\ [Next]_vars => [A]_vars
  BY <1>1
<1> HIDE DEF A
<1>3. Spec => [][A]_vars
  BY <1>2, InductiveInvariant, PTL DEF Spec
<1> QED BY <1>3 DEF A, PagesMissOnlyTheSeen

\* A deletion takes a project from no agent but those that were assigned after it
\* had counted.
THEOREM OrphansAreAlwaysLate == Spec => OrphansAreLate
<1> DEFINE A == \A c \in Clients :
                   At(c, "delete", "delete") /\ call'[c] = Idle
                     => Members(call[c].project) \subseteq call[c].late
<1>1. IInv => A
  BY DEF IInv, OrphansKnown
<1>2. IInv => [A]_vars
  BY <1>1
<1> HIDE DEF A
<1>3. Spec => [][A]_vars
  BY <1>2, InductiveInvariant, PTL
<1> QED BY <1>3 DEF A, OrphansAreLate

\* The clients and the writer leave the migrations and the processes alone.
THEOREM ManagementKeepsBoot == Spec => BootSpec
<1>1. Init => BootInit
  BY DEF Init
<1>2. [Next]_vars => [BootNext]_bootVars
  BY BootStepsOnly
<1> QED BY <1>1, <1>2, PTL DEF Spec, BootSpec

-----------------------------------------------------------------------------
(* The review desk: its inductive invariant                                *)

\* What a tab has loaded for a session is a review of that session.
CacheInv ==
    \A t \in Tabs : \A s \in Sessions :
        cache[t][s] >= 1 => saved[cache[t][s]].session = s

\* The effect has run for what is shown.
RanInv ==
    \A t \in Tabs :
        LET review == Detail(cache[t], Active(t)) IN
        ran[t] = <<IF review >= 1 THEN review ELSE NoReview, Active(t)>>

\* A form, and a review on its way, mark an event of their own session, are known
\* to be stale, or repeat what another client has named.
FormInv ==
    \A t \in Tabs : \/ form[t].event \in {None, Active(t)}
                    \/ stale[t]
                    \/ NamedElsewhere(Active(t), form[t].event)

Accounted(r) ==
    r.event \in {None, r.session} \/ r.stale \/ NamedElsewhere(r.session, r.event)

SavingInv == \A t \in Tabs : \A i \in DOMAIN saving[t] : Accounted(saving[t][i])

DeskInv == DeskTypeOK /\ CacheInv /\ RanInv /\ FormInv /\ SavingInv /\ StrayEventIsStale

-----------------------------------------------------------------------------
(* The desk: what its operators give                                       *)

\* The reviews of a session are numbers up to the last, and the one that is
\* read is the last of them.
LEMMA GetReviewIsLatest ==
  ASSUME DeskTypeOK, NEW s
  PROVE  /\ GetReview(s) \in NoReview .. Len(saved)
         /\ GetReview(s) >= 1 => saved[GetReview(s)].session = s
         /\ \A i \in ReviewsOf(s) : i \in 1 .. Len(saved) /\ i =< GetReview(s)
<1>1. Len(saved) \in Nat /\ DOMAIN saved = 1 .. Len(saved)
  BY LenProperties DEF DeskTypeOK
<1>2. CASE ReviewsOf(s) = {}
  BY <1>1, <1>2 DEF GetReview, NoReview
<1>3. CASE ReviewsOf(s) # {}
  <2>1. ReviewsOf(s) \subseteq 1 .. Len(saved)
    BY <1>1 DEF ReviewsOf
  <2>2. /\ Max(ReviewsOf(s)) \in ReviewsOf(s)
        /\ \A i \in ReviewsOf(s) : i =< Max(ReviewsOf(s))
    BY <1>1, <1>3, <2>1, MaxOfNumbers
  <2>3. GetReview(s) = Max(ReviewsOf(s))
    BY <1>3 DEF GetReview
  <2>4. saved[GetReview(s)].session = s
    BY <2>2, <2>3 DEF ReviewsOf
  <2> QED BY <1>1, <2>1, <2>2, <2>3, <2>4 DEF NoReview
<1> QED BY <1>2, <1>3

\* A tab shows a session or none.
LEMMA ActiveTypes ==
  ASSUME DeskTypeOK, NEW t \in Tabs
  PROVE  /\ Active(t) \in Sessions \cup {None}
         /\ ActiveOf(selected[t], recent) \in Sessions \cup {None}
<1>1. ASSUME NEW q \in Seq(Sessions) PROVE ActiveOf(selected[t], q) \in Sessions \cup {None}
  <2>1. q # <<>> => q[1] \in Sessions
    BY EmptySeq, ElementOfSeq, LenProperties
  <2> QED BY <2>1 DEF ActiveOf, DeskTypeOK
<1>2. list[t] \in Seq(Sessions) /\ recent \in Seq(Sessions)
  BY DEF DeskTypeOK
<1> QED BY <1>1, <1>2 DEF Active

\* A session of the list is a session.
LEMMA ListedAreSessions ==
  ASSUME DeskTypeOK
  PROVE  /\ Range(recent) \subseteq Sessions
         /\ \A t \in Tabs : Range(list[t]) \subseteq Sessions
<1>1. ASSUME NEW q \in Seq(Sessions) PROVE Range(q) \subseteq Sessions
  BY ElementOfSeq, LenProperties DEF Range
<1>2. \A t \in Tabs : list[t] \in Seq(Sessions)
  BY DEF DeskTypeOK
<1> QED BY <1>1, <1>2 DEF DeskTypeOK

\* What is shown has a detail within the reviews that exist.
LEMMA DetailTypes ==
  ASSUME DeskTypeOK, NEW loaded \in [Sessions -> Unloaded .. Len(saved)],
         NEW s \in Sessions \cup {None}
  PROVE  /\ Detail(loaded, s) \in Unloaded .. Len(saved)
         /\ Detail(loaded, s) >= 1 => s \in Sessions /\ Detail(loaded, s) = loaded[s]
<1>1. Len(saved) \in Nat
  BY LenProperties DEF DeskTypeOK
<1> QED BY <1>1 DEF Detail, Unloaded

-----------------------------------------------------------------------------
(* The desk: every step keeps the invariant                                *)

\* A review that is on its way, or is saved by another client, joins the table.
LEMMA SavedGrows ==
  ASSUME DeskInv, NEW r \in Reviews, Len(saved) < MaxSaves, saved' = Append(saved, r),
         Accounted(r) \/ r.elsewhere,
         UNCHANGED <<recent, list, selected, cache, form, ran, asking, moves, stale, dirty>>,
         saving' \in [Tabs -> Seq(Reviews)],
         \A u \in Tabs : saving'[u] = saving[u] \/ saving'[u] = <<>>
  PROVE  DeskInv'
<1>1. /\ saved \in Seq(Reviews) /\ Len(saved) \in Nat /\ DOMAIN saved = 1 .. Len(saved)
      /\ cache \in [Tabs -> [Sessions -> Unloaded .. Len(saved)]]
      /\ ran \in [Tabs -> (NoReview .. Len(saved)) \X (Sessions \cup {None})]
  BY LenProperties DEF DeskInv, DeskTypeOK
<1>2. /\ saved' \in Seq(Reviews) /\ Len(saved') = Len(saved) + 1
      /\ \A i \in 1 .. Len(saved) : saved'[i] = saved[i]
      /\ saved'[Len(saved) + 1] = r
  BY <1>1, AppendProperties
<1>3. DOMAIN saved' = 1 .. Len(saved) + 1
  BY <1>2, LenProperties
<1>4. Unloaded .. Len(saved) \subseteq Unloaded .. Len(saved')
  BY <1>1, <1>2 DEF Unloaded
<1>5. NoReview .. Len(saved) \subseteq NoReview .. Len(saved')
  BY <1>1, <1>2 DEF NoReview
<1>6. DeskTypeOK'
  <2>1. Len(saved') =< MaxSaves
    BY <1>1, <1>2, DeskAssumption
  <2>2. cache' \in [Tabs -> [Sessions -> Unloaded .. Len(saved')]]
    BY <1>1, <1>4
  <2>3. ran' \in [Tabs -> (NoReview .. Len(saved')) \X (Sessions \cup {None})]
    <3>1. (NoReview .. Len(saved)) \X (Sessions \cup {None})
            \subseteq (NoReview .. Len(saved')) \X (Sessions \cup {None})
      BY <1>5
    <3> QED BY <1>1, <3>1
  <2>4. \A u \in Tabs : Len(saving'[u]) =< 1
    BY EmptySeq DEF DeskInv, DeskTypeOK
  <2> QED BY <1>2, <2>1, <2>2, <2>3, <2>4 DEF DeskInv, DeskTypeOK
<1>7. CacheInv'
  <2> SUFFICES ASSUME NEW u \in Tabs, NEW x \in Sessions, cache[u][x] >= 1
               PROVE  saved'[cache[u][x]].session = x
    BY DEF CacheInv
  <2>1. cache[u][x] \in 1 .. Len(saved)
    BY <1>1 DEF Unloaded
  <2> QED BY <1>2, <2>1 DEF DeskInv, CacheInv
<1>n. ASSUME NEW x, NEW e, NamedElsewhere(x, e) PROVE NamedElsewhere(x, e)'
  <2>1. PICK i \in 1 .. Len(saved) :
           saved[i].elsewhere /\ saved[i].session = x /\ saved[i].event = e
    BY <1>1, <1>n DEF NamedElsewhere
  <2>2. i \in DOMAIN saved' /\ saved'[i] = saved[i]
    BY <1>1, <1>2, <1>3
  <2> QED BY <2>1, <2>2 DEF NamedElsewhere
<1>8. RanInv' /\ FormInv'
  <2>1. \A u \in Tabs : Active(u)' = Active(u)
    BY DEF Active
  <2>2. FormInv'
    BY <1>n, <2>1 DEF DeskInv, FormInv
  <2> QED BY <2>2 DEF DeskInv, RanInv, Active, ActiveOf
<1>9. SavingInv'
  <2>1. \A u \in Tabs : \A i \in DOMAIN saving'[u] : saving'[u] = saving[u]
    BY EmptySeq
  <2> QED BY <1>n, <2>1 DEF DeskInv, SavingInv, Accounted
<1>10. StrayEventIsStale'
  <2> SUFFICES ASSUME NEW i \in 1 .. Len(saved) + 1, NEW x, x = saved'[i]
               PROVE  \/ x.event \in {None, x.session}
                      \/ x.stale
                      \/ NamedElsewhere(x.session, x.event)'
    BY <1>3 DEF StrayEventIsStale, NamedElsewhere
  <2>1. CASE i = Len(saved) + 1
    <3>1. x = r /\ saved'[i] = r /\ i \in DOMAIN saved'
      BY <1>2, <1>3, <2>1
    <3>2. r.elsewhere => NamedElsewhere(r.session, r.event)'
      BY <3>1 DEF NamedElsewhere
    <3> QED BY <1>n, <3>1, <3>2 DEF Accounted
  <2>2. CASE i # Len(saved) + 1
    <3>1. i \in 1 .. Len(saved)
      BY <1>1, <2>2
    <3>2. x = saved[i] /\ i \in DOMAIN saved
      BY <1>1, <1>2, <3>1
    <3> QED BY <1>n, <3>2 DEF DeskInv, StrayEventIsStale
  <2> QED BY <2>1, <2>2
<1> QED BY <1>6, <1>7, <1>8, <1>9, <1>10 DEF DeskInv

\* A tab comes to show s, with the details it has loaded then: the effect has
\* run for s, and the form is filled for s, or was, or is known to be stale.
LEMMA ShownStep ==
  ASSUME DeskInv, NEW t \in Tabs, NEW s \in Sessions \cup {None},
         NEW loaded \in [Sessions -> Unloaded .. Len(saved)],
         \A x \in Sessions : loaded[x] >= 1 => saved[loaded[x]].session = x,
         NEW old \in BOOLEAN,
         form[t].event \in {None, s} \/ old \/ NamedElsewhere(s, form[t].event),
         Render(t, s, loaded, form[t], old, dirty[t]),
         UNCHANGED <<saved, recent, saving, asking>>,
         list' \in [Tabs -> Seq(Sessions)],
         selected' \in [Tabs -> Sessions \cup {None}],
         moves' \in 0 .. MaxMoves,
         cache' = [cache EXCEPT ![t] = loaded],
         ActiveOf(selected'[t], list'[t]) = s,
         \A u \in Tabs \ {t} : list'[u] = list[u] /\ selected'[u] = selected[u]
  PROVE  DeskInv'
<1>1. /\ ran' \in [Tabs -> (NoReview .. Len(saved)) \X (Sessions \cup {None})]
      /\ form' \in [Tabs -> Forms]
      /\ stale' \in [Tabs -> BOOLEAN]
      /\ dirty' \in [Tabs -> BOOLEAN]
      /\ ran'[t] = <<IF Detail(loaded, s) >= 1 THEN Detail(loaded, s) ELSE NoReview, s>>
      /\ form'[t].event \in {None, s} \/ stale'[t] \/ NamedElsewhere(s, form'[t].event)
      /\ \A u \in Tabs \ {t} : ran'[u] = ran[u] /\ form'[u] = form[u] /\ stale'[u] = stale[u]
  <2> DEFINE review == Detail(loaded, s)
             deps == <<IF review >= 1 THEN review ELSE NoReview, s>>
             fires == deps # ran[t] /\ review >= 1
             filled == [label |-> saved[review].label, event |-> saved[review].event]
  <2>1. /\ ran' = [ran EXCEPT ![t] = deps]
        /\ form' = [form EXCEPT ![t] = IF fires THEN filled ELSE form[t]]
        /\ stale' = [stale EXCEPT ![t] = IF fires THEN saved[review].stale ELSE old]
        /\ dirty' = [dirty EXCEPT ![t] = ~ fires /\ dirty[t]]
    BY DEF Render
  <2>2. /\ review \in Unloaded .. Len(saved)
        /\ review >= 1 => s \in Sessions /\ review = loaded[s]
    BY DetailTypes DEF DeskInv
  <2>3. /\ Len(saved) \in Nat /\ DOMAIN saved = 1 .. Len(saved) /\ saved \in Seq(Reviews)
    BY LenProperties DEF DeskInv, DeskTypeOK
  <2>4. deps \in (NoReview .. Len(saved)) \X (Sessions \cup {None})
    BY <2>2, <2>3 DEF NoReview, Unloaded
  <2>5. review >= 1 => /\ saved[review] \in Reviews
                       /\ \/ saved[review].event \in {None, s}
                          \/ saved[review].stale
                          \/ NamedElsewhere(s, saved[review].event)
    <3> SUFFICES ASSUME review >= 1
                 PROVE  /\ saved[review] \in Reviews
                        /\ \/ saved[review].event \in {None, s}
                           \/ saved[review].stale
                           \/ NamedElsewhere(s, saved[review].event)
      OBVIOUS
    <3>1. review \in 1 .. Len(saved)
      BY <2>2, <2>3 DEF Unloaded
    <3>2. saved[review] \in Reviews
      BY <2>3, <3>1, ElementOfSeq
    <3>3. saved[review].session = s
      BY <2>2
    <3> QED BY <2>3, <3>1, <3>2, <3>3 DEF DeskInv, StrayEventIsStale
  <2>6. /\ ran \in [Tabs -> (NoReview .. Len(saved)) \X (Sessions \cup {None})]
        /\ form \in [Tabs -> Forms] /\ stale \in [Tabs -> BOOLEAN] /\ dirty \in [Tabs -> BOOLEAN]
    BY DEF DeskInv, DeskTypeOK
  <2>7. review >= 1 => filled \in Forms /\ saved[review].stale \in BOOLEAN
    BY <2>5 DEF Forms, Reviews
  <2> HIDE DEF review, deps, filled
  <2>8. fires => review >= 1
    OBVIOUS
  <2>9. fires \in BOOLEAN
    OBVIOUS
  <2>10. ~ fires /\ review >= 1 => deps = ran[t]
    OBVIOUS
  <2> HIDE DEF fires
  <2>11. /\ ran' \in [Tabs -> (NoReview .. Len(saved)) \X (Sessions \cup {None})]
         /\ ran'[t] = deps
         /\ \A u \in Tabs \ {t} : ran'[u] = ran[u]
    BY <2>1, <2>4, <2>6
  <2>12. /\ form' \in [Tabs -> Forms]
         /\ \A u \in Tabs \ {t} : form'[u] = form[u]
         /\ form'[t] = IF fires THEN filled ELSE form[t]
    BY <2>1, <2>6, <2>7, <2>8
  <2>13. /\ stale' \in [Tabs -> BOOLEAN]
         /\ \A u \in Tabs \ {t} : stale'[u] = stale[u]
         /\ stale'[t] = IF fires THEN saved[review].stale ELSE old
    BY <2>1, <2>6, <2>7, <2>8
  <2>14. /\ dirty' \in [Tabs -> BOOLEAN]
         /\ \A u \in Tabs \ {t} : dirty'[u] = dirty[u]
         /\ dirty'[t] = (~ fires /\ dirty[t])
    BY <2>1, <2>6, <2>9
  <2>15. form'[t].event \in {None, s} \/ stale'[t] \/ NamedElsewhere(s, form'[t].event)
    <3>1. CASE fires
      BY <2>5, <2>8, <2>12, <2>13, <3>1 DEF filled
    <3>2. CASE ~ fires
      BY <2>12, <2>13, <3>2
    <3> QED BY <3>1, <3>2
  <2> QED BY <2>11, <2>12, <2>13, <2>14, <2>15 DEF deps, review
<1>2. cache \in [Tabs -> [Sessions -> Unloaded .. Len(saved)]]
  BY DEF DeskInv, DeskTypeOK
<1>3. /\ cache' \in [Tabs -> [Sessions -> Unloaded .. Len(saved)]]
      /\ cache'[t] = loaded
      /\ \A u \in Tabs \ {t} : cache'[u] = cache[u]
  BY <1>2
<1>4. DeskTypeOK'
  BY <1>1, <1>3 DEF DeskInv, DeskTypeOK
<1>5. CacheInv'
  BY <1>3 DEF DeskInv, CacheInv
<1>6. \A u \in Tabs : Active(u)' = IF u = t THEN s ELSE Active(u)
  BY DEF Active
<1>7. RanInv'
  <2> SUFFICES ASSUME NEW u \in Tabs
               PROVE  ran'[u] = << IF Detail(cache'[u], Active(u)') >= 1
                                   THEN Detail(cache'[u], Active(u)') ELSE NoReview, Active(u)' >>
    BY DEF RanInv, Detail
  <2>1. CASE u = t
    BY <1>1, <1>3, <1>6, <2>1
  <2>2. CASE u # t
    <3>1. Active(u)' = Active(u) /\ cache'[u] = cache[u] /\ ran'[u] = ran[u]
      BY <1>1, <1>3, <1>6, <2>2
    <3>2. ran[u] = << IF Detail(cache[u], Active(u)) >= 1
                      THEN Detail(cache[u], Active(u)) ELSE NoReview, Active(u) >>
      BY DEF DeskInv, RanInv
    <3> QED BY <3>1, <3>2
  <2> QED BY <2>1, <2>2
<1>n. \A x, e : NamedElsewhere(x, e)' <=> NamedElsewhere(x, e)
  BY DEF NamedElsewhere
<1>8. FormInv'
  BY <1>1, <1>6, <1>n DEF DeskInv, FormInv
<1>9. SavingInv' /\ StrayEventIsStale'
  BY <1>n DEF DeskInv, SavingInv, StrayEventIsStale, Accounted
<1> QED BY <1>4, <1>5, <1>7, <1>8, <1>9 DEF DeskInv

\* A form goes along to the session that is shown next: either it was filled for
\* that one, or it becomes stale. Where no session was shown there is nothing to
\* have named an event for.
LEMMA Carried ==
  ASSUME DeskInv, NEW t \in Tabs, NEW s
  PROVE  \/ form[t].event \in {None, s}
         \/ stale[t] \/ Active(t) \notin {None, s}
         \/ NamedElsewhere(s, form[t].event)
<1>1. ASSUME NEW e PROVE ~ NamedElsewhere(None, e)
  <2> SUFFICES ASSUME NEW i \in DOMAIN saved, saved[i].session = None PROVE FALSE
    BY DEF NamedElsewhere
  <2>1. saved \in Seq(Reviews) /\ DOMAIN saved = 1 .. Len(saved)
    BY LenProperties DEF DeskInv, DeskTypeOK
  <2>2. saved[i] \in Reviews
    BY <2>1, ElementOfSeq
  <2> QED BY <2>2, DeskAssumption DEF Reviews
<1>2. \/ form[t].event \in {None, Active(t)}
      \/ stale[t]
      \/ NamedElsewhere(Active(t), form[t].event)
  BY DEF DeskInv, FormInv
<1> QED BY <1>1, <1>2

\* The step relation keeps the invariant, action by action.
LEMMA DeskInvStep == DeskInv /\ [DeskNext]_deskVars => DeskInv'
<1> SUFFICES ASSUME DeskInv, [DeskNext]_deskVars PROVE DeskInv'
  OBVIOUS
<1>0. /\ DeskTypeOK
      /\ saved \in Seq(Reviews) /\ Len(saved) \in Nat /\ DOMAIN saved = 1 .. Len(saved)
      /\ cache \in [Tabs -> [Sessions -> Unloaded .. Len(saved)]]
      /\ list \in [Tabs -> Seq(Sessions)] /\ recent \in Seq(Sessions)
      /\ selected \in [Tabs -> Sessions \cup {None}]
      /\ stale \in [Tabs -> BOOLEAN] /\ dirty \in [Tabs -> BOOLEAN]
      /\ form \in [Tabs -> Forms]
      /\ asking \in [Tabs -> Sessions \cup {None}]
      /\ saving \in [Tabs -> Seq(Reviews)] /\ \A u \in Tabs : Len(saving[u]) =< 1
  BY LenProperties DEF DeskInv, DeskTypeOK
<1>1. ASSUME NEW t \in Tabs
      PROVE  \A old : old = (stale[t] \/ Active(t) \notin {None, ActiveOf(selected[t], recent)}) =>
               old \in BOOLEAN
  BY <1>0
<1>2. ASSUME NEW x \in Sessions, EventArrives(x) PROVE DeskInv'
  <2>1. recent' \in Seq(Sessions) /\ IsInjective(recent')
    BY <1>2, MovesToFront DEF EventArrives, DeskInv, DeskTypeOK
  <2>2. UNCHANGED <<saved, list, selected, cache, form, ran, saving, asking, moves, stale, dirty>>
    BY <1>2 DEF EventArrives
  <2>3. DeskTypeOK'
    BY <2>1, <2>2 DEF DeskInv, DeskTypeOK
  <2> QED BY <2>2, <2>3 DEF DeskInv, CacheInv, RanInv, FormInv, SavingInv, StrayEventIsStale,
                            Accounted, NamedElsewhere, Active
<1>3. ASSUME NEW x \in Sessions, SaveElsewhere(x) PROVE DeskInv'
  <2>1. PICK l \in Labels, e \in Sessions \cup {None} :
           saved' = Append(saved, [session |-> x, label |-> l, event |-> e,
                                   stale |-> FALSE, elsewhere |-> TRUE])
    BY <1>3 DEF SaveElsewhere, ValidateLabel
  <2>2. PICK r : r = [session |-> x, label |-> l, event |-> e,
                      stale |-> FALSE, elsewhere |-> TRUE]
    OBVIOUS
  <2>3. r \in Reviews /\ r.elsewhere
    BY <2>2 DEF Reviews
  <2>4. /\ Len(saved) < MaxSaves
        /\ UNCHANGED <<recent, list, selected, cache, form, ran, saving, asking, moves, stale, dirty>>
    BY <1>3 DEF SaveElsewhere
  <2> QED BY <1>0, <2>1, <2>2, <2>3, <2>4, SavedGrows
<1>4. ASSUME NEW t \in Tabs, UpsertReview(t) PROVE DeskInv'
  <2>1. /\ saving[t] # <<>> /\ Len(saved) < MaxSaves
        /\ saved' = saved \o saving[t]
        /\ saving' = [saving EXCEPT ![t] = <<>>]
        /\ UNCHANGED <<recent, list, selected, cache, form, ran, asking, moves, stale, dirty>>
    BY <1>4 DEF UpsertReview
  <2>2. saving[t] \in Seq(Reviews) /\ Len(saving[t]) = 1 /\ DOMAIN saving[t] = {1}
    <3>1. saving[t] \in Seq(Reviews) /\ Len(saving[t]) =< 1 /\ Len(saving[t]) \in Nat
      BY <1>0, LenProperties
    <3>2. Len(saving[t]) # 0
      BY <2>1, <3>1, EmptySeq
    <3>3. DOMAIN saving[t] = 1 .. Len(saving[t])
      BY <3>1, LenProperties
    <3>4. Len(saving[t]) = 1
      <4>1. \A n \in Nat : n =< 1 /\ n # 0 => n = 1
        OBVIOUS
      <4> QED BY <3>1, <3>2, <4>1
    <3>5. 1 .. 1 = {1}
      OBVIOUS
    <3> QED BY <3>1, <3>3, <3>4, <3>5
  <2>3. PICK r : r = saving[t][1]
    OBVIOUS
  <2>4. r \in Reviews /\ Accounted(r)
    <3>1. r \in Reviews
      BY <2>2, <2>3, ElementOfSeq
    <3> QED BY <2>2, <2>3, <3>1 DEF DeskInv, SavingInv
  <2>5. saving[t] = <<r>>
    BY <2>2, <2>3, <2>4, SeqEqual
  <2>6. saved' = Append(saved, r)
    BY <1>0, <2>1, <2>4, <2>5, AppendIsConcat
  <2>7. saving' \in [Tabs -> Seq(Reviews)] /\ \A u \in Tabs : saving'[u] = saving[u] \/ saving'[u] = <<>>
    BY <1>0, <2>1
  <2> QED BY <2>1, <2>4, <2>6, <2>7, SavedGrows
<1>5. ASSUME NEW t \in Tabs, RefetchList(t) PROVE DeskInv'
  <2>1. PICK s \in Sessions \cup {None} : s = ActiveOf(selected[t], recent)
    BY <1>0, ActiveTypes
  <2>2. PICK old \in BOOLEAN : old = (stale[t] \/ Active(t) \notin {None, s})
    BY <1>0
  <2>3. PICK loaded \in [Sessions -> Unloaded .. Len(saved)] : loaded = cache[t]
    BY <1>0
  <2>4. /\ list' = [list EXCEPT ![t] = recent]
        /\ UNCHANGED <<saved, recent, selected, cache, saving, asking, moves>>
        /\ Render(t, s, loaded, form[t], old, dirty[t])
    BY <1>5, <2>1, <2>2, <2>3 DEF RefetchList
  <2>5. form[t].event \in {None, s} \/ old \/ NamedElsewhere(s, form[t].event)
    BY <2>2, Carried
  <2>6. cache' = [cache EXCEPT ![t] = loaded]
    BY <1>0, <2>3, <2>4
  <2>7. /\ list' \in [Tabs -> Seq(Sessions)] /\ list'[t] = recent
        /\ \A u \in Tabs \ {t} : list'[u] = list[u]
    BY <1>0, <2>4
  <2>8. \A x \in Sessions : loaded[x] >= 1 => saved[loaded[x]].session = x
    BY <2>3 DEF DeskInv, CacheInv
  <2>9. selected' \in [Tabs -> Sessions \cup {None}] /\ moves' \in 0 .. MaxMoves
    BY <2>4 DEF DeskInv, DeskTypeOK
  <2>10. ActiveOf(selected'[t], list'[t]) = s /\ \A u \in Tabs \ {t} : selected'[u] = selected[u]
    BY <2>1, <2>4, <2>7
  <2>11. UNCHANGED <<saved, recent, saving, asking>>
    BY <2>4
  <2> QED BY <2>4, <2>5, <2>6, <2>7, <2>8, <2>9, <2>10, <2>11, ShownStep DEF Render
<1>6. ASSUME NEW t \in Tabs, LoadDetail(t) PROVE DeskInv'
  <2>1. PICK s \in Sessions \cup {None} : s = Active(t)
    BY <1>0, ActiveTypes
  <2>2. s \in Sessions
    BY <1>6, <2>1 DEF LoadDetail
  <2>3. PICK old \in BOOLEAN : old = stale[t]
    BY <1>0
  <2>4. GetReview(s) \in Unloaded .. Len(saved) /\ (GetReview(s) >= 1 => saved[GetReview(s)].session = s)
    BY <1>0, GetReviewIsLatest DEF NoReview, Unloaded
  <2>5. PICK loaded \in [Sessions -> Unloaded .. Len(saved)] :
             loaded = [cache[t] EXCEPT ![s] = GetReview(s)]
    BY <1>0, <2>4
  <2>6. \A x \in Sessions : loaded[x] >= 1 => saved[loaded[x]].session = x
    BY <1>0, <2>2, <2>4, <2>5 DEF DeskInv, CacheInv
  <2>7. /\ cache' = [cache EXCEPT ![t] = loaded]
        /\ UNCHANGED <<saved, recent, list, selected, saving, asking, moves>>
        /\ Render(t, s, loaded, form[t], old, dirty[t])
    BY <1>6, <2>1, <2>3, <2>5 DEF LoadDetail
  <2>8. form[t].event \in {None, s} \/ old \/ NamedElsewhere(s, form[t].event)
    BY <2>1, <2>3 DEF DeskInv, FormInv
  <2>9. /\ list' \in [Tabs -> Seq(Sessions)] /\ selected' \in [Tabs -> Sessions \cup {None}]
        /\ moves' \in 0 .. MaxMoves
    BY <2>7 DEF DeskInv, DeskTypeOK
  <2>10. /\ ActiveOf(selected'[t], list'[t]) = s
         /\ \A u \in Tabs \ {t} : list'[u] = list[u] /\ selected'[u] = selected[u]
    BY <2>1, <2>7 DEF Active
  <2>11. UNCHANGED <<saved, recent, saving, asking>>
    BY <2>7
  <2> QED BY <2>6, <2>7, <2>8, <2>9, <2>10, <2>11, ShownStep DEF Render
<1>7. ASSUME NEW t \in Tabs, Select(t) PROVE DeskInv'
  <2>1. PICK s \in Range(list[t]) \ {selected[t]} :
           /\ Moves
           /\ selected' = [selected EXCEPT ![t] = s]
           /\ UNCHANGED <<saved, recent, list, cache, saving, asking>>
           /\ Render(t, s, cache[t], form[t], stale[t] \/ Active(t) \notin {None, s}, dirty[t])
    BY <1>7 DEF Select
  <2>2. s \in Sessions /\ s # None
    BY <1>0, <2>1, ListedAreSessions, DeskAssumption
  <2>3. PICK old \in BOOLEAN : old = (stale[t] \/ Active(t) \notin {None, s})
    BY <1>0
  <2>4. PICK loaded \in [Sessions -> Unloaded .. Len(saved)] : loaded = cache[t]
    BY <1>0
  <2>5. Render(t, s, loaded, form[t], old, dirty[t])
    BY <2>1, <2>3, <2>4
  <2>6. form[t].event \in {None, s} \/ old \/ NamedElsewhere(s, form[t].event)
    BY <2>3, Carried
  <2>7. cache' = [cache EXCEPT ![t] = loaded]
    BY <1>0, <2>1, <2>4
  <2>8. /\ selected' \in [Tabs -> Sessions \cup {None}] /\ selected'[t] = s
        /\ \A u \in Tabs \ {t} : selected'[u] = selected[u]
    BY <1>0, <2>1, <2>2
  <2>9. \A x \in Sessions : loaded[x] >= 1 => saved[loaded[x]].session = x
    BY <2>4 DEF DeskInv, CacheInv
  <2>10. moves' \in 0 .. MaxMoves
    BY <2>1, DeskAssumption DEF Moves, DeskInv, DeskTypeOK
  <2>11. ActiveOf(selected'[t], list'[t]) = s 
    BY <2>1, <2>2, <2>8 DEF ActiveOf
  <2>12. /\ list' \in [Tabs -> Seq(Sessions)] /\ s \in Sessions \cup {None}
         /\ \A u \in Tabs \ {t} : list'[u] = list[u] /\ selected'[u] = selected[u]
         /\ UNCHANGED <<saved, recent, saving, asking>>
    BY <1>0, <2>1, <2>2, <2>8
  <2> QED BY <2>5, <2>6, <2>7, <2>8, <2>9, <2>10, <2>11, <2>12, ShownStep DEF Render
<1>8. ASSUME NEW t \in Tabs, MarkFailure(t) \/ SetLabel(t) \/ AssistAnswers(t) PROVE DeskInv'
  <2>1. UNCHANGED <<saved, recent, list, selected, cache, ran, saving>>
    BY <1>8 DEF MarkFailure, SetLabel, AssistAnswers
  <2>2. PICK f \in Forms :
           /\ form' = [form EXCEPT ![t] = f]
           /\ \/ f.event \in {None, Active(t)}
              \/ stale'[t]
              \/ NamedElsewhere(Active(t), f.event)
    <3>1. CASE MarkFailure(t)
      <4>1. /\ form' = [form EXCEPT ![t].event = Active(t)]
        BY <3>1 DEF MarkFailure
      <4>2. Active(t) \in Sessions \cup {None} /\ form[t] \in Forms
        BY <1>0, ActiveTypes
      <4>3. PICK f : f = [form[t] EXCEPT !.event = Active(t)]
        OBVIOUS
      <4>4. f \in Forms /\ f.event = Active(t)
        BY <4>2, <4>3 DEF Forms
      <4> QED BY <1>0, <4>1, <4>3, <4>4
    <3>2. CASE SetLabel(t)
      <4>1. PICK l \in Labels : form' = [form EXCEPT ![t].label = l]
        BY <3>2 DEF SetLabel
      <4>2. form[t] \in Forms /\ stale' = stale
        BY <1>0, <3>2 DEF SetLabel
      <4>3. PICK f : f = [form[t] EXCEPT !.label = l]
        OBVIOUS
      <4>4. f \in Forms /\ f.event = form[t].event
        BY <4>2, <4>3 DEF Forms
      <4> QED BY <1>0, <4>1, <4>2, <4>3, <4>4 DEF DeskInv, FormInv
    <3>3. CASE AssistAnswers(t)
      <4>1. PICK word \in Words, e \in {None, asking[t]} :
               form' = [form EXCEPT ![t] = [label |-> NormalizeLabel(word), event |-> e]]
        BY <3>3 DEF AssistAnswers
      <4>2. stale'[t] = (asking[t] # Active(t)) /\ asking[t] \in Sessions \cup {None}
        BY <1>0, <3>3 DEF AssistAnswers
      <4>3. NormalizeLabel(word) \in Labels
        BY DEF NormalizeLabel, Labels
      <4>4. PICK f : f = [label |-> NormalizeLabel(word), event |-> e]
        OBVIOUS
      <4>5. f \in Forms /\ f.event = e
        BY <4>2, <4>3, <4>4 DEF Forms
      <4> QED BY <4>1, <4>2, <4>4, <4>5
    <3> QED BY <1>8, <3>1, <3>2, <3>3
  <2>3. /\ form' \in [Tabs -> Forms] /\ form'[t] = f
        /\ \A u \in Tabs \ {t} : form'[u] = form[u]
    BY <1>0, <2>2
  <2>4. /\ stale' \in [Tabs -> BOOLEAN] /\ dirty' \in [Tabs -> BOOLEAN]
        /\ asking' \in [Tabs -> Sessions \cup {None}]
        /\ \A u \in Tabs \ {t} : stale'[u] = stale[u]
    BY <1>0, <1>8 DEF MarkFailure, SetLabel, AssistAnswers
  <2>5. moves' \in 0 .. MaxMoves
    BY <1>8, DeskAssumption DEF Moves, MarkFailure, SetLabel, AssistAnswers, DeskInv, DeskTypeOK
  <2>6. DeskTypeOK'
    BY <2>1, <2>3, <2>4, <2>5 DEF DeskInv, DeskTypeOK
  <2>7. \A u \in Tabs : Active(u)' = Active(u)
    BY <2>1 DEF Active
  <2>8. \A x, e : NamedElsewhere(x, e)' <=> NamedElsewhere(x, e)
    BY <2>1 DEF NamedElsewhere
  <2>9. FormInv'
    BY <2>2, <2>3, <2>4, <2>7, <2>8 DEF DeskInv, FormInv
  <2>10. SavingInv' /\ StrayEventIsStale'
    BY <2>1, <2>8 DEF DeskInv, SavingInv, StrayEventIsStale, Accounted
  <2> QED BY <2>1, <2>6, <2>9, <2>10 DEF DeskInv, CacheInv, RanInv, Active
<1>9. ASSUME NEW t \in Tabs, Save(t) \/ SaveError(t) \/ Assist(t) \/ AssistFails(t) PROVE DeskInv'
  <2>1. UNCHANGED <<saved, recent, list, selected, cache, form, ran, stale, dirty>>
    BY <1>9 DEF Save, SaveError, Assist, AssistFails
  <2>2. moves' \in 0 .. MaxMoves /\ asking' \in [Tabs -> Sessions \cup {None}]
    <3>1. moves \in 0 .. MaxMoves
      BY DEF DeskInv, DeskTypeOK
    <3>2. moves' \in 0 .. MaxMoves
      BY <1>9, <3>1, DeskAssumption DEF Moves, Save, SaveError, Assist, AssistFails
    <3>3. Active(t) \in Sessions \cup {None}
      BY <1>0, ActiveTypes
    <3>4. asking' = asking \/ \E x \in Sessions \cup {None} : asking' = [asking EXCEPT ![t] = x]
      BY <1>9, <3>3 DEF Save, SaveError, Assist, AssistFails
    <3> QED BY <1>0, <3>2, <3>4
  <2>3. PICK q \in Seq(Reviews) :
           /\ saving' = saving \/ saving' = [saving EXCEPT ![t] = q]
           /\ Len(q) =< 1
           /\ \A i \in DOMAIN q : Accounted(q[i])
    <3>1. CASE Save(t)
      <4>1. PICK r : r = [session |-> Active(t), label |-> form[t].label,
                          event |-> IF form[t].label = "good" THEN None ELSE form[t].event,
                          stale |-> stale[t], elsewhere |-> FALSE]
        OBVIOUS
      <4>2. Active(t) \in Sessions /\ form[t] \in Forms /\ stale[t] \in BOOLEAN
        BY <1>0, <3>1, ActiveTypes DEF Save
      <4>3. r \in Reviews /\ Accounted(r)
        BY <4>1, <4>2 DEF Reviews, Forms, DeskInv, FormInv, Accounted
      <4>4. PICK q : q = <<r>>
        OBVIOUS
      <4>5. saving' = [saving EXCEPT ![t] = q]
        BY <3>1, <4>1, <4>4 DEF Save
      <4>6. q \in Seq(Reviews) /\ Len(q) = 1 /\ DOMAIN q = {1} /\ q[1] = r
        BY <4>3, <4>4
      <4>7. Len(q) =< 1 /\ \A i \in DOMAIN q : q[i] = r
        BY <4>6
      <4> QED BY <4>3, <4>5, <4>6, <4>7
    <3>2. CASE SaveError(t) \/ Assist(t) \/ AssistFails(t)
      <4>1. saving' = saving \/ saving' = [saving EXCEPT ![t] = <<>>]
        BY <3>2 DEF SaveError, Assist, AssistFails
      <4>2. PICK q : q = <<>>
        OBVIOUS
      <4>3. q \in Seq(Reviews) /\ Len(q) =< 1 /\ DOMAIN q = {}
        BY <4>2, EmptySeq
      <4> QED BY <4>1, <4>2, <4>3
    <3> QED BY <1>9, <3>1, <3>2
  <2>4. /\ saving' \in [Tabs -> Seq(Reviews)]
        /\ \A u \in Tabs : saving'[u] = saving[u] \/ saving'[u] = q
    BY <1>0, <2>3
  <2>5. DeskTypeOK'
    BY <2>1, <2>2, <2>3, <2>4 DEF DeskInv, DeskTypeOK
  <2>6. \A x, e : NamedElsewhere(x, e)' <=> NamedElsewhere(x, e)
    BY <2>1 DEF NamedElsewhere
  <2>7. SavingInv'
    BY <2>3, <2>4, <2>6 DEF DeskInv, SavingInv, Accounted
  <2>8. FormInv' /\ StrayEventIsStale'
    BY <2>1, <2>6 DEF DeskInv, FormInv, StrayEventIsStale, Active
  <2> QED BY <2>1, <2>5, <2>7, <2>8 DEF DeskInv, CacheInv, RanInv, Active
<1>10. CASE UNCHANGED deskVars
  BY <1>10 DEF deskVars, DeskInv, DeskTypeOK, CacheInv, RanInv, FormInv, SavingInv,
               StrayEventIsStale, Accounted, NamedElsewhere, Active
<1> QED BY <1>2, <1>3, <1>4, <1>5, <1>6, <1>7, <1>8, <1>9, <1>10
        DEF DeskNext, Reviewer, Browser

\* At the start nothing is shown, filled or saved.
LEMMA DeskInvInit == DeskInit => DeskInv
<1> SUFFICES ASSUME DeskInit PROVE DeskInv
  OBVIOUS
<1>1. /\ saved = <<>> /\ Len(saved) = 0 /\ DOMAIN saved = {} /\ saved \in Seq(Reviews)
      /\ recent = <<>> /\ recent \in Seq(Sessions) /\ IsInjective(recent)
      /\ <<>> \in Seq(Sessions) /\ <<>> \in Seq(Reviews)
  BY EmptySeq DEF DeskInit, IsInjective
<1>2. \A t \in Tabs : Active(t) = None
  BY DEF DeskInit, Active, ActiveOf
<1>3. DeskTypeOK
  <2>1. Unloaded \in Unloaded .. 0 /\ NoReview \in NoReview .. 0
    BY DEF Unloaded, NoReview
  <2>2. cache \in [Tabs -> [Sessions -> Unloaded .. Len(saved)]]
    BY <1>1, <2>1 DEF DeskInit
  <2>3. ran \in [Tabs -> (NoReview .. Len(saved)) \X (Sessions \cup {None})]
    BY <1>1, <2>1 DEF DeskInit
  <2>4. form \in [Tabs -> Forms]
    BY DEF DeskInit, Forms, Labels
  <2>5. saving \in [Tabs -> Seq(Reviews)] /\ \A t \in Tabs : Len(saving[t]) =< 1
    BY <1>1 DEF DeskInit
  <2>6. list \in [Tabs -> Seq(Sessions)]
    BY <1>1 DEF DeskInit
  <2>7. /\ selected \in [Tabs -> Sessions \cup {None}] /\ asking \in [Tabs -> Sessions \cup {None}]
        /\ stale \in [Tabs -> BOOLEAN] /\ dirty \in [Tabs -> BOOLEAN]
    BY DEF DeskInit
  <2>8. Len(saved) =< MaxSaves /\ moves \in 0 .. MaxMoves
    BY <1>1, DeskAssumption DEF DeskInit
  <2> QED BY <1>1, <2>2, <2>3, <2>4, <2>5, <2>6, <2>7, <2>8 DEF DeskTypeOK
<1>4. CacheInv
  BY DEF DeskInit, CacheInv, Unloaded
<1>5. RanInv
  BY <1>2 DEF DeskInit, RanInv, Detail, Unloaded, NoReview
<1>6. FormInv
  BY DEF DeskInit, FormInv
<1>7. SavingInv
  BY <1>1 DEF DeskInit, SavingInv
<1>8. StrayEventIsStale
  BY <1>1 DEF StrayEventIsStale
<1> QED BY <1>3, <1>4, <1>5, <1>6, <1>7, <1>8 DEF DeskInv

\* The inductive invariant of the review desk: what is cached, rendered, filled
\* in and on its way (ReviewPage.tsx:330-402).
THEOREM DeskInductiveInvariant == DeskSpec => []DeskInv
BY DeskInvInit, DeskInvStep, PTL DEF DeskSpec

\* Type correctness of the tabs and of the table of the reviews.
THEOREM DeskTypeCorrect == DeskSpec => []DeskTypeOK
<1>1. DeskInv => DeskTypeOK
  BY DEF DeskInv
<1> QED BY <1>1, DeskInductiveInvariant, PTL

\* A stored review marks an event of its own session, came from a form that was not
\* filled for that session, or repeats what another client of the API has named for
\* it (ReviewPage.tsx:356-402, reviews.rs:120-141).
THEOREM StrayEventsAlwaysStale == DeskSpec => []StrayEventIsStale
<1>1. DeskInv => StrayEventIsStale
  BY DEF DeskInv
<1> QED BY <1>1, DeskInductiveInvariant, PTL

-----------------------------------------------------------------------------
(* The desk: when edits are lost                                           *)

\* The effect overwrites the form of a tab only where the tab shows another
\* session or a newer review than before.
LEMMA EditsStep ==
  DeskInv /\ [DeskNext]_deskVars =>
    \A t \in Tabs :
       dirty[t] /\ ~ dirty'[t] =>
          \/ Active(t)' # Active(t)
          \/ asking[t] # None /\ asking'[t] = None
          \/ GetReview(Active(t)) > Detail(cache[t], Active(t))
<1> SUFFICES ASSUME DeskInv, [DeskNext]_deskVars, NEW t \in Tabs, dirty[t], ~ dirty'[t],
                    Active(t)' = Active(t),
                    ~ (asking[t] # None /\ asking'[t] = None)
             PROVE  GetReview(Active(t)) > Detail(cache[t], Active(t))
  OBVIOUS
<1>0. /\ DeskTypeOK
      /\ dirty \in [Tabs -> BOOLEAN]
      /\ cache \in [Tabs -> [Sessions -> Unloaded .. Len(saved)]] /\ Len(saved) \in Nat
  BY LenProperties DEF DeskInv, DeskTypeOK
<1>1. PICK s \in Sessions \cup {None} : s = Active(t)
  BY <1>0, ActiveTypes
<1>2. PICK d : d = Detail(cache[t], s)
  OBVIOUS
<1>3. ran[t] = <<IF d >= 1 THEN d ELSE NoReview, s>>
  BY <1>1, <1>2 DEF DeskInv, RanInv
<1>4. ~ (UNCHANGED dirty)
  OBVIOUS
<1>5. ASSUME NEW u \in Tabs, NEW x, NEW loaded, Render(u, x, loaded, form[u], stale[u], dirty[u])
                          \/ \E old : Render(u, x, loaded, form[u], old, dirty[u])
      PROVE  /\ u = t
             /\ Detail(loaded, x) >= 1
             /\ <<IF Detail(loaded, x) >= 1 THEN Detail(loaded, x) ELSE NoReview, x>> # ran[t]
  <2>1. PICK fires \in BOOLEAN :
           /\ dirty' = [dirty EXCEPT ![u] = ~ fires /\ dirty[u]]
           /\ fires => /\ Detail(loaded, x) >= 1
                       /\ <<IF Detail(loaded, x) >= 1 THEN Detail(loaded, x) ELSE NoReview, x>> # ran[u]
    BY <1>5 DEF Render
  <2>2. u = t
    BY <1>0, <2>1
  <2>3. fires
    BY <1>0, <2>1, <2>2
  <2> QED BY <2>1, <2>2, <2>3
<1>6. ASSUME NEW u \in Tabs, RefetchList(u) PROVE FALSE
  <2>1. PICK x : x = ActiveOf(selected[u], recent)
    OBVIOUS
  <2>2. PICK loaded : loaded = cache[u]
    OBVIOUS
  <2>3. \E old : Render(u, x, loaded, form[u], old, dirty[u])
    BY <1>6, <2>1, <2>2 DEF RefetchList
  <2>4. /\ u = t
        /\ Detail(loaded, x) >= 1
        /\ <<IF Detail(loaded, x) >= 1 THEN Detail(loaded, x) ELSE NoReview, x>> # ran[t]
    BY <1>5, <2>3
  <2>5. Active(u)' = x
    BY <1>0, <1>6, <2>1 DEF RefetchList, Active, DeskTypeOK
  <2> QED BY <1>1, <1>2, <1>3, <2>2, <2>4, <2>5
<1>7. ASSUME NEW u \in Tabs, Select(u) PROVE FALSE
  <2>1. PICK x \in Range(list[u]) \ {selected[u]} :
           /\ selected' = [selected EXCEPT ![u] = x]
           /\ list' = list
           /\ Render(u, x, cache[u], form[u], stale[u] \/ Active(u) \notin {None, x}, dirty[u])
    BY <1>7 DEF Select
  <2>2. PICK loaded : loaded = cache[u]
    OBVIOUS
  <2>3. \E old : Render(u, x, loaded, form[u], old, dirty[u])
    BY <2>1, <2>2
  <2>4. /\ u = t
        /\ Detail(loaded, x) >= 1
        /\ <<IF Detail(loaded, x) >= 1 THEN Detail(loaded, x) ELSE NoReview, x>> # ran[t]
    BY <1>5, <2>3
  <2>5. x # None
    BY <1>0, <2>1, ListedAreSessions, DeskAssumption
  <2>6. Active(u)' = x
    BY <1>0, <2>1, <2>5 DEF Active, ActiveOf, DeskTypeOK
  <2> QED BY <1>1, <1>2, <1>3, <2>2, <2>4, <2>6
<1>8. ASSUME NEW u \in Tabs, LoadDetail(u) PROVE GetReview(s) > d
  <2>1. PICK x : x = Active(u)
    OBVIOUS
  <2>2. PICK loaded : loaded = [cache[u] EXCEPT ![x] = GetReview(x)]
    OBVIOUS
  <2>3. x # None /\ \E old : Render(u, x, loaded, form[u], old, dirty[u])
    BY <1>8, <2>1, <2>2 DEF LoadDetail
  <2>4. /\ u = t
        /\ Detail(loaded, x) >= 1
        /\ <<IF Detail(loaded, x) >= 1 THEN Detail(loaded, x) ELSE NoReview, x>> # ran[t]
    BY <1>5, <2>3
  <2>5. x = s /\ s \in Sessions
    BY <1>1, <2>1, <2>3, <2>4
  <2>6. d = cache[t][s] /\ d \in Unloaded .. Len(saved)
    BY <1>0, <1>2, <2>3, <2>5 DEF Detail
  <2>7. Detail(loaded, x) = GetReview(s)
    BY <1>0, <2>2, <2>3, <2>4, <2>5 DEF Detail
  <2>8. GetReview(s) >= 1 /\ GetReview(s) # d
    BY <1>3, <2>4, <2>5, <2>7
  <2>9. d >= 1 => d =< GetReview(s)
    <3>1. d >= 1 => d \in ReviewsOf(s)
      <4>1. d >= 1 => d \in 1 .. Len(saved) /\ saved[d].session = s
        BY <1>0, <2>5, <2>6 DEF DeskInv, CacheInv, Unloaded
      <4>2. DOMAIN saved = 1 .. Len(saved)
        BY LenProperties DEF DeskInv, DeskTypeOK
      <4> QED BY <4>1, <4>2 DEF ReviewsOf
    <3> QED BY <1>0, <3>1, GetReviewIsLatest
  <2>10. GetReview(s) \in Int /\ d \in Int
    BY <1>0, <2>6, GetReviewIsLatest DEF Unloaded, NoReview
  <2> QED BY <2>8, <2>9, <2>10
<1>9. ASSUME NEW u \in Tabs,
             MarkFailure(u) \/ SetLabel(u) \/ AssistAnswers(u) \/ Save(u) \/ SaveError(u)
               \/ Assist(u) \/ AssistFails(u) \/ UpsertReview(u)
      PROVE  FALSE
  <2>1. CASE MarkFailure(u) \/ SetLabel(u)
    BY <1>0, <2>1 DEF MarkFailure, SetLabel
  <2>2. CASE AssistAnswers(u)
    <3>1. asking \in [Tabs -> Sessions \cup {None}]
      BY DEF DeskInv, DeskTypeOK
    <3>2. u = t
      BY <1>0, <2>2 DEF AssistAnswers
    <3> QED BY <2>2, <3>1, <3>2 DEF AssistAnswers
  <2>3. CASE Save(u) \/ SaveError(u) \/ Assist(u) \/ AssistFails(u) \/ UpsertReview(u)
    BY <1>4, <2>3 DEF Save, SaveError, Assist, AssistFails, UpsertReview
  <2> QED BY <1>9, <2>1, <2>2, <2>3
<1>10. ASSUME NEW x \in Sessions, EventArrives(x) \/ SaveElsewhere(x) PROVE FALSE
  BY <1>4, <1>10 DEF EventArrives, SaveElsewhere
<1>11. CASE UNCHANGED deskVars
  BY <1>4, <1>11 DEF deskVars
<1> QED BY <1>1, <1>2, <1>6, <1>7, <1>8, <1>9, <1>10, <1>11 DEF DeskNext, Reviewer, Browser

\* What a reviewer has changed is lost only to another session, an answer of the
\* assistant or a review the tab had not loaded (ReviewPage.tsx:356-362).
THEOREM EditsAlwaysLostToNews == DeskSpec => EditsLostOnlyToNews
BY DeskInductiveInvariant, EditsStep, PTL DEF DeskSpec, EditsLostOnlyToNews

-----------------------------------------------------------------------------
(* The desk: the export                                                    *)

\* f numbers the rows an export chooses from, newest first, and the export takes the
\* first of them.
Numbers(f, n) ==
    /\ f \in [1 .. n -> {i \in DOMAIN saved : saved[i].session \in Range(recent)}]
    /\ DOMAIN Export = {k \in 1 .. n : k =< ExportLimit}
    /\ \A k \in DOMAIN Export : /\ Export[k].key = saved[f[k]].session
                                /\ Export[k].label = saved[f[k]].label
    /\ \A i, j \in 1 .. n : i < j => f[i] > f[j]
    /\ \A i \in DOMAIN saved :
          saved[i].session \in Range(recent) => \E k \in 1 .. n : f[k] = i

\* The rows of an export are reviews of sessions with events, newest first, and
\* every such review, as long as there is room.
LEMMA ExportRows ==
  ASSUME DeskTypeOK
  PROVE  \E n \in Nat : \E f : Numbers(f, n)
<1> DEFINE S == {i \in DOMAIN saved : saved[i].session \in Range(recent)}
<1>1. /\ Len(saved) \in Nat /\ DOMAIN saved = 1 .. Len(saved)
      /\ S \in SUBSET (1 .. Len(saved))
  BY LenProperties DEF DeskTypeOK
<1>2. PICK n \in Nat : n = Cardinality(S)
  <2>1. IsFiniteSet(1 .. Len(saved))
    BY <1>1, FS_Interval
  <2> QED BY <1>1, <2>1, FS_Subset, FS_CardinalityType
<1>3. PICK f : f = NewestFirst(S)
  OBVIOUS
<1> HIDE DEF S
<1>4. f \in [1 .. n -> S] /\ \A i, j \in DOMAIN f : i < j => f[i] > f[j]
  <2>1. \E g \in [1 .. Cardinality(S) -> S] : \A i, j \in DOMAIN g : i < j => g[i] > g[j]
    BY <1>1, DescendingExists
  <2> QED BY <1>2, <1>3, <2>1 DEF NewestFirst
<1>5. \A i \in S : \E k \in 1 .. n : f[k] = i
  <2>1. f \in [1 .. Cardinality(S) -> S] /\ DOMAIN f = 1 .. n /\ Descends(f)
    BY <1>2, <1>4 DEF Descends
  <2>2. \A i \in S : \E k \in DOMAIN f : f[k] = i
    BY <1>1, <2>1, DescendingIsOnto
  <2> QED BY <2>1, <2>2
<1>6. ListReviewedSessions(ExportLimit) = [k \in {i \in 1 .. n : i =< ExportLimit} |-> saved[f[k]]]
  BY <1>3, <1>4 DEF ListReviewedSessions, S
<1>7. Export = [k \in {i \in 1 .. n : i =< ExportLimit} |->
                  [key |-> saved[f[k]].session, label |-> saved[f[k]].label,
                   event |-> saved[f[k]].event]]
  BY <1>6 DEF Export
<1>8. /\ DOMAIN Export = {k \in 1 .. n : k =< ExportLimit}
      /\ \A k \in DOMAIN Export : /\ Export[k].key = saved[f[k]].session
                                  /\ Export[k].label = saved[f[k]].label
  BY <1>7
<1>9. f \in [1 .. n -> {i \in DOMAIN saved : saved[i].session \in Range(recent)}]
  BY <1>4 DEF S
<1>10. \A i \in DOMAIN saved :
          saved[i].session \in Range(recent) => \E k \in 1 .. n : f[k] = i
  BY <1>5 DEF S
<1>11. \A i, j \in 1 .. n : i < j => f[i] > f[j]
  BY <1>4
<1>12. Numbers(f, n)
  BY <1>8, <1>9, <1>10, <1>11 DEF Numbers
<1> QED BY <1>12

\* The first line of a session is the row of its latest review; where that has
\* no room, all the rows before it are newer.
LEMMA ExportFollowsTypes == DeskTypeOK => ExportShowsList
<1> SUFFICES ASSUME DeskTypeOK, NEW s \in Range(recent)
             PROVE  LET lines == {i \in DOMAIN Export : Export[i].key = s} IN
                    IF lines = {}
                    THEN GetReview(s) = NoReview \/ Len(saved) - GetReview(s) >= ExportLimit
                    ELSE Export[Min(lines)].label = ListLabel(s)
  BY DEF ExportShowsList
<1> DEFINE lines == {i \in DOMAIN Export : Export[i].key = s}
           m == GetReview(s)
<1>0. PICK n \in Nat : \E f : Numbers(f, n)
  BY ExportRows
<1>1. PICK f :
        /\ f \in [1 .. n -> {i \in DOMAIN saved : saved[i].session \in Range(recent)}]
        /\ DOMAIN Export = {k \in 1 .. n : k =< ExportLimit}
        /\ \A k \in DOMAIN Export : /\ Export[k].key = saved[f[k]].session
                                    /\ Export[k].label = saved[f[k]].label
        /\ \A i, j \in 1 .. n : i < j => f[i] > f[j]
        /\ \A i \in DOMAIN saved :
              saved[i].session \in Range(recent) => \E k \in 1 .. n : f[k] = i
  BY <1>0 DEF Numbers
<1>2. /\ Len(saved) \in Nat /\ DOMAIN saved = 1 .. Len(saved) /\ ExportLimit \in Nat
  BY LenProperties, DeskAssumption DEF DeskTypeOK
<1>3. /\ m \in NoReview .. Len(saved)
      /\ m >= 1 => saved[m].session = s
      /\ \A i \in ReviewsOf(s) : i \in 1 .. Len(saved) /\ i =< m
  BY GetReviewIsLatest
<1>4. \A k \in 1 .. n : f[k] \in 1 .. Len(saved)
  BY <1>1, <1>2
<1>5. lines = {k \in 1 .. n : k =< ExportLimit /\ f[k] \in ReviewsOf(s)}
  BY <1>1, <1>2, <1>4 DEF ReviewsOf
<1> HIDE DEF m, lines
<1>6. CASE lines = {}
  <2> SUFFICES ASSUME m # NoReview PROVE Len(saved) - m >= ExportLimit
    BY <1>6 DEF m, lines
  <2>1. m \in 1 .. Len(saved) /\ m \in ReviewsOf(s)
    BY <1>2, <1>3 DEF NoReview, ReviewsOf
  <2>2. PICK k \in 1 .. n : f[k] = m
    BY <1>1, <1>2, <1>3, <2>1
  <2>3. k > ExportLimit
    BY <1>2, <1>5, <1>6, <2>1, <2>2
  <2>4. \A i \in 1 .. ExportLimit : f[i] \in m + 1 .. Len(saved)
    <3> SUFFICES ASSUME NEW i \in 1 .. ExportLimit PROVE f[i] \in m + 1 .. Len(saved)
      OBVIOUS
    <3>1. i \in 1 .. n /\ i < k
      BY <1>2, <2>2, <2>3
    <3>2. f[i] > f[k] /\ f[i] \in 1 .. Len(saved)
      BY <1>1, <1>4, <2>2, <3>1
    <3> QED BY <1>2, <2>1, <2>2, <3>2
  <2>5. \A i, j \in 1 .. ExportLimit : f[i] = f[j] => i = j
    <3> SUFFICES ASSUME NEW i \in 1 .. ExportLimit, NEW j \in 1 .. ExportLimit, f[i] = f[j]
                 PROVE  i = j
      OBVIOUS
    <3>1. i \in 1 .. n /\ j \in 1 .. n
      BY <1>2, <2>2, <2>3
    <3>2. f[i] \in Int /\ f[j] \in Int
      BY <1>4, <3>1
    <3>3. (i < j => f[i] > f[j]) /\ (j < i => f[j] > f[i])
      BY <1>1, <3>1
    <3> QED BY <3>2, <3>3
  <2>6. PICK g : g = [i \in 1 .. ExportLimit |-> f[i]]
    OBVIOUS
  <2>7. g \in Injection(1 .. ExportLimit, m + 1 .. Len(saved))
    BY <2>4, <2>5, <2>6 DEF Injection, IsInjective
  <2>8. /\ IsFiniteSet(m + 1 .. Len(saved))
        /\ Cardinality(m + 1 .. Len(saved)) = Len(saved) - m
    <3>1. m + 1 \in Int /\ Len(saved) \in Int
      BY <1>2, <2>1
    <3>2. Cardinality(m + 1 .. Len(saved)) =
            IF m + 1 > Len(saved) THEN 0 ELSE Len(saved) - (m + 1) + 1
      BY <3>1, FS_Interval
    <3> QED BY <1>2, <2>1, <3>1, <3>2, FS_Interval
  <2>9. Cardinality(1 .. ExportLimit) = ExportLimit
    <3>1. Cardinality(1 .. ExportLimit) = IF 1 > ExportLimit THEN 0 ELSE ExportLimit - 1 + 1
      BY <1>2, FS_Interval
    <3> QED BY <1>2, <3>1
  <2>10. Cardinality(1 .. ExportLimit) =< Cardinality(m + 1 .. Len(saved))
    BY <2>7, <2>8, FS_Injection
  <2> QED BY <1>2, <2>1, <2>8, <2>9, <2>10
<1>7. CASE lines # {}
  <2>1. lines \in SUBSET (1 .. n)
    BY <1>5
  <2>2. /\ Min(lines) \in lines /\ \A x \in lines : Min(lines) =< x
    BY <1>7, <2>1, MinOfNumbers
  <2>3. PICK l \in 1 .. n : l = Min(lines)
    BY <2>1, <2>2
  <2>4. l =< ExportLimit /\ f[l] \in ReviewsOf(s) /\ l \in DOMAIN Export
    BY <1>1, <1>5, <2>2, <2>3
  <2>5. f[l] =< m /\ m \in 1 .. Len(saved) /\ m \in ReviewsOf(s)
    <3>1. f[l] \in 1 .. Len(saved) /\ f[l] =< m
      BY <1>3, <2>4
    <3>2. m \in 1 .. Len(saved)
      BY <1>2, <1>3, <3>1 DEF NoReview
    <3> QED BY <1>2, <1>3, <3>1, <3>2 DEF ReviewsOf
  <2>6. PICK k \in 1 .. n : f[k] = m
    BY <1>1, <1>2, <1>3, <2>5
  <2>7. ~ (k < l)
    <3> SUFFICES ASSUME k < l PROVE FALSE
      OBVIOUS
    <3>1. k =< ExportLimit
      BY <1>2, <2>4
    <3>2. k \in lines
      BY <1>5, <2>5, <2>6, <3>1
    <3> QED BY <2>2, <2>3, <3>2
  <2>8. ~ (l < k)
    <3> SUFFICES ASSUME l < k PROVE FALSE
      OBVIOUS
    <3>1. f[l] > f[k]
      BY <1>1
    <3>2. f[l] \in Int /\ m \in Int
      BY <1>4, <2>5
    <3> QED BY <2>5, <2>6, <3>1, <3>2
  <2>9. k = l
    BY <2>7, <2>8
  <2>10. Export[l].label = saved[m].label
    BY <1>1, <2>4, <2>6, <2>9
  <2>11. ListLabel(s) = saved[m].label
    BY <2>5 DEF ListLabel, m
  <2>12. Export[Min(lines)].label = ListLabel(s)
    BY <2>3, <2>10, <2>11
  <2> QED BY <1>7, <2>12 DEF lines
<1> QED BY <1>6, <1>7

\* The export and the list agree on a session, unless newer reviews take all the
\* room (reviews.rs:94-126, 171-177).
THEOREM ExportAlwaysShowsList == DeskSpec => []ExportShowsList
BY DeskTypeCorrect, ExportFollowsTypes, PTL
=============================================================================
