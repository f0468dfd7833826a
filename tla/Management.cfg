SPECIFICATION Spec
CONSTANTS
    s1 = s1
    c1 = c1
    c2 = c2
    a1 = a1
    a2 = a2
    p1 = p1
    Services <- OneService
    LastMigration = 3
    OnceOnly <- Triggers
    InitialSchemas <- SchemasBefore
    StartModes <- PoolOrNone
    MaxKills = 0
    Clients <- TwoClients
    Agents <- TwoAgents
    Projects <- OneProject
    AgentsTable = 2
    ProjectsTable = 3
    BudgetTable = 3
    Filters <- ThreeFilters
    PageSize = 1
    MaxCalls = 3
INVARIANTS EditsSurvive ProjectsConsistent
PROPERTIES PagesMissOnlyTheSeen OrphansAreLate
CHECK_DEADLOCK FALSE
