SPECIFICATION BootSpec
CONSTANTS
    s1 = s1
    s2 = s2
    Services <- TwoServices
    LastMigration = 9
    OnceOnly <- Triggers
    InitialSchemas <- SchemasBefore
    StartModes <- AllModes
    MaxKills = 2
INVARIANTS SchemaSound
PROPERTIES EveryBootEnds
CHECK_DEADLOCK FALSE
