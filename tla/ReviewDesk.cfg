SPECIFICATION DeskSpec
CONSTANTS
    r1 = r1
    r2 = r2
    t1 = t1
    Sessions <- TwoSessions
    Tabs <- OneTab
    ExportLimit = 1
    Words <- SomeWords
    MaxSaves = 2
    MaxMoves = 2
SYMMETRY Symmetric
INVARIANTS StrayEventIsStale ExportShowsList
PROPERTIES EditsLostOnlyToNews
CHECK_DEADLOCK FALSE
