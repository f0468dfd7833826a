SPECIFICATION FairSpec
CONSTANTS
    e1 = e1
    e2 = e2
    e3 = e3
    a1 = a1
    a2 = a2
    Events <- ThreeEvents
    Agents <- TwoAgents
    AgentOf <- ThreeAgentOf
    Capacity = 2
    BatchMax = 2
    MaxRestarts = 1
INVARIANTS
    TypeOK
    StoredAtMostOnce
    EveryEventAccounted
    SendCountersAgree
PROPERTIES
    AcceptedIsSettled
    ImplementsEventLog
CHECK_DEADLOCK FALSE
