SPECIFICATION FairSpec
CONSTANTS
    r1 = r1
    r2 = r2
    r3 = r3
    a1 = a1
    a2 = a2
    Requests <- ThreeRequests
    Agents <- TwoAgents
    AgentOf <- ThreeAgentOf
    MaxRetires = 2
INVARIANTS
    TrailMatchesOutcome
PROPERTIES
    SealedStaysSealed
    EveryRequestEnds
    AnsweredIsLogged
CHECK_DEADLOCK FALSE
