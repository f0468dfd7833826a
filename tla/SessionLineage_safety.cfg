SPECIFICATION Spec
CONSTANTS
    e1 = e1
    e2 = e2
    e3 = e3
    e4 = e4
    a1 = a1
    a2 = a2
    Events <- FourEvents
    Agents <- TwoAgents
    AgentOf <- FourAgentOf
    IdleTimeout = 1
    MaxTime = 3
SYMMETRY SameAgentEvents
INVARIANTS
    ChainIsWellFounded
    GenesisBelongsToSession
    ForkOnlyUnderOverlap
    ForeignLinkOnlyByRace
    SessionsStartApart
    StampsFollowChain
CHECK_DEADLOCK FALSE
