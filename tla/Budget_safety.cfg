SPECIFICATION Spec
CONSTANTS
    x1 = x1
    x2 = x2
    x3 = x3
    a1 = a1
    a2 = a2
    Exchanges <- ThreeExchanges
    Agents <- TwoAgents
    AgentOf <- ThreeAgentOf
    Amount <- ThreeAmounts
    LimitOf <- AllLimits
    MaxDay = 1
    MaxRestarts = 1
INVARIANTS
    CountersExact
    AllowIsSound
CHECK_DEADLOCK FALSE
