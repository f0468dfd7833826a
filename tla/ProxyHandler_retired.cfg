SPECIFICATION Spec
CONSTANTS
    r1 = r1
    r2 = r2
    r3 = r3
    a1 = a1
    a2 = a2
    Requests <- TwoRequests
    Agents <- OneAgent
    AgentOf <- TwoAgentOf
    MaxRetires = 1
PROPERTIES
    RetiredStaysBlocked
CHECK_DEADLOCK FALSE
