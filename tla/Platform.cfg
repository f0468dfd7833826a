SPECIFICATION Spec
CONSTANTS
    e1 = e1
    e2 = e2
    e3 = e3
    a1 = a1
    a2 = a2
    Events <- ThreeEvents
    Agents <- TwoAgents
    Contents <- SomeContents
    LicenseKeys <- SomeKeys
    ConfigFiles <- SomeConfigFiles
    ApiKeys <- SomeApiKeys
    TierLimits <- LimitsOfTiers
    Documents <- SomeDocuments
    ReloadTokens <- SomeTokens
    MaxReloads = 1
    Unlimited = 1000
SYMMETRY Symmetric
INVARIANTS LedgersMatchTags MaskingIsDone ReportsAgree
CHECK_DEADLOCK FALSE
