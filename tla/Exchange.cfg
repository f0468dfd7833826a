SPECIFICATION Spec
CONSTANTS
    IntMax = 7
    CountMax = 63
    Chars <- NameChars
    Slash = "/"
    Boundary <- Dash
    Exact <- ExactNames
    Stripped <- StrippedNames
    Queries <- SomeQueries
    Families <- KnownFamilies
    Loopback <- Here
    HintLength = 2
    Requests <- SomeRequests
    Answers <- SomeAnswers
    Files <- SomeFiles
    Texts <- SomeTexts
    MaxFaults = 2
INVARIANTS PriceIsJustified StreamReadsAsBody NothingInvented CountIsReported TagIsWorst
CHECK_DEADLOCK FALSE
