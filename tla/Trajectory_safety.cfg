SPECIFICATION TrajectorySpec
CONSTANTS
    Null = Null
    t1 = t1
    t2 = t2
    Threads <- TwoThreads
    MaxAsked = 3
    Answers <- FourAnswers
SYMMETRY AnyThread
INVARIANTS
    CompleteIsExact
    ForeignAnswerNeedsTwoGaps
    OwnResults
    ReadersAgree
    SuggestionMarksItsStep
CHECK_DEADLOCK FALSE
