SPECIFICATION FairSpec
CONSTANTS
    Paths <- ServerPaths
INVARIANTS
    TypeOK
    AnsweredOnce
    CompleteIsQuiet
    RejectedIsUntouched
    Survives
    LeftBehind
    AnswerIsComing
PROPERTIES
    Answered
CHECK_DEADLOCK FALSE
