SPECIFICATION FairSpec
CONSTANTS
    NJob = 3
    NProc = 2
    NFault = 0
    NWord = 2
    Flags <- EitherMode
    MayTimeout = FALSE
    MayKill = FALSE
    LateAnswer = FALSE
CHECK_DEADLOCK FALSE
INVARIANTS
    TypeOK
    SuccessIsOwn
    NoIrqTimeout
    HandBack
PROPERTIES
    JobReturns
