SPECIFICATION Spec
CONSTANTS
    NJob = 3
    NProc = 2
    NFault = 0
    NWord = 2
    Flags <- PollOnly
    MayTimeout = TRUE
    MayKill = FALSE
    LateAnswer = FALSE
CHECK_DEADLOCK FALSE
INVARIANTS
    SuccessIsOwn
