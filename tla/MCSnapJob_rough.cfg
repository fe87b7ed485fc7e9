SPECIFICATION Spec
CONSTANTS
    NJob = 3
    NProc = 2
    NFault = 2
    NWord = 2
    Flags <- EitherMode
    MayTimeout = TRUE
    MayKill = TRUE
    LateAnswer = TRUE
CHECK_DEADLOCK FALSE
INVARIANTS
    CallInvariant
    IdleCallSucceedsOwn
