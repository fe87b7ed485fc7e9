SPECIFICATION FairSpec
CONSTANTS
    NJob = 3
    NProc = 2
    NFault = 0
    NWord = 2
    Flags <- IrqOnly
    MayTimeout = FALSE
    MayKill = TRUE
    LateAnswer = FALSE
CHECK_DEADLOCK FALSE
PROPERTIES
    JobReturns
