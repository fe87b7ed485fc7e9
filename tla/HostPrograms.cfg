SPECIFICATION HostSpec
CONSTANTS
    NRun = 2
    NReg = 2
    MaxCount = 2
    MaxDump = 2
    Narrow = 2
    NBlock = 4
    CARD_DRAM_SIZE = 5
    Sizes = {5, 8}
    Junk = {0, 99}
    NBlocks = 3
    Period = 2
    MaxIter = 1
    SDRAM = {0, 4}
    MaxCopy = 2
    MaxDelay = 2
    NEngine = 2
    MaxTest = 2
CHECK_DEADLOCK FALSE
INVARIANTS
    HostTypeOK
    NothingKept
    PeekChecked
    PokeVerified
    CopyRight
    StoredStays
    KernelInBuffers
    VerifyVerdict
    FaultsFound
    
    NoDmaToFreed
    SuccessEarned
PROPERTIES
    ActionBeforeCard
    ProgramEnds
