SPECIFICATION FairSpec
CONSTANTS
    Halves <- SomeHalves
    PendingMod = 4
    Regimes <- OneKind
    MaxRetry = 2
INVARIANTS
    TypeOK
    FinishedWhenAnswered
    FullCode
PROPERTIES
    RetriedOnce
    AllFinished
