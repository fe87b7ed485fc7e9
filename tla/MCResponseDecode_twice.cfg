SPECIFICATION Spec
CONSTANTS
    Halves <- SomeHalves
    PendingMod = 4
    Regimes <- BothKinds
    MaxRetry = 3
PROPERTIES
    RetriedOnce
