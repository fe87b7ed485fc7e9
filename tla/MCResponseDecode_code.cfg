SPECIFICATION Spec
CONSTANTS
    Halves <- SomeHalves
    PendingMod = 4
    Regimes <- OneKind
    MaxRetry = 0
INVARIANTS
    PartialCode
