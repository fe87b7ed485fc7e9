SPECIFICATION Spec
CONSTANTS
    NTag = 3
    NId = 2
    RsvPos <- OneHalf
    RsvLast = {TRUE}
    RspBad = {FALSE}
    IsWrite = TRUE
INVARIANTS
    TypeOK
    ListInvariant
    NoBeatLost
    TagsAccounted
PROPERTIES
    OutputHeld
    InOrderReturn
