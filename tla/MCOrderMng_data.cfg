SPECIFICATION FairSpec
CONSTANTS
    NTag = 2
    NId = 2
    RsvPos <- NoneOrBoth
    RsvLast = {TRUE}
    RspBad = {FALSE, TRUE}
    IsWrite = FALSE
PROPERTIES
    InOrderReturn
    Drains
