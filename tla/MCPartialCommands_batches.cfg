SPECIFICATION FairSpec
CONSTANTS
    Levels = 4
    Half = 4
    Beats <- SomeBeats
    NBeat = 2
    Stall = TRUE
INVARIANTS
    TypeOK
    BatchCovered
    BatchAnswered
    StrobeTaken
PROPERTIES
    CommandsFitInTime
    BatchEnds
