SPECIFICATION Spec
CONSTANTS
    Levels = 4
    Half = 4
    Beats <- SomeBeats
    NBeat = 1
    Stall = TRUE
PROPERTIES
    CommandsFit
