CONSTANTS
    Workers = {w1, w2, w3}
    Task <- Chunks
    NoTask = NoTask
    Heights = {3, 4, 7}
    SerialBelow = 4
    MaxPictures = 2
SPECIFICATION FairSpec
INVARIANTS NoTaskLeftBehind Whole
PROPERTIES ConversionEnds
CHECK_DEADLOCK FALSE
