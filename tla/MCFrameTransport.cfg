CONSTANTS
    SeqMod = 3
    FragLimit = 2
    MaxEntries = 1
    StaleAfter = 1
    Sizes <- MCSizes
    MaxFrames = 3
    MaxTime = 5
    Empty = Empty
SPECIFICATION Spec
INVARIANTS TypeOK Complete TooLargeNeverDelivered
PROPERTIES ImplementsLossyFrames
CHECK_DEADLOCK FALSE
