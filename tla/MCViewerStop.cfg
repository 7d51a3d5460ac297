CONSTANTS
    QueueSize = 2
    MaxFrames = 2
    MaxResizes = 0
SPECIFICATION FairSpec
PROPERTIES StopCompletes
CHECK_DEADLOCK FALSE
