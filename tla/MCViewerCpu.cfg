CONSTANTS
    QueueSize = 2
    MaxFrames = 3
    MaxResizes = 0
SPECIFICATION Spec
INVARIANTS DebugCopyCanLock
CHECK_DEADLOCK FALSE
