CONSTANTS
    QueueSize = 2
    MaxFrames = 3
    MaxResizes = 2
SPECIFICATION FairSpec
INVARIANTS TypeOK TexturesCounted ScreenKeepsUp
PROPERTIES ScreenOnlyAdvances LastFrameShown CfrResizeApplied CfrStopCompletes
CHECK_DEADLOCK FALSE
