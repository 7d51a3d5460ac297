CONSTANTS
    Viewers = {v1}
    InputCap = 1
    MaxInputs = 1
    MaxFrames = 1
    NoViewer = NoViewer
    NoKey = NoKey
    Garbage = Garbage
SPECIFICATION FairSpec
PROPERTIES DisconnectNoticed
CHECK_DEADLOCK FALSE
