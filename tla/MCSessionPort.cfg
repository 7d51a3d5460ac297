CONSTANTS
    Viewers = {v1}
    InputCap = 1
    MaxInputs = 1
    MaxFrames = 1
    NoViewer = NoViewer
    NoKey = NoKey
    Garbage = Garbage
SPECIFICATION Spec
INVARIANTS ViewerReachable
CHECK_DEADLOCK FALSE
