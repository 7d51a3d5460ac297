CONSTANTS
    Viewers = {v1, v2}
    InputCap = 1
    MaxInputs = 1
    MaxFrames = 1
    NoViewer = NoViewer
    NoKey = NoKey
    Garbage = Garbage
SPECIFICATION FairSpec
INVARIANTS TypeOK OnlyAuthenticated NothingInTheClear EndsAgree
PROPERTIES HandshakeEnds FailedInitEnds
CHECK_DEADLOCK FALSE
