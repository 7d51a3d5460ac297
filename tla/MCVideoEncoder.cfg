CONSTANTS
    Rungs = 2
    MaxTransforms = 2
    MaxFrames = 3
    MaxInside = 3
    LookAhead = 2
    GOP = 3
    MaxFailures = 2
SPECIFICATION FairSpec
INVARIANTS FirstThatWorks NothingTwice KeyOnItsWay
PROPERTIES EncodingGoesOn
CHECK_DEADLOCK FALSE
