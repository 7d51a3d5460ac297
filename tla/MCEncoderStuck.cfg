CONSTANTS
    Rungs = 2
    MaxTransforms = 2
    MaxFrames = 3
    MaxInside = 3
    LookAhead = 2
    GOP = 3
    MaxFailures = 2
SPECIFICATION FairSpec

PROPERTIES RawEncodingGoesOn
CHECK_DEADLOCK FALSE
