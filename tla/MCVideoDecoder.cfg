CONSTANTS
    MaxPackets = 3
    MaxInside = 3
    LookAhead = 2
    MaxChanges = 2
    MaxFailures = 2
SPECIFICATION FairSpec
INVARIANTS TexturesHeld NewestReturned FedAgainOnlyAfterChange
PROPERTIES DecodingGoesOn
CHECK_DEADLOCK FALSE
