CONSTANTS
    Keys = {k}
    Buttons = {b}
    SendCapacity = 2
    InputCapacity = 1
    WireCapacity = 1
    MaxEvents = 7
    k = k
    b = b
SPECIFICATION FairInputSpec
INVARIANTS InStep InOrder
PROPERTIES KeysComeUp
CHECK_DEADLOCK FALSE
