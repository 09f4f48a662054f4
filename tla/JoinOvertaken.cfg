SPECIFICATION Spec
CONSTANTS
    Members = {1}
    Joiners = {2}
    MaxInstance = 2
    MaxLockId = 1
    MaxLapses = 1
    MaxMessages = 1
    Pingers = {}
    Lossy = FALSE
INVARIANT ConsistencyRule
CHECK_DEADLOCK FALSE
