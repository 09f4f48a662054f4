SPECIFICATION StableSpec
CONSTANTS
    Voters = {1, 2, 3, 4}
    Writes <- TwoKeys
    Ticks = {10, 20}
    EpochStep = 10
    MaxInstance = 1
    MaxFailures = 1
    TimeKeepers = {}
    MaxInFlight = 2
INVARIANT WriteNeverRejected
CHECK_DEADLOCK FALSE
