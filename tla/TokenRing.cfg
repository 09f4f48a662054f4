SPECIFICATION MCSpec
CONSTANTS
    IdCount = 6
    Nodes = {0, 2, 4}
    RECOVERY_INCREMENT = 1000
    MaxMerges = 4
    MaxRecoveries = 2
    MaxFailures = 2
    MaxLate = 1
    Pingers <- OnePinger
    MaxInFlight = 2
INVARIANTS TypeOK NoSharedId InFlightUnshared PromisesOrdered VersionsKnown
CHECK_DEADLOCK FALSE
