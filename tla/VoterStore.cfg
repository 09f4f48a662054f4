SPECIFICATION MCSpec
CONSTANTS
    Voters = {1, 2, 3}
    Writes <- OneKey
    Ticks = {10, 20}
    EpochStep = 10
    MaxInstance = 2
    MaxFailures = 1
    TimeKeepers = {1}
    MaxInFlight = 2
INVARIANTS TypeOK OnePrimary EpochNamesConfig AckedKept SecondaryListed SyncFits
CHECK_DEADLOCK FALSE
