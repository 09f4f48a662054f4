SPECIFICATION FairLockingSpec
CONSTANTS
    Members = {1, 3}
    Joiners = {2, 4}
    MaxInstance = 1
    MaxLockId = 1
    MaxLapses = 0
    MaxMessages = 2
    Pingers = {}
    Lossy = FALSE
PROPERTY Resolved
\* The ring rests once everybody has joined, or a bound is reached.
CHECK_DEADLOCK FALSE
