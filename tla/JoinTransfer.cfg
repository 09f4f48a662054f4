SPECIFICATION ContestedSpec
CONSTANTS
    Members = {1, 2, 3}
    Joiners = {4, 5}
    MaxInstance = 1
    MaxLockId = 1
    MaxLapses = 0
    MaxMessages = 2
    Pingers = {1}
    Lossy = TRUE
INVARIANTS RoutingKnown OneHolder
\* The ring rests once everybody has joined, or a bound is reached.
CHECK_DEADLOCK FALSE
