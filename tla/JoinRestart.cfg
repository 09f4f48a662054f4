SPECIFICATION Spec
CONSTANTS
    Members = {1}
    Joiners = {2, 3}
    MaxInstance = 2
    MaxLockId = 2
    MaxLapses = 1
    MaxMessages = 2
    Pingers = {}
    Lossy = FALSE
INVARIANTS TypeOK RoutingKnown OneHolder DownIsDown
\* The ring rests once everybody has joined, or a bound is reached.
CHECK_DEADLOCK FALSE
