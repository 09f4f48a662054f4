SPECIFICATION Spec
CONSTANTS
    a = a
    b = b
    c = c
    Nodes = {a, b}
    Left = a
    Right = b
    LeftInstance = 1
    RightInstance = 1
    LeftLease = 1
    RightLease = 1
    Kinds <- ExtendedTypes
    Requests <- ExtendedRequests
    LeaseDuration = 1
    MaxLeaseDuration = 0
    MaxArbitrationTimeout = 1
    MaxImplicitLeaseInterval = 0
    SuspicionExpireInterval = 2
    DelayInterval = 1
    CleanupInterval = 1
    WeakLevel = 1
    StrongLevel = 3
    RejectLevel = 9
    SuspicionThreshold = 3
    KeepAliveThreshold = 9
    ComparisonThreshold = 6
    ReportThreshold = 2
    StartTime = 4
    MaxTime = 8
    MaxRecords = 4
INVARIANTS TypeOK PeersMatch NoOpposingGrants DelayedTracked OnePairPerLease
PROPERTIES GrantKept ToldOfChange ImplementsPair
CHECK_DEADLOCK FALSE
VIEW TableView
