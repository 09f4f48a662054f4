SPECIFICATION Spec
CONSTANTS
    a = a
    b = b
    c = c
    Nodes = {a, b, c}
    Left = a
    Right = b
    LeftInstance = 1
    RightInstance = 1
    LeftLease = 1
    RightLease = 1
    Kinds <- SimpleTypes
    Requests <- MixedRequests
    LeaseDuration = 1
    MaxLeaseDuration = 0
    MaxArbitrationTimeout = 1
    MaxImplicitLeaseInterval = 0
    SuspicionExpireInterval = 1
    DelayInterval = 1
    CleanupInterval = 1
    WeakLevel = 1
    StrongLevel = 3
    RejectLevel = 9
    SuspicionThreshold = 3
    KeepAliveThreshold = 9
    ComparisonThreshold = 6
    ReportThreshold = 2
    StartTime = 4
    MaxTime = 7
    MaxRecords = 3
INVARIANTS NoOpposingGrants SimpleMeetsNoNeutral
CHECK_DEADLOCK FALSE
VIEW TableView
