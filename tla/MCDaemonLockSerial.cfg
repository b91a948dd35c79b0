CONSTANTS
    p1 = p1
    p2 = p2
    p3 = p3
    p4 = p4
    Processes <- Four
    Overlap = FALSE
    ReusePids = FALSE
SPECIFICATION LockFairSpec
INVARIANTS
    OneDaemon
PROPERTIES
    RefusedByDaemon
    AcquireEnds
