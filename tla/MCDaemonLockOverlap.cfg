CONSTANTS
    p1 = p1
    p2 = p2
    p3 = p3
    p4 = p4
    Processes <- Two
    Overlap = TRUE
    ReusePids = FALSE
SPECIFICATION LockSpec
INVARIANT OneDaemon
