SPECIFICATION Spec
CONSTANTS
    k1 = k1
    k2 = k2
    k3 = k3
    Keys <- MCKeys
    Limit <- MCLimit
    WindowMs = 2
    CleanupThreshold = 2
    MaxTime = 5
INVARIANTS
    SlidingWindow
    RefusalJustified
CHECK_DEADLOCK FALSE
