SPECIFICATION Spec
CONSTANTS
    g1 = g1
    g2 = g2
    None = None
    Loggers = {g1, g2}
    Retained = 2
    MaxLines = 2
    MaxRecords <- MCMaxRecords
    Overlaps = {TRUE}
    MayCrash = FALSE
INVARIANTS
    ChainHolds
CHECK_DEADLOCK FALSE
