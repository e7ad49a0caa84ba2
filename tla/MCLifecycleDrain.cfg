SPECIFICATION LifeSpec
CONSTANTS
    NoOne = NoOne
    Procs = {1, 2}
    Stops = {1}
    Overlaps = {"drain"}
    MaxStarts <- MCMaxStarts
    AuditMayFail = FALSE
    AimMayAbort = TRUE
INVARIANTS
    ServingIsReachable
CHECK_DEADLOCK FALSE
