SPECIFICATION LifeSpec
CONSTANTS
    NoOne = NoOne
    Procs = {1, 2, 3}
    Stops = {1}
    Overlaps = {"none", "any"}
    MaxStarts <- MCMaxStarts
    AuditMayFail = TRUE
    AimMayAbort = TRUE
INVARIANTS
    SerialServingIsReachable
    StoppedLeavesNothing
PROPERTIES
    RefusedOnlyForLiving
    SignalledEnds
    StartSettles
CHECK_DEADLOCK FALSE
