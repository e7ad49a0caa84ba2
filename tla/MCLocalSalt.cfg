SPECIFICATION LocalSpec
CONSTANTS
    p1 = p1
    p2 = p2
    k1 = k1
    k2 = k2
    v1 = v1
    v2 = v2
    Missing = Missing
    Cut = Cut
    Legacy = Legacy
    Procs = {p1, p2}
    Keys = {k1, k2}
    Values = {v1}
    Starts <- AllStarts
    Overlaps = {"any"}
    MaxCommands = 2
INVARIANTS
    StaysReadable
CHECK_DEADLOCK FALSE
