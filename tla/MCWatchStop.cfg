SPECIFICATION WatchSpec
CONSTANTS
    w1 = w1
    c1 = c1
    m1 = m1
    m2 = m2
    m3 = m3
    u1 = u1
    n1 = n1
    n2 = n2
    v1 = v1
    v2 = v2
    Absent = Absent
    Names = {n1}
    Values = {v1, v2}
    Procs = {m1, m2, m3, u1}
    CommandOverlaps = {"none"}
    MaxCommands = 3
    Watchers = {w1}
    Cleaners = {c1}
    Markers <- OneWatcher
    Commanders = {u1}
    Sayings <- SecretOrNone
    MaxSaid = 2
    MaxWork = 3
    Windows = {"closed"}
    Stops = {TRUE}
INVARIANTS
    RedactedIsMarked
CHECK_DEADLOCK FALSE
