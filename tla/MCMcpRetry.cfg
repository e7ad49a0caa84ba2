SPECIFICATION Spec
CONSTANTS
    h = h
    h2 = h2
    p = p
    q = q
    k1 = k1
    k2 = k2
    v1 = v1
    v2 = v2
    c1 = c1
    c2 = c2
    r1 = r1
    r2 = r2
    None = None
    NoEntry = NoEntry
    NoFile = NoFile
    Cut = Cut
    Unread = Unread
    Homes = {h}
    Projects = {p, q}
    EnvKeys = {k1, k2}
    Values = {v1, v2}
    Commands = {c1, c2}
    Runs = {r1}
    Order <- HomeFirst
    Inits <- OneKey
    Overlaps = {}
    MaxRuns = 3
    MaxEdits = 2
INVARIANTS
    LeftoverDeleted
CHECK_DEADLOCK FALSE
