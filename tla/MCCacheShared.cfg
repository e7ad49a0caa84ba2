SPECIFICATION Spec
CONSTANTS
    st1 = st1
    st2 = st2
    n1 = n1
    n2 = n2
    c1 = c1
    c2 = c2
    i1 = i1
    i2 = i2
    t1 = t1
    t2 = t2
    b1 = b1
    b2 = b2
    None = None
    Stores = {st1, st2}
    Names = {n1, n2}
    Scopes = {c1, c2}
    Instances = {i1, i2}
    Builds = {b1, b2}
    Deployments <- Shared
    Tasks = {t1, t2}
    InstanceOf <- OneEach
    Calls <- ReaderAndWriter
    Ttl = 1
    Latency = 1
    MaxTime = 2
    MaxWrites = 1
    SaveMayFail = TRUE
INVARIANTS
    StaleBounded
    PrefixComplete
PROPERTIES
    WriteReachesFile
CHECK_DEADLOCK FALSE
