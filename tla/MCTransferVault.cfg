SPECIFICATION Spec
CONSTANTS
    p1 = p1
    p2 = p2
    a = a
    b = b
    m = m
    None = None
    Products = {"vault"}
    Runs = {p1, p2}
    Plain = {a, b}
    Whole = {m}
    Ordered <- ByOrder
    NameOf <- OneName
    Commands <- ByRole
    FirstHere <- HereAtFirst
    FirstShared <- SharedAtFirst
    ListMaySkip = FALSE
    MaxValue = 3
    MaxFaults = 0
INVARIANTS
    MigrationCarriesAll
CHECK_DEADLOCK FALSE
