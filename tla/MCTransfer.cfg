SPECIFICATION Spec
CONSTANTS
    p1 = p1
    p2 = p2
    a = a
    b = b
    m = m
    None = None
    Products = {"vault", "gcp-sm"}
    Runs = {p1, p2}
    Plain = {a, b}
    Whole = {m}
    Ordered <- ByOrder
    NameOf <- OneName
    Commands <- ByRole
    FirstHere <- HereAtFirst
    FirstShared <- SharedAtFirst
    ListMaySkip = TRUE
    MaxValue = 3
    MaxFaults = 1
INVARIANTS
    ReportsTellTruth
    HeldStaysApart
    MigrationCarriesListed
PROPERTIES
    UnforcedKeepsLocal
CHECK_DEADLOCK FALSE
