SPECIFICATION Spec
CONSTANTS
    p1 = p1
    p2 = p2
    n1 = n1
    n2 = n2
    k1 = k1
    k2 = k2
    None = None
    Missing = Missing
    Unusable = Unusable
    Procs = {p1, p2}
    Names = {n1, n2}
    Keys = {k1, k2}
    Secrets = {n1, n2}
    MaxCommands = 5
    MaxEdits = 1
SYMMETRY Symmetric
INVARIANTS
    CredentialOpens
    ActiveHasCredential
    RevokedIsEmpty
CHECK_DEADLOCK FALSE
