SPECIFICATION Spec
CONSTANTS
    a1 = a1
    a2 = a2
    c1 = c1
    c2 = c2
    q1 = q1
    q2 = q2
    q3 = q3
    None = None
    Agents = {a1}
    Creds = {c1}
    Requests = {q1, q2}
    Rules <- TrustRules
    KeyOf <- PairKeys
    Identities <- MCIdentities
    AimConfigured = TRUE
    AimMayAbort = TRUE
    AuditMayFail = TRUE
    Ttl = 2
    WindowMs = 2
    CleanupThreshold = 0
    MaxTime = 3
PROPERTIES
    RevocationTakesEffect
    EveryRequestSettles
CHECK_DEADLOCK FALSE
