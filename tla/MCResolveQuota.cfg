SPECIFICATION Spec
CONSTANTS
    a1 = a1
    a2 = a2
    c1 = c1
    c2 = c2
    q1 = q1
    q2 = q2
    q3 = q3
    None = None
    Agents = {a1, a2}
    Creds = {c1, c2}
    Requests = {q1, q2, q3}
    Rules <- QuotaRules
    KeyOf <- PairKeys
    Identities <- MCIdentities
    AimConfigured = FALSE
    AimMayAbort = FALSE
    AuditMayFail = TRUE
    Ttl = 2
    WindowMs = 2
    CleanupThreshold = 0
    MaxTime = 4
INVARIANTS
    LogAgreesWithReply
    SlotsMatchDecisions
    QuotaPerPair
PROPERTIES
    LimiterContract
SYMMETRY Symmetric
CHECK_DEADLOCK FALSE
