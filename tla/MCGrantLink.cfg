SPECIFICATION Spec
CONSTANTS
    full = full
    unsigned = unsigned
    low = low
    g1 = g1
    g2 = g2
    g3 = g3
    bad = bad
    op1 = op1
    out = out
    odd = odd
    r1 = r1
    r2 = r2
    None = None
    Requests = {r1, r2}
    Agents = {full, unsigned, low}
    Context <- MCContext
    Malformed = {bad}
    Binding <- MCBinding
    Providers = {"okta"}
    Jobs <- MCJobs
    Escaping = {out}
    Ragged = {odd}
    Lives <- MCLives
    AimConfigured = TRUE
    DeliversSalt = TRUE
    MaxAuditFailures = 2
INVARIANT HonouredIsLinked
CHECK_DEADLOCK FALSE
