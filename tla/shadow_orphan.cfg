SPECIFICATION Spec
CONSTANTS
    Jobs = {j1}
    MaxAttempts = 2
    Runners = {r1, r2}
    None = None
    AttemptTimeout = 1
    MaxWallClock = 2
    AuthorityEnd = 2
    ProtocolExpiry = 2
    MaxClock = 2
CHECK_DEADLOCK FALSE
INVARIANT
    OrphanHasNoTrace
