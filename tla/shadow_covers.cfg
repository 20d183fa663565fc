SPECIFICATION Spec
CONSTANTS
    Jobs = {j1}
    MaxAttempts = 2
    Runners = {r1}
    None = None
    AttemptTimeout = 1
    MaxWallClock = 2
    AuthorityEnd = 4
    ProtocolExpiry = 5
    MaxClock = 5
CHECK_DEADLOCK FALSE
INVARIANT
    AcceptedCoversLeases
