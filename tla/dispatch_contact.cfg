SPECIFICATION OrderSpec
CONSTANTS
    N = 3
    MaxConcurrency = 3
    MaxAttempts = 2
CHECK_DEADLOCK FALSE
INVARIANT
    FirstContactInOrder
