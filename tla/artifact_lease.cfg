\* Packets and executions never meet: with the same values for both, there are
\* fewer permutations to look at.
SPECIFICATION DirectorySpec
CONSTANTS
    Writers = {w1, w2, w3}
    Packets = {x1, x2}
    NoPacket = NoPacket
    Torn = Torn
    Collectors = {x1, x2}
    MaximumAttempts = 2
    AttemptLimit = 1
    RunDeadline = 2
    CollectionEnd = 2
    LastInstant = 2
    Null = Null
    WireShapes <- MCWireShapes
CHECK_DEADLOCK FALSE
SYMMETRY Symmetry
INVARIANT
    ActedOnDurableRecord
