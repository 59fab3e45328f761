SPECIFICATION FairSpec
CONSTANTS
    Producers = {p1, p2}
    Consumers = {c1, c2}
    Capacity = 3
    Period = 16
    Times <- MCTimes
INVARIANTS
    TypeOK
    NoMissedWakeup
PROPERTIES
    AbortUnblocks
    ImplementsBuffer
