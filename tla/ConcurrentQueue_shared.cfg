SPECIFICATION FairSpec
CONSTANTS
    c1 = c1
    c2 = c2
    c3 = c3
    t1 = t1
    t2 = t2
    Consumers <- ThreeConsumers
    Tokens <- OneToken
    TokenOf <- SharedToken
    MaxItems = 4
INVARIANTS
    TypeOK
    FifoExact
    FrontDefined
    NoMissedWakeup
PROPERTIES
    StopUnblocks
    ImplementsFifo
