SPECIFICATION FairSpec
CONSTANTS
    Segments <- MCSegments
    MaxSegments = 3
INVARIANTS
    TypeOK
    AliveWhenUsed
    CountsAsPrinted
PROPERTY ShutdownCompletes
CHECK_DEADLOCK FALSE
