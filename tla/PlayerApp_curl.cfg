SPECIFICATION FairSpec
CONSTANTS
    Segments <- MCSegments
    MaxSegments = 1
INVARIANT CurlOutlivesClients
CHECK_DEADLOCK FALSE
