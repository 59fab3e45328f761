SPECIFICATION FairSpec
CONSTANTS
    BodySize = 2
    Policies <- MCPolicies
    Configs <- MCConfigs
    StallTime = 1
    PlaylistTimeout = 1
    SegmentTimeout = 2
INVARIANTS
    TypeOK
    BundleOfOneTransfer
    StopHonoured
    CallBounded
PROPERTIES
    NoReallocation
    ImplementsDownloads
