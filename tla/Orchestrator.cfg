SPECIFICATION FairSpec
CONSTANTS
    Urls = {"two", "host", "media"}
    Stream <- MCStream
    MediaPlaylists <- MCPlaylists
    SegmentUri <- MCSegmentUri
    Queries <- MCQueries
    Colons <- MCColons
    Short <- MCShort
    Schemed <- MCSchemed
    Throughputs <- MCThroughputs
    MayFail = TRUE
    SeqMod = 8
    MaxStarts = 2
    Alpha = 3
    None = None
INVARIANTS
    TypeOK
    VariantsAgree
    FetchedAsWritten
    StopEmpties
PROPERTIES
    ImplementsFeed
    CallReturns
