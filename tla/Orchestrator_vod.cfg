SPECIFICATION Spec
CONSTANTS
    Urls = {"two"}
    Stream <- MCStream
    MediaPlaylists <- MCVod
    SegmentUri <- MCSegmentUri
    Queries <- MCQueries
    Colons <- MCColons
    Short <- MCShort
    Schemed <- MCSchemed
    Throughputs <- MCThroughputs
    MayFail = FALSE
    SeqMod = 8
    MaxStarts = 1
    Alpha = 3
    None = None
INVARIANT PlaysToEnd
