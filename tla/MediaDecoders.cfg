SPECIFICATION Spec
CONSTANTS
    Packets <- MCPackets
    Delay = 2
    MaxPictures = 4
    NoPts = NoPts
    Durations = {0, 2}
    Inputs <- MCInputs
    TimeBase = 90000
    NoTime = NoTime
INVARIANTS
    TypeOK
    NothingLost
    FramesOrdered
    LostOnlyBehindDamage
    ReleasesWhatItOwns
    ReturnsThisSegment
CHECK_DEADLOCK FALSE
