SPECIFICATION Spec
CONSTANTS
    Packets <- MixedPackets
    Names = {"a"}
    EstimateCapacity = FALSE
    CircularBufferSize = 3
    CircularBufferDuration = 300
    LogBadDataInterval <- NoLog
    StartTime = 0
    MaxTime = 1
INVARIANTS
    TypeOK
    Sorted
    NoTwins
    OverlapsOnlySpanning
