SPECIFICATION Spec
CONSTANTS
    Packets <- MixedPackets
    Names = {"a"}
    EstimateCapacity = FALSE
    CircularBufferSize = 3
    CircularBufferDuration = 300
    LogBadDataInterval <- NoLog
    StartTime = 0
    MaxTime = 0
INVARIANTS
    FreshAllowed
