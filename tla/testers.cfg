SPECIFICATION TestersSpec
CONSTANTS
    Packets <- TesterPackets
    Names = {"a", "b"}
    EstimateCapacity = TRUE
    CircularBufferSize = 2
    CircularBufferDuration = 300
    LogBadDataInterval = 1
    StartTime = 100
    MaxTime = 101
    MaxFutureTime = 1000000
    MaxExpiredTime = 65000000
INVARIANTS
    OneRate
    SpansDuration
    NotPoisoned
    PassedMeetsAll
PROPERTIES
    FlagsReportedWhenDue
