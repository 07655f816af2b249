SPECIFICATION Spec
CONSTANTS
    MaxReceived = 5
    QueueCapacity = 2
    MaxQueueSize = 1
    TestFuture = TRUE
    TestExpired = TRUE
    TestDuplicate = TRUE
INVARIANTS
    TypeOK
PROPERTIES
    InOrder
    QuietAfterStop
    Terminates
    EveryPacketTaken
