SPECIFICATION Spec
CONSTANTS
    MaxReceived = 2
    QueueCapacity = 2
    MaxQueueSize = 1
    TestFuture = TRUE
    TestExpired = TRUE
    TestDuplicate = TRUE
INVARIANTS
    ListenerStopped
