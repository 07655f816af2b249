SPECIFICATION Spec
CONSTANTS
    UseStateFile = TRUE
    StateFileUpdateInterval = 1
    QueueCapacity = 2
    MaxProduced = 5
    OtherFormats = {3}
    MaxQueueSize = 1
    MaxLives = 3
INVARIANTS
    TypeOK
    NoGap
PROPERTIES
    StateForward
    InOrder
    Terminates
    QueueDrains
