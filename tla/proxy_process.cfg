SPECIFICATION Spec
CONSTANTS
    Services <- TwoServices
    MaxRequests = 2
    MaySteer = TRUE
    Asked <- OneRequest
INVARIANTS
    TypeOK
    OnlyLastUnanswered
    CleanExit
PROPERTIES
    StartedTerminates
    RequestsReceived
CHECK_DEADLOCK FALSE
