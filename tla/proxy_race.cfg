SPECIFICATION Spec
CONSTANTS
    Services <- TwoServices
    MaxRequests = 1
    MaySteer = FALSE
    Asked <- OneRequest
INVARIANTS
    StopWakesService
CHECK_DEADLOCK FALSE
