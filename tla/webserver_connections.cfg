SPECIFICATION Spec
CONSTANTS
    Clients = {"c1", "c2"}
    Methods = {"GET", "OPTIONS", "POST"}
    MaxRequests = 2
INVARIANTS
    TypeOK
    OneResponseEach
PROPERTIES
    CloseHonoured
    Accepted
    Reaped
