SPECIFICATION Spec
CONSTANTS
    MaxRequests = 5
INVARIANTS
    SingleWriter
    NoGaps
PROPERTIES
    Answered
    Released
