SPECIFICATION RouterSpec
CONSTANTS
    r1 = r1
    r2 = r2
    r3 = r3
    Requests <- MCRequests
    NumWorkers = 2
    MaxAttempts = 3
    ConnectionLimits <- MCLimits
INVARIANTS
    CountsRequestsAndFailures
PROPERTIES
    EveryRequestEnds
