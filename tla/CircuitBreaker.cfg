SPECIFICATION BreakerFairSpec
CONSTANTS
    a = a
    b = b
    c = c
    d = d
    Callers <- FourCallers
    MaxFailures = 3
    MaxRequests = 2
    FailureBound = 5
INVARIANTS ProbesInFlight TripsInTime
PROPERTIES TripsOnlyInARow Recovers
