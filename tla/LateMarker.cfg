\* A worker stopped between taking the time and publishing its completion.
SPECIFICATION FairSpec
CONSTANTS
    c1 = c1
    c2 = c2
    r1 = r1
    Callers <- TwoCallers
    Fingerprints <- OneRequest
    Sources = 1
    Capacity = 1
    PerTimeout = 1
    TotalBudget = 2
    Ttl = 1
    MaxTime = 2
    MaxStrays = 1
    MaxFlights = 1
INVARIANTS
    OnTimeNeverTimedOut
CHECK_DEADLOCK FALSE
