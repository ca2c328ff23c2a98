\* Two callers of one request with two providers and one slot.
SPECIFICATION FairSpec
CONSTANTS
    c1 = c1
    c2 = c2
    r1 = r1
    Callers <- TwoCallers
    Fingerprints <- OneRequest
    Sources = 2
    Capacity = 1
    PerTimeout = 1
    TotalBudget = 1
    Ttl = 1
    MaxTime = 2
    MaxStrays = 1
    MaxFlights = 2
INVARIANTS
    SlotsConserved
    LateNeverCounts
PROPERTIES
    CacheMovesForward
    EveryCallAnswered
CHECK_DEADLOCK FALSE
