\* Two processes; a lease of one tick, one crash, one SQLite fault.
SPECIFICATION FairSpec
CONSTANTS
    p1 = p1
    p2 = p2
    Procs <- TwoProcs
    Ttl = 1
    MaxFaults = 1
    MaxCrashes = 1
CHECK_DEADLOCK FALSE
INVARIANTS
    OvertakenIsFenced
    ShutdownIsComplete
PROPERTIES
    StartsClean
    AbandonedIsTakenOver
