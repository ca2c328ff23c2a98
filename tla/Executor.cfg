\* Two callers on one slot; three pools may be created, two retirements trip
\* the breaker.
SPECIFICATION FairSpec
CONSTANTS
    c1 = c1
    c2 = c2
    Calls <- TwoCalls
    Concurrency = 1
    MaxRetirements = 2
    MaxPools = 3
INVARIANTS
    SlotsAddUp
    BoundedCalculation
    RefusedMeansNotRun
PROPERTIES
    HealthyPoolKept
    EveryoneAnswered
    OnlyRunningKeepsSlot
