\* Three requests with two inputs fight for one key, with takeovers of expired
\* claims and a wall clock that may be set back once.
SPECIFICATION FairSpec
CONSTANTS
    q1 = q1
    q2 = q2
    q3 = q3
    k1 = k1
    b1 = b1
    b2 = b2
    f1 = f1
    r1 = r1
    Requests <- ThreeRequests
    Keys <- OneKey
    Bindings <- TwoBindings
    Fingerprints <- OneFingerprint
    Results <- OneResult
    LeaseMs = 1
    MaxGeneration = 2
    MaxTime = 3
    MaxClockSteps = 1
    RecoveryWired = TRUE
INVARIANTS
    SingleOwner
    HistoryMatchesLedger
    AnswersAreOriginal
PROPERTIES
    FencedOutcome
    EventuallySettled
    ImplementsRunOnce
