\* Two attempts, used again and again, for two request ids with two inputs;
\* one of them dies.
SPECIFICATION FairSpec
CONSTANTS
    a1 = a1
    a2 = a2
    id1 = id1
    id2 = id2
    d1 = d1
    d2 = d2
    Attempts <- TwoAttempts
    Ids <- TwoIds
    Digests <- TwoDigests
    MaxTries = 2
    MaxCrashes = 1
INVARIANTS
    CompleteIsWhole
PROPERTIES
    AbandonedIsFrozen
    ImplementsRunOnce
    RetriedIsResolved
