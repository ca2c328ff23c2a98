\* The batch runner and a Refresh overlap on one watched opportunity; four
\* events of the world, one crash.
SPECIFICATION FairSpec
CONSTANTS
    batch = batch
    refresh = refresh
    apy1 = apy1
    apy2 = apy2
    Evaluators <- BatchAndRefresh
    Values <- TwoValues
    Supports <- TwoSupports
    NoSupport = "unresolved"
    Evidence <- Timed
    MaxAge = 0
    MaxEvents = 4
    MaxCrashes = 1
CHECK_DEADLOCK FALSE
INVARIANTS
    NeverPastAlerts
PROPERTIES
    UnwatchedNotReplayed
    StateChangesAlerted
    CaughtUp
