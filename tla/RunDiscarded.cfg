\* A legacy draft or discard save beside two Runs; each is made once.
SPECIFICATION Spec
CONSTANTS
    q1 = q1
    q2 = q2
    i1 = i1
    w1 = w1
    s1 = s1
    s2 = s2
    none = none
    Requests <- TwoRequests
    Intents <- NoIntents
    NoIntent = none
    Writers <- OneWriter
    Scalars <- TwoValues
    RowSets <- OneValue
    Scenarios <- OneScenario
    Overrides <- OneValue
    MaxEdits = 2
    MaxVersion = 0
    CommitMayFail = FALSE
SYMMETRY Interchangeable
CHECK_DEADLOCK FALSE
INVARIANTS
    LastRunIsWhole
