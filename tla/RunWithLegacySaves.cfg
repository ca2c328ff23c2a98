\* A Run beside a legacy save, every kind of edit and the project's archive
\* and restore.
SPECIFICATION Spec
CONSTANTS
    q1 = q1
    q2 = q2
    i1 = i1
    w1 = w1
    s1 = s1
    s2 = s2
    none = none
    Requests <- OneRequest
    Intents <- OneIntent
    NoIntent = none
    Writers <- OneWriter
    Scalars <- TwoValues
    RowSets <- TwoValues
    Scenarios <- OneScenario
    Overrides <- TwoValues
    MaxEdits = 2
    MaxVersion = 2
    CommitMayFail = TRUE
SYMMETRY Interchangeable
CHECK_DEADLOCK FALSE
PROPERTIES
    ArchivedIsFrozen
    NoCommitAcrossLifecycle
