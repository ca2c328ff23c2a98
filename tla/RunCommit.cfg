\* Two Runs, with and without the same intent id, against draft edits and
\* scenario selection.  Requests are made once, so behaviors end.
SPECIFICATION Spec
CONSTANTS
    q1 = q1
    q2 = q2
    i1 = i1
    w1 = w1
    s1 = s1
    s2 = s2
    none = none
    Requests <- TwoRequests
    Intents <- OneIntent
    NoIntent = none
    Writers <- NoWriters
    Scalars <- TwoValues
    RowSets <- OneValue
    Scenarios <- TwoScenarios
    Overrides <- OneValue
    MaxEdits = 2
    MaxVersion = 0
    CommitMayFail = FALSE
SYMMETRY Interchangeable
CHECK_DEADLOCK FALSE
INVARIANTS
    LastRunIsWhole
    IntentNamesItsRun
PROPERTIES
    RouteImplementsRunOnce
    RouteIsAtomic
