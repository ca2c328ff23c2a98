\* Save All, archive and restore, delivered again and again beside edits
\* and a deployment.
SPECIFICATION Spec
CONSTANTS
    k1 = k1
    k2 = k2
    h1 = h1
    h2 = h2
    a = a
    b = b
    Keys <- TwoKeys
    Contents <- TwoContents
    Handlers <- TwoHandlers
    MaxCommands = 3
    MaxVersion = 2
    MaxRows = 2
    MaxServed = 1
SYMMETRY CommandSymmetry
INVARIANTS
    AppliedOnce
    AppliedAsSeen
PROPERTIES
    RefusedWasNotDone
CHECK_DEADLOCK FALSE
