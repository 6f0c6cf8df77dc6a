SPECIFICATION EditsSpec
CONSTANTS
    MaxDepth = 4
    NoParent = NoParent
    Ids = {k1, k2, k3, k4, k5}
INVARIANTS
    StaysWithinDepth
    VerdictsExact
    CycleReportedExactly
    SubtreeIsDescendants
