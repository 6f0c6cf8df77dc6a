SPECIFICATION Spec
CONSTANTS
    Runs = {m1, m2}
    Workers = {w1, w2}
    MaxQueue = 1
    None = None
CHECK_DEADLOCK FALSE
SYMMETRY Symmetry
INVARIANTS
    TypeOK
    UnusableReported
    ServesOnSchema
    ComposeStartsClean
    LogsWritten
