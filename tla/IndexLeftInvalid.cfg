SPECIFICATION Spec
CONSTANTS
    Runs = {m1, m2}
    Workers = {w1}
    MaxQueue = 1
    None = None
CHECK_DEADLOCK FALSE
INVARIANT SuccessMeansUsable
