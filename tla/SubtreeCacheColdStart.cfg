SPECIFICATION Spec
CONSTANTS
    Readers = {r1}
    Writers = {w1}
    Roots = {k1}
    CacheEnabled = TRUE
    InitialVersion = 0
    MaxRev = 2
    MaxForeign = 1
    MaxRestarts = 0
    Unparsable = Unparsable
    Misshapen = Misshapen
INVARIANT InvalidationTakesEffect
