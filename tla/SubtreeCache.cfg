SPECIFICATION FairSpec
CONSTANTS
    Readers = {r1, r2}
    Writers = {w1}
    Roots = {k1}
    CacheEnabled = TRUE
    InitialVersion = 1
    MaxRev = 2
    MaxForeign = 1
    MaxRestarts = 1
    Unparsable = Unparsable
    Misshapen = Misshapen
INVARIANTS
    TypeOK
    OutdatedUnlessInDoubt
PROPERTIES
    MeetsContract
    StaleListsDisappear
