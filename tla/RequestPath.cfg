CONSTANTS
    Clients = {a, b}
    Probes = {p}
    Conns = {c1, c2}
    PoolSize = 1
    Retries = 2
    None = None
    MaxOutages = 1
    MaxDrift = 1
SPECIFICATION FairSpec
INVARIANTS
    TypeOK
    InFlightExact
    PoolAccounted
    UnavailableHasCause
PROPERTIES
    ProbesAnswered
    EachMovesOn
