SPECIFICATION SearchSpec
CONSTANTS
    Ids = {1}
    Skus = {s1}
    Prices = {1}
    Categories = {k1}
    NoCategory = NoCategory
    Readers = {r1}
    Limits = {1}
    Offsets = {0, 1}
PROPERTY TotalCountsMatches
