SPECIFICATION SearchSpec
CONSTANTS
    Ids = {1, 2, 3}
    Skus = {s1, s2}
    Prices = {1, 2}
    Categories = {k1}
    NoCategory = NoCategory
    Readers = {r1}
    Limits = {1, 2}
    Offsets = {0, 1, 2}
SYMMETRY Symmetry
INVARIANTS
    SearchTypeOK
    ShownMatchesFilter
    PageFitsTotal
PROPERTY ExactUndisturbed
