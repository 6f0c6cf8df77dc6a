SPECIFICATION Spec
CONSTANTS
    Clients = {c1, c2}
    Ids = {1, 2}
    Skus = {s1, s2}
    Prices = {p1, p2}
    Categories = {k1}
    NoCategory = NoCategory
    Null = Null
    Unset = Unset
SYMMETRY Symmetry
INVARIANTS
    TypeOK
    SkusUnique
    CategoriesExist
PROPERTIES
    OmittedFieldsKept
    ImplementsTable
