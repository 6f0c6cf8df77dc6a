SPECIFICATION RaceSpec
CONSTANTS
    MaxDepth = 2
    MaxId = 3
    Clients = {c1, c2}
    Names = {n1, n2}
    NoParent = NoParent
    Unset = Unset
SYMMETRY Symmetry
CONSTRAINT TwoNamesBound
INVARIANTS
    TypeOK
    ParentsPresent
    SiblingNamesUnique
    AcyclicUnlessRaced
    SubtreeQueriesEnd
    DepthKeptUnlessRaced
PROPERTIES
    PatchKeepsOtherFields
    DeletedStaysDeleted
    EveryChangeInvalidates
    AsIfAloneUnlessOvertaken
