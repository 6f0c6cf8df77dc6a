SPECIFICATION RaceSpec
CONSTANTS
    MaxDepth = 2
    MaxId = 2
    Clients = {c1, c2}
    Names = {n1}
    NoParent = NoParent
    Unset = Unset
INVARIANT MissingAnswers404
