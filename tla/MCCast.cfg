SPECIFICATION MCSpec
CONSTANTS
    Conn = {c1, c2, c3}
    MaxId = 3
    MaxTries = 1
    None = None
    Plaza = {0, 1}
    First = 0
SYMMETRY Symmetry
INVARIANTS
    TableAgrees
    EmptyGoes
PROPERTY
    ListedInOwnPlaza
CHECK_DEADLOCK FALSE
