SPECIFICATION Spec
CONSTANTS
    Conn = {c1, c2}
    MaxId = 3
    None = None
INVARIANTS
    NoAccountWithoutLogin
CHECK_DEADLOCK FALSE
