SPECIFICATION Spec
CONSTANTS
    Conn = {c1, c2, c3}
    MaxId = 3
    MaxTries = 1
    None = None
INVARIANTS
    NoAccountWithoutRequest
CHECK_DEADLOCK FALSE
