SPECIFICATION Spec
CONSTANTS
    Player = {p1, p2}
    Staff = {}
    RoomId = {r1}
    None = None
    Limits = {2}
    MaxObservers = 1
INVARIANTS
    MatchOverWhenNobodyPlays
