SPECIFICATION Spec
CONSTANTS
    Player = {p1, p2, p3}
    Staff = {p3}
    RoomId = {r1, r2}
    None = None
    Limits = {2, 3}
    MaxObservers = 1
SYMMETRY Symmetry
CONSTRAINT OneRoomOrTwoPlayers
INVARIANTS
    ListedAreSeated
    HostPresent
    ListsFitMode
    NoStrays
PROPERTIES
    SeatedAreListed
    KeepsPromise
    MatchKeepsItsHost
    KickedStayOut
    TeamsWithinLimits
