SPECIFICATION Spec
CONSTANTS
    Player = {p1, p2}
    Host = p1
    Worker = {w1}
    Kinds = {"MatchStart", "MatchLoaded", "RoundsStart", "MatchEnd", "Join", "VotekickAgree", "CombatStats", "PlazaJoin", "PlazaLeave"}
    MaxBegun = 2
INVARIANT NobodyStuck
CHECK_DEADLOCK FALSE
