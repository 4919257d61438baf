SPECIFICATION Spec
CONSTANTS
    Sid = {s1, s2, s3}
    None = None
    MaxKills = 1
    MaxRounds = 2
    MaxAsked = 1
SYMMETRY Symmetry
CONSTRAINT HitsBetweenTwo
INVARIANTS
    NobodyOverpaid
    StatsMatchLog
    RoundsNumbered
PROPERTY VotedOutIsOut
CHECK_DEADLOCK FALSE
