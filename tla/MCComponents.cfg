SPECIFICATION MCSpec
CONSTANTS
    Player = {p1, p2}
    Host = p1
    Worker = {w1, w2}
    Kinds = {"MatchStart", "RoundsStart", "Command", "PlazaLeave", "AccountChanged"}
    MaxBegun = 3
    Message = {m1, m2, m3}
    MaxSessions = 3
    MaxPending = 3
    Sid = {v1, v2}
    MaxTick = 2
    EntryLen = {2, 3}
    MaxEntriesLen = 4
    MaxSamples = 2
    MaxChallenges = 4
    MaxRetries = 3
    MaxTimers = 3
INVARIANTS
    SentInOrder
PROPERTIES
    EveryoneReturns
    EverythingSent
    Reconnects
    NeverBackwards
    LatestShown
    KeepsChallenging
    SilentIsDropped
CHECK_DEADLOCK FALSE
