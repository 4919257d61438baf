SPECIFICATION MCSpec
CONSTANTS
    Conn = {c1, c2, c3, c4}
    MaxId = 3
    None = None
    Account = {a1}
    FrontId = {i1, i2}
    Player = {p1}
    MaxLogins = 3
    PartyMember = {s1, s2, s3}
    Party = {q1, q2}
    MaxMembers = 2
    Watcher = {s3}
    Room = {r1}
    Breaker = {b1, b2}
    MaxLink = 3
    PlazaSid = {s1, s2}
    MaxPlaza = 1
    MaxPlayers = 1
    Nowhere = Nowhere
    NoPlaza = NoPlaza
    Aid = {a1, a2}
    MaxTasks = 2
    NoAccount = NoAccount
    MaxMail = 1
    MaxMailLogins = 4
SYMMETRY Symmetry
INVARIANTS
    TypesOK
    FreshIds
    OpenSessionsListed
    AccountsOwned
    OwnKey
    NobodyBlocks
    LeaderIsListed
    OwnPartyListsMe
    RoomsMirrored
    InPlazaIsListed
    OneSidedBlock
    NoMailMissing
CHECK_DEADLOCK FALSE
