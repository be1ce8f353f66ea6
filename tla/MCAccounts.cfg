SPECIFICATION MCSpec
CONSTANTS
    Handlers = {c1, c2}
    Ttl = 3
    Cooldown = 2
    BlockTime = 1
    MaxSends = 2
    MaxAttempts = 2
    Threshold = 2
    MaxCall = 1
    MaxCodes = 2
    Second = 2
    HourWindow = 4
    HourLimit = 2
    DayWindow = 6
    DayLimit = 3
    MaxClock = 9
    MaxRequests = 6
    GuardTtl = 2
    ListTtl = 2
    ListAge = 1
    MaxRead = 1
    MaxVersion = 3
    MaxKeys = 2
    Owner = owner
    Providers = {p1, p2}
    Pages = {owner, p1}
    MaxActs = 2
    MaxElsewhere = 1
    Calls = {c1, c2}
    MaxSignIns = 2
    MaxRotations = 2
INVARIANTS
    AccountsTypeOK
    OneLiveCode
    TextedCodeWorks
    SpentIsClosed
    LimitHolds
    RetryAfterNeeded
    ChangeTakesEffect
    InvalidationWorks
    NamedFilesExist
    NothingLeftBehind
    StaleOnlyByOthers
    ShownIsTrue
CHECK_DEADLOCK FALSE
