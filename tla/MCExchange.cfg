SPECIFICATION MCSpec
CONSTANTS
    Conversations = {k1, k2}
    Tabs = {t1, t2}
    Providers = {p1, p2, p3}
    NoProvider = NoProvider
    PageSize = 1
    Old = 2
    MaxMessages = 4
    Posts = {1, 2, 3}
    TextCriteria = {"search"}
    PickedCriteria = {"category"}
    Meets <- MCMeets
    Limit = 1
    MaxTier = 1
    MaxClock = 2
    MaxLoads = 2
    MaxRetries = 1
    MaxPrompts = 3
    MaxSessions = 1
    Contents = {"a", "b", "bad"}
    Valid = {"a", "b"}
    MaxRequests = 2
    MaxCalls = 3
    Accounts = {qa, fresh}
    TestUsers = {qa, fresh}
    OldUsers = {qa}
    PerTable = 1
    Jobs = {j1, j2}
    SeedPlan <- MCSeedPlan
    Editable <- MCEditable
    ActiveRows <- MCActiveRows
    MaxEdits = 2
INVARIANTS
    ExchangeTypeOK
    RenderedOnce
    OneReviewEach
    RatingMissesOnlyOverlaps
    ShownFits
    NoneSkippedOrRepeated
    TurnsSurvive
    PreviewIsTheRow
    InactiveOnlyOvertaken
    QuietRunSucceeds
    RunsConverge
PROPERTIES
    ImplementsMarket
    JobsEnd
CHECK_DEADLOCK FALSE
