CONSTANTS
    Table = {"channels", "tokens", "users", "redemptions", "logs"}
    Id = {1, 2, 3}
    Fixed = {1}
    Match = {1, 2}
    PageSize = 2
    MaxRequests = 3
    MaxArrays = 3
    Form = {"channel", "token", "user", "addUser", "redemption"}
    Model = {"m"}
    Custom = {"c"}
    Complete = {"c1"}
    MaxSubmits = 2
    Group = {"general", "emailDomain", "SMTP", "GitHub", "Lark", "WeChat", "Turnstile",
             "monitor", "ratio", "quota", "operation", "Notice", "Footer"}
    MaxEdits = 1
    MaxSaves = 2
    Tab = {t1, t2}
    User = {u1, u2}
    None = None
    MaxLogins = 2
    CodeForm = {"register", "reset", "confirm", "personal"}
    Countdown = 3
    MaxCodes = 3
    Page = {"topup", "limits", "health", "providers", "home", "about", "dashboard"}
    Code = {"k1", "k2"}
    UserGroup = {"default", "basic"}
    Content = {"", "a", "b"}
    Conn <- ChannelSets
    DayUsage <- DayUsages
    Sample <- Samples
    FirstDay = 2
    LastDay = 3
    ItemsPerPage = 2
    RANGE_OPTIONS = {1, 2}
    MaxCalls = 4
    Client = {"dashboard", "store"}
    Preset = {"30d"}
    CustomRange = {"c1"}
    ModelCategory = {"all", "text"}
    ConsumerType = {"user", "group"}
    Admin = TRUE
    CacheTTL = 1
    RefreshEvery = 2
    StaleAfter = 1
    MaxTime = 2
    MaxRefreshes = 2
    UsageRecord <- UsageRecords
    QuotaPerCent = 2
    TopN = 1
    MaxUsage = 2
    Endpoints <- ThreeEndpoints
    ModeOf <- Modes
    Deprecated = {}
    Streams = {"a", "c"}
    MatchScore <- Matches
    MaxSends = 3
    Part = {"modals", "toasts", "theme"}
    Modals = 3
    Themed = {"h1", "h2"}
    MaxToasts = 3
    Lifetime = 2
    CacheAge = 1
    MaxClock = 2
    MaxLoads = 2
    MaxEditions = 1
    LogType = {0, 5}
    MaxLogEdits = 1
    MaxLogCalls = 3
    WeChatOffered = TRUE
    MaxAccountCalls = 3
    BaseLevels <- Levels
SPECIFICATION Spec
INVARIANTS
    FrontendTypeOK
    TablesKnowTheirRows
    FormsSendWhatTheyShould
    SettingsShowTheServer
    SessionIsShown
    PagesShowTheBackend
    LogsAnswerTheirQuery
    AccountIsShown
    DashboardShowsItsQuery
    PackagesCompute
    PanelShowsItsCall
    PageIsKept
    PageHasItsBrand
PROPERTIES
    CodesAreSpaced
CHECK_DEADLOCK FALSE
