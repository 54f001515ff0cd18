SPECIFICATION ServSpec
CONSTANTS
    RowKeys = {k1, k2}
    Inserts = FALSE
    MaxWritten = 2
    MaxOutages = 2
    Routes <- TwoRoutes
    Fallback = "gemini"
    Names = {"search", "read"}
    MaxTurns = 2
    MaxCalls = 2
    Candidates = {1, 2, 3}
    Results = {1, 2}
    Confirms = TRUE
    MaxStatements = 2
    MwCalls = {c1, c2}
    Interval = 2
    OwnBudget = 1
    MaxTime = 5
    ToolNames = {"a", "b"}
    Pinned = {"b"}
    TopK = 1
    Selecting = {s1, s2}
    MaxRegistered = 4
    MaxRefreshes = 2
    EvalTasks = {"a"}
    EvalTrials = 2
    EvalTurns = 1
    Concurrency = 2
    AllTrials = TRUE
    Samples = 2
    MaxEvents = 2
    Queries = {"a", "b", "c"}
    Similar <- SimilarQueries
    MaxEntries = 2
    Ttl = 2
    Callers = {g1, g2}
    MaxNow = 4
    Answers = {"a", "b", "c"}
    Scores = {1, 2}
    MaxRounds = 3
    Spenders = {"r1", "r2"}
    SessionOf <- OneSession
    Budget = 1
    MaxUse = 1
    Price = 1
    Passes = 1
    MaxAttempts = 2
    MaxRewinds = 1
    MaxForwarded = 2
    ToolCalls = {"c1", "c2", "c3", "c4"}
    KeyOf <- SessionKeys
    NoSession = "none"
    MemKeyNames = {"m"}
    MaxTasks = 2
INVARIANTS
    SavedIsLoaded
    ReplyStandsOnVote
    StreamIsTruthful
    ReplayAgrees
    MiddlewareIsFair
    CacheIsOne
    KeptIsBest
    OverrunIsBounded
    ShownListIsCurrent
PROPERTY LookupsAreCurrent
CHECK_DEADLOCK FALSE
