SPECIFICATION AlgSpec
CONSTANTS
    IDs = {a, b, c}
    MaxCalls = 3
    MaxRefs = 2
    Tools = {t, u}
    Args = {x, y}
    Results = {r}
    Workers = 2
    MaxRecent = 3
    WarnAt = 2
    KillAt = 3
    MaxLogged = 4
    None = None
    NotRun = NotRun
    Refused = Refused
    NExpected = 3
    NActual = 3
    Words <- Tokens
    MaxTokens = 5
    AllowMutations = TRUE
    AllowDDL = FALSE
    AllowSelectStar = FALSE
    MaxRows = 1
    NNames = 2
    TrustOf <- Trusts
    MaxSkills = 2
    MaxCatalog = 3
    SkillDocs <- TwoDocs
    RuleTools = {"t", "u"}
    Globs <- SomeGlobs
    Arguments <- PlainTexts
    MaxRules = 2
    MemKeys = {k1, k2}
    Trigger = 2
    Gap = 1
    MaxSaid = 3
INVARIANTS
    WavesAreLayers CycleVerdictExact
    FinalRepeatsAreKilled
    CreditIsEarned
    ReadsAreLimited
    SkillsAreAccounted
    DecisionsFollowMeaning
    ProfilesMatchSessions
PROPERTY SeedMatchesLive
CHECK_DEADLOCK FALSE
