SPECIFICATION SessSpec
CONSTANTS
    Window = 2
    Budget = 8
    Compacts = TRUE
    MaxMessages = 8
    MaxBulky = 2
    Keys = {"k1", "k2"}
    Clients = {"c1"}
    MaxWrites = 2
    MaxEvents = 2
    Scopes = {s1}
    NTurns = 2
    MinRuns = 1
    MaxNotes = 1
    MaxLoaded = 1
    MaxPerScope = 2
    MaxEnded = 3
    MaxPuts = 1
INVARIANTS
    RequestStandsForHistory
    SummaryIsGapless
    FilesKeepPromises
    MemoryIsKept
PROPERTY ImplementsStore
CHECK_DEADLOCK FALSE
