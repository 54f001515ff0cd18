SPECIFICATION Spec
CONSTANTS
    MaxIters = 2
    MaxPerSession = 2
    MaxRetries = 1
    MaxCalls = 2
    Speculates = TRUE
    MaxRuns = 2
    MaxFaults = 1
INVARIANTS OneDurableEnd RequestsBalanced AttemptsAreIsolated
PROPERTIES KeepsTranscript RunEnds
CHECK_DEADLOCK FALSE
