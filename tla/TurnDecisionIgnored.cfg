SPECIFICATION Spec
CONSTANTS
    MaxCalls = 2
    Scenarios <- ResumedScenarios
INVARIANT DecisionsHonoured
CHECK_DEADLOCK FALSE
