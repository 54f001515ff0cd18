SPECIFICATION Spec
CONSTANTS
    MaxCalls = 3
    Scenarios <- AllScenarios
INVARIANTS CallsAreExclusive NoCallForgotten
PROPERTIES CallsRunInTurn WavesEnd
CHECK_DEADLOCK FALSE
