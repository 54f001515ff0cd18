SPECIFICATION Spec
CONSTANTS
    Tasks <- TwoTasks
    Clients <- OneClient
    Caps <- NoneOrOne
    Buffer = 1
    MaxIters = 2
    MaxEvents = 1
INVARIANTS WorkersAreAccounted RowsTellTheTruth
PROPERTY CancelledWorkersEnd
CHECK_DEADLOCK FALSE
