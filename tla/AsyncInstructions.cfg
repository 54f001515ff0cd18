SPECIFICATION Spec
CONSTANTS
    Tasks <- TwoTasks
    Clients <- OneClient
    Caps <- NoneOrOne
    Buffer = 1
    MaxIters = 2
    MaxEvents = 1
PROPERTIES InstructionsDelivered
CHECK_DEADLOCK FALSE
