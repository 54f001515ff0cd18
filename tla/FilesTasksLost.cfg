SPECIFICATION Spec
CONSTANTS
    Keys <- OneKey
    Clients <- OneClient
    MaxWrites = 1
    MaxEvents = 1
INVARIANT TasksAreKept
CHECK_DEADLOCK FALSE
