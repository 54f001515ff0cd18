SPECIFICATION Spec
CONSTANTS
    Senders <- TwoSenders
    Flushers <- OneFlusher
    BufferSize = 2
    MaxBatch = 2
    MaxAttempts = 2
    MaxSend = 2
    MaxEvents = 3
INVARIANTS NoneLostOrReordered CallsMeanSettled CollectorOrder
PROPERTY EverythingSettles
CHECK_DEADLOCK FALSE
