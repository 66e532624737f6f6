CONSTANTS
    Autos = {a}
    Steps = {1}
    Batch = 1
    CronRoute = TRUE
    MaxAttempts = 2
    Horizon = 2
    MaxTroubles = 1
    MaxEdits = 1
SPECIFICATION AutoFairSpec
CHECK_DEADLOCK FALSE
INVARIANT SlotIsServedOnce
PROPERTY UsesQueueAsPromised
PROPERTY DueSlotIsServed
