CONSTANTS
    Autos = {a}
    Steps = {1, 2}
    Batch = 1
    CronRoute = FALSE
    MaxAttempts = 2
    Horizon = 2
    MaxTroubles = 0
    MaxEdits = 0
SPECIFICATION AutoFairSpec
PROPERTY DueSlotIsDispatched
CHECK_DEADLOCK FALSE
