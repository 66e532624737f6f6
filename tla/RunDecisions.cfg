CONSTANTS
    a = a
    q = q
    n = n
    Approvals = {a}
    Questions = {q}
    Nested = {n}
    MaxRunErrors = 1
    MaxCrashes = 1
SPECIFICATION MCSpec
CHECK_DEADLOCK FALSE
INVARIANT OnlyApprovedToolsRun
INVARIANT NothingLeftPending
INVARIANT EveryApprovalIsAnswerable
PROPERTY EveryWaitEnds
PROPERTY RunIsReleased
