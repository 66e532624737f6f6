CONSTANTS
    e1 = e1
    e2 = e2
    q1 = q1
    q2 = q2
    q3 = q3
    Emits = {e1, e2}
    Hooks = {h}
    OptIn = {}
    Bound = {s}
    Requests = {q1, q2, q3}
    Warn = 1
    Limit = 1
    MaxPeriods = 2
    MaxResolved = 1
    MaxDbErrors = 1
SPECIFICATION MCSpec
CHECK_DEADLOCK FALSE
INVARIANT ReportReachesOperator
INVARIANT OneItemUnlessRaced
INVARIANT LimitIsKept
