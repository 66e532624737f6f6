CONSTANTS
    j1 = j1
    j2 = j2
    j3 = j3
    k = k
    None = None
    Jobs = {j1, j2, j3}
    Workers = {w1, w2}
    Keys = {k}
    KeyOf <- MCKeyOf
    PriorityOf <- MCPriorityOf
    Handled = {j1}
    MaxAttempts = 2
    MaxCrashes = 2
    MaxStalls = 1
    MaxDbErrors = 1
SPECIFICATION MCSpec
INVARIANT ExclusiveWork
PROPERTY SettledIsFinal
PROPERTY ImplementsLifecycle
PROPERTY LeaseIsTemporary
PROPERTY JobsComeToRest
