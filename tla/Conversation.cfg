CONSTANTS
    r1 = r1
    r2 = r2
    r3 = r3
    s1 = s1
    s2 = s2
    Requests = {r1, r2, r3}
    Regenerations = {r2}
    Flaky = {r1}
    Switches = {s1, s2}
    Agents = {A, B}
    Default = A
    MaxAttempts = 2
    Millisecond = 3
    MaxGap = 2
    MaxTruncations = 2
    MaxCrashes = 1
    NoRun = NoRun
SPECIFICATION MCSpec
CHECK_DEADLOCK FALSE
INVARIANT TurnReadsAsOne
INVARIANT TotalsAddUp
INVARIANT LastAnchorNamesTheAgent
PROPERTY EditKeepsWhatCameBefore
PROPERTY EveryRunIsFinished
