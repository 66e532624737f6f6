CONSTANTS
    c = c
    d = d
    Convs = {c, d}
    Names = {A, B, E}
    E = E
    u = u
    Topics = {t, u}
    MaxMessages = 2
    MaxAttempts = 2
    MaxReorganizations = 1
    MaxDeletes = 1
    MaxFailures = 1
    MaxCrashes = 1
SPECIFICATION MCSpec
CHECK_DEADLOCK FALSE
INVARIANT MinedOnce
PROPERTY DrawersOutliveMerges
PROPERTY AskedIsMined
