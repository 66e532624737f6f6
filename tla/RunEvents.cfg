CONSTANTS
    Script = {n1, n2}
    Rounds = 2
    Deltas = {1}
    MaxResumes = 3
    MaxDrops = 2
    MaxDbErrors = 1
    MaxCrashes = 1
SPECIFICATION MCSpec
CHECK_DEADLOCK FALSE
INVARIANT LogIsGapless
INVARIANT ReplayIsExact
PROPERTY ClosesCaughtUp
PROPERTY StreamEnds
