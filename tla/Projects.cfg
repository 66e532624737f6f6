CONSTANTS
    p1 = p1
    p2 = p2
    d1 = d1
    d2 = d2
    i1 = i1
    c1 = c1
    c2 = c2
    c3 = c3
    Projects = {p1, p2}
    Conversations = {v}
    Repos = {r}
    Deletes = {d1, d2}
    Imports = {i1}
    Calls = {c1, c2, c3}
    Names = {n}
SYMMETRY CallSymmetry
SPECIFICATION MCSpec
CHECK_DEADLOCK FALSE
INVARIANT FilesFollowRows
INVARIANT CurrentIsNewest
INVARIANT AnswerIsTrue
