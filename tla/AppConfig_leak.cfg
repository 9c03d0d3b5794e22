SPECIFICATION Spec
CONSTANTS
    w1 = w1
    w2 = w2
    t1 = t1
    s1 = s1
    s2 = s2
    Foreign = Foreign
    Workloads = {w1, w2}
    Traits = {t1}
    Scopes = {s1}
    AppSpecs <- Replaced
    PlainScopes = {}
    RevisionNamed = {}
    LongWait = FALSE
    MaxEdits = 2
    MaxTouches = 0
    MaxFaults = 0
CHECK_DEADLOCK FALSE
INVARIANT NothingLeftBehind
