SPECIFICATION UsersSpec
CONSTANTS
    w1 = w1
    w2 = w2
    t1 = t1
    s1 = s1
    s2 = s2
    Foreign = Foreign
    Workloads = {w1, w2}
    Traits = {t1}
    Scopes = {s1, s2}
    AppSpecs <- Moving
    PlainScopes = {s2}
    RevisionNamed = {w2}
    LongWait = FALSE
    MaxEdits = 2
    MaxTouches = 1
    MaxFaults = 1
CHECK_DEADLOCK FALSE
INVARIANTS RefHasFinalizer NoDuplicateRefs SuccessMeansApplied PatientInv
    NothingLeftBehindPatient NoDanglingRefPatient
PROPERTY ForeignRefsKept
