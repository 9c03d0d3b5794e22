\* Chains, stores, cycles and missing outputs, under all flags.
SPECIFICATION FairSpec
CONSTANTS
    a = a
    b = b
    c = c
    s1 = s1
    x = x
    y = y
    v = v
    w = w
    Empty = Empty
    Absent = Absent
    NoPath = NoPath
    NoStore = NoStore
    NoOutput = NoOutput
    Objects = {a, b, c}
    Stores = {s1}
    Outputs = {x, y}
    Fields = {"out"}
    Vals = {Empty, v, w}
    Apps <- AllApps
    FlagSets <- AllFlags
    MaxChanges = 3
    MaxEdits = 1
    MaxFaults = 1
CHECK_DEADLOCK FALSE
INVARIANTS DependencyInv FilledAsOffered WaitingReported
PROPERTIES AllApplied ChangesFollowed
