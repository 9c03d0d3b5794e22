SPECIFICATION FairSpec
CONSTANTS
    cw = cw
    dep = dep
    svc = svc
    set1 = set1
    set2 = set2
    job = job
    NoLabels = NoLabels
    Objects = {cw, dep, svc, set1, set2, job}
    Kind <- MCKind
    Children <- MCChildren
    Component <- MCComponent
    Worlds <- MCWorlds
    RefSets <- MCRefSets
    MaxChanges = 1
    MaxEdits = 1
    MaxFaults = 1
CHECK_DEADLOCK FALSE
INVARIANTS ProbeInv HealthyAtSomeTime TruthFound SummaryAgrees
PROPERTIES StatusIsOfTheseRefs StatusFollows
