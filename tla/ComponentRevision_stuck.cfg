\* A component whose edit races the handler, without any fault.
SPECIFICATION FairSpec
CONSTANTS
    n1 = n1
    n2 = n2
    a1 = a1
    a2 = a2
    Namespaces = {n1}
    Specs = {s1, s2}
    AppConfigs = {a1}
    NamespaceOf <- AllInFirst
    AppConfigSpecs <- OnlyByName
    RevisionLimit = 2
    LongWait = TRUE
    MaxRV = 2
    MaxStale = 0
    MaxFaults = 0
PROPERTY CatchesUp
