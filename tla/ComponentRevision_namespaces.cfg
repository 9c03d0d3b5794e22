\* A component of the same name in two namespaces.
SPECIFICATION Spec
CONSTANTS
    n1 = n1
    n2 = n2
    a1 = a1
    a2 = a2
    Namespaces = {n1, n2}
    Specs = {s1, s2}
    AppConfigs = {a1}
    NamespaceOf <- AllInFirst
    AppConfigSpecs <- Unlisted
    RevisionLimit = 1
    LongWait = TRUE
    MaxRV = 3
    MaxStale = 0
    MaxFaults = 0
INVARIANT PublishedRevisionHeld
