\* One component, edited and deleted at any time, with cache lag and faults: what
\* ComponentHandler never does, and what it and its requeues eventually achieve.
SPECIFICATION FairSpec
CONSTANTS
    n1 = n1
    n2 = n2
    a1 = a1
    a2 = a2
    Namespaces = {n1}
    Specs = {s1, s2}
    AppConfigs = {a1}
    NamespaceOf <- AllInFirst
    AppConfigSpecs <- NameOrPin
    RevisionLimit = 1
    LongWait = FALSE
    MaxRV = 5
    MaxStale = 2
    MaxFaults = 1
INVARIANTS PublishedRevisionHeld RevisionNameNeverRebound RevisionInv
PROPERTIES PublishedMonotone CatchesUpUnlessUnpublished AppConfigsFollow
