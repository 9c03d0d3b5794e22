SPECIFICATION FairSpec
CONSTANTS
    Specs = {s1, s2}
    UIDs = {u1, u2, u3, u4, u5, u6, u7}
    NoChild = NoChild
    MaxEvents = 2
CHECK_DEADLOCK FALSE
INVARIANTS ChildrenInv
PROPERTIES ImplementsWorkloadChild ChildrenFollow
