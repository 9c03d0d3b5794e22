SPECIFICATION Spec
CONSTANTS
    Specs = {s1, s2}
    UIDs = {u1, u2, u3, u4, u5, u6, u7}
    NoChild = NoChild
    MaxEvents = 1
CHECK_DEADLOCK FALSE
PROPERTY AppliedChildKept
