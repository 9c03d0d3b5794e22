SPECIFICATION FairSpec
CONSTANTS
    Workloads = {w1, w2}
    Direct = {w2}
    Replicas = {1, 2}
    DefaultReplicas = 1
    NoObject = NoObject
    MaxEvents = 3
CHECK_DEADLOCK FALSE
INVARIANTS ScalerInv RestingSuccessIsTrue
PROPERTIES ReplicasFollow KeepsWorkloadChild ChildGoesUnlessScaled
