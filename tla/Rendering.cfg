SPECIFICATION Spec
CONSTANTS
    TraitKinds = {"rollout", "scaler"}
    RevisionKinds = {"rollout"}
    Unappliable = {}
    WorkloadKind = "workload"
    TraitNames = {"n"}
    NoName = "none"
    Data = {"a", "b"}
    Contents <- SomeContents
    Entries <- SomeEntries
    Webhooks = {TRUE, FALSE}
    NoObject = NoObject
    MaxRevisions = 3
    MaxChanges = 2
    MaxFaults = 1
INVARIANTS CycleInv RevisionImmutable RestIsAsWanted
PROPERTIES OldRevisionKept NoTakeover Settles
