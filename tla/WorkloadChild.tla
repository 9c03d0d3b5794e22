----------------------------- MODULE WorkloadChild -----------------------------
(***************************************************************************)
(* What the controller of a workload promises of one child it applies, its *)
(* Deployment say, whatever the steps it takes: the child of a workload is *)
(* made once and kept, and goes with the workload.  After a user has       *)
(* deleted a child the promise is weaker, since the controller may then    *)
(* remove the one it has made in its place.                                *)
(*                                                                         *)
(* ContainerizedWorkload implements this specification for each of its     *)
(* three children; ManualScaler relies on it and is shown to leave its     *)
(* safety part intact.                                                     *)
(***************************************************************************)
CONSTANTS
    UIDs,       \* the children there may be
    NoChild     \* there is none

VARIABLES
    exists,     \* is the workload there?
    child,      \* its child
    disturbed   \* has a user deleted a child of the workload?

vars == <<exists, child, disturbed>>

Init == exists = TRUE /\ child = NoChild /\ disturbed = FALSE

\* Also for a workload that has just gone: its controller may not know yet.
CreateChild ==
    /\ child = NoChild
    /\ child' \in UIDs
    /\ UNCHANGED <<exists, disturbed>>

\* cleanupResources: only after a user's deletion.
RemoveChild ==
    /\ disturbed
    /\ child # NoChild /\ child' = NoChild
    /\ UNCHANGED <<exists, disturbed>>

\* Any child of the workload.
UserDeletes ==
    /\ disturbed' = TRUE
    /\ child' \in {child, NoChild}
    /\ UNCHANGED exists

DeleteWorkload ==
    /\ exists' = FALSE
    /\ UNCHANGED <<child, disturbed>>

\* Kubernetes removes the child of an owner that is gone.
CollectChild ==
    /\ ~exists
    /\ child # NoChild /\ child' = NoChild
    /\ UNCHANGED <<exists, disturbed>>

Next == CreateChild \/ RemoveChild \/ UserDeletes \/ DeleteWorkload \/ CollectChild

\* The safety part.
SafeSpec == Init /\ [][Next]_vars

\* A workload that is gone has no child in the end, and for good.
ChildGoes == ~exists ~> [](child = NoChild)

Spec == SafeSpec /\ ChildGoes
================================================================================
