----------------------------- MODULE ManualScaler ------------------------------
(***************************************************************************)
(* The controller of a ManualScalerTrait.  It sets the replica count of    *)
(* the Deployment that another controller keeps for the workload the trait *)
(* refers to, or of the workload itself, and makes the trait a second      *)
(* owner of what it scaled.  It watches the trait only, and reads workload *)
(* and children, and patches them, in calls of their own between which     *)
(* users, the ApplicationConfiguration controller and the workload's       *)
(* controller go on.                                                       *)
(*                                                                         *)
(* What the workload's controller does to the Deployment is WorkloadChild, *)
(* the specification that ContainerizedWorkload implements.                *)
(***************************************************************************)
EXTENDS Integers

CONSTANTS
    Workloads,      \* workloads the trait may refer to, say of two revisions
    Direct,         \* those that have replicas themselves, and no children
    Replicas,       \* replica counts
    DefaultReplicas,\* what Kubernetes gives a Deployment without a count
    NoObject,       \* a Deployment or workload that is not there
    MaxEvents       \* bound: writes by users, failed calls and restarts

ASSUME ScalerAssumption ==
    /\ Direct \subseteq Workloads
    /\ DefaultReplicas \in Replicas
    /\ MaxEvents \in Nat

VARIABLES
    trait,      \* the trait on the API server
    cache,      \* its copy in the controller's cache, and whether it is the current one
    workloads,  \* the workloads that are there
    defined,    \* is there a WorkloadDefinition that lists the kinds of children?
    object,     \* what is to be scaled for each workload: its Deployment or itself
    disturbed,  \* history: has somebody else deleted or scaled it?
    queued,     \* is the trait in the work queue, or to be put there after a while?
    run,        \* its reconciliation under way
    events

vars == <<trait, cache, workloads, defined, object, disturbed, queued, run, events>>
cluster == <<workloads, defined, object, disturbed>>

Conditions == {"none", "success", "noWorkload", "noChildren", "notScaled"}
Owners == {"workload", "trait", "app"}
Trait == [exists : BOOLEAN, replicas : Replicas, workload : Workloads, condition : Conditions]
Object == [replicas : Replicas, owners : SUBSET Owners]
Run == [at : {"idle", "fetch", "list", "scale", "failed", "done"},
        trait : Trait \cup {NoObject}, seen : Object \cup {NoObject}]

ASSUME NoObjectAssumption == NoObject \notin Object

Idle == [at |-> "idle", trait |-> NoObject, seen |-> NoObject]
Fresh == [replicas |-> DefaultReplicas, owners |-> {"workload"}]

\* The object read is that of the workload itself, or found by its owner reference.
Found == run.seen # NoObject

Init ==
    /\ \E w \in Workloads, r \in Replicas :
          trait = [exists |-> TRUE, replicas |-> r, workload |-> w, condition |-> "none"]
    /\ cache = [trait |-> trait, current |-> TRUE]
    /\ workloads = Workloads
    /\ defined \in BOOLEAN
    /\ object = [w \in Workloads |-> IF w \in Direct THEN Fresh ELSE NoObject]
    /\ disturbed = [w \in Workloads |-> FALSE]
    /\ queued = TRUE
    /\ run = Idle
    /\ events = 0

-------------------------------------------------------------------------------
(* The rest of the cluster *)

Event == events < MaxEvents /\ events' = events + 1

\* An API call fails for this reason, or by a fault.
CallFails(reason) == \/ reason /\ UNCHANGED events
                     \/ Event

\* A write of the trait: the cache does not have it yet.
Written(t) ==
    /\ trait' = t
    /\ cache' = [cache EXCEPT !.current = FALSE]

\* The ApplicationConfiguration controller applies the trait with another count or, for a new
\* revision of the component, another workload; or deletes it.
ChangeTrait ==
    /\ trait.exists /\ Event
    /\ \/ \E r \in Replicas \ {trait.replicas} : Written([trait EXCEPT !.replicas = r])
       \/ \E w \in Workloads \ {trait.workload} : Written([trait EXCEPT !.workload = w])
       \/ Written([trait EXCEPT !.exists = FALSE])
    /\ UNCHANGED <<cluster, queued, run>>

DeleteWorkload(w) ==
    /\ w \in workloads /\ Event
    /\ workloads' = workloads \ {w}
    /\ object' = IF w \in Direct THEN [object EXCEPT ![w] = NoObject] ELSE object
    /\ UNCHANGED <<trait, cache, defined, disturbed, queued, run>>

DefineWorkload ==
    /\ ~defined /\ Event
    /\ defined' = TRUE
    /\ UNCHANGED <<trait, cache, workloads, object, disturbed, queued, run>>

\* The workload's controller makes the Deployment (WorkloadChild!CreateChild), not knowing of
\* the trait.
CreateChild(w) ==
    /\ w \in workloads \ Direct
    /\ object[w] = NoObject
    /\ object' = [object EXCEPT ![w] = Fresh]
    /\ UNCHANGED <<trait, cache, workloads, defined, disturbed, queued, run, events>>

\* Somebody deletes or scales the Deployment, or the controller removes it afterwards
\* (WorkloadChild!UserDeletes, WorkloadChild!RemoveChild).
Disturb(w) ==
    /\ object[w] # NoObject /\ Event
    /\ disturbed' = [disturbed EXCEPT ![w] = TRUE]
    /\ \/ w \notin Direct /\ object' = [object EXCEPT ![w] = NoObject]
       \/ \E r \in Replicas : object' = [object EXCEPT ![w].replicas = r]
    /\ UNCHANGED <<trait, cache, workloads, defined, queued, run>>

Alive(owner, w) ==
    \/ owner = "workload" /\ w \in workloads
    \/ owner = "trait" /\ trait.exists
    \/ owner = "app"

\* Kubernetes collects a Deployment none of whose owners is left.
CollectChild(w) ==
    /\ w \notin Direct /\ object[w] # NoObject
    /\ \A o \in object[w].owners : ~Alive(o, w)
    /\ object' = [object EXCEPT ![w] = NoObject]
    /\ UNCHANGED <<trait, cache, workloads, defined, disturbed, queued, run, events>>

\* The watch reports the writes of the trait, those of its status too.
Deliver ==
    /\ ~cache.current
    /\ cache' = [trait |-> trait, current |-> TRUE]
    /\ queued' = TRUE
    /\ UNCHANGED <<trait, cluster, run, events>>

Resync ==
    /\ cache.trait.exists
    /\ queued' = TRUE
    /\ UNCHANGED <<trait, cache, cluster, run, events>>

-------------------------------------------------------------------------------
(* Reconcile *)

Begin ==
    /\ run.at = "idle" /\ queued
    /\ queued' = FALSE
    /\ run' = IF cache.trait.exists
              THEN [at |-> "fetch", trait |-> cache.trait, seen |-> NoObject]
              ELSE run
    /\ UNCHANGED <<trait, cache, cluster, events>>

\* PatchCondition: a patch against the copy the reconciliation has, so nothing is written if
\* that has the condition already.
PatchCondition(condition) ==
    IF condition # run.trait.condition THEN Written([trait EXCEPT !.condition = condition])
    ELSE UNCHANGED <<trait, cache>>

\* Mutant of Fail: does not come again by itself.
FailNoWait(condition) ==
    /\ \/ trait.exists /\ PatchCondition(condition)
       \/ UNCHANGED <<trait, cache>>
    /\ run' = Idle
    /\ UNCHANGED queued

\* The workload or its children cannot be read: the condition is patched, which may fail or
\* miss a trait that is gone, and the trait comes again after 30 seconds in any case.
Fail(condition) ==
    /\ \/ trait.exists /\ PatchCondition(condition)
       \/ UNCHANGED <<trait, cache>>
    /\ run' = Idle
    /\ queued' = TRUE

\* FetchWorkload.
FetchWorkload ==
    /\ run.at = "fetch"
    /\ \/ /\ run.trait.workload \in workloads
          /\ run' = [run EXCEPT !.at = "list",
                        !.seen = IF run.trait.workload \in Direct THEN object[run.trait.workload]
                                 ELSE NoObject]
          /\ UNCHANGED <<trait, cache, queued, events>>
       \/ /\ CallFails(run.trait.workload \notin workloads)
          /\ Fail("noWorkload")
    /\ UNCHANGED cluster

\* FetchWorkloadChildResources: without a definition there are no children, and without
\* children there is the workload itself.
FetchChildren ==
    /\ run.at = "list"
    /\ \/ /\ run' = [run EXCEPT !.at = "scale",
                        !.seen = IF run.trait.workload \notin Direct /\ defined
                                 THEN object[run.trait.workload] ELSE @]
          /\ UNCHANGED <<trait, cache, queued, events>>
       \/ Event /\ Fail("noChildren")
    /\ UNCHANGED cluster

\* Mutant of OwnersPatched: the trait takes the place of the workload.
OwnersReplaced(owners) == {"trait"}

\* Mutant of OwnersPatched: makes the parent of the trait the owner.
OwnersByApp(owners) == owners \cup {"app"}

\* AddOwnerReference: the patch sets the list that was read, with the trait.
OwnersPatched(owners) == owners \cup {"trait"}

\* Mutant of Patched: scales by the count, not to it.
PatchedBy(o) ==
    [replicas |-> run.seen.replicas + run.trait.replicas,
     owners |-> OwnersPatched(run.seen.owners)]

\* A merge patch against the object that was read: what it had already is not written.
Patched(o) ==
    [replicas |-> IF run.seen.replicas = run.trait.replicas THEN o.replicas
                  ELSE run.trait.replicas,
     owners |-> IF OwnersPatched(run.seen.owners) = run.seen.owners THEN o.owners
                ELSE OwnersPatched(run.seen.owners)]

\* Mutant of AfterFailure: no condition is reported.
AfterFailureDone == "done"

\* What follows a failure in scaleResources: it patches the condition and returns no error, so
\* that Reconcile drops the wait and goes on as after a success.
AfterFailure == "failed"

\* scaleResources: nothing found to scale, a failed call, or the patch of the object, which is
\* not there any more or takes effect though its answer may be lost.
ScaleResources ==
    LET w == run.trait.workload
        there == Found /\ object[w] # NoObject
    IN
    /\ run.at = "scale"
    /\ \/ /\ there
          /\ object' = [object EXCEPT ![w] = Patched(@)]
          /\ \/ run' = [run EXCEPT !.at = "done"] /\ UNCHANGED events
             \/ run' = [run EXCEPT !.at = AfterFailure] /\ Event
       \/ /\ CallFails(~there)
          /\ run' = [run EXCEPT !.at = AfterFailure]
          /\ UNCHANGED object
    /\ UNCHANGED <<trait, cache, workloads, defined, disturbed, queued>>

\* The conditions that end a reconciliation; an error of the patch is returned and retried.  The
\* copy of the trait that scaleResources works on shares its list of conditions with Reconcile's.
ReportFailure ==
    /\ run.at = "failed"
    /\ \/ /\ trait.exists
          /\ PatchCondition("notScaled")
          /\ run' = [run EXCEPT !.at = "done", !.trait.condition = "notScaled"]
          /\ UNCHANGED <<queued, events>>
       \/ /\ CallFails(~trait.exists)
          /\ run' = Idle /\ queued' = TRUE
          /\ UNCHANGED <<trait, cache>>
    /\ UNCHANGED cluster

ReportSuccess ==
    /\ run.at = "done"
    /\ run' = Idle
    /\ \/ trait.exists /\ PatchCondition("success") /\ UNCHANGED <<queued, events>>
       \/ /\ CallFails(~trait.exists)
          /\ queued' = TRUE
          /\ UNCHANGED <<trait, cache>>
    /\ UNCHANGED cluster

Control ==
    \/ Begin
    \/ FetchWorkload \/ FetchChildren
    \/ ScaleResources
    \/ ReportFailure \/ ReportSuccess

\* The controller stops at any time; on its start the cache is filled and the trait queued.
Restart ==
    /\ Event
    /\ run' = Idle
    /\ cache' = [trait |-> trait, current |-> TRUE]
    /\ queued' = TRUE
    /\ UNCHANGED <<trait, cluster>>

Next ==
    \/ ChangeTrait
    \/ \E w \in Workloads : DeleteWorkload(w) \/ CreateChild(w) \/ Disturb(w) \/ CollectChild(w)
    \/ DefineWorkload
    \/ Deliver \/ Resync
    \/ Control \/ Restart

Spec == Init /\ [][Next]_vars

\* The worker, the watch, the workload's controller and the garbage collector go on.
FairSpec ==
    /\ Spec
    /\ WF_vars(Control) /\ WF_vars(Deliver)
    /\ \A w \in Workloads : WF_vars(CreateChild(w) \/ CollectChild(w))

-------------------------------------------------------------------------------
(* Properties *)

\* The type of every variable.
TypeOK ==
    /\ trait \in Trait
    /\ cache \in [trait : Trait, current : BOOLEAN]
    /\ workloads \subseteq Workloads
    /\ defined \in BOOLEAN
    /\ object \in [Workloads -> Object \cup {NoObject}]
    /\ disturbed \in [Workloads -> BOOLEAN]
    /\ queued \in BOOLEAN
    /\ run \in Run
    /\ events \in 0..MaxEvents

\* What the trait refers to has the replicas it asks for.
Scaled == object[trait.workload] # NoObject /\ object[trait.workload].replicas = trait.replicas

\* Reconcile reports success also when scaleResources has failed or found nothing to scale
\* (lines 127 to 135), but a success it has come to rest on is true: the condition of the
\* failure was written before, and the event of that write brings the trait again, until the
\* Deployment is there, unless somebody else deletes or scales it.
RestingSuccessIsTrue ==
    /\ run.at = "idle" /\ ~queued /\ cache.current
    /\ trait.exists /\ trait.condition = "success"
    /\ trait.workload \in workloads /\ ~disturbed[trait.workload]
    => Scaled

\* Why it is so.  Unless an event is on its way, a reconciliation works on the trait as it is; a
\* Deployment lives with its workload, who owns it whatever is patched; and as long as nobody
\* disturbs it, it is as it was read.
RunInv ==
    /\ cache.current => cache.trait = trait
    /\ run.at # "idle" =>
          /\ run.trait \in Trait
          /\ ~queued /\ cache.current => run.trait = trait
OwnerInv ==
    /\ \A w \in Workloads : object[w] # NoObject => "workload" \in object[w].owners
    /\ run.seen # NoObject => "workload" \in run.seen.owners
Untouched(w) == w \in workloads /\ ~disturbed[w]
SeenInv ==
    run.at \in {"list", "scale"} /\ run.seen # NoObject /\ Untouched(run.trait.workload) =>
        /\ object[run.trait.workload] # NoObject
        /\ object[run.trait.workload].replicas = run.seen.replicas

\* A reconciliation that will not write its success has scaled.
DoneInv ==
    run.at = "done" /\ run.trait.condition = "success" /\ Untouched(run.trait.workload) =>
        /\ object[run.trait.workload] # NoObject
        /\ object[run.trait.workload].replicas = run.trait.replicas

\* The inductive invariant.
ScalerInv ==
    /\ TypeOK
    /\ RunInv /\ OwnerInv
    /\ SeenInv /\ DoneInv
    /\ RestingSuccessIsTrue

\* The replicas follow the trait, whatever the order in which trait, workload, definition and
\* Deployment come and change, and whatever call fails.  A Deployment that was deleted and
\* made anew, or scaled by somebody else, is noticed by the informer's resync only: the
\* controller watches nothing but the trait (SetupWithManager).
ReplicasFollow ==
    WF_vars(Resync) \/ [](\A w \in Workloads : ~disturbed[w]) =>
        <>[](/\ trait.exists /\ trait.workload \in workloads
             /\ trait.workload \in Direct \/ defined
             => Scaled)

\* The Deployment of a workload as its controller's specification sees it.
ChildOf(w) == INSTANCE WorkloadChild
                  WITH UIDs <- {w}, NoChild <- NoObject,
                       exists <- w \in workloads,
                       child <- IF object[w] = NoObject THEN NoObject ELSE w,
                       disturbed <- disturbed[w]

\* Patching and owning a Deployment, in any interleaving, does not break what its controller
\* promises of it: no patch makes one anew, and none is lost with the trait as long as its
\* workload is there (scaleResources, AddOwnerReference).
KeepsWorkloadChild ==
    [][\A w \in Workloads \ Direct : [ChildOf(w)!Next]_(ChildOf(w)!vars)]_vars

\* The promise that the Deployment goes with its workload (WorkloadChild!ChildGoes) is kept up
\* to the second owner: it stays only if the trait has scaled it and is still there, although
\* it may long refer to another workload.
ChildGoesUnlessScaled ==
    <>[](\A w \in Workloads : w \notin workloads /\ object[w] # NoObject
            => trait.exists /\ "trait" \in object[w].owners)
===============================================================================
