------------------------- MODULE ContainerizedWorkload -------------------------
(***************************************************************************)
(* The controller of a ContainerizedWorkload.  It applies a Deployment, a  *)
(* ConfigMap and a Service for the workload, removes children its status   *)
(* lists that are not the ones it applied, and records the new ones.  It   *)
(* reads the workload, and the children it is about to remove, from caches *)
(* that lag behind the API server.  Users edit and delete the workload,    *)
(* and delete children.                                                    *)
(***************************************************************************)
EXTENDS Integers, Sequences

CONSTANTS
    Specs,         \* contents of the spec of the workload
    UIDs,          \* UIDs of children
    NoChild,       \* a child that does not exist
    MaxEvents      \* bound: edits and deletions by users, failed API calls and restarts

ASSUME BoundAssumption == MaxEvents \in Nat

\* There is always another UID: no more than six are referred to at a time.
ASSUME UIDsAssumption ==
    \A a, b, c, d, e, f \in UIDs \cup {NoChild} : \E u \in UIDs : u \notin {a, b, c, d, e, f}

VARIABLES
    workload,   \* the stored workload: its spec and status
    deploy,     \* the Deployment
    service,    \* the Service
    configMap,  \* the ConfigMap, owned by a Deployment
    cache,      \* what the caches hold of the workload and of the UIDs of its children
    queued,     \* is the workload in the work queue, or to be put there after a while?
    run,        \* its reconciliation under way
    deleted,    \* history: has a user deleted a child?
    events

vars == <<workload, deploy, service, configMap, cache, queued, run, deleted, events>>
children == <<deploy, service, configMap>>
bounds == <<deleted, events>>

Conditions == {"none", "error", "success"}
Deployment == [uid : UIDs, spec : Specs]
Service == [uid : UIDs, spec : Specs]
ConfigMap == [owner : UIDs, spec : Specs]
Resources == {<<>>} \cup UIDs \X UIDs
Workload == [exists : BOOLEAN, spec : Specs, resources : Resources, condition : Conditions]
Cache == [exists : BOOLEAN, spec : Specs, resources : Resources, current : BOOLEAN,
          deploy : UIDs \cup {NoChild}, service : UIDs \cup {NoChild}]
Run == [at : {"idle", "deploy", "configMap", "service", "cleanDeploy", "cleanService", "status"},
        spec : Specs, resources : Resources, current : BOOLEAN,
        deploy : UIDs \cup {NoChild}, service : UIDs \cup {NoChild}]

ASSUME ChildrenAssumption == NoChild \notin UIDs \cup Deployment \cup Service \cup ConfigMap

UIDOf(child) == IF child = NoChild THEN NoChild ELSE child.uid

Idle == [at |-> "idle", spec |-> CHOOSE s \in Specs : TRUE, resources |-> <<>>,
         current |-> FALSE, deploy |-> NoChild, service |-> NoChild]

Init ==
    /\ \E s \in Specs :
          /\ workload = [exists |-> TRUE, spec |-> s, resources |-> <<>>, condition |-> "none"]
          /\ cache = [exists |-> TRUE, spec |-> s, resources |-> <<>>, current |-> TRUE,
                      deploy |-> NoChild, service |-> NoChild]
    /\ deploy = NoChild /\ service = NoChild /\ configMap = NoChild
    /\ queued = TRUE
    /\ run = Idle
    /\ deleted = FALSE /\ events = 0

-------------------------------------------------------------------------------
(***************************************************************************)
(* Users, caches, and the garbage collector of Kubernetes.                 *)
(***************************************************************************)

Event == events < MaxEvents /\ events' = events + 1

\* A write of the workload: copies read before it have an old resource version.
Written(w) ==
    /\ workload' = w
    /\ cache' = [cache EXCEPT !.current = FALSE]

EditWorkload ==
    /\ workload.exists /\ Event
    /\ \/ \E s \in Specs \ {workload.spec} : Written([workload EXCEPT !.spec = s])
       \/ Written([workload EXCEPT !.exists = FALSE])
    /\ run' = [run EXCEPT !.current = FALSE]
    /\ UNCHANGED <<children, queued, deleted>>

\* (Nothing else disturbs the system afterwards: it uses up the bound.)
DeleteChild ==
    /\ events < MaxEvents /\ events' = MaxEvents
    /\ deleted' = TRUE
    /\ \/ deploy # NoChild /\ deploy' = NoChild /\ UNCHANGED <<service, configMap>>
       \/ service # NoChild /\ service' = NoChild /\ UNCHANGED <<deploy, configMap>>
    /\ UNCHANGED <<workload, cache, queued, run>>

\* Children whose owner is gone go as well: the workload owns the Deployment and the
\* Service, the Deployment the ConfigMap.
CollectGarbage ==
    /\ \/ ~workload.exists /\ deploy # NoChild /\ deploy' = NoChild
          /\ UNCHANGED <<service, configMap>>
       \/ ~workload.exists /\ service # NoChild /\ service' = NoChild
          /\ UNCHANGED <<deploy, configMap>>
       \/ /\ configMap # NoChild /\ configMap.owner # UIDOf(deploy)
          /\ configMap' = NoChild
          /\ UNCHANGED <<deploy, service>>
    /\ UNCHANGED <<workload, cache, queued, run, bounds>>

\* The watch of the workload reports a write of it.
WorkloadSync ==
    /\ ~cache.current
    /\ cache' = [cache EXCEPT !.exists = workload.exists, !.spec = workload.spec,
                              !.resources = workload.resources, !.current = TRUE]
    /\ queued' = TRUE
    /\ UNCHANGED <<workload, children, run, bounds>>

\* A child was deleted and created again: the deletion is reported first.
Seen(cachedUID, child) ==
    IF cachedUID # NoChild /\ cachedUID # UIDOf(child) THEN NoChild ELSE UIDOf(child)

\* The watches of children report creations and deletions.
ChildSync ==
    /\ \/ cache.deploy # UIDOf(deploy) /\ cache' = [cache EXCEPT !.deploy = Seen(@, deploy)]
       \/ cache.service # UIDOf(service) /\ cache' = [cache EXCEPT !.service = Seen(@, service)]
    /\ queued' = TRUE
    /\ UNCHANGED <<workload, children, run, bounds>>

-------------------------------------------------------------------------------
(***************************************************************************)
(* The controller of the workload.                                         *)
(***************************************************************************)

\* A UID nothing refers to: UIDs are only compared, those of each kind by themselves.
Recorded(i) == {r[i] : r \in {workload.resources, cache.resources, run.resources} \ {<<>>}}
Unused(used) == CHOOSE u \in UIDs : u \notin used
NewDeployUID ==
    Unused({cache.deploy, run.deploy} \cup Recorded(1)
           \cup (IF configMap = NoChild THEN {} ELSE {configMap.owner}))
NewServiceUID == Unused({cache.service, run.service} \cup Recorded(2))

\* Get the workload from the cache; nothing more to do if it is gone.
Reconcile ==
    /\ queued /\ run.at = "idle"
    /\ queued' = FALSE
    /\ IF cache.exists
       THEN run' = [at |-> "deploy", spec |-> cache.spec, resources |-> cache.resources,
                    current |-> cache.current, deploy |-> NoChild, service |-> NoChild]
       ELSE UNCHANGED run
    /\ UNCHANGED <<workload, children, cache, bounds>>

\* PatchCondition: changes the condition whatever the resource version.
Patched(condition) ==
    IF workload.exists /\ workload.condition # condition
    THEN Written([workload EXCEPT !.condition = condition])
    ELSE UNCHANGED <<workload, cache>>

\* An error ends the reconciliation: it is recorded and the workload comes again.
Fail ==
    /\ run' = Idle
    /\ Patched("error")
    /\ queued' = TRUE

\* Mutant of Deployed: does not update a Deployment.
DeployedOnce == IF deploy = NoChild THEN [uid |-> NewDeployUID, spec |-> run.spec] ELSE deploy

\* Server-side apply, without a replica count.
Deployed ==
    IF deploy = NoChild THEN [uid |-> NewDeployUID, spec |-> run.spec]
    ELSE [deploy EXCEPT !.spec = run.spec]

\* A change of an existing Deployment brings the workload again: the watch reports new
\* generations.
ApplyDeployment ==
    /\ run.at = "deploy"
    /\ \/ /\ deploy' = Deployed
          /\ run' = [run EXCEPT !.at = "configMap", !.deploy = deploy'.uid]
          /\ queued' = (queued \/ (deploy # NoChild /\ deploy' # deploy))
          /\ UNCHANGED <<workload, cache, events>>
       \/ Event /\ Fail /\ UNCHANGED deploy
    /\ UNCHANGED <<service, configMap, deleted>>

\* The ConfigMap has the Deployment as its controller; the API server refuses a second
\* one while the ConfigMap of an earlier Deployment is still there.
OwnedByAnother == configMap # NoChild /\ configMap.owner # run.deploy

ApplyConfigMap ==
    /\ run.at = "configMap"
    /\ \/ /\ ~OwnedByAnother
          /\ configMap' = [owner |-> run.deploy, spec |-> run.spec]
          /\ run' = [run EXCEPT !.at = "service"]
          /\ UNCHANGED <<workload, cache, queued, events>>
       \/ /\ \/ OwnedByAnother /\ UNCHANGED events
             \/ Event
          /\ Fail /\ UNCHANGED configMap
    /\ UNCHANGED <<deploy, service, deleted>>

ApplyService ==
    /\ run.at = "service"
    /\ \/ /\ service' = IF service = NoChild THEN [uid |-> NewServiceUID, spec |-> run.spec]
                        ELSE [service EXCEPT !.spec = run.spec]
          /\ run' = [run EXCEPT !.at = "cleanDeploy", !.service = service'.uid]
          /\ UNCHANGED <<workload, cache, queued, events>>
       \/ Event /\ Fail /\ UNCHANGED service
    /\ UNCHANGED <<deploy, configMap, deleted>>

\* Mutant of Orphaned: takes a child that is not recorded for an orphan.
OrphanedUnlessRecorded(i, uid) ==
    IF run.resources = <<>> THEN TRUE ELSE run.resources[i] # uid

\* Is the child at this place of status.resources another one than was applied?
Orphaned(i, uid) == run.resources # <<>> /\ run.resources[i] # uid

\* cleanupResources gets the Deployment by its name, from the cache, and deletes it by
\* its name.  An error ends the cleanup; it is only logged.
CleanDeployment ==
    /\ run.at = "cleanDeploy"
    /\ \/ /\ ~Orphaned(1, run.deploy) \/ cache.deploy = NoChild
          /\ run' = [run EXCEPT !.at = "cleanService"]
          /\ UNCHANGED <<deploy, events>>
       \/ /\ Orphaned(1, run.deploy) /\ cache.deploy # NoChild
          /\ deploy # NoChild /\ deploy' = NoChild
          /\ run' = [run EXCEPT !.at = "cleanService"]
          /\ UNCHANGED events
       \/ /\ Orphaned(1, run.deploy) /\ cache.deploy # NoChild
          /\ \/ deploy = NoChild /\ UNCHANGED events
             \/ Event
          /\ run' = [run EXCEPT !.at = "status"]
          /\ UNCHANGED deploy
    /\ UNCHANGED <<workload, service, configMap, cache, queued, deleted>>

\* The same for the Service, the last of the two.
CleanService ==
    /\ run.at = "cleanService"
    /\ run' = [run EXCEPT !.at = "status"]
    /\ \/ /\ Orphaned(2, run.service) /\ cache.service # NoChild
          /\ service' = NoChild /\ UNCHANGED events
       \/ /\ ~Orphaned(2, run.service) \/ cache.service = NoChild
          /\ UNCHANGED <<service, events>>
       \/ /\ Orphaned(2, run.service) /\ cache.service # NoChild
          /\ Event /\ UNCHANGED service
    /\ UNCHANGED <<workload, deploy, configMap, cache, queued, deleted>>

\* Mutant of NewResources: keeps those recorded before.
NewResourcesAppended == run.resources \o <<run.deploy, run.service>>

\* The children to record in the status, in place of those recorded before.
NewResources == <<run.deploy, run.service>>

\* The status update is refused for a workload that has changed.
UpdateStatus ==
    /\ run.at = "status"
    /\ run' = Idle
    /\ LET recorded == [workload EXCEPT !.resources = NewResources]
           done == [recorded EXCEPT !.condition = "success"] IN
       \/ /\ run.current /\ workload.exists
          /\ \/ /\ IF done = workload THEN UNCHANGED <<workload, cache>> ELSE Written(done)
                /\ UNCHANGED <<queued, events>>
             \/ /\ Event
                /\ IF recorded = workload THEN UNCHANGED <<workload, cache>>
                   ELSE Written(recorded)
                /\ queued' = TRUE
       \/ /\ \/ ~(run.current /\ workload.exists) /\ UNCHANGED events
             \/ Event
          /\ queued' = TRUE
          /\ UNCHANGED <<workload, cache>>
    /\ UNCHANGED <<children, deleted>>

Control ==
    \/ Reconcile
    \/ ApplyDeployment \/ ApplyConfigMap \/ ApplyService
    \/ CleanDeployment \/ CleanService
    \/ UpdateStatus

\* The controller stops at any time; on its start the caches are filled and everything is
\* queued.
Restart ==
    /\ Event
    /\ run' = Idle
    /\ queued' = TRUE
    /\ cache' = [exists |-> workload.exists, spec |-> workload.spec,
                 resources |-> workload.resources, current |-> TRUE,
                 deploy |-> UIDOf(deploy), service |-> UIDOf(service)]
    /\ UNCHANGED <<workload, children, deleted>>

Next ==
    \/ EditWorkload \/ DeleteChild
    \/ CollectGarbage \/ WorkloadSync \/ ChildSync
    \/ Control \/ Restart

Spec == Init /\ [][Next]_vars

\* The worker, the watches and the garbage collector go on.
FairSpec ==
    /\ Spec
    /\ WF_vars(Control) /\ WF_vars(WorkloadSync) /\ WF_vars(ChildSync)
    /\ WF_vars(CollectGarbage)

-------------------------------------------------------------------------------
(***************************************************************************)
(* Properties.                                                             *)
(***************************************************************************)

\* The type of every variable: the status lists nothing or one Deployment and one Service,
\* which is what the health scope requires of it (updateChildResourcesCondition).
TypeOK ==
    /\ workload \in Workload
    /\ deploy \in Deployment \cup {NoChild}
    /\ service \in Service \cup {NoChild}
    /\ configMap \in ConfigMap \cup {NoChild}
    /\ cache \in Cache
    /\ queued \in BOOLEAN
    /\ run \in Run
    /\ deleted \in BOOLEAN /\ events \in 0..MaxEvents

\* The children as the abstract specification sees them: a ConfigMap of another Deployment is
\* another ConfigMap.
OwnerOf(map) == IF map = NoChild THEN NoChild ELSE map.owner
DeploymentOf == INSTANCE WorkloadChild
                    WITH exists <- workload.exists, child <- UIDOf(deploy), disturbed <- deleted
ServiceOf == INSTANCE WorkloadChild
                 WITH exists <- workload.exists, child <- UIDOf(service), disturbed <- deleted
ConfigMapOf == INSTANCE WorkloadChild
                   WITH exists <- workload.exists, child <- OwnerOf(configMap),
                        disturbed <- deleted

\* Why they are kept, as long as the workload is there and no user deletes a child: whatever
\* copy of the status it is, it lists no children or those there are ...
ListedInv ==
    workload.exists /\ ~deleted =>
        /\ \A r \in {workload.resources, cache.resources, run.resources} :
              r \in {<<>>, <<UIDOf(deploy), UIDOf(service)>>}
        /\ run.deploy \in {NoChild, UIDOf(deploy)}
        /\ run.service \in {NoChild, UIDOf(service)}
        /\ configMap # NoChild => configMap.owner = UIDOf(deploy)

\* ... and what is recorded and compared is what was applied.
AppliedInv ==
    /\ run.at \notin {"idle", "deploy"} => run.deploy # NoChild
    /\ run.at \in {"cleanDeploy", "cleanService", "status"} => run.service # NoChild

\* The inductive invariant.
ChildrenInv == TypeOK /\ ListedInv /\ AppliedInv

\* The controller implements the safety part of WorkloadChild for its three children: as long
\* as no user deletes one, each is made once and stays the same object, however old what the
\* controller knows is (cleanupResources is for children "that are not the same as the
\* existing", containerizedworkload_controller_helper.go:94).
ImplementsWorkloadChild == DeploymentOf!SafeSpec /\ ServiceOf!SafeSpec /\ ConfigMapOf!SafeSpec

\* cleanupResources never removes what this reconciliation has applied, also after
\* somebody deleted children: it is there to "garbage collect the service/deployments
\* that we created but not needed" (containerizedworkload_controller.go:153).
AppliedChildKept ==
    [][/\ run.at = "cleanDeploy" /\ run'.at # run.at
             => (UIDOf(deploy) = run.deploy => deploy' = deploy)
       /\ run.at = "cleanService" /\ run'.at # run.at
             => (UIDOf(service) = run.service => service' = service)]_vars

\* The children are there as the workload wants them, and recorded in its status, where
\* the health scope looks for them; the ConfigMap goes with the Deployment.
ChildrenRight ==
    /\ deploy # NoChild /\ service # NoChild /\ configMap # NoChild
    /\ deploy.spec = workload.spec /\ service.spec = workload.spec
    /\ configMap = [owner |-> deploy.uid, spec |-> workload.spec]
    /\ workload.resources = <<deploy.uid, service.uid>>

\* The children follow the workload, whatever the order of edits, errors, restarts and
\* watch events, if users leave the children alone.  All go for good with the workload, also
\* those applied by a reconciliation that was under way (SetControllerReference): this is
\* WorkloadChild!ChildGoes of the three in one.
ChildrenFollow ==
    <>[](IF workload.exists THEN deleted \/ ChildrenRight
         ELSE deploy = NoChild /\ service = NoChild /\ configMap = NoChild)
===============================================================================
