----------------------- MODULE ContainerizedWorkloadProofs -----------------------
(***************************************************************************)
(* For any specs, UIDs and number of disturbances: the controller of a     *)
(* ContainerizedWorkload implements the safety part of WorkloadChild for   *)
(* its Deployment, its Service and its ConfigMap.                          *)
(***************************************************************************)
EXTENDS ContainerizedWorkload, TLAPS

-------------------------------------------------------------------------------
(* The UIDs of new children *)

\* A new Deployment gets a UID that nothing refers to.
LEMMA NewDeployUIDIsNew ==
    ASSUME TypeOK
    PROVE  /\ NewDeployUID \in UIDs
           /\ NewDeployUID \notin {cache.deploy, run.deploy}
<1> DEFINE owner == IF configMap = NoChild THEN NoChild ELSE configMap.owner
           rec(r) == IF r = <<>> THEN NoChild ELSE r[1]
           used == {cache.deploy, run.deploy} \cup Recorded(1)
                   \cup (IF configMap = NoChild THEN {} ELSE {configMap.owner})
<1>1. /\ cache.deploy \in UIDs \cup {NoChild} /\ run.deploy \in UIDs \cup {NoChild}
      /\ owner \in UIDs \cup {NoChild}
      /\ workload.resources \in Resources /\ cache.resources \in Resources
      /\ run.resources \in Resources
  BY DEF TypeOK, Cache, Run, Workload, ConfigMap
<1>2. \A r \in Resources : rec(r) \in UIDs \cup {NoChild}
  BY DEF Resources
<1>3. \E u \in UIDs : u \notin {cache.deploy, run.deploy, owner, rec(workload.resources),
                                rec(cache.resources), rec(run.resources)}
  <2> HIDE DEF owner, rec
  <2> QED
    BY <1>1, <1>2, UIDsAssumption
<1>4. \E u \in UIDs : u \notin used
  BY <1>3 DEF Recorded
<1>5. NewDeployUID = CHOOSE u \in UIDs : u \notin used
  BY DEF NewDeployUID, Unused
<1> HIDE DEF used
<1>6. NewDeployUID \in UIDs /\ NewDeployUID \notin used
  BY <1>4, <1>5
<1> QED
  BY <1>6 DEF used

\* And so does a new Service.
LEMMA NewServiceUIDIsNew ==
    ASSUME TypeOK
    PROVE  /\ NewServiceUID \in UIDs
           /\ NewServiceUID \notin {cache.service, run.service}
<1> DEFINE rec(r) == IF r = <<>> THEN NoChild ELSE r[2]
           used == {cache.service, run.service} \cup Recorded(2)
<1>1. /\ cache.service \in UIDs \cup {NoChild} /\ run.service \in UIDs \cup {NoChild}
      /\ workload.resources \in Resources /\ cache.resources \in Resources
      /\ run.resources \in Resources
  BY DEF TypeOK, Cache, Run, Workload
<1>2. \A r \in Resources : rec(r) \in UIDs \cup {NoChild}
  BY DEF Resources
<1>3. \E u \in UIDs : u \notin {cache.service, run.service, NoChild, rec(workload.resources),
                                rec(cache.resources), rec(run.resources)}
  <2> HIDE DEF rec
  <2> QED
    BY <1>1, <1>2, UIDsAssumption
<1>4. \E u \in UIDs : u \notin used
  BY <1>3 DEF Recorded
<1>5. NewServiceUID = CHOOSE u \in UIDs : u \notin used
  BY DEF NewServiceUID, Unused
<1> HIDE DEF used
<1>6. NewServiceUID \in UIDs /\ NewServiceUID \notin used
  BY <1>4, <1>5
<1> QED
  BY <1>6 DEF used

-------------------------------------------------------------------------------
(* Types of what the actions write *)

\* The UID tells whether a child is there.
LEMMA UIDOfChild ==
    ASSUME NEW c \in Deployment \cup Service \cup {NoChild}
    PROVE  /\ UIDOf(c) \in UIDs \cup {NoChild}
           /\ UIDOf(c) = NoChild <=> c = NoChild
  BY ChildrenAssumption DEF UIDOf, Deployment, Service

\* The reconciliation when nothing is under way.
LEMMA IdleType ==
    ASSUME NEW s \in Specs
    PROVE  Idle \in Run
  BY DEF Idle, Run, Resources

\* A write of the workload.
LEMMA WrittenType ==
    ASSUME TypeOK, NEW w \in Workload, Written(w)
    PROVE  /\ workload' = w /\ cache' \in Cache
           /\ cache'.resources = cache.resources
  BY DEF TypeOK, Written, Cache

\* A patch of the condition.
LEMMA PatchedType ==
    ASSUME TypeOK, NEW c \in Conditions, Patched(c)
    PROVE  /\ workload' \in Workload /\ cache' \in Cache
           /\ workload'.exists = workload.exists
           /\ workload'.resources = workload.resources
           /\ cache'.resources = cache.resources
<1>1. CASE UNCHANGED <<workload, cache>>
  BY <1>1 DEF TypeOK
<1>2. CASE Written([workload EXCEPT !.condition = c])
  <2>1. /\ [workload EXCEPT !.condition = c] \in Workload
        /\ [workload EXCEPT !.condition = c].exists = workload.exists
        /\ [workload EXCEPT !.condition = c].resources = workload.resources
    BY DEF TypeOK, Workload
  <2> QED
    BY <1>2, <2>1, WrittenType
<1> QED
  BY <1>1, <1>2 DEF Patched

\* The end of a reconciliation by an error.
LEMMA FailType ==
    ASSUME TypeOK, Fail
    PROVE  /\ workload' \in Workload /\ cache' \in Cache
           /\ workload'.exists = workload.exists
           /\ workload'.resources = workload.resources
           /\ cache'.resources = cache.resources
           /\ run' = Idle /\ run' \in Run /\ queued' = TRUE
<1>1. "error" \in Conditions
  BY DEF Conditions
<1>2. workload.spec \in Specs
  BY DEF TypeOK, Workload
<1> QED
  BY <1>1, <1>2, PatchedType, IdleType DEF Fail

\* What is applied as the Deployment.
LEMMA DeployedType ==
    ASSUME TypeOK
    PROVE  /\ Deployed \in Deployment /\ Deployed # NoChild
           /\ deploy # NoChild => Deployed.uid = deploy.uid
<1>1. run.spec \in Specs
  BY DEF TypeOK, Run
<1>2. Deployed \in Deployment
  BY <1>1, NewDeployUIDIsNew DEF Deployed, Deployment, TypeOK
<1>3. deploy # NoChild => Deployed.uid = deploy.uid
  BY DEF Deployed, Deployment, TypeOK
<1> QED
  BY <1>2, <1>3, ChildrenAssumption

\* What is applied as the Service.
LEMMA ServedType ==
    ASSUME TypeOK, ApplyService, ~(Fail /\ UNCHANGED service)
    PROVE  /\ service' \in Service /\ service' # NoChild
           /\ service # NoChild => service'.uid = service.uid
<1>1. run.spec \in Specs
  BY DEF TypeOK, Run
<1>2. service' = IF service = NoChild THEN [uid |-> NewServiceUID, spec |-> run.spec]
                 ELSE [service EXCEPT !.spec = run.spec]
  BY DEF ApplyService
<1>3. service' \in Service
  BY <1>1, <1>2, NewServiceUIDIsNew DEF Service, TypeOK
<1>4. service # NoChild => service'.uid = service.uid
  BY <1>2 DEF Service, TypeOK
<1> QED
  BY <1>3, <1>4, ChildrenAssumption

-------------------------------------------------------------------------------
(* The reconciliation's record *)

\* What the steps that go on make of it.
LEMMA RunFields ==
    ASSUME TypeOK
    PROVE  /\ \A a \in {"idle", "deploy", "configMap", "service", "cleanDeploy", "cleanService",
                        "status"} :
                 LET r == [run EXCEPT !.at = a] IN
                 /\ r \in Run /\ r.at = a /\ r.resources = run.resources
                 /\ r.deploy = run.deploy /\ r.service = run.service
           /\ \A u \in UIDs :
                 LET r == [run EXCEPT !.at = "configMap", !.deploy = u] IN
                 /\ r \in Run /\ r.at = "configMap" /\ r.resources = run.resources
                 /\ r.deploy = u /\ r.service = run.service
           /\ \A u \in UIDs :
                 LET r == [run EXCEPT !.at = "cleanDeploy", !.service = u] IN
                 /\ r \in Run /\ r.at = "cleanDeploy" /\ r.resources = run.resources
                 /\ r.deploy = run.deploy /\ r.service = u
  BY DEF TypeOK, Run

-------------------------------------------------------------------------------
(* Each action keeps the invariant *)

\* A reconciliation that stops leaves nothing to be tied to the children.
LEMMA StopStep ==
    ASSUME ChildrenInv, UNCHANGED <<children, deleted>>,
           run' = Idle, run' \in Run, events' \in 0..MaxEvents, queued' \in BOOLEAN,
           workload' \in Workload, cache' \in Cache,
           workload'.exists => workload.exists,
           workload'.exists /\ ~deleted =>
               /\ workload'.resources \in {<<>>, <<UIDOf(deploy), UIDOf(service)>>}
               /\ cache'.resources \in {<<>>, <<UIDOf(deploy), UIDOf(service)>>}
    PROVE  ChildrenInv'
<1>1. TypeOK'
  BY DEF ChildrenInv, TypeOK, children
<1>2. AppliedInv'
  BY DEF AppliedInv, Idle
<1>3. run'.resources = <<>> /\ run'.deploy = NoChild /\ run'.service = NoChild
  BY DEF Idle
<1>4. ListedInv'
  BY <1>3 DEF ChildrenInv, ListedInv, children
<1> QED
  BY <1>1, <1>2, <1>4 DEF ChildrenInv

LEMMA FailStep ==
    ASSUME ChildrenInv, Fail, UNCHANGED <<children, deleted>>, events' \in 0..MaxEvents
    PROVE  ChildrenInv'
<1>1. TypeOK
  BY DEF ChildrenInv
<1>2. /\ workload' \in Workload /\ cache' \in Cache
      /\ workload'.exists = workload.exists
      /\ workload'.resources = workload.resources
      /\ cache'.resources = cache.resources
      /\ run' = Idle /\ run' \in Run /\ queued' = TRUE
  BY <1>1, FailType
<1>3. workload'.exists /\ ~deleted =>
               /\ workload'.resources \in {<<>>, <<UIDOf(deploy), UIDOf(service)>>}
               /\ cache'.resources \in {<<>>, <<UIDOf(deploy), UIDOf(service)>>}
  BY <1>2 DEF ChildrenInv, ListedInv
<1> QED
  BY <1>2, <1>3, StopStep

LEMMA EventType ==
    ASSUME TypeOK, UNCHANGED events \/ Event
    PROVE  events' \in 0..MaxEvents
  BY BoundAssumption DEF TypeOK, Event

LEMMA EditStep ==
    ASSUME ChildrenInv, EditWorkload
    PROVE  ChildrenInv'
<1>0. TypeOK
  BY DEF ChildrenInv
<1>1. \A s \in Specs : /\ [workload EXCEPT !.spec = s] \in Workload
                       /\ [workload EXCEPT !.spec = s].resources = workload.resources
  BY <1>0 DEF TypeOK, Workload
<1>2. /\ [workload EXCEPT !.exists = FALSE] \in Workload
      /\ [workload EXCEPT !.exists = FALSE].resources = workload.resources
  BY <1>0 DEF TypeOK, Workload
<1>3. \E w \in Workload : w.resources = workload.resources /\ Written(w)
  BY <1>1, <1>2 DEF EditWorkload
<1>4. /\ workload' \in Workload /\ workload'.resources = workload.resources
      /\ cache' \in Cache /\ cache'.resources = cache.resources
  BY <1>0, <1>3, WrittenType
<1>5. workload.exists /\ UNCHANGED <<deploy, service, configMap, deleted>>
  BY DEF EditWorkload, children
<1>6. /\ run' \in Run /\ run'.at = run.at /\ run'.resources = run.resources
      /\ run'.deploy = run.deploy /\ run'.service = run.service
  BY <1>0 DEF EditWorkload, TypeOK, Run
<1>7. events' \in 0..MaxEvents
  BY <1>0, EventType DEF EditWorkload
<1>8. TypeOK'
  BY <1>4, <1>5, <1>6, <1>7, <1>0 DEF TypeOK, EditWorkload
<1>9. ListedInv' /\ AppliedInv'
  BY <1>4, <1>5, <1>6 DEF ChildrenInv, ListedInv, AppliedInv
<1> QED
  BY <1>8, <1>9 DEF ChildrenInv

LEMMA DeleteChildStep ==
    ASSUME ChildrenInv, DeleteChild
    PROVE  ChildrenInv'
<1>1. TypeOK'
  BY BoundAssumption DEF ChildrenInv, TypeOK, DeleteChild
<1>2. ListedInv' /\ AppliedInv'
  BY DEF ChildrenInv, ListedInv, AppliedInv, DeleteChild
<1> QED
  BY <1>1, <1>2 DEF ChildrenInv

\* Of a workload that is there only the ConfigMap of another Deployment is collected.
LEMMA CollectStep ==
    ASSUME ChildrenInv, CollectGarbage
    PROVE  ChildrenInv'
<1>1. TypeOK'
  BY DEF ChildrenInv, TypeOK, CollectGarbage, bounds
<1>2. AppliedInv'
  BY DEF ChildrenInv, AppliedInv, CollectGarbage
<1>3. workload.exists => UNCHANGED <<deploy, service>> /\ configMap' = NoChild
  BY DEF CollectGarbage
<1>4. ListedInv'
  BY <1>3 DEF ChildrenInv, ListedInv, CollectGarbage, bounds
<1> QED
  BY <1>1, <1>2, <1>4 DEF ChildrenInv

LEMMA SyncStep ==
    ASSUME ChildrenInv, WorkloadSync \/ ChildSync
    PROVE  ChildrenInv'
<1>0. TypeOK
  BY DEF ChildrenInv
<1>1. UIDOf(deploy) \in UIDs \cup {NoChild} /\ UIDOf(service) \in UIDs \cup {NoChild}
  BY <1>0, UIDOfChild DEF TypeOK
<1>2. Seen(cache.deploy, deploy) \in UIDs \cup {NoChild}
      /\ Seen(cache.service, service) \in UIDs \cup {NoChild}
  BY <1>1 DEF Seen
<1>3. cache' \in Cache /\ cache'.resources \in {cache.resources, workload.resources}
  <2>1. CASE WorkloadSync
    BY <1>0, <2>1 DEF WorkloadSync, TypeOK, Cache, Workload
  <2>2. CASE ChildSync
    BY <1>0, <1>2, <2>2 DEF ChildSync, TypeOK, Cache
  <2> QED
    BY <2>1, <2>2
<1>4. UNCHANGED <<workload, deploy, service, configMap, run, deleted, events>> /\ queued' = TRUE
  BY DEF WorkloadSync, ChildSync, children, bounds
<1>5. TypeOK'
  BY <1>0, <1>3, <1>4 DEF TypeOK
<1>6. ListedInv' /\ AppliedInv'
  BY <1>3, <1>4 DEF ChildrenInv, ListedInv, AppliedInv
<1> QED
  BY <1>5, <1>6 DEF ChildrenInv

LEMMA ReconcileStep ==
    ASSUME ChildrenInv, Reconcile
    PROVE  ChildrenInv'
<1>0. TypeOK
  BY DEF ChildrenInv
<1>1. UNCHANGED <<workload, deploy, service, configMap, cache, deleted, events>> /\ queued' = FALSE
  BY DEF Reconcile, children, bounds
<1>2. CASE UNCHANGED run
  <2>1. TypeOK' /\ ListedInv' /\ AppliedInv'
    BY <1>0, <1>1, <1>2 DEF ChildrenInv, TypeOK, ListedInv, AppliedInv
  <2> QED
    BY <2>1 DEF ChildrenInv
<1>3. CASE run' # run
  <2>1. run' = [at |-> "deploy", spec |-> cache.spec, resources |-> cache.resources,
                current |-> cache.current, deploy |-> NoChild, service |-> NoChild]
    BY <1>3 DEF Reconcile
  <2>2. /\ run' \in Run /\ run'.at = "deploy" /\ run'.resources = cache.resources
        /\ run'.deploy = NoChild /\ run'.service = NoChild
    BY <1>0, <2>1 DEF TypeOK, Run, Cache
  <2>3. TypeOK'
    BY <1>0, <1>1, <2>2 DEF TypeOK
  <2>4. ListedInv' /\ AppliedInv'
    BY <1>1, <2>2 DEF ChildrenInv, ListedInv, AppliedInv
  <2> QED
    BY <2>3, <2>4 DEF ChildrenInv
<1> QED
  BY <1>2, <1>3

\* A Deployment is applied where there is none only if no status lists one.
LEMMA ApplyDeploymentStep ==
    ASSUME ChildrenInv, ApplyDeployment
    PROVE  ChildrenInv'
<1>0. TypeOK
  BY DEF ChildrenInv
<1>1. events' \in 0..MaxEvents
  BY <1>0, EventType DEF ApplyDeployment
<1>2. CASE Fail /\ UNCHANGED deploy
  BY <1>1, <1>2, FailStep DEF ApplyDeployment, children
<1>3. CASE ~(Fail /\ UNCHANGED deploy)
  <2>1. /\ deploy' = Deployed
        /\ run' = [run EXCEPT !.at = "configMap", !.deploy = deploy'.uid]
        /\ queued' = (queued \/ (deploy # NoChild /\ deploy' # deploy))
        /\ UNCHANGED <<workload, cache, service, configMap, deleted>>
    BY <1>3 DEF ApplyDeployment
  <2>2. /\ deploy' \in Deployment /\ deploy' # NoChild /\ deploy'.uid \in UIDs
        /\ deploy # NoChild => deploy'.uid = deploy.uid
    BY <1>0, <2>1, DeployedType DEF Deployment
  <2>3. /\ run' \in Run /\ run'.at = "configMap" /\ run'.resources = run.resources
        /\ run'.deploy = deploy'.uid /\ run'.service = run.service
    BY <1>0, <2>1, <2>2, RunFields
  <2>4. TypeOK'
    BY <1>0, <1>1, <2>1, <2>2, <2>3 DEF TypeOK
  <2>5. AppliedInv'
    BY <2>2, <2>3, ChildrenAssumption DEF AppliedInv
  <2>6. ListedInv'
    <3>1. /\ workload.resources \in Resources /\ cache.resources \in Resources
          /\ run.resources \in Resources
      BY <1>0 DEF TypeOK, Workload, Cache, Run
    <3>2. UIDOf(deploy)' = deploy'.uid /\ UIDOf(service)' = UIDOf(service)
      BY <2>1, <2>2 DEF UIDOf
    <3>3. deploy # NoChild => UIDOf(deploy) = deploy'.uid
      BY <2>2 DEF UIDOf
    <3>4. deploy = NoChild => UIDOf(deploy) = NoChild /\ <<NoChild, UIDOf(service)>> \notin Resources
      BY ChildrenAssumption DEF UIDOf, Resources
    <3>5. configMap # NoChild => configMap.owner # NoChild
      BY <1>0, ChildrenAssumption DEF TypeOK, ConfigMap
    <3> QED
      BY <2>1, <2>3, <3>1, <3>2, <3>3, <3>4, <3>5 DEF ChildrenInv, ListedInv
  <2> QED
    BY <2>4, <2>5, <2>6 DEF ChildrenInv
<1> QED
  BY <1>2, <1>3

\* The ConfigMap is that of the Deployment that was applied.
LEMMA ApplyConfigMapStep ==
    ASSUME ChildrenInv, ApplyConfigMap
    PROVE  ChildrenInv'
<1>0. TypeOK
  BY DEF ChildrenInv
<1>1. events' \in 0..MaxEvents
  BY <1>0, EventType DEF ApplyConfigMap
<1>2. CASE Fail /\ UNCHANGED configMap
  BY <1>1, <1>2, FailStep DEF ApplyConfigMap, children
<1>3. CASE ~(Fail /\ UNCHANGED configMap)
  <2>1. /\ configMap' = [owner |-> run.deploy, spec |-> run.spec]
        /\ run' = [run EXCEPT !.at = "service"] /\ run.at = "configMap"
        /\ UNCHANGED <<workload, cache, queued, deploy, service, deleted>>
    BY <1>3 DEF ApplyConfigMap
  <2>2. run.deploy \in UIDs
    BY <1>0, <2>1 DEF ChildrenInv, AppliedInv, TypeOK, Run
  <2>3. configMap' \in ConfigMap /\ configMap'.owner = run.deploy
    BY <1>0, <2>1, <2>2 DEF ConfigMap, TypeOK, Run
  <2>4. /\ run' \in Run /\ run'.at = "service" /\ run'.resources = run.resources
        /\ run'.deploy = run.deploy /\ run'.service = run.service
    BY <1>0, <2>1, RunFields
  <2>5. TypeOK'
    BY <1>0, <1>1, <2>1, <2>3, <2>4 DEF TypeOK
  <2>6. AppliedInv'
    BY <2>2, <2>4, ChildrenAssumption DEF AppliedInv
  <2>7. ListedInv'
    BY <2>1, <2>2, <2>3, <2>4, ChildrenAssumption DEF ChildrenInv, ListedInv
  <2> QED
    BY <2>5, <2>6, <2>7 DEF ChildrenInv
<1> QED
  BY <1>2, <1>3

\* As for the Deployment.
LEMMA ApplyServiceStep ==
    ASSUME ChildrenInv, ApplyService
    PROVE  ChildrenInv'
<1>0. TypeOK
  BY DEF ChildrenInv
<1>1. events' \in 0..MaxEvents
  BY <1>0, EventType DEF ApplyService
<1>2. CASE Fail /\ UNCHANGED service
  BY <1>1, <1>2, FailStep DEF ApplyService, children
<1>3. CASE ~(Fail /\ UNCHANGED service)
  <2>1. /\ run' = [run EXCEPT !.at = "cleanDeploy", !.service = service'.uid]
        /\ run.at = "service"
        /\ UNCHANGED <<workload, cache, queued, deploy, configMap, deleted>>
    BY <1>3 DEF ApplyService
  <2>2. /\ service' \in Service /\ service' # NoChild /\ service'.uid \in UIDs
        /\ service # NoChild => service'.uid = service.uid
    BY <1>0, <1>3, ServedType DEF Service
  <2>3. /\ run' \in Run /\ run'.at = "cleanDeploy" /\ run'.resources = run.resources
        /\ run'.deploy = run.deploy /\ run'.service = service'.uid
    BY <1>0, <2>1, <2>2, RunFields
  <2>4. TypeOK'
    BY <1>0, <1>1, <2>1, <2>2, <2>3 DEF TypeOK
  <2>5. AppliedInv'
    BY <2>1, <2>2, <2>3, ChildrenAssumption DEF ChildrenInv, AppliedInv
  <2>6. ListedInv'
    <3>1. /\ workload.resources \in Resources /\ cache.resources \in Resources
          /\ run.resources \in Resources
      BY <1>0 DEF TypeOK, Workload, Cache, Run
    <3>2. UIDOf(service)' = service'.uid /\ UIDOf(deploy)' = UIDOf(deploy)
      BY <2>1, <2>2 DEF UIDOf
    <3>3. service # NoChild => UIDOf(service) = service'.uid
      BY <2>2 DEF UIDOf
    <3>4. service = NoChild => UIDOf(service) = NoChild /\ <<UIDOf(deploy), NoChild>> \notin Resources
      BY ChildrenAssumption DEF UIDOf, Resources
    <3> QED
      BY <2>1, <2>3, <3>1, <3>2, <3>3, <3>4 DEF ChildrenInv, ListedInv
  <2> QED
    BY <2>4, <2>5, <2>6 DEF ChildrenInv
<1> QED
  BY <1>2, <1>3

\* Of a workload that is there, and whose children nobody deleted, none is orphaned.
LEMMA NotOrphaned ==
    ASSUME ChildrenInv, workload.exists, ~deleted
    PROVE  /\ run.at = "cleanDeploy" => ~Orphaned(1, run.deploy)
           /\ run.at = "cleanService" => ~Orphaned(2, run.service)
<1>1. run.resources \in {<<>>, <<UIDOf(deploy), UIDOf(service)>>}
  BY DEF ChildrenInv, ListedInv
<1>2. run.at = "cleanDeploy" => run.deploy = UIDOf(deploy)
  BY DEF ChildrenInv, ListedInv, AppliedInv
<1>3. run.at = "cleanService" => run.service = UIDOf(service)
  BY DEF ChildrenInv, ListedInv, AppliedInv
<1> QED
  BY <1>1, <1>2, <1>3 DEF Orphaned

LEMMA CleanStep ==
    ASSUME ChildrenInv, CleanDeployment \/ CleanService
    PROVE  ChildrenInv'
<1>0. TypeOK
  BY DEF ChildrenInv
<1>1. events' \in 0..MaxEvents
  BY <1>0, EventType DEF CleanDeployment, CleanService
<1>2. /\ run.at \in {"cleanDeploy", "cleanService"}
      /\ \E a \in {"cleanService", "status"} : run' = [run EXCEPT !.at = a]
      /\ deploy' \in {deploy, NoChild} /\ service' \in {service, NoChild}
      /\ UNCHANGED <<workload, cache, queued, configMap, deleted>>
  BY DEF CleanDeployment, CleanService
<1>3. /\ run' \in Run /\ run'.at \in {"cleanService", "status"} /\ run'.resources = run.resources
      /\ run'.deploy = run.deploy /\ run'.service = run.service
  <2>1. PICK a \in {"cleanService", "status"} : run' = [run EXCEPT !.at = a]
    BY <1>2
  <2> QED
    BY <1>0, <2>1 DEF TypeOK, Run
<1>4. TypeOK'
  BY <1>0, <1>1, <1>2, <1>3 DEF TypeOK
<1>5. AppliedInv'
  BY <1>2, <1>3 DEF ChildrenInv, AppliedInv
<1>6. workload.exists /\ ~deleted => UNCHANGED <<deploy, service>>
  BY NotOrphaned DEF CleanDeployment, CleanService
<1>7. ListedInv'
  BY <1>2, <1>3, <1>6 DEF ChildrenInv, ListedInv
<1> QED
  BY <1>4, <1>5, <1>7 DEF ChildrenInv

\* What is recorded are the children that were applied.
LEMMA UpdateStatusStep ==
    ASSUME ChildrenInv, UpdateStatus
    PROVE  ChildrenInv'
<1> DEFINE recorded == [workload EXCEPT !.resources = NewResources]
           done == [recorded EXCEPT !.condition = "success"]
<1>0. TypeOK /\ run.at = "status"
  BY DEF ChildrenInv, UpdateStatus
<1>1. events' \in 0..MaxEvents /\ queued' \in BOOLEAN
  <2>1. (UNCHANGED events \/ Event) /\ (UNCHANGED queued \/ queued' = TRUE)
    BY DEF UpdateStatus
  <2> QED
    BY <1>0, <2>1, EventType DEF TypeOK
<1>s. workload.spec \in Specs
  BY <1>0 DEF TypeOK, Workload
<1>2. run' = Idle /\ run' \in Run
  BY <1>s, IdleType DEF UpdateStatus
<1>3. NewResources \in Resources
  BY <1>0 DEF ChildrenInv, AppliedInv, NewResources, Resources, TypeOK, Run
<1>4. /\ recorded \in Workload /\ done \in Workload
      /\ recorded.resources = NewResources /\ done.resources = NewResources
      /\ recorded.exists = workload.exists /\ done.exists = workload.exists
  BY <1>0, <1>3 DEF TypeOK, Workload, Conditions
<1>5. workload.exists /\ ~deleted => NewResources = <<UIDOf(deploy), UIDOf(service)>>
  BY <1>0 DEF ChildrenInv, AppliedInv, ListedInv, NewResources
<1>6. \/ UNCHANGED <<workload, cache>>
      \/ Written(recorded) \/ Written(done)
  BY DEF UpdateStatus
<1> HIDE DEF recorded, done
<1>7. /\ workload' \in Workload /\ cache' \in Cache /\ workload'.exists = workload.exists
      /\ workload'.resources \in {workload.resources, NewResources}
      /\ cache'.resources = cache.resources
  BY <1>0, <1>4, <1>6, WrittenType DEF TypeOK
<1>8. workload'.exists /\ ~deleted =>
          /\ workload'.resources \in {<<>>, <<UIDOf(deploy), UIDOf(service)>>}
          /\ cache'.resources \in {<<>>, <<UIDOf(deploy), UIDOf(service)>>}
  BY <1>5, <1>7 DEF ChildrenInv, ListedInv
<1>9. UNCHANGED <<children, deleted>>
  BY DEF UpdateStatus
<1> QED
  BY <1>1, <1>2, <1>7, <1>8, <1>9, StopStep

LEMMA RestartStep ==
    ASSUME ChildrenInv, Restart
    PROVE  ChildrenInv'
<1>0. TypeOK
  BY DEF ChildrenInv
<1>1. events' \in 0..MaxEvents /\ queued' \in BOOLEAN
  BY <1>0, EventType DEF Restart
<1>s. workload.spec \in Specs
  BY <1>0 DEF TypeOK, Workload
<1>2. run' = Idle /\ run' \in Run
  BY <1>s, IdleType DEF Restart
<1>3. UIDOf(deploy) \in UIDs \cup {NoChild} /\ UIDOf(service) \in UIDs \cup {NoChild}
  BY <1>0, UIDOfChild DEF TypeOK
<1>4. cache' \in Cache /\ cache'.resources = workload.resources
  BY <1>0, <1>3 DEF Restart, Cache, TypeOK, Workload
<1>5. UNCHANGED <<workload, children, deleted>>
  BY DEF Restart
<1>6. workload'.exists /\ ~deleted =>
          /\ workload'.resources \in {<<>>, <<UIDOf(deploy), UIDOf(service)>>}
          /\ cache'.resources \in {<<>>, <<UIDOf(deploy), UIDOf(service)>>}
  BY <1>4, <1>5 DEF ChildrenInv, ListedInv
<1>7. workload' \in Workload
  BY <1>0, <1>5 DEF TypeOK
<1> QED
  BY <1>1, <1>2, <1>4, <1>5, <1>6, <1>7, StopStep

-------------------------------------------------------------------------------
(* The invariant *)

LEMMA ChildrenInit ==
    ASSUME Init
    PROVE  ChildrenInv
<1>1. PICK s \in Specs :
          /\ workload = [exists |-> TRUE, spec |-> s, resources |-> <<>>, condition |-> "none"]
          /\ cache = [exists |-> TRUE, spec |-> s, resources |-> <<>>, current |-> TRUE,
                      deploy |-> NoChild, service |-> NoChild]
  BY DEF Init
<1>2. workload \in Workload /\ cache \in Cache
  BY <1>1 DEF Workload, Cache, Resources, Conditions
<1>3. run \in Run
  BY <1>1, IdleType DEF Init
<1>4. TypeOK
  <2>1. /\ deploy = NoChild /\ service = NoChild /\ configMap = NoChild
        /\ queued \in BOOLEAN /\ deleted \in BOOLEAN
    BY DEF Init
  <2>2. events \in 0..MaxEvents
    BY BoundAssumption DEF Init
  <2> QED
    BY <1>2, <1>3, <2>1, <2>2 DEF TypeOK
<1>5. ListedInv /\ AppliedInv
  BY <1>1 DEF Init, ListedInv, AppliedInv, Idle
<1> QED
  BY <1>4, <1>5 DEF ChildrenInv

LEMMA ChildrenStep ==
    ASSUME ChildrenInv, [Next]_vars
    PROVE  ChildrenInv'
<1>1. CASE UNCHANGED vars
  <2>1. TypeOK'
    BY <1>1 DEF ChildrenInv, TypeOK, vars
  <2>2. ListedInv' /\ AppliedInv'
    BY <1>1 DEF ChildrenInv, ListedInv, AppliedInv, vars
  <2> QED
    BY <2>1, <2>2 DEF ChildrenInv
<1> QED
  BY <1>1, EditStep, DeleteChildStep, CollectStep, SyncStep, ReconcileStep, ApplyDeploymentStep,
     ApplyConfigMapStep, ApplyServiceStep, CleanStep, UpdateStatusStep, RestartStep
  DEF Next, Control

\* Every copy of the status that the controller may compare with lists the children there are,
\* or none, as long as the workload is there and no user has deleted a child.
THEOREM ChildrenInvariant == Spec => []ChildrenInv
  BY ChildrenInit, ChildrenStep, PTL DEF Spec

-------------------------------------------------------------------------------
(* The refinement *)

\* What a step may do to a child.
Kept(child, child2) ==
    \/ child2 = child
    \/ child = NoChild /\ child2 \in UIDs
    \/ child # NoChild /\ child2 = NoChild /\ (deleted \/ ~workload.exists)

\* A write of the workload does not bring it back.
LEMMA ExistsStep ==
    ASSUME TypeOK, Fail \/ UpdateStatus
    PROVE  workload'.exists = workload.exists
<1> DEFINE recorded == [workload EXCEPT !.resources = NewResources]
           done == [recorded EXCEPT !.condition = "success"]
<1>1. CASE Fail
  BY <1>1, FailType
<1>2. CASE UpdateStatus
  <2>1. UNCHANGED workload \/ workload' = recorded \/ workload' = done
    BY <1>2 DEF UpdateStatus, Written
  <2>2. recorded.exists = workload.exists /\ done.exists = workload.exists
    BY DEF TypeOK, Workload
  <2> QED
    BY <2>1, <2>2
<1> QED
  BY <1>1, <1>2

\* A step as the abstract specification sees it: a user deletes a child, or the workload, or
\* children are made, collected with the workload, or removed after a user's deletion.
LEMMA AbstractStep ==
    ASSUME ChildrenInv, [Next]_vars
    PROVE  \/ /\ deleted' = TRUE /\ workload'.exists = workload.exists
              /\ UIDOf(deploy)' \in {UIDOf(deploy), NoChild}
              /\ UIDOf(service)' \in {UIDOf(service), NoChild}
              /\ OwnerOf(configMap)' = OwnerOf(configMap)
           \/ /\ UNCHANGED <<deploy, service, configMap, deleted>>
              /\ workload'.exists = FALSE
           \/ /\ workload'.exists = workload.exists /\ deleted' = deleted
              /\ Kept(UIDOf(deploy), UIDOf(deploy)')
              /\ Kept(UIDOf(service), UIDOf(service)')
              /\ Kept(OwnerOf(configMap), OwnerOf(configMap)')
<1>0. TypeOK
  BY DEF ChildrenInv
<1>1. CASE EditWorkload
  <2>1. (workload'.exists = workload.exists \/ workload'.exists = FALSE)
        /\ UNCHANGED <<deploy, service, configMap, deleted>>
    BY <1>0, <1>1 DEF EditWorkload, Written, children, TypeOK, Workload
  <2> QED
    BY <2>1 DEF Kept
<1>2. CASE DeleteChild
  <2>1. /\ deleted' = TRUE /\ UNCHANGED <<workload, configMap>>
        /\ deploy' \in {deploy, NoChild} /\ service' \in {service, NoChild}
    BY <1>2 DEF DeleteChild
  <2> QED
    BY <2>1 DEF UIDOf
<1>3. CASE CollectGarbage
  <2>1. UNCHANGED <<workload, deleted>>
    BY <1>3 DEF CollectGarbage, bounds
  <2>2. UNCHANGED deploy \/ (~workload.exists /\ deploy' = NoChild)
    BY <1>3 DEF CollectGarbage
  <2>3. UNCHANGED service \/ (~workload.exists /\ service' = NoChild)
    BY <1>3 DEF CollectGarbage
  <2>4. \/ UNCHANGED configMap
        \/ configMap # NoChild /\ configMap.owner # UIDOf(deploy) /\ configMap' = NoChild
    BY <1>3 DEF CollectGarbage
  <2>5. Kept(UIDOf(deploy), UIDOf(deploy)') /\ Kept(UIDOf(service), UIDOf(service)')
    BY <2>1, <2>2, <2>3 DEF Kept, UIDOf
  <2>6. Kept(OwnerOf(configMap), OwnerOf(configMap)')
    BY <2>1, <2>4 DEF Kept, OwnerOf, ChildrenInv, ListedInv
  <2> QED
    BY <2>1, <2>5, <2>6
<1>4. CASE UNCHANGED <<deploy, service, configMap, deleted>> /\ workload'.exists = workload.exists
  BY <1>4 DEF Kept
<1>5. CASE WorkloadSync \/ ChildSync \/ Reconcile \/ Restart \/ UNCHANGED vars
  BY <1>4, <1>5 DEF WorkloadSync, ChildSync, Reconcile, Restart, vars, children, bounds
<1>6. CASE UpdateStatus
  BY <1>0, <1>4, <1>6, ExistsStep DEF UpdateStatus, children
<1>7. CASE ApplyDeployment
  <2>1. CASE Fail /\ UNCHANGED deploy
    BY <1>0, <1>4, <1>7, <2>1, ExistsStep DEF ApplyDeployment
  <2>2. CASE ~(Fail /\ UNCHANGED deploy)
    <3>1. deploy' = Deployed /\ UNCHANGED <<workload, service, configMap, deleted>>
      BY <1>7, <2>2 DEF ApplyDeployment
    <3>2. Kept(UIDOf(deploy), UIDOf(deploy)')
      BY <1>0, <3>1, DeployedType DEF Kept, UIDOf, Deployment
    <3> QED
      BY <3>1, <3>2 DEF Kept
  <2> QED
    BY <2>1, <2>2
<1>8. CASE ApplyService
  <2>1. CASE Fail /\ UNCHANGED service
    BY <1>0, <1>4, <1>8, <2>1, ExistsStep DEF ApplyService
  <2>2. CASE ~(Fail /\ UNCHANGED service)
    <3>1. UNCHANGED <<workload, deploy, configMap, deleted>>
      BY <1>8, <2>2 DEF ApplyService
    <3>2. Kept(UIDOf(service), UIDOf(service)')
      BY <1>0, <1>8, <2>2, ServedType DEF Kept, UIDOf, Service
    <3> QED
      BY <3>1, <3>2 DEF Kept
  <2> QED
    BY <2>1, <2>2
<1>9. CASE ApplyConfigMap
  <2>1. CASE Fail /\ UNCHANGED configMap
    BY <1>0, <1>4, <1>9, <2>1, ExistsStep DEF ApplyConfigMap
  <2>2. CASE ~(Fail /\ UNCHANGED configMap)
    <3>1. /\ ~OwnedByAnother /\ run.at = "configMap"
          /\ configMap' = [owner |-> run.deploy, spec |-> run.spec]
          /\ UNCHANGED <<workload, deploy, service, deleted>>
      BY <1>9, <2>2 DEF ApplyConfigMap
    <3>2. run.deploy \in UIDs /\ run.spec \in Specs
      BY <1>0, <3>1 DEF ChildrenInv, AppliedInv, TypeOK, Run
    <3>3. configMap' # NoChild
      BY <3>1, <3>2, ChildrenAssumption DEF ConfigMap
    <3>4. Kept(OwnerOf(configMap), OwnerOf(configMap)')
      BY <3>1, <3>2, <3>3 DEF Kept, OwnerOf, OwnedByAnother
    <3> QED
      BY <3>1, <3>4 DEF Kept
  <2> QED
    BY <2>1, <2>2
<1>10. CASE CleanDeployment \/ CleanService
  <2>1. workload.exists /\ ~deleted => UNCHANGED <<deploy, service>>
    BY <1>10, NotOrphaned DEF CleanDeployment, CleanService
  <2>2. /\ deploy' \in {deploy, NoChild} /\ service' \in {service, NoChild}
        /\ UNCHANGED <<workload, configMap, deleted>>
    BY <1>10 DEF CleanDeployment, CleanService
  <2> QED
    BY <2>1, <2>2 DEF Kept, UIDOf
<1> QED
  BY <1>1, <1>2, <1>3, <1>5, <1>6, <1>7, <1>8, <1>9, <1>10 DEF Next, Control

\* The controller implements the safety part of WorkloadChild for its three children.
THEOREM ImplementsChildren == Spec => ImplementsWorkloadChild
<1>1. Init => DeploymentOf!Init /\ ServiceOf!Init /\ ConfigMapOf!Init
  BY DEF Init, DeploymentOf!Init, ServiceOf!Init, ConfigMapOf!Init, UIDOf, OwnerOf
<1>2. ASSUME ChildrenInv, [Next]_vars
      PROVE  /\ [DeploymentOf!Next]_(DeploymentOf!vars)
             /\ [ServiceOf!Next]_(ServiceOf!vars)
             /\ [ConfigMapOf!Next]_(ConfigMapOf!vars)
  <2>1. CASE /\ deleted' = TRUE /\ workload'.exists = workload.exists
             /\ UIDOf(deploy)' \in {UIDOf(deploy), NoChild}
             /\ UIDOf(service)' \in {UIDOf(service), NoChild}
             /\ OwnerOf(configMap)' = OwnerOf(configMap)
    <3>1. DeploymentOf!UserDeletes /\ ServiceOf!UserDeletes /\ ConfigMapOf!UserDeletes
      BY <2>1 DEF DeploymentOf!UserDeletes, ServiceOf!UserDeletes, ConfigMapOf!UserDeletes
    <3> QED
      BY <3>1 DEF DeploymentOf!Next, ServiceOf!Next, ConfigMapOf!Next
  <2>2. CASE UNCHANGED <<deploy, service, configMap, deleted>> /\ workload'.exists = FALSE
    <3>1. DeploymentOf!DeleteWorkload /\ ServiceOf!DeleteWorkload /\ ConfigMapOf!DeleteWorkload
      BY <2>2 DEF DeploymentOf!DeleteWorkload, ServiceOf!DeleteWorkload,
         ConfigMapOf!DeleteWorkload
    <3> QED
      BY <3>1 DEF DeploymentOf!Next, ServiceOf!Next, ConfigMapOf!Next
  <2>3. CASE /\ workload'.exists = workload.exists /\ deleted' = deleted
             /\ Kept(UIDOf(deploy), UIDOf(deploy)')
             /\ Kept(UIDOf(service), UIDOf(service)')
             /\ Kept(OwnerOf(configMap), OwnerOf(configMap)')
    <3>1. [DeploymentOf!Next]_(DeploymentOf!vars)
      BY <2>3 DEF Kept, DeploymentOf!Next, DeploymentOf!vars, DeploymentOf!CreateChild,
         DeploymentOf!RemoveChild, DeploymentOf!CollectChild
    <3>2. [ServiceOf!Next]_(ServiceOf!vars)
      BY <2>3 DEF Kept, ServiceOf!Next, ServiceOf!vars, ServiceOf!CreateChild,
         ServiceOf!RemoveChild, ServiceOf!CollectChild
    <3>3. [ConfigMapOf!Next]_(ConfigMapOf!vars)
      BY <2>3 DEF Kept, ConfigMapOf!Next, ConfigMapOf!vars, ConfigMapOf!CreateChild,
         ConfigMapOf!RemoveChild, ConfigMapOf!CollectChild
    <3> QED
      BY <3>1, <3>2, <3>3
  <2> QED
    BY <1>2, <2>1, <2>2, <2>3, AbstractStep
<1> QED
  BY <1>1, <1>2, ChildrenInvariant, PTL
  DEF Spec, ImplementsWorkloadChild, DeploymentOf!SafeSpec, ServiceOf!SafeSpec, ConfigMapOf!SafeSpec
===============================================================================
