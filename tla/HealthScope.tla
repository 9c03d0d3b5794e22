------------------------------ MODULE HealthScope ------------------------------
(***************************************************************************)
(* The controller of a HealthScope.  Every probe reads the workloads the   *)
(* scope refers to, one goroutine per workload, each with several reads:   *)
(* the workload, the child resources its status lists, and the workloads   *)
(* of other revisions of the same component (its peers).  The conditions   *)
(* come back over a channel and are summed up in the status of the scope.  *)
(*                                                                         *)
(* Meanwhile the objects change, and the ApplicationConfiguration          *)
(* controller writes references into the same scope.  The client reads     *)
(* typed objects, the scope among them, from the informers' cache, which   *)
(* lags behind: an object may be judged by an old copy, and the status     *)
(* update be refused for an old resource version.  Unstructured objects it *)
(* reads from the API server.                                              *)
(***************************************************************************)
EXTENDS Integers, FiniteSets, Sequences, SequencesExt

CONSTANTS
    Objects,      \* workloads and child resources
    Kind,         \* their kinds
    Children,     \* what the status of a workload lists once its controller has written it
    Component,    \* the component and ApplicationConfiguration in the labels of an object
    NoLabels,     \* an object without these labels
    Worlds,       \* the states the objects may be in at first
    RefSets,      \* the workload references a scope may have
    MaxChanges,   \* bound: changes of objects
    MaxEdits,     \* bound: writes of the references, and deletions of the scope
    MaxFaults     \* bound: failed reads and updates, slow probes

WithChildren == {"ContainerizedWorkload", "PodSpecWorkload"}
WithReplicas == {"Deployment", "StatefulSet", "DaemonSet"}
Kinds == WithChildren \cup WithReplicas \cup {"Service", "Other"}

\* The kinds that are read as unstructured objects, that is from the API server; the
\* checkers of the others Get a typed object, which the cache answers.
ReadLive == {"PodSpecWorkload", "Service", "Other"}

State == {"absent", "unready", "ready"}

ASSUME ObjectsAssumption ==
    /\ Kind \in [Objects -> Kinds]
    /\ Children \in [Objects -> Seq(Objects)]
    /\ DOMAIN Component = Objects
    /\ Worlds \subseteq [Objects -> State]
    /\ RefSets \subseteq SUBSET Objects
ASSUME BoundsAssumption == MaxChanges \in Nat /\ MaxEdits \in Nat /\ MaxFaults \in Nat

HealthStatus == {"Healthy", "Unhealthy", "Unknown"}
WorkloadHealthCondition == [targetWorkload : Objects, healthStatus : HealthStatus]
ScopeHealthCondition ==
    [healthStatus : HealthStatus, total : Nat,
     healthyWorkloads : Nat, unhealthyWorkloads : Nat, unknownWorkloads : Nat]
NoCondition == [healthStatus |-> "Unknown", total |-> 0,
                healthyWorkloads |-> 0, unhealthyWorkloads |-> 0, unknownWorkloads |-> 0]

VARIABLES
    object,    \* "absent", or whether its status is "ready" or "unready"
    view,      \* what the informers' cache holds of an object
    watch,     \* its later states, on their way to the cache
    scope,     \* the stored scope
    cached,    \* what the cache holds of it, as far as Reconcile uses it
    queued,    \* is the scope in the work queue?
    timer,     \* is it due to be queued again after the probe interval?
    probe,     \* the reconciliation under way
    checks,    \* its goroutines, one per workload reference
    conditions,\* what they have sent, in that order
    window,    \* history: the states in which a read of this probe may find or have found an object
    late,      \* history: has a probe outlasted the interval?
    changes, edits, faults

vars == <<object, view, watch, scope, cached, queued, timer, probe, checks, conditions,
          window, late, changes, edits, faults>>
world == <<object, view, watch, changes>>
queue == <<queued, timer>>
run == <<probe, checks, conditions, window>>

Scope == [exists : BOOLEAN, refs : RefSets,
          scopeHealthCondition : ScopeHealthCondition,
          workloadHealthConditions : Seq(WorkloadHealthCondition)]
Check == [at : {"get", "child", "labels", "list", "done"}, target : Objects,
          left : Seq(Objects), peers : SUBSET Objects, status : HealthStatus]

\* current: is the resource version of what was read still that of the scope?
Idle == [at |-> "idle", refs |-> {}, current |-> FALSE, failed |-> FALSE]
NoWindow == [o \in Objects |-> {}]

Init ==
    /\ object \in Worlds /\ view = object /\ watch = [o \in Objects |-> <<>>]
    /\ \E refs \in RefSets :
          scope = [exists |-> TRUE, refs |-> refs, scopeHealthCondition |-> NoCondition,
                   workloadHealthConditions |-> <<>>]
    /\ cached = [exists |-> TRUE, refs |-> scope.refs, current |-> TRUE]
    /\ queued = TRUE /\ timer = FALSE
    /\ probe = Idle /\ checks = <<>> /\ conditions = <<>>
    /\ window = NoWindow /\ late = FALSE
    /\ changes = 0 /\ edits = 0 /\ faults = 0

-------------------------------------------------------------------------------
(***************************************************************************)
(* Everyone else: controllers and users change objects, the                *)
(* ApplicationConfiguration controller writes references, users delete the *)
(* scope, the cache catches up, and timers fire.                           *)
(***************************************************************************)

ObjectChanges(o) ==
    /\ changes < MaxChanges
    /\ \E s \in State \ {object[o]} :
          /\ object' = [object EXCEPT ![o] = s]
          /\ watch' = IF Kind[o] \in ReadLive THEN watch
                      ELSE [watch EXCEPT ![o] = Append(@, s)]
          /\ window' = IF probe.at = "check" THEN [window EXCEPT ![o] = @ \cup {s}] ELSE window
    /\ changes' = changes + 1
    /\ UNCHANGED <<view, scope, cached, queue, probe, checks, conditions, late, edits, faults>>

\* The watch brings the next state of an object into the cache.
ObjectSync(o) ==
    /\ watch[o] # <<>>
    /\ view' = [view EXCEPT ![o] = Head(watch[o])]
    /\ watch' = [watch EXCEPT ![o] = Tail(@)]
    /\ UNCHANGED <<object, changes, scope, cached, queue, run, late, edits, faults>>

\* A write of the scope: copies read before it are now old.
Written(s) ==
    /\ scope' = s
    /\ cached' = [cached EXCEPT !.current = FALSE]

EditScope ==
    /\ scope.exists
    /\ edits < MaxEdits
    /\ edits' = edits + 1
    /\ \/ \E refs \in RefSets \ {scope.refs} : Written([scope EXCEPT !.refs = refs])
       \/ Written([scope EXCEPT !.exists = FALSE])
    /\ probe' = [probe EXCEPT !.current = FALSE]
    /\ UNCHANGED <<world, queue, checks, conditions, window, late, faults>>

\* The watch reports a write of the scope, which also queues it.
CacheSync ==
    /\ ~cached.current
    /\ cached' = [exists |-> scope.exists, refs |-> scope.refs, current |-> TRUE]
    /\ queued' = TRUE
    /\ UNCHANGED <<world, scope, timer, run, late, edits, faults>>

IntervalElapses ==
    /\ timer
    /\ timer' = FALSE
    /\ queued' = TRUE
    /\ UNCHANGED <<world, scope, cached, run, late, edits, faults>>

\* The informer lists everything again (after ten hours by default).
Resync ==
    /\ ~queued /\ ~timer /\ scope.exists
    /\ probe.at = "idle"
    /\ queued' = TRUE
    /\ UNCHANGED <<world, scope, cached, timer, run, late, edits, faults>>

-------------------------------------------------------------------------------
(***************************************************************************)
(* Reading and judging objects.                                            *)
(***************************************************************************)

Exists(o) == object[o] # "absent"

\* What a checker that gets object o is given.
Copy(o) == IF Kind[o] \in ReadLive THEN object[o] ELSE view[o]

\* Mutant of StatusRead: leaves the condition of an unknown workload empty.
StatusBlank(o, found) ==
    CASE Kind[o] \in WithChildren -> IF found THEN "Healthy" ELSE "Unhealthy"
      [] Kind[o] \in WithReplicas ->
            IF found /\ Copy(o) = "ready" THEN "Healthy" ELSE "Unhealthy"
      [] OTHER -> ""

\* CheckPodSpecWorkloadHealth and CheckContainerziedWorkloadHealth start from healthy
\* and look at the child resources; the others compare what is ready with what is
\* desired.  A workload of another kind is unknown, also when it cannot be read.
StatusRead(o, found) ==
    CASE Kind[o] \in WithChildren -> IF found THEN "Healthy" ELSE "Unhealthy"
      [] Kind[o] \in WithReplicas ->
            IF found /\ Copy(o) = "ready" THEN "Healthy" ELSE "Unhealthy"
      [] OTHER -> "Unknown"

\* status.resources, empty until the controller of the workload has recorded them.
ChildRefs(o) == IF Copy(o) = "ready" THEN Children[o] ELSE <<>>

\* Mutant of ChildHealthy: is content with a child that exists.
ChildFound(c, found) == found

\* A Deployment is checked as such, a Service must exist; others are passed over.
ChildHealthy(c, found) ==
    CASE Kind[c] = "Deployment" -> found /\ Copy(c) = "ready"
      [] Kind[c] = "Service" -> found
      [] OTHER -> TRUE

Worse(status, healthy) == IF healthy THEN status ELSE "Unhealthy"

\* Mutant of Merge: keeps the last peer only.
LatestOnly(status, peerStatus) == peerStatus

\* MergePeerWorkloadsConditions: only an unhealthy peer counts.
Merge(status, peerStatus) == Worse(status, peerStatus # "Unhealthy")

\* Workloads of the same kind, component and ApplicationConfiguration, as the API server
\* has them.
PeersListed(o) ==
    {p \in Objects \ {o} : Exists(p) /\ Kind[p] = Kind[o] /\ Component[p] = Component[o]}

-------------------------------------------------------------------------------
(***************************************************************************)
(* A reconciliation.                                                       *)
(***************************************************************************)

Started(o) == [at |-> "get", target |-> o, left |-> <<>>, peers |-> {}, status |-> "Unknown"]
Finished(o) == [Started(o) EXCEPT !.at = "done"]

\* Get the scope from the cache; nothing more to do if it is gone.
Reconcile ==
    /\ queued /\ probe.at = "idle"
    /\ queued' = FALSE
    /\ IF cached.exists
       THEN /\ probe' = [at |-> "check", refs |-> cached.refs,
                         current |-> cached.current, failed |-> FALSE]
            /\ checks' = [o \in cached.refs |-> Started(o)]
            /\ conditions' = <<>>
            /\ window' = [o \in Objects |-> {object[o], Copy(o)} \cup ToSet(watch[o])]
       ELSE UNCHANGED run
    /\ UNCHANGED <<world, scope, cached, timer, late, edits, faults>>

\* A read in a goroutine finds an object if it is there, for the one who answers; any
\* read may also fail, by an error of the API server or because the probe timeout has
\* passed (of the cache: before its informer has listed the objects).
Read(there, found) ==
    \/ /\ found = there
       /\ UNCHANGED <<probe, faults>>
    \/ /\ found = FALSE /\ there
       /\ faults < MaxFaults
       /\ faults' = faults + 1
       /\ probe' = [probe EXCEPT !.failed = TRUE]

\* The goroutine goes on, or sends its condition.
Continue(r, c) ==
    /\ checks' = [checks EXCEPT ![r] = IF c.at = "done" THEN Finished(r) ELSE c]
    /\ conditions' = IF c.at # "done" THEN conditions
                     ELSE Append(conditions, [targetWorkload |-> r, healthStatus |-> c.status])

\* Check turns to the next peer, whose condition is merged into that of the workload.
NextPeer(c) ==
    IF c.peers = {} THEN [c EXCEPT !.at = "done", !.left = <<>>]
    ELSE LET p == CHOOSE q \in c.peers : TRUE IN
         [c EXCEPT !.at = "get", !.target = p, !.peers = @ \ {p}, !.left = <<>>]

\* Once a workload has been judged: the peers of the one referred to are looked up,
\* a peer is followed by the next one.
Judged(r, c) == IF c.target = r THEN [c EXCEPT !.at = "labels", !.left = <<>>] ELSE NextPeer(c)

\* The status after a workload or a child resource: that of the workload itself is set,
\* that of a peer is merged into it.
WithStatus(r, c, status) ==
    [c EXCEPT !.status = IF c.target = r THEN status ELSE Merge(@, status)]

\* The checker gets the workload.  Exactly two child resources are required.
CheckWorkload(r) ==
    /\ probe.at = "check" /\ checks[r].at = "get"
    /\ LET c == checks[r]
           o == c.target IN
       \E found \in BOOLEAN :
          /\ Read(Copy(o) # "absent", found)
          /\ IF Kind[o] \notin WithChildren \/ ~found
             THEN Continue(r, Judged(r, WithStatus(r, c, StatusRead(o, found))))
             ELSE IF Len(ChildRefs(o)) # 2
             THEN Continue(r, Judged(r, WithStatus(r, c, "Unhealthy")))
             ELSE Continue(r, [WithStatus(r, c, "Healthy") EXCEPT
                                 !.at = "child", !.left = ChildRefs(o)])
    /\ UNCHANGED <<world, scope, cached, queue, window, late, edits>>

\* updateChildResourcesCondition looks at one child resource after the other.
CheckChild(r) ==
    /\ probe.at = "check" /\ checks[r].at = "child"
    /\ LET c == checks[r]
           o == Head(c.left)
           rest(found) == [c EXCEPT !.left = Tail(@),
                                    !.status = Worse(@, ChildHealthy(o, found))] IN
       \E found \in BOOLEAN :
          /\ Read(Copy(o) # "absent", found)
          /\ Continue(r, IF Len(c.left) > 1 THEN rest(found) ELSE Judged(r, rest(found)))
    /\ UNCHANGED <<world, scope, cached, queue, window, late, edits>>

\* getVersioningPeerWorkloadRefs gets the workload again, for its labels and from the
\* API server ...
GetLabels(r) ==
    /\ probe.at = "check" /\ checks[r].at = "labels"
    /\ LET c == checks[r] IN
       \E found \in BOOLEAN :
          /\ Read(Exists(r), found)
          /\ Continue(r, IF ~found THEN [c EXCEPT !.at = "done", !.status = "Unhealthy"]
                         ELSE IF Component[r] = NoLabels THEN NextPeer(c)
                         ELSE [c EXCEPT !.at = "list"])
    /\ UNCHANGED <<world, scope, cached, queue, window, late, edits>>

\* ... and lists the workloads with the same labels.
ListPeers(r) ==
    /\ probe.at = "check" /\ checks[r].at = "list"
    /\ LET c == checks[r] IN
       \/ /\ Continue(r, NextPeer([c EXCEPT !.peers = PeersListed(r)]))
          /\ UNCHANGED <<probe, faults>>
       \/ /\ faults < MaxFaults
          /\ faults' = faults + 1
          /\ probe' = [probe EXCEPT !.failed = TRUE]
          /\ Continue(r, [c EXCEPT !.at = "done", !.status = "Unhealthy"])
    /\ UNCHANGED <<world, scope, cached, queue, window, late, edits>>

\* GetScopeHealthStatus ranges over the channel until all goroutines are done.
Checked == probe.at = "check" /\ \A r \in DOMAIN checks : checks[r].at = "done"

CountOf(cs, status) == Cardinality({i \in DOMAIN cs : cs[i].healthStatus = status})

\* Mutant of Summary: forgets unknown workloads.
SummaryLenient(cs, refs) ==
    [healthStatus |-> IF CountOf(cs, "Unhealthy") > 0 THEN "Unhealthy" ELSE "Healthy",
     total |-> Cardinality(refs),
     healthyWorkloads |-> CountOf(cs, "Healthy"),
     unhealthyWorkloads |-> CountOf(cs, "Unhealthy"),
     unknownWorkloads |-> CountOf(cs, "Unknown")]

\* Any unhealthy or unknown workload makes the scope unhealthy.
Summary(cs, refs) ==
    [healthStatus |-> IF CountOf(cs, "Unhealthy") > 0 \/ CountOf(cs, "Unknown") > 0
                      THEN "Unhealthy" ELSE "Healthy",
     total |-> Cardinality(refs),
     healthyWorkloads |-> CountOf(cs, "Healthy"),
     unhealthyWorkloads |-> CountOf(cs, "Unhealthy"),
     unknownWorkloads |-> CountOf(cs, "Unknown")]

\* Mutant of Accepted: writes without a resource version.
AcceptedAnyway == scope.exists

\* The API server takes a status update only for the scope as it is now.
Accepted == scope.exists /\ probe.current

\* Mutant of Requeue: never comes back by itself.
RequeueLeft(inTime) == timer' = timer

\* The result: the timer is set for what is left of the interval, if anything is.
Requeue(inTime) == timer' = (timer \/ inTime)

\* Update the status.  An update that changes nothing is no write; one that fails
\* queues the scope again.
UpdateStatus ==
    /\ Checked
    /\ LET new == [scope EXCEPT !.scopeHealthCondition = Summary(conditions, probe.refs),
                                !.workloadHealthConditions = conditions] IN
       \/ /\ Accepted
          /\ IF new = scope THEN UNCHANGED <<scope, cached>> ELSE Written(new)
          /\ \/ Requeue(TRUE) /\ UNCHANGED <<late, faults>>
             \/ /\ faults < MaxFaults
                /\ faults' = faults + 1
                /\ late' = TRUE
                /\ Requeue(FALSE)
          /\ UNCHANGED queued
       \/ /\ \/ ~Accepted /\ UNCHANGED faults
             \/ faults < MaxFaults /\ faults' = faults + 1
          /\ queued' = TRUE
          /\ UNCHANGED <<scope, cached, timer, late>>
    /\ probe' = Idle /\ checks' = <<>> /\ conditions' = <<>> /\ window' = NoWindow
    /\ UNCHANGED <<world, edits>>

Step ==
    \/ Reconcile \/ UpdateStatus
    \/ \E r \in DOMAIN checks :
          CheckWorkload(r) \/ CheckChild(r) \/ GetLabels(r) \/ ListPeers(r)

Next ==
    \/ \E o \in Objects : ObjectChanges(o) \/ ObjectSync(o)
    \/ EditScope \/ CacheSync \/ IntervalElapses \/ Resync
    \/ Step

Spec == Init /\ [][Next]_vars

\* The worker, the watches and the timers of the work queue go on; nothing else must.
FairSpec ==
    /\ Spec
    /\ WF_vars(Step) /\ WF_vars(CacheSync) /\ WF_vars(IntervalElapses)
    /\ WF_vars(\E o \in Objects : ObjectSync(o))

-------------------------------------------------------------------------------
(***************************************************************************)
(* Properties.                                                             *)
(***************************************************************************)

\* The type of every variable: a goroutine for each reference read, a condition that is
\* one of the three (GetScopeHealthStatus).
TypeOK ==
    /\ object \in [Objects -> State] /\ view \in [Objects -> State]
    /\ watch \in [Objects -> Seq(State)]
    /\ window \in [Objects -> SUBSET State]
    /\ scope \in Scope
    /\ cached \in [exists : BOOLEAN, refs : RefSets, current : BOOLEAN]
    /\ queued \in BOOLEAN /\ timer \in BOOLEAN /\ late \in BOOLEAN
    /\ probe \in [at : {"idle", "check"}, refs : RefSets \cup {{}},
                  current : BOOLEAN, failed : BOOLEAN]
    /\ checks \in [probe.refs -> Check]
    /\ conditions \in Seq(WorkloadHealthCondition)
    /\ changes \in 0..MaxChanges /\ edits \in 0..MaxEdits /\ faults \in 0..MaxFaults

\* The objects whose state decides the condition of a workload other than by peers: itself and
\* the children that are looked at.
Parts(o) ==
    {o} \cup {c \in ToSet(Children[o]) : /\ Kind[o] \in WithChildren
                                         /\ Kind[c] \in {"Deployment", "Service"}}

\* A state of an object that speaks against its workload.
Ails(o, s) == IF Kind[o] \in {"Service", "Other"} THEN s = "absent" ELSE s # "ready"
Ailing(o) == Ails(o, object[o])

\* What the condition of workload r should be, judged from the objects as they are.
Alone(o) ==
    CASE Kind[o] \in WithChildren ->
            IF object[o] = "ready" /\ Len(Children[o]) = 2
                  /\ \A c \in ToSet(Children[o]) :
                        Kind[c] \in {"Deployment", "Service"} => ~Ailing(c)
            THEN "Healthy" ELSE "Unhealthy"
      [] Kind[o] \in WithReplicas -> IF Ailing(o) THEN "Unhealthy" ELSE "Healthy"
      [] OTHER -> IF Ailing(o) THEN "Unhealthy" ELSE "Unknown"
PeersNow(o) ==
    {p \in Objects \ {o} : /\ object[p] # "absent" /\ Kind[p] = Kind[o]
                           /\ Component[p] = Component[o] /\ Component[o] # NoLabels}
Truth(r) ==
    IF \E o \in {r} \cup PeersNow(r) : Alone(o) = "Unhealthy" THEN "Unhealthy" ELSE Alone(r)

\* Each part of o has been well, in some state that it had during the probe or that the cache
\* still held when the probe began.
WasWell(p) == \E s \in window[p] : ~Ails(p, s)
Sound(o) == \A p \in Parts(o) : WasWell(p)

\* The peers of r that were there all the time.
PeersThroughout(r) ==
    {p \in Objects \ {r} : /\ "absent" \notin window[p] /\ Kind[p] = Kind[r]
                           /\ Component[p] = Component[r] /\ Component[r] # NoLabels}

\* A workload is found healthy only if each part of it, and of every peer that was there
\* throughout, was well at some time that is no earlier than the cache's copy at the start of
\* the probe, in whatever order the reads of the goroutines, the changes of the objects and the
\* updates of the cache came ("if ANY peer workload is unhealthy then the overall condition is
\* unhealthy", MergePeerWorkloadsConditions).
HealthyAtSomeTime ==
    Checked => \A i \in DOMAIN conditions :
        LET r == conditions[i].targetWorkload IN
        conditions[i].healthStatus = "Healthy" => \A o \in {r} \cup PeersThroughout(r) : Sound(o)

\* The objects that have not changed during the probe, and of which the cache held no older
\* state when it began.
steady == {o \in Objects : window[o] = {object[o]}}

\* Nothing that decides the condition of r has changed during the probe, or shortly before.
Unmoved(r) ==
    /\ UNION {Parts(o) : o \in {r} \cup PeersNow(r)} \subseteq steady
    /\ Component[r] = NoLabels \/ \A o \in Objects \ steady : Component[o] # Component[r]

\* Without a failed read, a workload whose parts and peers do not change during the
\* probe, and had reached the cache before, is found to be what it is (Check,
\* getVersioningPeerWorkloadRefs).
TruthFound ==
    Checked /\ ~probe.failed => \A i \in DOMAIN conditions :
        LET r == conditions[i].targetWorkload IN
        Unmoved(r) => conditions[i].healthStatus = Truth(r)

\* The stored summary agrees with the stored conditions: the counts make up the total,
\* every condition is about a workload of its own, and the scope is healthy exactly if
\* all workloads are (GetScopeHealthStatus).
SummaryAgrees ==
    LET s == scope.scopeHealthCondition
        cs == scope.workloadHealthConditions IN
    s # NoCondition =>
        /\ s.healthyWorkloads + s.unhealthyWorkloads + s.unknownWorkloads = s.total
        /\ s.total = Len(cs)
        /\ Cardinality({cs[i].targetWorkload : i \in DOMAIN cs}) = Len(cs)
        /\ s.healthStatus = "Healthy" <=> s.healthyWorkloads = s.total

\* A status is stored only for the references the scope has at that moment, whatever the
\* ApplicationConfiguration controller wrote while the probe was under way.
StatusIsOfTheseRefs ==
    [][scope'.workloadHealthConditions # scope.workloadHealthConditions =>
        {scope'.workloadHealthConditions[i].targetWorkload :
            i \in DOMAIN scope'.workloadHealthConditions} = scope'.refs]_vars

\* The inductive invariant.  A resource version that is current is that of the references read;
\* each goroutine sends one condition, when it is done ...
VersionInv ==
    /\ cached.current => cached.refs = scope.refs
    /\ probe.current => probe.refs = scope.refs
SentInv ==
    /\ probe.at = "idle" => probe.refs = {}
    /\ \A r \in probe.refs :
          checks[r].at = "done" <=> \E i \in DOMAIN conditions : conditions[i].targetWorkload = r
    /\ \A i \in DOMAIN conditions : conditions[i].targetWorkload \in probe.refs
    /\ \A i, j \in DOMAIN conditions :
          conditions[i].targetWorkload = conditions[j].targetWorkload => i = j

\* ... where it is in its walk over children and peers is consistent ...
WalkInv(r, c) ==
    /\ c.at = "child" => c.left # <<>> /\ Kind[c.target] \in WithChildren
    /\ c.at \in {"labels", "list"} => c.target = r
    /\ c.at = "get" /\ c.target = r => c.status = "Unknown"
    /\ c.peers \subseteq {p \in Objects \ {r} : Kind[p] = Kind[r]}
    /\ Kind[c.target] = Kind[r]

\* ... what a read may find of an object is in its window ...
WindowInv ==
    probe.at = "check" =>
        \A o \in Objects : {object[o], Copy(o)} \cup ToSet(watch[o]) \subseteq window[o]

\* ... and as long as its status is healthy, what it has judged was well at some time, and it
\* has yet to come to every other peer that was there all the time.
HealthyInv(r, c) ==
    c.status = "Healthy" =>
        /\ Kind[r] \in WithChildren \cup WithReplicas
        /\ c.at \notin {"get", "child"} \/ c.target # r => Sound(r)
        /\ c.at = "child" =>
              /\ WasWell(c.target)
              /\ \A p \in Parts(c.target) : p \in ToSet(c.left) \/ WasWell(p)
        /\ c.at \in {"get", "child"} /\ c.target # r =>
              \A p \in PeersThroughout(r) : p \in c.peers \cup {c.target} \/ Sound(p)
        /\ c.at = "done" => \A p \in PeersThroughout(r) : Sound(p)

\* What has been sent stays justified.
SentHealthyInv ==
    \A i \in DOMAIN conditions :
        LET r == conditions[i].targetWorkload IN
        conditions[i].healthStatus = "Healthy" => \A o \in {r} \cup PeersThroughout(r) : Sound(o)

HealthInv ==
    /\ TypeOK
    /\ VersionInv /\ SentInv /\ WindowInv
    /\ \A r \in probe.refs : WalkInv(r, checks[r]) /\ HealthyInv(r, checks[r])
    /\ SentHealthyInv
    /\ SummaryAgrees

\* Where a goroutine has come to without a failed read, as long as nothing moves.  It is at the
\* workload or at a peer of it; what it has found unhealthy is so, and if it has found nothing
\* unhealthy then there is nothing but in what it has yet to look at.
TruthSoFar(r, c) ==
    /\ c.peers \cup {c.target} \subseteq {r} \cup PeersNow(r)
    /\ r \notin c.peers
    /\ c.at = "list" => Component[r] # NoLabels
    /\ c.at = "child" => /\ object[c.target] = "ready" /\ Len(Children[c.target]) = 2
                         /\ ToSet(c.left) \subseteq ToSet(Children[c.target])
    /\ c.status = "Unhealthy" => Truth(r) = "Unhealthy"
    /\ c.status # "Unhealthy" =>
          /\ c.at = "labels" /\ Exists(r) => c.status = Alone(r)
          /\ c.at = "list" \/ c.target # r => c.status = Alone(r)
          /\ c.at = "child" =>
                /\ c.target = r => c.status = "Healthy"
                /\ \A p \in Parts(c.target) : p \in ToSet(c.left) \/ ~Ailing(p)
          /\ c.target # r => \A p \in PeersNow(r) \ (c.peers \cup {c.target}) :
                                Alone(p) # "Unhealthy"
TruthInv(r, c) == ~probe.failed /\ c.at # "done" /\ Unmoved(r) => TruthSoFar(r, c)
SentTruthInv ==
    ~probe.failed => \A i \in DOMAIN conditions :
        LET r == conditions[i].targetWorkload IN
        Unmoved(r) => conditions[i].healthStatus = Truth(r)

\* The inductive invariant of the probe in both directions: a goroutine finds nothing healthy
\* that was not so at some time (HealthInv), and what stays as it is it finds to be that
\* (GetScopeHealthStatus and the goroutines it starts).
ProbeInv ==
    /\ HealthInv
    /\ \A r \in probe.refs : TruthInv(r, checks[r])
    /\ SentTruthInv

\* The stored status says of each workload what it is.
Accurate ==
    scope.exists =>
        /\ {<<c.targetWorkload, c.healthStatus>> : c \in ToSet(scope.workloadHealthConditions)}
              = {<<r, Truth(r)>> : r \in scope.refs}
        /\ scope.scopeHealthCondition.healthStatus = "Healthy"
              <=> \A r \in scope.refs : Truth(r) = "Healthy"

\* Once the objects stop changing, the status comes to say what they are, however late their
\* last states reach the cache, provided no probe outlasts the interval, or that the informer
\* lists everything again.
StatusFollows == <>[](late \/ Accurate) /\ (WF_vars(Resync) => <>[]Accurate)
===============================================================================
