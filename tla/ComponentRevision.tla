--------------------------- MODULE ComponentRevision ---------------------------
(***************************************************************************)
(* The revision side of the Component type: ComponentHandler, the event    *)
(* handler that the ApplicationConfiguration controller registers for      *)
(* Component objects.  On every create or update event it records the      *)
(* component's spec in an immutable ControllerRevision, publishes the name *)
(* of that revision in the component's status, removes revisions over the  *)
(* limit and requeues an ApplicationConfiguration that uses the component. *)
(*                                                                         *)
(* One component name is modelled, which may exist in several namespaces.  *)
(* The handler is called by one informer goroutine, so at most one event   *)
(* is handled at a time; each call it makes to the API server is a step of *)
(* its own.  Its reads go to informer caches that lag the server.          *)
(***************************************************************************)
EXTENDS Integers, Sequences, FiniteSets

CONSTANTS
    Namespaces,      \* the namespaces that hold a component of this name
    Specs,           \* the contents a component's spec may have
    AppConfigs,      \* the ApplicationConfigurations of the cluster
    NamespaceOf,     \* the namespace each ApplicationConfiguration is in
    AppConfigSpecs,  \* what their spec may say of the component (see below)
    RevisionLimit,   \* --revision-limit
    LongWait,        \* is --long-wait positive? (reconcile again after success)
    MaxRV,           \* bound: users edit a component up to this resourceVersion
    MaxStale,        \* bound: up to this revision reads may miss a new revision
    MaxFaults        \* bound: failed API calls and restarts of the controller

(***************************************************************************)
(* An ApplicationConfiguration lists the component by componentName        *)
(* (byName) or by the revisionName of revisions (pins); the revision name  *)
(* "<component>-v<n>" is represented by n, and 0 stands for a revision     *)
(* name of another component.                                              *)
(***************************************************************************)
ASSUME NamespacesAssumption == IsFiniteSet(Namespaces) /\ Namespaces # {}

ASSUME AppConfigsAssumption ==
    /\ IsFiniteSet(AppConfigs)
    /\ NamespaceOf \in [AppConfigs -> Namespaces]
    /\ AppConfigSpecs # {}
    /\ \A s \in AppConfigSpecs :
          s \in [byName : BOOLEAN, pins : SUBSET Nat] /\ IsFiniteSet(s.pins)

ASSUME BoundsAssumption ==
    /\ RevisionLimit \in Nat
    /\ LongWait \in BOOLEAN
    /\ MaxRV \in Nat /\ MaxStale \in Nat /\ MaxFaults \in Nat

VARIABLES
    component,       \* the Component on the API server, one per namespace
    events,          \* its versions the informer has yet to hand to the handler
    componentCache,  \* the version last handed to the handler
    revisions,       \* the ControllerRevisions on the API server
    revisionCache,   \* the ControllerRevisions in the informer cache
    issued,          \* history: every ControllerRevision ever created
    appConfigs,      \* what each ApplicationConfiguration says of the component
    queue,           \* the controller's work queue
    observed,        \* the revision an ApplicationConfiguration was last rendered with
    handler,         \* the call of the handler that is under way
    faults           \* failed API calls and restarts so far

vars == <<component, events, componentCache, revisions, revisionCache, issued,
          appConfigs, queue, observed, handler, faults>>

Component == [alive : BOOLEAN, rv : Nat, generation : Nat, spec : Specs,
              latest : Nat, observedGeneration : Nat]

Revision == [ns : Namespaces, revision : Nat, spec : Specs, generation : Nat]

\* A revision's name is unique in its namespace.
Name(r) == <<r.ns, r.revision>>
Names(S) == {Name(r) : r \in S}

Handler == [pc : {"idle", "create", "status", "list", "kill", "enqueue"},
            ns : Namespaces, next : Nat,
            victims : SUBSET (Namespaces \X Nat), toKill : Nat]

\* No call of the handler is under way.
Idle == [pc |-> "idle", ns |-> CHOOSE n \in Namespaces : TRUE, next |-> 0,
         victims |-> {}, toKill |-> 0]

At(pc) == handler.pc = pc
Goto(pc) == handler' = IF pc = "idle" THEN Idle ELSE [handler EXCEPT !.pc = pc]

\* The version of the component the call under way was given.
Given == componentCache[handler.ns]

-------------------------------------------------------------------------------
(* The users and the API server *)

\* A component is created without a status: no revision is published yet.
NewComponent(s) == [alive |-> TRUE, rv |-> 1, generation |-> 1, spec |-> s,
                    latest |-> 0, observedGeneration |-> 0]

Init ==
    /\ component \in [Namespaces -> {NewComponent(s) : s \in Specs}]
    /\ events = [n \in Namespaces |-> <<component[n]>>]
    /\ componentCache = component
    /\ revisions = {}
    /\ revisionCache = {}
    /\ issued = {}
    /\ appConfigs \in [AppConfigs -> AppConfigSpecs]
    /\ queue = AppConfigs
    /\ observed = [a \in AppConfigs |-> 0]
    /\ handler = Idle
    /\ faults = 0

\* Every write of a component is delivered to the handler, in order.
WriteComponent(n, c) ==
    /\ component' = [component EXCEPT ![n] = c]
    /\ events' = [events EXCEPT ![n] = Append(@, c)]

\* A user changes the spec of a component, or only its metadata (s = spec).
EditComponent(n, s) ==
    /\ component[n].alive
    /\ component[n].rv < MaxRV
    /\ WriteComponent(n, [component[n] EXCEPT
           !.rv = @ + 1, !.spec = s,
           !.generation = IF s = component[n].spec THEN @ ELSE @ + 1])
    /\ UNCHANGED <<componentCache, revisions, revisionCache, issued, appConfigs,
                   queue, observed, handler, faults>>

DeleteComponent(n) ==
    /\ component[n].alive
    /\ component[n].rv < MaxRV
    /\ WriteComponent(n, [component[n] EXCEPT !.rv = @ + 1, !.alive = FALSE])
    /\ UNCHANGED <<componentCache, revisions, revisionCache, issued, appConfigs,
                   queue, observed, handler, faults>>

\* A user edits an ApplicationConfiguration, whose own event requeues it.
EditAppConfig(a, s) ==
    /\ s # appConfigs[a]
    /\ appConfigs' = [appConfigs EXCEPT ![a] = s]
    /\ queue' = queue \cup {a}
    /\ UNCHANGED <<component, events, componentCache, revisions, revisionCache,
                   issued, observed, handler, faults>>

\* Kubernetes deletes the revisions whose owner is gone.
CollectOwned(n) ==
    LET orphans == {r \in revisions : r.ns = n} IN
    /\ ~component[n].alive
    /\ orphans # {}
    /\ revisions' = revisions \ orphans
    /\ UNCHANGED <<component, events, componentCache, revisionCache, issued,
                   appConfigs, queue, observed, handler, faults>>

\* A watch event brings the cache one object closer to the server.
SyncRevisionCache ==
    /\ \/ \E r \in revisions \ revisionCache :
             revisionCache' =
                 {c \in revisionCache : Name(c) # Name(r)} \cup {r}
       \/ \E r \in revisionCache \ revisions : revisionCache' = revisionCache \ {r}
    /\ UNCHANGED <<component, events, componentCache, revisions, issued,
                   appConfigs, queue, observed, handler, faults>>

\* The informers' periodic resync (every ten hours unless configured) hands the
\* handlers the versions they have already seen.
Resync(n) ==
    /\ component[n].alive
    /\ events[n] = <<>>
    /\ events' = [events EXCEPT ![n] = <<component[n]>>]
    /\ UNCHANGED <<component, componentCache, revisions, revisionCache, issued,
                   appConfigs, queue, observed, handler, faults>>

ResyncAppConfig(a) ==
    /\ queue' = queue \cup {a}
    /\ UNCHANGED <<component, events, componentCache, revisions, revisionCache,
                   issued, appConfigs, observed, handler, faults>>

\* Mutant of Reconcile: an ApplicationConfiguration once rendered is left alone.
ReconcileOnce(a) ==
    LET n == NamespaceOf[a] IN
    /\ a \in queue
    /\ observed' = IF observed[a] > 0 THEN observed
                   ELSE [observed EXCEPT ![a] = componentCache[n].latest]
    /\ queue' = IF LongWait THEN queue ELSE queue \ {a}
    /\ UNCHANGED <<component, events, componentCache, revisions, revisionCache,
                   issued, appConfigs, handler, faults>>

(***************************************************************************)
(* The reconciler renders a queued ApplicationConfiguration with the       *)
(* revision published in the cached component, which is the version last   *)
(* handed to the handler or a later one; it comes back after --long-wait.  *)
(***************************************************************************)
Reconcile(a) ==
    LET n == NamespaceOf[a]
        delivered == {events[n][i] : i \in DOMAIN events[n]}
    IN /\ a \in queue
       /\ \E c \in {componentCache[n]} \cup delivered :
             observed' = [observed EXCEPT ![a] = c.latest]
       /\ queue' = IF LongWait THEN queue ELSE queue \ {a}
       /\ UNCHANGED <<component, events, componentCache, revisions, revisionCache,
                      issued, appConfigs, handler, faults>>

-------------------------------------------------------------------------------
(* ComponentHandler *)

\* Mutant of IsRevisionDiff: only asks whether the published revision exists.
RevisionMissing(n, c) ==
    c.latest = 0 \/ <<n, c.latest>> \notin Names(revisionCache)

\* IsRevisionDiff: is the spec of c other than that of the revision it publishes,
\* as far as the cache knows?  A revision the cache misses counts as different.
IsRevisionDiff(n, c) ==
    \/ c.latest = 0
    \/ ~\E r \in revisionCache : Name(r) = <<n, c.latest>> /\ r.spec = c.spec

\* Mutant of NextRevision: numbers a revision by counting those in the cache.
NextByCount(n, c) == Cardinality({r \in revisionCache : r.ns = n}) + 1

\* The number of the revision after the one c publishes; IsRevisionDiff returns
\* the published number on every path.
NextRevision(n, c) == c.latest + 1

\* Bound: from MaxStale revisions on, the handler reads an up-to-date cache.
CacheLagExplored(c) == revisionCache = revisions \/ c.latest < MaxStale

\* Create, Update, Delete: an event is delivered, up to the first API write.
HandleEvent(n) ==
    LET c == Head(events[n]) IN
    /\ At("idle")
    /\ events[n] # <<>>
    /\ CacheLagExplored(c)
    /\ events' = [events EXCEPT ![n] = Tail(@)]
    /\ componentCache' = [componentCache EXCEPT ![n] = c]
    /\ handler' = CASE ~c.alive -> [Idle EXCEPT !.pc = "enqueue", !.ns = n]
                    [] c.alive /\ IsRevisionDiff(n, c) ->
                         [Idle EXCEPT !.pc = "create", !.ns = n,
                                      !.next = NextRevision(n, c)]
                    [] OTHER -> Idle
    /\ UNCHANGED <<component, revisions, revisionCache, issued, appConfigs,
                   queue, observed, faults>>

\* The snapshot of the component that the call under way records.
Snapshot == [ns |-> handler.ns, revision |-> handler.next,
             spec |-> Given.spec, generation |-> Given.generation]

AddRevision ==
    /\ Name(Snapshot) \notin Names(revisions)
    /\ revisions' = revisions \cup {Snapshot}
    /\ issued' = issued \cup {Snapshot}

CreateRevision ==
    /\ At("create")
    /\ AddRevision
    /\ Goto("status")
    /\ UNCHANGED <<component, events, componentCache, revisionCache, appConfigs,
                   queue, observed, faults>>

\* The API server refuses a second revision of that name; the event is dropped.
CreateAlreadyExists ==
    /\ At("create")
    /\ Name(Snapshot) \in Names(revisions)
    /\ Goto("idle")
    /\ UNCHANGED <<component, events, componentCache, revisions, revisionCache,
                   issued, appConfigs, queue, observed, faults>>

\* Status().Update is accepted only for the version the handler was given.
StatusAccepted ==
    component[handler.ns].alive /\ component[handler.ns].rv = Given.rv

\* The component with the published revision and generation of the call under way.
Published ==
    [component[handler.ns] EXCEPT !.rv = @ + 1, !.latest = handler.next,
                                  !.observedGeneration = Given.generation]

UpdateStatus ==
    /\ At("status")
    /\ StatusAccepted
    /\ WriteComponent(handler.ns, Published)
    /\ Goto(IF RevisionLimit < handler.next THEN "list" ELSE "enqueue")
    /\ UNCHANGED <<componentCache, revisions, revisionCache, issued, appConfigs,
                   queue, observed, faults>>

\* Conflict or NotFound: the revision just created stays, unpublished.
UpdateStatusRejected ==
    /\ At("status")
    /\ ~StatusAccepted
    /\ Goto("idle")
    /\ UNCHANGED <<component, events, componentCache, revisions, revisionCache,
                   issued, appConfigs, queue, observed, faults>>

\* The revision names that ApplicationConfigurations of any namespace pin.
LiveHashes == UNION {appConfigs[a].pins : a \in AppConfigs}

\* Mutant of ToKill: keeps the pinned revisions only.
ToKillUnpinned(listed) == Cardinality(listed) - Cardinality(LiveHashes)

\* sortedControllerRevision: how many of the listed revisions are over the limit.
ToKill(listed) == Cardinality(listed) - (RevisionLimit + Cardinality(LiveHashes))

\* cleanupControllerRevision lists revisions and ApplicationConfigurations of
\* every namespace, and decides which revisions it may delete and how many.
ListRevisions ==
    LET listed == Names(revisionCache)
        victims == {v \in listed : v[2] \notin LiveHashes}
    IN
    /\ At("list")
    /\ handler' = IF ToKill(listed) > 0 /\ victims # {}
                  THEN [handler EXCEPT !.pc = "kill", !.toKill = ToKill(listed),
                                       !.victims = victims]
                  ELSE [handler EXCEPT !.pc = "enqueue"]
    /\ UNCHANGED <<component, events, componentCache, revisions, revisionCache,
                   issued, appConfigs, queue, observed, faults>>

\* The victims come in the order of their revision numbers; ties in any order.
Oldest(v) == \A w \in handler.victims : v[2] <= w[2]

\* The loop ends when enough are deleted or no victim is left.
AfterKill(v) ==
    handler' = IF handler.toKill - 1 <= 0 \/ handler.victims = {v}
               THEN [handler EXCEPT !.pc = "enqueue", !.toKill = 0, !.victims = {}]
               ELSE [handler EXCEPT !.toKill = @ - 1, !.victims = @ \ {v}]

\* An error of one Delete ends the cleanup, and is only logged.
AbortCleanup ==
    handler' = [handler EXCEPT !.pc = "enqueue", !.toKill = 0, !.victims = {}]

DeleteRevision ==
    /\ At("kill")
    /\ \E v \in handler.victims :
          /\ Oldest(v)
          /\ revisions' = {r \in revisions : Name(r) # v}
          /\ IF v \in Names(revisions) THEN AfterKill(v) ELSE AbortCleanup
    /\ UNCHANGED <<component, events, componentCache, revisionCache, issued,
                   appConfigs, queue, observed, faults>>

\* isMatch: the ApplicationConfigurations, of any namespace, that list the name.
Matching == {a \in AppConfigs : appConfigs[a].byName}

\* getRelatedAppConfig returns the first match of a list in no particular order.
EnqueueRelated ==
    /\ At("enqueue")
    /\ \/ Matching = {} /\ queue' = queue
       \/ \E a \in Matching : queue' = queue \cup {a}
    /\ Goto("idle")
    /\ UNCHANGED <<component, events, componentCache, revisions, revisionCache,
                   issued, appConfigs, observed, faults>>

-------------------------------------------------------------------------------
(* Faults: a call fails, with or without having taken effect; a restart *)

CreateFault ==
    /\ At("create")
    /\ faults < MaxFaults
    /\ faults' = faults + 1
    /\ AddRevision \/ UNCHANGED <<revisions, issued>>
    /\ Goto("idle")
    /\ UNCHANGED <<component, events, componentCache, revisionCache, appConfigs,
                   queue, observed>>

StatusFault ==
    /\ At("status")
    /\ faults < MaxFaults
    /\ faults' = faults + 1
    /\ \/ StatusAccepted /\ WriteComponent(handler.ns, Published)
       \/ UNCHANGED <<component, events>>
    /\ Goto("idle")
    /\ UNCHANGED <<componentCache, revisions, revisionCache, issued, appConfigs,
                   queue, observed>>

DeleteFault ==
    /\ At("kill")
    /\ faults < MaxFaults
    /\ faults' = faults + 1
    /\ \E v \in handler.victims :
          /\ Oldest(v)
          /\ revisions' \in {revisions, {r \in revisions : Name(r) # v}}
    /\ AbortCleanup
    /\ UNCHANGED <<component, events, componentCache, revisionCache, issued,
                   appConfigs, queue, observed>>

\* The controller restarts: its caches are read anew and every object is handed
\* to the handlers once, as created.
Restart ==
    /\ faults < MaxFaults
    /\ faults' = faults + 1
    /\ handler' = Idle
    /\ events' = [n \in Namespaces |->
                    IF component[n].alive THEN <<component[n]>> ELSE <<>>]
    /\ componentCache' = component
    /\ revisionCache' = revisions
    /\ queue' = AppConfigs
    /\ UNCHANGED <<component, revisions, issued, appConfigs, observed>>

-------------------------------------------------------------------------------
HandlerStep ==
    \/ CreateRevision \/ CreateAlreadyExists
    \/ UpdateStatus \/ UpdateStatusRejected
    \/ ListRevisions \/ DeleteRevision
    \/ EnqueueRelated

Fault == CreateFault \/ StatusFault \/ DeleteFault \/ Restart

Next ==
    \/ \E n \in Namespaces : \/ \E s \in Specs : EditComponent(n, s)
                             \/ DeleteComponent(n)
                             \/ CollectOwned(n)
                             \/ Resync(n)
                             \/ HandleEvent(n)
    \/ \E a \in AppConfigs : \/ \E s \in AppConfigSpecs : EditAppConfig(a, s)
                             \/ ResyncAppConfig(a)
                             \/ Reconcile(a)
    \/ SyncRevisionCache
    \/ HandlerStep
    \/ Fault

Spec == Init /\ [][Next]_vars

(***************************************************************************)
(* The informers deliver and resync, the handler runs to its end and the   *)
(* reconciler serves its queue.  Users and faults owe nothing.             *)
(***************************************************************************)
Fairness ==
    /\ \A n \in Namespaces : WF_vars(HandleEvent(n)) /\ WF_vars(Resync(n))
    /\ WF_vars(HandlerStep)
    /\ WF_vars(SyncRevisionCache)
    /\ \A a \in AppConfigs : WF_vars(Reconcile(a)) /\ WF_vars(ResyncAppConfig(a))

FairSpec == Spec /\ Fairness

-------------------------------------------------------------------------------
(* Correctness *)

\* The type of every variable.
TypeOK ==
    /\ component \in [Namespaces -> Component]
    /\ events \in [Namespaces -> Seq(Component)]
    /\ componentCache \in [Namespaces -> Component]
    /\ revisions \subseteq Revision /\ IsFiniteSet(revisions)
    /\ revisionCache \subseteq Revision /\ IsFiniteSet(revisionCache)
    /\ issued \subseteq Revision
    /\ appConfigs \in [AppConfigs -> AppConfigSpecs]
    /\ queue \subseteq AppConfigs
    /\ observed \in [AppConfigs -> Nat]
    /\ handler \in Handler
    /\ faults \in 0..MaxFaults

\* Whatever the order of edits, resyncs, faults and cleanups, a revision that a
\* component's status publishes is still on the server, was taken at the generation
\* the status reports as observed, and holds the component's spec if that is the
\* current generation (createControllerRevision against cleanupControllerRevision;
\* needs a positive --revision-limit and one namespace).
PublishedRevisionHeld ==
    \A n \in Namespaces :
        LET c == component[n] IN
        c.alive /\ c.latest > 0 =>
            \E r \in revisions :
                /\ Name(r) = <<n, c.latest>>
                /\ r.generation = c.observedGeneration
                /\ c.generation = c.observedGeneration => r.spec = c.spec

\* While a component lives, a revision name once given is never given to another
\* snapshot, not even after a cleanup deleted the revision: an
\* ApplicationConfiguration that pins a name means one spec for ever
\* (IsRevisionDiff, createControllerRevision).
RevisionNameNeverRebound ==
    \A n \in Namespaces : component[n].alive =>
        \A r, s \in issued : r.ns = n /\ Name(r) = Name(s) => r = s

\* "the revision number increases monotonically with each new revision created"
\* (design/one-pager-component-mutable-and-versioning.md:106): the published number
\* never goes back and skips none, also when a delayed, duplicate event is handled
\* after a newer revision was published (Status().Update in createControllerRevision).
PublishedMonotone ==
    [][\A n \in Namespaces :
          component'[n].latest \in {component[n].latest, component[n].latest + 1}]_vars

-------------------------------------------------------------------------------
(* The inductive invariant behind these, for one namespace *)

\* The versions of component n that the handler has or will get.
Versions(n) == {componentCache[n]} \cup {events[n][i] : i \in DOMAIN events[n]}

\* A version the handler sees is the current one or an older one, at most one
\* published revision behind, and the same generation means the same spec.
VersionOf(d, c) ==
    /\ d.rv <= c.rv
    /\ d.rv = c.rv => d = c
    /\ d.latest = c.latest \/ d.latest + 1 = c.latest
    /\ d.generation <= c.generation
    /\ d.generation = c.generation => d.spec = c.spec

\* Versions arrive in the order in which they were written.
VersionsInOrder(n) ==
    /\ \A d \in Versions(n) : VersionOf(d, component[n]) /\ componentCache[n].rv <= d.rv
    /\ \A i, j \in DOMAIN events[n] : i <= j => events[n][i].rv <= events[n][j].rv

\* No revision is numbered beyond the one after the published one, and that one is
\* still on the server; revisions were taken at generations up to the current one.
IssuedInv(n) ==
    LET c == component[n] IN
    \A r \in issued : r.ns = n =>
        /\ r.revision <= c.latest + 1
        /\ r.revision = c.latest + 1 => r \in revisions /\ handler.pc \notin {"list", "kill"}
        /\ r.generation <= c.generation
        /\ r.generation = c.generation => r.spec = c.spec

\* Where the handler is in its call, and what it may still delete.
HandlerInv ==
    /\ handler.pc \in {"create", "status"} => handler.next = Given.latest + 1
    /\ handler.pc = "status" /\ component[handler.ns].alive => Snapshot \in revisions
    /\ handler.pc = "kill" =>
          /\ IsFiniteSet(handler.victims)
          /\ handler.victims \subseteq Names(issued)
          /\ handler.toKill > 0
          /\ handler.toKill + RevisionLimit <= Cardinality(handler.victims)

\* The inductive invariant: why no interleaving of edits, resyncs and faults lets the
\* handler publish out of order or clean up the revision it publishes (component.go).
RevisionInv ==
    /\ TypeOK
    /\ revisions \subseteq issued /\ revisionCache \subseteq issued
    /\ HandlerInv
    /\ \A n \in Namespaces : VersionsInOrder(n) /\ (component[n].alive => IssuedInv(n))
    /\ PublishedRevisionHeld
    /\ RevisionNameNeverRebound

\* The revision the component publishes has the component's spec.
RevisionCurrent(n) ==
    \/ ~component[n].alive
    \/ \E r \in revisions : /\ Name(r) = <<n, component[n].latest>>
                            /\ r.spec = component[n].spec

\* A revision was created that the component's status does not publish.
Unpublished(n) == <<n, component[n].latest + 1>> \in Names(revisions)

\* When edits end, the component publishes a revision of its last spec, unless an
\* earlier revision was created and could not be published: no other interleaving,
\* lost event, stale read or fault keeps a component behind (ComponentHandler).
CatchesUpUnlessUnpublished ==
    \A n \in Namespaces : <>[](RevisionCurrent(n) \/ Unpublished(n))

\* The same without the exception, as the handler's comment has it: "ComponentHandler
\* will watch component change and generate Revision automatically" (component.go:29).
CatchesUp == \A n \in Namespaces : <>[]RevisionCurrent(n)

\* An ApplicationConfiguration that lists the component by name ends up rendered
\* with the revision the component publishes (Reconcile, GetComponent; "OAM runtime
\* will always use the latest component revision").
AppConfigsFollow ==
    \A a \in AppConfigs :
        <>[](\/ ~component[NamespaceOf[a]].alive
             \/ ~appConfigs[a].byName
             \/ observed[a] = component[NamespaceOf[a]].latest)
===============================================================================
