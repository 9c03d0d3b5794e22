# A TLA+ model of the OAM Kubernetes runtime

The OAM Kubernetes runtime is a set of Kubernetes controllers. Users write
`Component`s (what to run) and `ApplicationConfiguration`s (which components to run,
with which traits, in which scopes); the controllers turn them into workloads, traits
and, at the end, Deployments, Services and ConfigMaps. All of them work on state that
others change at the same time: the API server holds the objects, informer caches lag
behind it, status updates are refused for an old resource version, events are
repeated or merged, and the process may stop between any two calls. That is what the
modules here are about.

## The parts of the system

| Part | State | Operations | Hard because |
|---|---|---|---|
| `ComponentHandler` (`component.go`) | ControllerRevisions; the latest revision in a component's status | event handlers: create a revision, publish it, clean old ones up, requeue an ApplicationConfiguration | two writes per revision, numbers computed from a status that may be old, a handler without retries |
| ApplicationConfiguration reconciler (`applicationconfiguration.go`, `apply.go`) | finalizer, status (applied workloads, traits and scopes), references in scopes | render, apply, reference and dereference scopes, garbage collect, finalize | garbage collection works from a record that is written last and may be lost; scopes are shared |
| Dependencies (`render.go`, `apply.go`, `dag.go`) | values of outputs, stores, unsatisfied dependencies | check outputs and inputs, hold objects back, fill in values, write stores | values are read early and used late; order of listing; cycles |
| HealthScope controller (`healthscope*.go`, `standard.go`) | conditions of workloads and their summary | probe workloads in goroutines, store the status, come back after the interval | reads of many objects that change meanwhile |
| ContainerizedWorkload controller | children and `status.resources` | apply Deployment, ConfigMap, Service; remove others; record | children are told by UID and deleted by name |
| ManualScalerTrait controller | replica counts and a second owner of Deployments, a condition | read trait, workload and children, patch, report | writes objects of another controller, which it does not watch |
| Rendering (`render.go`, `helper.go`) | names of the last reconciliation, kept in the status | choose the name of the workload and of the traits, set references, list history | whether a new revision replaces a workload or runs beside it depends on names that may be of another spec |
| Admission webhooks | none | replace types by kinds, validate | they check against a cluster that changes afterwards |
| Discovery mapper | the kinds of the API server | look a kind up, refresh on a miss | shared by the requests of a webhook without a lock |

They interact only through the API server: the handler publishes revisions that the
reconciler reads (`GetComponent`) and puts ApplicationConfigurations into its queue;
the reconciler writes workloads, which the workload controller turns into children,
writes traits, whose controller scales those children, and writes the references of
workloads into scopes, which the health scope controller probes. The webhooks stand
before every write of a component or an ApplicationConfiguration, if `--use-webhook` is on.

## Modules

Each module models the API server's part (storage, resource versions, caches, garbage
collection by owner) as far as the component uses it. Those definitions are marked
external in `PROJECT.json`; all others have the lines they stand for.

**ComponentRevision.** One component name in each of several namespaces. `HandleEvent`
takes the next version of a component from its watch and compares it with the
published revision (`IsRevisionDiff`, through a cache); `CreateRevision`,
`UpdateStatus`, `ListRevisions`, `DeleteRevision` and `EnqueueRelated` are the API
calls of the handler, in its order, each a step of its own so that edits, deletions,
cache updates and the ApplicationConfiguration reconciler come in between. `Reconcile`
is what that reconciler does with a revision: read it through `GetComponent`. Faults
are refused or lost calls and restarts.

**AppConfig.** One ApplicationConfiguration, several scopes. `Begin` takes the cached
version; `RegisterFinalizers`, `BeginRender` (which reads the scopes), then one step per
object or scope: `ApplyObject`, `ApplyScope`, `ReadScope` and `ApplyScopeRemoval` (the Get and
the Update of `applyScopeRemoval`, with others' writes in between), `DeleteObject`, and
`PostHook`, the deferred status update. A deletion goes through `BeginFinalize`, `ReadScope`,
`ApplyScopeRemoval` and `RemoveFinalizer`. That `Apply` passes over what waits for a dependency
(`HasDep`, `apply.go:109`, `:128`) is the matter of Dependency. Another ApplicationConfiguration writes the
same scopes (`TouchScope`), users edit, delete, and delete scopes. *AppConfigUsers* adds
a history variable that says whether a user did not wait for one edit to be reconciled
before the next.

**Dependency.** The same reconciler, seen from data passing: `CheckOutput` and
`CheckInput` are the calls of `handleDependency`, `ApplyObject` and `ApplyOutputRef`
those of `Apply`; the fields of objects change at any time. Values are opaque strings
with an empty one and an absent one; the text of JSON patches is left out. The checks of one
input come in the order of `handleDataInput`: its output, its store, its conditions, so that a
store that is not ready is reported and not the output nobody declares (`StoreReady`,
`Rejected`). The reads of one input are one step; those of different inputs, of the render and
of the apply are apart. A store is created and then filled; a fault may come in between.

**HealthScope.** `Reconcile` starts one goroutine per reference. A goroutine reads the
workload (`CheckWorkload`), its children (`CheckChild`), its labels (`GetLabels`) and its
peers (`ListPeers`, then the same for each peer), with changes of objects between any
two reads. `UpdateStatus` stores the summary and sets the timer. There are two kinds of reads.
The checkers of ContainerizedWorkloads, Deployments, StatefulSets and DaemonSets `Get` a typed
object (`healthscope.go:131`, `:194`, `:229`, `:262`) with the manager's default client
(`main.go:82`), which answers from an informer's cache: `view` is what the cache holds of an
object, `watch` its later states, which arrive in their order at any time (`ObjectSync`), and
`Copy` what the checker is given, the recorded children included. Reads of unstructured objects
go to the API server: PodSpecWorkloads, Services, unknown workloads, the labels of a workload
and the list of its peers. So a peer may be listed that the cache does not have yet.

**ContainerizedWorkload.** `ApplyDeployment`, `ApplyConfigMap`, `ApplyService`,
`CleanDeployment`, `CleanService`, `UpdateStatus` in this order; children have UIDs, which
the model reuses once nothing refers to them. The last two calls of a reconciliation,
`Status().Update` and `PatchCondition`, are one step with the failure of the second as
an alternative: the patch carries no resource version, so what happens in between
does not change its effect.

**WorkloadChild.** The abstract specification of one child of a workload: it is made once and
kept, and goes with the workload; after a user has deleted a child the promise is weaker.
ContainerizedWorkload implements it for Deployment, ConfigMap and Service
(`ImplementsWorkloadChild`, an instance for each with the child's UID as refinement mapping);
that the children come and go in the end is a property of its own, `ChildrenFollow`.

**ManualScaler.** One trait that may refer to two workloads, one with a Deployment and one
with replicas of its own. `Begin`, `FetchWorkload`, `FetchChildren`, `ScaleResources`,
`ReportFailure` and `ReportSuccess` are the calls of `Reconcile` in its order; users, the
ApplicationConfiguration controller, the workload's controller and the garbage collector go
on between them. The workload's controller is there as the actions of WorkloadChild, and
`KeepsWorkloadChild` shows that every step, those of the trait's controller included, is one
of WorkloadChild. Patches are merge patches against the copy that was read, so that a
field which had the wanted value then is not written.

**Admission.** The four webhook handlers as operators: `MutateComponent`, `Mutate`,
`ValidateComponentObject`, and `Valid`, the conjunction of the four checks registered for
ApplicationConfigurations, on records that keep what those checks look at.

**Rendering.** One component in one ApplicationConfiguration over several revisions and edits.
`EditApp` and `EditComponent` pass the operators of Admission when the webhook is on. `Render`
computes the name of the workload (`SetWorkloadInstanceName`, from the running workload whose
name the status records), the names of the traits (`getTraitName`, from the status too), their
references, and the list of API calls; `Call` makes them one at a time; `UpdateStatus` records
the names and the history. A workload's name is a number: `n` for `<component>-v<n>`, negative
ones for the component's name, a name in the contents and a name set by a parameter.
Revisions come from `PublishRevision`, a coarse ComponentRevision. The component, its revisions
and the definitions are read with typed `Get`s (`helper.go:186`, `:397`, `:408`), so the variables
`component`, `revisions` and `defined` stand for what the cache of the process holds, and their
actions for the arrival of a change there; that cache is one for the reconciler and the webhooks. A
content is the value of
fields that all contents have: that a merge patch leaves fields the new content does not
mention is not in the model.

**DiscoveryMapper.** Any number of callers of `RESTMapping` or `KindsFor` on one mapper. The
field is written without a lock; as an interface of two words it is written in two steps in
either order, and read in between. A discovery is no snapshot: `GetAPIGroupResources` asks for
one API group after the other while kinds come and go (`Ask`), and goes on without a group that
does not answer, without an error, so that a kind that is served may be missing.

`MC*.tla` give the constants of the runs; `*Proofs.tla` hold theorems, one module for each
component with state. Where the code goes through a list to its last match (`getTraitName` in
Rendering, the operations of an input in Dependency, `dereferenceScope` in AppConfig), the model takes the greatest index of a
match, so that the proofs need no recursion.

## Runs

Sizes are distinct states with the bounds of the `.cfg`.

| Run | Result | Shows |
|---|---|---|
| ComponentRevision | holds, 608k | the published revision is held, a name stands for one content, numbers grow; `RevisionInv`; contents get published unless an unpublished revision is in the way; ApplicationConfigurations follow |
| ComponentRevision_stuck | **violated** | `CatchesUp` without that exception |
| ComponentRevision_namespaces | **violated** | cleanup over namespaces deletes a published revision |
| AppConfig_safety | holds, 1399k | finalizer, references, truth of a reported success; `PatientInv`; for patient users nothing is left behind and no reference dangles |
| AppConfig_liveness | holds, 855k | success is reported in the end, deletion completes, with a scope that takes no references and a spec without components |
| AppConfig_leak | **violated** | `NothingLeftBehind` without patience |
| Dependency | holds, 682k | what is applied holds offered values, what is held back is reported, in seven shapes of dependencies and two settings of the flags; `DependencyInv`; all is applied and changes are followed in the end |
| HealthScope | holds, 349k | a probe while objects, their cached copies and references change: what is found healthy was so, in a state no older than the cache when the probe began; what does not move is found to be what it is; the status is of the references the scope has and comes to say what the objects are; `ProbeInv` |
| ContainerizedWorkload | holds, 760k | implements WorkloadChild for three children; `ChildrenInv`; they follow the workload |
| ContainerizedWorkload_cleanup | **violated** | cleanup deletes what was just applied |
| ManualScaler | holds, 690k | a success the controller rests on is true, replicas follow, the promises of WorkloadChild survive up to the second owner; `ScalerInv` |
| Rendering | holds, 445k | workloads of revisions are immutable and kept, no takeover, after a reconciliation all is as the spec wants it, every spec that can be rendered comes into force; `CycleInv` |

The four violations are disagreements of the code with its own comments or docs; see
`findings` in `PROJECT.json`. In short:

1. *Stuck component.* The revision `comp-v2` is created, then the status update is
   refused because the component was edited meanwhile. From then on every event computes
   `comp-v2` again and its `Create` fails with AlreadyExists.
2. *Cleanup across namespaces.* `cleanupControllerRevision` lists by label without a
   namespace.
3. *Leak.* What a reconciliation applied is recorded only by its last call. If that is
   refused because of an edit, and the edit drops a component, nobody deletes its objects
   or its references.
4. *Cleanup by name.* Once somebody has deleted a Deployment, the status has its UID; the
   new Deployment has another one, and `cleanupResources` deletes it by their common name,
   again and again until the cache happens not to show it.

### Bounds

Bounds limit what disturbs the system, never what the controllers do. *ComponentRevision*:
users write the component up to resource version `MaxRV` (status updates count too), from
revision `MaxStale` on the revision cache is up to date when it is read, `MaxFaults` calls fail
or restarts happen; limit 1 makes cleanup happen from the second revision on. *AppConfig*:
`MaxEdits` gives an edit while another is being reconciled, plus a deletion; one write of
another ApplicationConfiguration and one fault each hit every step, the one between the read of
a scope and its update included; an edit may leave no component. *Dependency*: three objects
are needed for a chain against the order of listing; three changes let a source become ready,
change, and withdraw. *HealthScope*: one change, one edit, one fault, at every point of a
probe with two goroutines; the unready Deployment makes the first probe find a fault. With one
change the cache is at most one state behind, which suffices for a workload that is broken during
the whole probe to be found healthy by its old copy; that longer delays do no more is the theorem.
*ContainerizedWorkload*: two events, in any order, of edit, deletion, failure, restart; a
child's deletion uses up the bound so that what follows is the controller's own doing.
*ManualScaler*: three events of any kind, so that the trait can be scaled, moved to the other
workload and its first one deleted; two counts, one of them the default. *Rendering*: two
changes by users, administrators or the rollout and one fault, at any point of up to three
revisions: enough to edit a component under a versioned ApplicationConfiguration and then the
ApplicationConfiguration, or the definition; six entries and two contents, with the
webhook on and off.

### Fairness

Weak fairness of the worker (each step of a reconciliation or handler, once enabled, is
taken: calls have timeouts and the process is restarted), of informers (a write is
reported in the end, to the handlers and to the caches that typed reads are answered from) and of
timers and queues. Resyncs of informers are assumed only where
a property says so (`DeletionCompletes`, `StatusFollows`) or where the handler has no other
retry (ComponentRevision): they come every ten hours unless configured. Users and faults are
under no obligation; all faults are bounded, which stands for errors that end. In
*ManualScaler* the workload's controller and the garbage collector are fair as well, which is
what ContainerizedWorkload shows (`ChildrenFollow`) and Kubernetes does; a resync is assumed
only if somebody else has deleted or scaled the Deployment. In *Rendering* the reconciler comes
back by itself, after an error at once and after a success when `--long-wait` is over, and the
component's handler publishes in the end (ComponentRevision says when). With
`--long-wait 0` nothing comes back after a success (`main.go:60`): the other modules of the
reconciler have it as a parameter (`LongWait`, `longWait`), Rendering does not, and `Settles`
assumes that it is not set. In *ComponentRevision* the resync of the one
ApplicationConfiguration is fair, so `AppConfigsFollow` says that the new revision comes into use
whatever the requeue does; it does not say that the requeue finds every ApplicationConfiguration,
and it does not (`isMatch`, see below).

`CHECK_DEADLOCK FALSE` is set where the system may come to rest: everything reconciled,
nothing queued, and the bounds used up.

## What is proved

TLAPS checks the theorems of the eight `*Proofs` modules for every value of the constants,
the bounds included, so for any number of edits, faults and restarts, any objects, kinds,
contents and shapes of dependencies. Each of them has the same plan: an inductive invariant,
which the run of the module checks as well; one lemma per action, and in it one step per part
of the invariant that the action can disturb; and the properties as consequences.

*ComponentRevision.* `TypeCorrect` needs only the assumptions of the module.
`RevisionInvariant`, `PublishedRevisionAlwaysHeld`, `NameNeverRebound` and
`PublishedNumberMonotone` assume one namespace (with two the second is false, see the run
ComponentRevision_namespaces) and `RevisionLimit > 0`. None of the three properties is
inductive. `RevisionInv` adds what the code relies on: versions reach the handler in the order
they were written, none is ahead of the stored one or more than one published revision behind
it, and equal resource versions mean equal contents (`VersionsInOrder`); no revision is
numbered beyond the one after the published one, and that one, if it was issued, is on the
server (`IssuedInv`); and a cleanup has at least `RevisionLimit` more candidates than it has
left to kill (`HandlerInv`), so that, going from the oldest, it ends before the published
one. The proof has one lemma per action and per part of the invariant it can disturb; the
counting argument of the cleanup uses the cardinality theorems of `FiniteSetTheorems`.

*AppConfig.* `ScopeInvariant`, and from it `TypeCorrect`, `RefsGuardedByFinalizer`,
`RefsUnique`, `ForeignRefsUntouched`, from the module's assumptions alone. `ScopeInv` adds that
versions the reconciler holds or will get have a finalizer only if the stored one has
(unless it is gone), that scopes are joined only by a reconciliation of a version with the
finalizer, and that a scope rendered at the resource version it still has is the stored
one: that is why an accepted update adds to the true list.

`SuccessInvariant`, and from it `SuccessIsTrue` (`SuccessMeansApplied`), say more: a reported
success is true, and stays true under everything that runs after it. Both assume
`DistinctWorkloads`, that no two entries of a spec render to one workload; without it the
statement is false (see below). The property is not inductive, for two reasons. When it is
reported it rests on a walk over the entries that began long before, on a copy of the object;
and afterwards older versions may still reach the reconciler, whose calls could undo it.
`SuccessInv` adds to `ScopeInv`: `OrderInv`, versions reach the reconciler in their order, and
one with the stored generation has the stored spec; `WalkInv`, the entries that the walk has
come to are in force but for the calls still to make, and all are once it has passed the last
one; `HarmlessInv`, no call still to make takes back what the version under way wants, so that
a walk of the reported version harms nothing; and `LatestInv`, after a success no older version
is reconciled any more, because an accepted status update is of the version that the cache has
or had. What a step leaves alone is one lemma (`StepKeeps`), used both for the walk and for the
success already reported.

`PatientInvariant` is about AppConfigUsers, under the same condition, and gives the two promises
to users who wait for one edit to be reconciled before the next: `NothingIsLeftBehind`
(`NothingLeftBehindPatient`) and `NoRefDangles` (`NoDanglingRefPatient`). What a reconciliation
removes is what the status records, and that record was written by an earlier reconciliation, of
an earlier spec; so the question is why the record is complete. `PatientInv` adds to `SuccessInv`
what holds for hasty users too: a version at the stored resource version has the stored
status (`RecordInv`), so that an accepted success has walked through the record it replaces; what
is applied is what the version under way lists (`WantedInv`); and what the walks over the record
have come to has left its scopes and is deleted but for the calls still to make (`LeavingInv`).
For patient users it adds `LinkInv`, the status is the link between two specs: versions of an
older generation, which may still reach the reconciler, have exactly the spec that the status
records, so whatever they apply is in the record; after a success, and once deletion has begun,
the record is the spec; and `GoneInv`, no version that is left when the object is gone may join a
scope. An edit keeps the link because the success it waited for leaves no older version on its
way (`LatestInv`); a hasty edit breaks it, which is what the run AppConfig_leak shows. What one
step does to the reconciliation (`CtlStep`), to the record (`RecordStep`) and to the server
(`Effects`) are lemmas shared by the parts.

*DiscoveryMapper.* `MapperInvariant`, and from it `NoMatchIsJustified`, `FoundIsServed` and
`PanicsOnlyAtStart`, for any number of callers and any kinds, without assumptions. The module
has no run; its state is small and the proof says more. A wrong answer "no match" is possible,
and `NoMatchIsJustified` says in which ways: the kind was absent at some time during the call
(`absent`); its group gave the call's own discovery no answer, which `GetAPIGroupResources` does
not report (`lost`); or between the call's write of the field and its read another caller wrote an
older discovery (`overtaken`). `MapperInv` adds what the lookups rely on: whatever is in the field
or in a caller's hands was served at some time; what a caller has asked for it has asked for
during its call, so a kind it lacks was absent then or lost; and between its write and its read
the field is what it wrote unless another caller has written since.

*Dependency.* `DependencyInvariant`, and from it `OnlyOfferedValues` (`FilledAsOffered`) and
`NothingHeldSilently` (`WaitingReported`). That an applied object holds only values its sources
offered is a fact about the end of two walks over the list of objects, with any change of the
sources in between. `DependencyInv` is what holds in the middle: `SeenInv`, every value a
source has now has been noted; `RenderedInv`, each object the first walk has passed is held
back or has an offered value for every input, and the one it is at has them for the inputs
already read, while the calls still to make are the rest (`LeftToRender`); `AppliedInv`, each
object the second walk has passed is on the server at the generation of the walk, or held
back; `PlaceInv`, who is held back has an unsatisfied dependency on record, and the status is
never of a later generation than the walk. Assumed of the constants: the sentinels are not
values, an object is rendered once, and names of outputs are unique
(`SentinelsAssumption`, `AppsAssumption`).

*Rendering.* `RenderInvariant`, and from it `RevisionsImmutable`, `OldRevisionsKept` and
`NoWorkloadTakenOver`. The action properties forbid a write, and the writes are planned in
`Render`, long before `Call` makes them, from a status and a cluster that change meanwhile; so
`RenderInv` speaks of the plan. `VersionInv`: a workload with a revision's name is of that
revision, or of contents that were ahead of it. `PlanInv`: so is every write still to make to
such a name, it comes first, with revisions enabled it does not change the label of what runs
under the name, and nothing with a revision's name is to be collected. `AdmittedInv`: the spec
in force passes the webhook's checks, unless it is remembered (`slipped`) that the cluster
changed under it or there is no webhook. The assumptions are those of the constants' types
(`RenderingAssumption`, `KindsAssumption`, `NoObjectAssumption`).

`CycleInvariant`, and from it `RestAsWanted` (`RestIsAsWanted`), is about the whole cycle. The
controller keeps no list of what it has made; it finds objects again by the names in the status,
which only a successful reconciliation writes, and makes new names where the status has none.
`CycleInv` says why that is enough. `KnownInv`: whatever is there, or would be made even from an
old copy of the ApplicationConfiguration, has a name that the status lists or that the spec is
rendered to under this status, so a reconciliation that was cut short leaves nothing the next one
does not know; a change before the last one was reconciled (`hasty`) breaks this, as in the run
AppConfig_leak. `ApplyInv`: a reconciliation under way will make all that the spec wants
(`Complete`) and collect all else (`Exact`), counting the calls still to make. `TodoInv`: it does
not collect what it makes. `OneEach`: one object per name. `RestInv`: at rest the list of calls
is empty and only the status is left to say so. The definitions in force may change between
`Render` and the calls, and the rollout may delete a workload; each step's effect on
`Complete` and `Exact` is a lemma of its own (`QuietCycle`, `CallComplete`, `CallExact`,
`StaleRecordCycle`, `FreshRecordCycle`). Two traits of one kind in a list, which the code may
give one name, are exempted (`Confused`), as in the property.

*HealthScope.* `HealthInvariant`, and from it `HealthyWasHealthy`, `SummaryAlwaysAgrees` and
`StatusOfTheseRefs`. Since typed reads come from a cache, a probe cannot promise that what it finds
healthy was healthy while it ran. What it can promise is in `HealthyAtSomeTime`: each part of the
workload, and of every peer there throughout, was well in a state that it had during the probe
or that the cache still held or was still to get when the probe began. `window` collects exactly
these states for each object, and `WindowInv` says that every read of the probe finds one of
them, however far the cache is behind. `HealthInv` follows every goroutine: `WalkInv` says what it
has read and has left, `HealthyInv` that whatever it has passed with a healthy result was well in
some state of the window, and that no peer that was there throughout is skipped, so that no order
of reads, changes and cache updates produces a healthy workload out of parts that were
never well; `SentInv` that the channel has one condition for each goroutine that is done, so that
the counts add up; `VersionInv` that a scope read at the resource version it still has has the
references that were read, which is why an accepted status is of the scope's references. The
counting uses `FiniteSetTheorems`.

`ProbeInvariant`, and from it `TruthIsFound` (`TruthFound`), is the converse: without a failed
read, a workload of which nothing moves, neither it nor a child nor a peer, is reported to be
exactly what it is. Nothing moves means that the window of each of these objects is its present
state alone (`steady`): it has not changed during the probe, and the cache had that state when the
probe began. Without the second half the statement is false, as an old copy may be judged, or a
peer be listed live that the cache does not have. The goroutine comes to its result in up to a
dozen reads between which other objects change, so `ProbeInv` says where it is (`TruthSoFar`): it
stands at the workload or at a peer that is there; unhealthy, once found, is the truth; and as
long as it has found nothing unhealthy, the status is that of the workload alone, and anything
that speaks against it is among the children and peers still to be read. That this lasts while
other objects change is one lemma (`TruthSoFarLasts`).

*ContainerizedWorkload.* `ChildrenInvariant` and `ImplementsChildren`, the refinement of
WorkloadChild for all three children: the initial state maps to an initial state and every
step to a step or a stutter. `ListedInv` is the reason: as long as nobody has deleted a child,
the status, its cached copy and the reconciliation's copy each list nothing or the present
children, so that the removal of everything else removes no child. `UIDsAssumption` says that
there is always a UID nothing refers to (six can be referred to at a time).

*ManualScaler.* `ScalerInvariant`, and from it `SuccessAtRestIsTrue` and `ChildPromiseKept`,
the steps of WorkloadChild for each workload with a Deployment. `ScalerInv` adds that a
reconciliation whose trait is neither queued nor behind in the cache works on the stored trait
(`RunInv`), that the copy read has the count of an object nobody else has scaled since
(`SeenInv`, without which a merge patch that leaves an equal count out would be wrong), and
that a patch never drops the workload as an owner (`OwnerInv`).

Only model-checked:

- what needs fairness, which is out of the prover's reach: `CatchesUpUnlessUnpublished`,
  `AppConfigsFollow`, `Converges`, `DeletionCompletes`, `AllApplied`, `ChangesFollowed`,
  `StatusFollows`, `ChildrenFollow`, `ReplicasFollow`, `ChildGoesUnlessScaled`, `Settles`.

Every invariant and every action property that a run checks is also a theorem.

What the provers cannot do, an induction over data, is avoided by least and greatest elements:
`LeastNumber` (from the well-foundedness of the naturals, with the property as a set) gives
the greatest index of a match in a finite list (`GreatestPosition`, `PickedFacts`).

## Behaviour met on the way

What the code does that a maintainer may want to know, without a text that says otherwise:

- A revision missing from the cache counts as different, so a restart or a quick second
  event may create a revision with equal contents (`component.go:110`).
- Cleanup reads the pins once (`component.go:244`); a pin set during the deletions may come
  too late. With `--revision-limit 0` cleanup deletes the published revision.
- `isMatch` requeues only the first ApplicationConfiguration that lists a component
  (`component.go:76`); the others wait for `--long-wait` or a resync.
- An ApplicationConfiguration whose component list becomes empty reports an error for ever and
  keeps what it had (`apply.go:103`), until it gets components again or is deleted.
- If two components of an ApplicationConfiguration render to the same workload,
  `dereferenceScope` compares the record of the first with the scopes of the second
  (`apply.go:290` keeps the last match) and takes the workload out of the first one's scopes
  each time, after `applyScope` has put it in: the status reports a success that is not true.
- A scope whose definition has no `workloadRefsPath` is accepted by `applyScope` and refused
  by `applyScopeRemoval` (`apply.go:350` and `:404`): an edit that drops the scope, and the
  deletion of the ApplicationConfiguration, then never get past the error. `Converges` and
  `DeletionCompletes` except exactly this (`LeavesPlainScope`).
- A held object with a store output that takes nothing from it makes `ApplyOutputRef` fail
  (`apply.go:172`), which keeps all later objects from being applied.
- The verdict of a health scope may be that of an old copy: typed objects are read from the cache
  (`healthscope.go:131`, `:194`, `:229`, `:262`), so that a workload which is broken during the
  whole probe is found healthy until the cache catches up and the next probe comes, and a
  revision that the live list of peers names may not be in the cache yet and count as unhealthy.
- `CheckDeploymentHealth` returns nil for a Deployment of another group or version
  (`healthscope.go:184`), and `updateChildResourcesCondition` dereferences it (`:175`). The model has
  Deployments of `apps/v1` only, as the ContainerizedWorkload controller records them.
- A probe of a health scope that lasts as long as the interval is not requeued
  (`healthscope_controller.go:174`), and both default to ten seconds. The order of conditions
  changes from probe to probe, which is a write and so brings the next probe at once. Child
  resources of kinds other than Deployment and Service count as healthy.
- `scaleResources` of the manual scaler hands on the nil error of `PatchCondition`
  (`manualscalertrait_controller.go:179`), so `Reconcile` drops the wait and reports success
  after a failure. It is saved by its own writes: the error and then the success are two
  changes of the status, whose events bring the trait back at once. While there is no
  Deployment yet it spins in this way.
- The manual scaler watches the trait only: a Deployment deleted and made anew, or scaled by
  somebody else, gets its count with the next resync. As a second owner the trait keeps the
  Deployment of a workload that is gone, also when it has moved to another workload.
- Without a trait that asks for revisions the workload has the component's name. When such a
  trait is added, that workload is kept as long as the revision stays, and garbage collected as
  soon as there is a next one, since its name is not that of a revision; when the trait is
  removed, the workloads of revisions stay.
- Between an edit of a component and the publication of its revision, `GetComponent` returns
  the new contents with the old revision's name (`helper.go:408`), so that the workload
  `<component>-v<n>` gets contents that are not revision n (`ahead` in Rendering).
- Of two unnamed traits of one kind both get the name recorded last from the second
  reconciliation on (`render.go:830`), and one object is deleted. A trait whose given name is
  dropped keeps it.
- Edits that overtake a reconciliation leave traits and plain-named workloads behind, as in
  finding 3. The workload in use is listed as history if it has the component's name
  (`applicationconfiguration.go:363`), and the list is not restricted to the namespace.
- The webhook looks at the cluster of the moment: a component that gets a name, or a
  definition that changes, afterwards is not checked again; `NoTakeover` excepts what is rendered
  after such a change (`slipped`), since no check at admission can prevent it. It denies traits and workloads without a
  definition, for which the renderer has dummies, and does not check required or unknown
  parameters, which the renderer refuses. `checkParams` takes every field path that contains
  `metadata.name` for that of the name.
- `Refresh` of the discovery mapper returns the field and not what it has built, so a lookup
  may use another caller's older discovery; a discovery that some groups do not answer replaces a
  complete one without an error (`mapper.go:49`); until the first refresh has finished, a lookup
  beside it may panic on half an interface (`mapper.go:53`).

## Not modelled

A component that is deleted and created again under its name while revisions of the former
one are still there (the runs and theorems speak of the life of one component); pins that
change during a cleanup; how often a health scope is probed; the texts that other controllers
keep in the status (`patchExtraStatusField`); hooks of plug-ins, of which the repository has
none; the contents of JSON documents beyond what control depends on, the translation of
container specs (`translate.go`, field by field copying) included; API types beyond the
records of the modules; generated code, flags and wiring, charts and examples.

## Plan

The components that can be modelled are, and every safety property of the runs is proved. What
could follow is the life of several components of one name (deletion and creation with revisions
left over), for which `ComponentRevision` would need a second generation of its component.

