------------------------------- MODULE AppConfig -------------------------------
(***************************************************************************)
(* The life of one ApplicationConfiguration under its controller: the      *)
(* reconciler renders the components it lists, applies their workloads and *)
(* traits, adds the workloads to the scopes they join and removes them     *)
(* from those they left, deletes what the previous status records and the  *)
(* spec no longer lists, and writes the status.  A finalizer keeps a       *)
(* deleted ApplicationConfiguration until its workloads have left their    *)
(* scopes.                                                                 *)
(*                                                                         *)
(* The controller has one worker, so one reconciliation runs at a time;    *)
(* each API call that writes is a step of its own, between which users may *)
(* edit or delete the ApplicationConfiguration and its scopes.  The        *)
(* ApplicationConfiguration is read from an informer cache that lags the   *)
(* API server; scopes, being unstructured, are read from the server.       *)
(***************************************************************************)
EXTENDS Integers, Sequences, SequencesExt

CONSTANTS
    Workloads,      \* references of workloads that components render to
    Traits,         \* references of traits
    Scopes,         \* scopes of the namespace
    Foreign,        \* a workload of another ApplicationConfiguration
    AppSpecs,       \* the component lists the spec may have (see Entry)
    PlainScopes,    \* scopes whose ScopeDefinition has no workloadRefsPath
    RevisionNamed,  \* workloads named "<component>-..." (see IsRevisionWorkload)
    LongWait,       \* is --long-wait positive?
    MaxEdits,       \* bound: edits and deletions of the ApplicationConfiguration
    MaxTouches,     \* bound: writes of scopes by others
    MaxFaults       \* bound: failed API calls and restarts of the controller

\* What the controller makes of one component of the spec: the references of its
\* workload, of its traits, and of the scopes it joins.
Entry == [workload : Workloads, traits : Seq(Traits), scopes : Seq(Scopes)]

ASSUME AppSpecsAssumption ==
    /\ AppSpecs # {}
    /\ AppSpecs \subseteq Seq(Entry)
    /\ Workloads \cap Traits = {}
    /\ Foreign \notin Workloads
    /\ PlainScopes \subseteq Scopes
    /\ RevisionNamed \subseteq Workloads

ASSUME BoundsAssumption ==
    /\ LongWait \in BOOLEAN
    /\ MaxEdits \in Nat /\ MaxTouches \in Nat /\ MaxFaults \in Nat

VARIABLES
    ac,        \* the ApplicationConfiguration on the API server
    events,    \* its versions the informer has yet to deliver
    acCache,   \* the version the informer delivered last
    scopes,    \* the scopes on the API server
    objects,   \* the workloads and traits on the API server
    queued,    \* is the ApplicationConfiguration in the work queue?
    ctl,       \* the reconciliation under way
    edits, touches, faults  \* how often users, others and faults have struck

vars == <<ac, events, acCache, scopes, objects, queued, ctl, edits, touches, faults>>

Conditions == {"none", "success", "error", "finalizeError"}

AppConfiguration ==
    [exists : BOOLEAN, deleting : BOOLEAN, finalizer : BOOLEAN, rv : Nat,
     generation : Nat, spec : AppSpecs,
     status : AppSpecs \cup {<<>>}, condition : Conditions, observedGeneration : Nat]

Scope == [exists : BOOLEAN, rv : Nat, refs : Seq(Workloads \cup {Foreign})]

Operation == [do : {"apply", "delete", "keep"}, object : Workloads \cup Traits]
                 \cup [do : {"ref", "unref", "keep"}, scope : Scopes, workload : Workloads]

\* The copy of the ApplicationConfiguration the reconciliation works on, the scopes
\* it read, the API calls left for the entry it is at, and whether the call at hand has
\* read its scope.
Reconciliation ==
    [pc : {"idle", "apply", "dereference", "collect", "error", "posthook",
           "finalize", "finalizeError"},
     ac : AppConfiguration, rendered : [Scopes -> Scope],
     entry : Nat, todo : Seq(Operation), read : BOOLEAN]

At(pc) == ctl.pc = pc

\* The status records an entry for each workload, in the terms of the spec's.
Objects(list) ==
    {e.workload : e \in ToSet(list)} \cup UNION {ToSet(e.traits) : e \in ToSet(list)}

Refs(s) == ToSet(scopes[s].refs)

\* The conditions and the observed generation of a fresh object.
Created(s) == [exists |-> TRUE, deleting |-> FALSE, finalizer |-> FALSE, rv |-> 1,
               generation |-> 1, spec |-> s, status |-> <<>>,
               condition |-> "none", observedGeneration |-> 0]

Idle == [pc |-> "idle", ac |-> Created(CHOOSE s \in AppSpecs : TRUE),
         rendered |-> [s \in Scopes |-> [exists |-> FALSE, rv |-> 0, refs |-> <<>>]],
         entry |-> 0, todo |-> <<>>, read |-> FALSE]

\* A reconciliation at pc, of version v, that has nothing rendered.
AtWith(pc, v) == [Idle EXCEPT !.pc = pc, !.ac = v]

Init ==
    /\ ac \in {Created(s) : s \in AppSpecs}
    /\ events = <<ac>>
    /\ acCache = ac
    /\ scopes \in [Scopes -> {[exists |-> TRUE, rv |-> 1, refs |-> <<>>],
                              [exists |-> TRUE, rv |-> 1, refs |-> <<Foreign>>]}]
    /\ \A s \in PlainScopes : scopes[s].refs = <<>>
    /\ objects = {}
    /\ queued = FALSE
    /\ ctl = Idle
    /\ edits = 0 /\ touches = 0 /\ faults = 0

-------------------------------------------------------------------------------
(* The API server, its users and the informer *)

\* A write is delivered to the informer, in order; writing what is there already
\* makes no new version.
Write(new) ==
    IF new = ac THEN UNCHANGED <<ac, events>>
    ELSE /\ ac' = [new EXCEPT !.rv = ac.rv + 1]
         /\ events' = Append(events, ac')

\* An update is refused if its resourceVersion is not the current one.
Accepted(v) == ac.exists /\ v.rv = ac.rv

\* What a status update of version v makes of the object.
StatusOf(v) == [ac EXCEPT !.status = v.status, !.condition = v.condition,
                          !.observedGeneration = v.observedGeneration]

\* The status of the ApplicationConfiguration says that its spec is in effect.
Reconciled == ac.condition = "success" /\ ac.observedGeneration = ac.generation

MayWrite ==
    /\ ac.exists /\ ~ac.deleting
    /\ edits < MaxEdits

EditAppConfig(s) ==
    /\ MayWrite
    /\ s # ac.spec
    /\ Write([ac EXCEPT !.spec = s, !.generation = @ + 1])
    /\ edits' = edits + 1
    /\ UNCHANGED <<acCache, scopes, objects, queued, ctl, touches, faults>>

\* An object with a finalizer is marked; one without is gone at once.
DeleteAppConfig ==
    /\ MayWrite
    /\ Write(IF ac.finalizer THEN [ac EXCEPT !.deleting = TRUE, !.generation = @ + 1]
                             ELSE [ac EXCEPT !.exists = FALSE])
    /\ edits' = edits + 1
    /\ UNCHANGED <<acCache, scopes, objects, queued, ctl, touches, faults>>

\* Kubernetes deletes the workloads and traits whose owner is gone.
CollectOwned ==
    /\ ~ac.exists
    /\ objects # {}
    /\ objects' = {}
    /\ UNCHANGED <<ac, events, acCache, scopes, queued, ctl, edits, touches, faults>>

\* The last reference takes the place of the one removed.
RemoveRef(refs, i) == SubSeq([refs EXCEPT ![i] = refs[Len(refs)]], 1, Len(refs) - 1)

\* Where a list first refers to w.
FirstRef(refs, w) ==
    CHOOSE i \in DOMAIN refs : refs[i] = w /\ \A j \in DOMAIN refs : refs[j] = w => i <= j

\* Another ApplicationConfiguration adds its workload to a scope or removes it.
TouchScope(s) ==
    /\ scopes[s].exists /\ s \notin PlainScopes
    /\ touches < MaxTouches
    /\ touches' = touches + 1
    /\ scopes' = [scopes EXCEPT ![s].rv = @ + 1,
                                ![s].refs = IF Foreign \in Refs(s)
                                            THEN RemoveRef(@, FirstRef(@, Foreign))
                                            ELSE Append(@, Foreign)]
    /\ UNCHANGED <<ac, events, acCache, objects, queued, ctl, edits, faults>>

DeleteScope(s) ==
    /\ scopes[s].exists
    /\ touches < MaxTouches
    /\ touches' = touches + 1
    /\ scopes' = [scopes EXCEPT ![s] = [exists |-> FALSE, rv |-> @.rv + 1, refs |-> <<>>]]
    /\ UNCHANGED <<ac, events, acCache, objects, queued, ctl, edits, faults>>

\* A watch event updates the cache and requests a reconciliation.
Deliver ==
    /\ events # <<>>
    /\ acCache' = Head(events)
    /\ events' = Tail(events)
    /\ queued' = TRUE
    /\ UNCHANGED <<ac, scopes, objects, ctl, edits, touches, faults>>

\* The informer's periodic resync requests a reconciliation of what it holds.
Resync ==
    /\ acCache.exists
    /\ queued' = TRUE
    /\ UNCHANGED <<ac, events, acCache, scopes, objects, ctl, edits, touches, faults>>

-------------------------------------------------------------------------------
(* Reconcile *)

\* Mutant of HasScope: looks at the first component only.
FirstHasScope(v) == v.spec # <<>> /\ v.spec[1].scopes # <<>>

HasScope(v) == \E e \in ToSet(v.spec) : e.scopes # <<>>

\* The reconciler takes the request and reads the ApplicationConfiguration.
Begin == At("idle") /\ queued

\* It is gone: nothing to do.
BeginGone ==
    /\ Begin
    /\ ~acCache.exists
    /\ queued' = FALSE
    /\ UNCHANGED <<ac, events, acCache, scopes, objects, ctl, edits, touches, faults>>

\* registerFinalizers: adds the finalizer, and ends.  The write's event requests
\* the next reconciliation; a conflict is retried.
RegisterFinalizers ==
    /\ Begin
    /\ acCache.exists /\ ~acCache.deleting
    /\ HasScope(acCache) /\ ~acCache.finalizer
    /\ IF Accepted(acCache)
       THEN Write([ac EXCEPT !.finalizer = TRUE]) /\ queued' = FALSE
       ELSE UNCHANGED <<ac, events, queued>>
    /\ UNCHANGED <<acCache, scopes, objects, ctl, edits, touches, faults>>

\* The scopes that Render reads.
JoinedScopes(v) == UNION {ToSet(e.scopes) : e \in ToSet(v.spec)}

\* An error ends the reconciliation: the condition is written, then the posthook
\* writes the status again.
Failed(v) == AtWith("error", [v EXCEPT !.condition = "error"])

\* Render reads every scope; one that is missing, or no component at all, is an
\* error.
BeginRender ==
    /\ Begin
    /\ acCache.exists /\ ~acCache.deleting
    /\ ~(HasScope(acCache) /\ ~acCache.finalizer)
    /\ queued' = FALSE
    /\ ctl' = IF /\ acCache.spec # <<>>
                 /\ \A s \in JoinedScopes(acCache) : scopes[s].exists
              THEN [Idle EXCEPT !.pc = "apply", !.ac = acCache,
                                !.rendered = [s \in Scopes |->
                                    IF s \in JoinedScopes(acCache) THEN scopes[s] ELSE @[s]]]
              ELSE Failed(acCache)
    /\ UNCHANGED <<ac, events, acCache, scopes, objects, edits, touches, faults>>

BeginFinalize ==
    /\ Begin
    /\ acCache.exists /\ acCache.deleting
    /\ queued' = FALSE
    /\ ctl' = AtWith("finalize", acCache)
    /\ UNCHANGED <<ac, events, acCache, scopes, objects, edits, touches, faults>>

-------------------------------------------------------------------------------
(* The calls of each phase: for an entry of the spec or of the old status *)

ApplyAll(list) == [i \in DOMAIN list |-> [do |-> "apply", object |-> list[i]]]
RefAll(w, list) == [i \in DOMAIN list |-> [do |-> "ref", scope |-> list[i], workload |-> w]]

\* Apply: the workload, then its traits, then the scopes it joins.  What an unmet
\* dependency holds back (HasDep) is left to Dependency.
ApplyEntry(e) ==
    ApplyAll(<<e.workload>> \o e.traits) \o RefAll(e.workload, e.scopes)

\* Mutant of DereferenceEntry: leaves the scopes that the workload still joins too.
DereferenceAll(st) ==
    [i \in DOMAIN st.scopes |->
        [do |-> "unref", scope |-> st.scopes[i], workload |-> st.workload]]

\* dereferenceScope, findDereferencedScopes: the scopes of a recorded entry that the
\* last rendered entry of its workload does not join.
DereferenceEntry(st) ==
    LET rendered == {i \in DOMAIN ctl.ac.spec : ctl.ac.spec[i].workload = st.workload}
        joined == IF rendered = {} THEN {} ELSE ToSet(ctl.ac.spec[Max(rendered)].scopes)
    IN [i \in DOMAIN st.scopes |->
           [do |-> IF st.scopes[i] \in joined THEN "keep" ELSE "unref",
            scope |-> st.scopes[i], workload |-> st.workload]]

\* Mutant of Eligible: leaves the recorded traits alone.
EligibleNoTraits(o) == o \in Workloads \ RevisionNamed /\ o \notin Objects(ctl.ac.spec)

\* Mutant of Eligible: forgets that the rendered traits are applied too.
EligibleAllTraits(o) ==
    o \in Traits \/ (o \notin Objects(ctl.ac.spec) /\ o \notin RevisionNamed)

\* eligible: a recorded object that no rendered entry holds.  A workload named after
\* a component revision is kept for its rollout.
Eligible(o) == o \notin Objects(ctl.ac.spec) /\ o \notin RevisionNamed

CollectEntry(st) ==
    LET recorded == <<st.workload>> \o st.traits IN
    [i \in DOMAIN recorded |->
        [do |-> IF Eligible(recorded[i]) THEN "delete" ELSE "keep", object |-> recorded[i]]]

\* Mutant of FinalizeEntry: only leaves the first scope of each workload.
FinalizeFirst(st) ==
    [i \in DOMAIN st.scopes |->
        [do |-> IF i = 1 THEN "unref" ELSE "keep",
         scope |-> st.scopes[i], workload |-> st.workload]]

\* dereferenceAllScopes: a deleted ApplicationConfiguration leaves every scope that
\* its status records.
FinalizeEntry(st) ==
    [i \in DOMAIN st.scopes |->
        [do |-> "unref", scope |-> st.scopes[i], workload |-> st.workload]]

\* The list a phase walks, and the calls it makes for one entry.
PhaseList == IF At("apply") THEN ctl.ac.spec ELSE ctl.ac.status

PhaseCalls(e) == CASE At("apply") -> ApplyEntry(e)
                   [] At("dereference") -> DereferenceEntry(e)
                   [] At("collect") -> CollectEntry(e)
                   [] At("finalize") -> FinalizeEntry(e)

Walking == ctl.pc \in {"apply", "dereference", "collect", "finalize"}

NextEntry ==
    /\ Walking
    /\ ctl.todo = <<>>
    /\ ctl.entry < Len(PhaseList)
    /\ ctl' = [ctl EXCEPT !.entry = @ + 1, !.todo = PhaseCalls(PhaseList[ctl.entry + 1])]
    /\ UNCHANGED <<ac, events, acCache, scopes, objects, queued, edits, touches, faults>>

PhaseDone(pc) == At(pc) /\ ctl.todo = <<>> /\ ctl.entry = Len(PhaseList)

\* From applying to dereferencing to garbage collection.
NextPhase ==
    /\ \/ PhaseDone("apply") /\ ctl' = [ctl EXCEPT !.pc = "dereference", !.entry = 0]
       \/ PhaseDone("dereference") /\ ctl' = [ctl EXCEPT !.pc = "collect", !.entry = 0]
    /\ UNCHANGED <<ac, events, acCache, scopes, objects, queued, edits, touches, faults>>

Calling(do) == Walking /\ ctl.todo # <<>> /\ Head(ctl.todo).do = do
Call == Head(ctl.todo)
CallDone == ctl' = [ctl EXCEPT !.todo = Tail(@), !.read = FALSE]

\* An error of a call ends the walk.
CallFailed ==
    ctl' = IF At("finalize")
           THEN AtWith("finalizeError", [ctl.ac EXCEPT !.condition = "finalizeError"])
           ELSE Failed(ctl.ac)

\* The workload is still in the scope, or the object still rendered: no call.
Keep ==
    /\ Calling("keep")
    /\ CallDone
    /\ UNCHANGED <<ac, events, acCache, scopes, objects, queued, edits, touches, faults>>

\* The workload or trait is created, or patched if it is there.
ApplyObject ==
    /\ Calling("apply")
    /\ objects' = objects \cup {Call.object}
    /\ CallDone
    /\ UNCHANGED <<ac, events, acCache, scopes, queued, edits, touches, faults>>

\* An object that is gone already counts as deleted.
DeleteObject ==
    /\ Calling("delete")
    /\ objects' = objects \ {Call.object}
    /\ CallDone
    /\ UNCHANGED <<ac, events, acCache, scopes, queued, edits, touches, faults>>

\* Mutant of AlreadyReferenced: takes no reference for the workload's.
NeverReferenced(s, w) == s \in PlainScopes

\* applyScope writes nothing if the scope takes no references, or had this one
\* when it was rendered.
AlreadyReferenced(s, w) == s \in PlainScopes \/ w \in ToSet(ctl.rendered[s].refs)

\* Mutant of ScopeAccepted: the rendered scope is written whatever happened since.
ScopeForced(s) == scopes[s].exists

\* The scope on the server is the one that was rendered.
ScopeAccepted(s) == scopes[s].exists /\ scopes[s].rv = ctl.rendered[s].rv

\* applyScope: writes the rendered scope with the reference added.
ApplyScope ==
    LET s == Call.scope IN
    /\ Calling("ref")
    /\ IF AlreadyReferenced(s, Call.workload)
       THEN CallDone /\ UNCHANGED scopes
       ELSE IF ScopeAccepted(s)
       THEN /\ scopes' = [scopes EXCEPT ![s].rv = @ + 1,
                             ![s].refs = Append(ctl.rendered[s].refs, Call.workload)]
            /\ CallDone
       ELSE CallFailed /\ UNCHANGED scopes
    /\ UNCHANGED <<ac, events, acCache, objects, queued, edits, touches, faults>>

\* Mutant of RemovalDone: a scope that is gone is an error.
RemovalNeverDone(s) == FALSE

\* "if the scope is already deleted treat it as removal done".
RemovalDone(s) == ~scopes[s].exists

\* applyScopeRemoval reads the scope.  There is nothing to write if it does not refer to
\* the workload; one that takes no references is an error.
ReadScope ==
    LET s == Call.scope IN
    /\ Calling("unref") /\ ~ctl.read
    /\ IF RemovalDone(s) THEN CallDone
       ELSE IF s \in PlainScopes \/ ~scopes[s].exists THEN CallFailed
       ELSE IF Call.workload \notin Refs(s) THEN CallDone
       ELSE ctl' = [ctl EXCEPT !.rendered[s] = scopes[s], !.read = TRUE]
    /\ UNCHANGED <<ac, events, acCache, scopes, objects, queued, edits, touches, faults>>

\* Then it writes what it has read, without the first reference to the workload.
ApplyScopeRemoval ==
    LET s == Call.scope
        refs == ctl.rendered[s].refs
    IN
    /\ Calling("unref") /\ ctl.read
    /\ IF ScopeAccepted(s)
       THEN /\ scopes' = [scopes EXCEPT ![s].rv = @ + 1,
                             ![s].refs = RemoveRef(refs, FirstRef(refs, Call.workload))]
            /\ CallDone
       ELSE CallFailed /\ UNCHANGED scopes
    /\ UNCHANGED <<ac, events, acCache, objects, queued, edits, touches, faults>>

-------------------------------------------------------------------------------
(* The end of a reconciliation *)

\* updateObservedGeneration, which runs whatever the outcome.
ObservedGeneration(v) == v.generation

\* updateStatus: the status records the entries just applied.
UpdateStatus ==
    /\ PhaseDone("collect")
    /\ ctl' = AtWith("posthook", [ctl.ac EXCEPT !.status = ctl.ac.spec,
                                                !.condition = "success"])
    /\ UNCHANGED <<ac, events, acCache, scopes, objects, queued, edits, touches, faults>>

\* The first of the two status updates after an error; the second is made anyway.
UpdateErrorStatus ==
    /\ At("error")
    /\ IF Accepted(ctl.ac)
       THEN /\ Write(StatusOf(ctl.ac))
            /\ ctl' = [ctl EXCEPT !.pc = "posthook", !.ac = ac']
       ELSE /\ ctl' = [ctl EXCEPT !.pc = "posthook"]
            /\ UNCHANGED <<ac, events>>
    /\ UNCHANGED <<acCache, scopes, objects, queued, edits, touches, faults>>

\* Mutant of Requeue: an update that was refused is not retried.
RequeueOnError(accepted) == LongWait \/ ctl.ac.condition = "error"

\* Reconcile comes back at once after an error, at its own or the posthook's
\* update, and after --long-wait otherwise.
Requeue(accepted) == LongWait \/ ctl.ac.condition = "error" \/ ~accepted

\* The deferred call that ends every reconciliation.
PostHook ==
    LET new == [ctl.ac EXCEPT !.observedGeneration = ObservedGeneration(ctl.ac)] IN
    /\ At("posthook")
    /\ IF Accepted(ctl.ac) THEN Write(StatusOf(new)) ELSE UNCHANGED <<ac, events>>
    /\ queued' = (queued \/ Requeue(Accepted(ctl.ac)))
    /\ ctl' = Idle
    /\ UNCHANGED <<acCache, scopes, objects, edits, touches, faults>>

\* All scopes are left: the finalizer is removed and with it the object.
RemoveFinalizer ==
    /\ PhaseDone("finalize")
    /\ IF Accepted(ctl.ac)
       THEN Write([ac EXCEPT !.finalizer = FALSE, !.exists = FALSE]) /\ UNCHANGED queued
       ELSE queued' = TRUE /\ UNCHANGED <<ac, events>>
    /\ ctl' = Idle
    /\ UNCHANGED <<acCache, scopes, objects, edits, touches, faults>>

\* A failed finalization is only retried through the event of this update, so not
\* before the next resync if the condition was written before.
UpdateFinalizeError ==
    /\ At("finalizeError")
    /\ IF Accepted(ctl.ac)
       THEN Write(StatusOf(ctl.ac)) /\ UNCHANGED queued
       ELSE queued' = TRUE /\ UNCHANGED <<ac, events>>
    /\ ctl' = Idle
    /\ UNCHANGED <<acCache, scopes, objects, edits, touches, faults>>

-------------------------------------------------------------------------------
(* Faults *)

\* A call or a read before it fails, or the last one took effect and its answer is lost.
CallFault ==
    /\ Walking
    /\ ctl.entry > 0 \/ At("apply")
    /\ faults < MaxFaults
    /\ faults' = faults + 1
    /\ CallFailed
    /\ UNCHANGED <<ac, events, acCache, scopes, objects, queued, edits, touches>>

\* The update that ends a reconciliation fails, which is retried.
UpdateFault ==
    /\ At("posthook") \/ At("finalizeError") \/ PhaseDone("finalize")
    /\ faults < MaxFaults
    /\ faults' = faults + 1
    /\ ctl' = Idle
    /\ queued' = (queued \/ Requeue(FALSE))
    /\ UNCHANGED <<ac, events, acCache, scopes, objects, edits, touches>>

\* The controller stops and starts anew, with a fresh cache.
Restart ==
    /\ faults < MaxFaults
    /\ faults' = faults + 1
    /\ ctl' = Idle
    /\ acCache' = ac
    /\ events' = <<>>
    /\ queued' = ac.exists
    /\ UNCHANGED <<ac, scopes, objects, edits, touches>>

-------------------------------------------------------------------------------
ReconcileStep ==
    \/ BeginGone \/ RegisterFinalizers \/ BeginRender \/ BeginFinalize
    \/ NextEntry \/ NextPhase \/ Keep
    \/ ApplyObject \/ DeleteObject \/ ApplyScope \/ ReadScope \/ ApplyScopeRemoval
    \/ UpdateStatus \/ UpdateErrorStatus \/ PostHook
    \/ RemoveFinalizer \/ UpdateFinalizeError

Next ==
    \/ \E s \in AppSpecs : EditAppConfig(s)
    \/ DeleteAppConfig
    \/ CollectOwned
    \/ \E s \in Scopes : TouchScope(s) \/ DeleteScope(s)
    \/ Deliver
    \/ Resync
    \/ ReconcileStep
    \/ CallFault \/ UpdateFault \/ Restart

Spec == Init /\ [][Next]_vars

\* The informer delivers, the worker serves its queue and runs each reconciliation
\* to its end, Kubernetes collects garbage.
Fairness == WF_vars(Deliver) /\ WF_vars(ReconcileStep) /\ WF_vars(CollectOwned)

FairSpec == Spec /\ Fairness

-------------------------------------------------------------------------------
(* Correctness *)

\* The type of every variable; no generation is observed before it is written.
TypeOK ==
    /\ ac \in AppConfiguration
    /\ events \in Seq(AppConfiguration)
    /\ acCache \in AppConfiguration
    /\ scopes \in [Scopes -> Scope]
    /\ objects \subseteq Workloads \cup Traits
    /\ queued \in BOOLEAN
    /\ ctl \in Reconciliation
    /\ edits \in 0..MaxEdits /\ touches \in 0..MaxTouches /\ faults \in 0..MaxFaults
    /\ ac.observedGeneration <= ac.generation

\* The workloads of this ApplicationConfiguration that a scope refers to.
OwnRefs(s) == Refs(s) \cap Workloads

\* A scope refers to a workload of an ApplicationConfiguration only while that has
\* the finalizer which dereferences it: a deletion at any moment, also between the
\* steps of a reconciliation of an older version, cannot skip Finalize
\* (registerFinalizers).
RefHasFinalizer ==
    ac.exists => \A s \in Scopes : OwnRefs(s) # {} => ac.finalizer

\* No reference occurs twice.
Unique(refs) == \A i, j \in DOMAIN refs : refs[i] = refs[j] => i = j

\* Retries, conflicts and crashes never reference a workload twice in a scope, so
\* that removing one reference removes the workload (applyScope, applyScopeRemoval).
NoDuplicateRefs == \A s \in Scopes : Unique(scopes[s].refs)

\* No step of the reconciler adds or removes the reference of another
\* ApplicationConfiguration's workload, however the two interleave on a scope.
ForeignRefsKept ==
    [][touches' = touches =>
          \A s \in Scopes : Foreign \in Refs(s) <=> Foreign \in ToSet(scopes'[s].refs)]_vars

-------------------------------------------------------------------------------
(* The inductive invariant behind these *)

\* A version that the reconciler holds or will get is not ahead of the object, and
\* the finalizer, once added, stays until the object is gone.
VersionOf(v) ==
    /\ v.observedGeneration <= v.generation
    /\ 1 <= v.generation /\ v.generation <= ac.generation
    /\ ac.exists /\ v.finalizer => ac.finalizer

\* A scope rendered at the version it still has is the one on the server.
RenderedOf(s) ==
    /\ 1 <= scopes[s].rv
    /\ ctl.rendered[s].rv <= scopes[s].rv
    /\ ctl.rendered[s].rv = scopes[s].rv => ctl.rendered[s].refs = scopes[s].refs
    /\ Unique(ctl.rendered[s].refs)

\* Scopes are joined only by a reconciliation of a version with the finalizer.
JoiningInv ==
    /\ At("apply") /\ HasScope(ctl.ac) => ctl.ac.finalizer
    /\ \A i \in DOMAIN ctl.todo : ctl.todo[i].do = "ref" => At("apply") /\ ctl.ac.finalizer

\* A scope is read only to remove a reference that it then had.
ReadInv ==
    ctl.read => /\ ctl.todo # <<>> /\ Call.do = "unref"
                /\ Call.workload \in ToSet(ctl.rendered[Call.scope].refs)

\* The inductive invariant: why no interleaving of users, other writers of a scope,
\* crashes and stale versions breaks the finalizer's or the scopes' bookkeeping
\* (registerFinalizers, renderScope, applyScope, applyScopeRemoval).
ScopeInv ==
    /\ TypeOK
    /\ VersionOf(acCache) /\ VersionOf(ctl.ac)
    /\ \A i \in DOMAIN events : VersionOf(events[i])
    /\ JoiningInv /\ ReadInv
    /\ \A s \in Scopes : RenderedOf(s)
    /\ RefHasFinalizer
    /\ NoDuplicateRefs

-------------------------------------------------------------------------------
(* What a reconciliation achieves *)

\* The workloads of a list that join scope s.
Joining(list, s) ==
    {e.workload : e \in {f \in ToSet(list) : Contains(f.scopes, s)}}

\* The objects of an entry are on the server and its workload is in the scopes it joins, as
\* far as they take references, once the calls given are made.
InForce(e, calls) ==
    /\ \A o \in {e.workload} \cup ToSet(e.traits) :
          o \in objects \/ [do |-> "apply", object |-> o] \in calls
    /\ \A s \in ToSet(e.scopes) \ PlainScopes :
          scopes[s].exists =>
              \/ e.workload \in Refs(s)
              \/ [do |-> "ref", scope |-> s, workload |-> e.workload] \in calls

\* A status that reports success for the current generation is true: everything the
\* spec lists is on the server, and in its scopes, whatever older version an earlier
\* reconciliation worked on (Apply, eligible, updateStatus, Status().Update).
SuccessMeansApplied ==
    ac.exists /\ ~ac.deleting /\ Reconciled => \A e \in ToSet(ac.spec) : InForce(e, {})

\* No two entries of a spec render to the same workload.  With two, dereferenceScope would
\* compare the record of the first with the scopes of the second.
DistinctWorkloads ==
    \A list \in AppSpecs : \A i, j \in DOMAIN list :
        list[i].workload = list[j].workload => i = j

\* A version the object has or had.
ReadFrom(v) ==
    /\ v.rv <= ac.rv
    /\ v.rv = ac.rv => v.generation = ac.generation
    /\ v.generation = ac.generation => v.spec = ac.spec
    /\ v.deleting => ac.deleting

\* Versions reach the reconciler in their order.
OrderInv ==
    /\ ReadFrom(acCache)
    /\ \A i \in DOMAIN events :
          ReadFrom(events[i]) /\ acCache.generation <= events[i].generation
    /\ \A i, j \in DOMAIN events : i <= j => events[i].generation <= events[j].generation
    /\ ~At("idle") => ReadFrom(ctl.ac) /\ ctl.ac.generation <= acCache.generation

\* No call that is left takes back what the version under way wants, unless it is deleted.
HarmlessInv ==
    /\ At("finalize") => ctl.ac.deleting
    /\ \A i \in DOMAIN ctl.todo :
          LET c == ctl.todo[i] IN
          /\ c.do = "delete" => c.object \notin Objects(ctl.ac.spec)
          /\ c.do = "unref" =>
                \/ At("finalize")
                \/ At("dereference") /\ c.workload \notin Joining(ctl.ac.spec, c.scope)

\* The reconciliation is past the last entry.
PastApply ==
    \/ At("dereference") \/ At("collect")
    \/ At("posthook") /\ ctl.ac.condition = "success"

\* The entries that a reconciliation has come to are in force once the calls left are made, and
\* the references it saw are still there; when it is past the last entry, all are in force.
WalkInv ==
    /\ At("apply") => \A s \in Scopes :
          scopes[s].exists => ToSet(ctl.rendered[s].refs) \cap Workloads \subseteq Refs(s)
    /\ At("apply") /\ ac.exists => \A i \in DOMAIN ctl.ac.spec :
          i <= ctl.entry => InForce(ctl.ac.spec[i], ToSet(ctl.todo))
    /\ At("error") => ctl.ac.condition = "error"
    /\ At("finalizeError") => ctl.ac.condition = "finalizeError"
    /\ PastApply /\ ac.exists => \A e \in ToSet(ctl.ac.spec) : InForce(e, {})

\* Once a success is reported for a generation, no older one is reconciled any more.
LatestInv ==
    ac.exists /\ ~ac.deleting /\ Reconciled =>
        /\ acCache.generation = ac.generation
        /\ ~At("idle") => ctl.ac.generation = ac.generation

\* The inductive invariant: why a success is true however old the versions are that reach the
\* reconciler, and stays true while it goes on (Apply, dereferenceScope, eligible, PostHook).
SuccessInv ==
    /\ ScopeInv
    /\ OrderInv /\ HarmlessInv /\ WalkInv /\ LatestInv
    /\ SuccessMeansApplied

\* And nothing is left of what the spec listed before, but for the workloads kept
\* as old revisions: "Here we cover the case in which a component or one of its
\* traits is removed from an extant appconfig" (applicationconfiguration.go:322).
\* It needs users that wait for one edit to be reconciled before they make the next.
NothingLeftBehind ==
    ac.exists /\ ~ac.deleting /\ Reconciled =>
        /\ objects \subseteq Objects(ac.spec) \cup RevisionNamed
        /\ \A s \in Scopes : OwnRefs(s) \subseteq Joining(ac.spec, s)

\* A deleted ApplicationConfiguration leaves no reference in a scope:
\* dereferenceAllScope "dereferences workloads owned by the appConfig being deleted
\* from the scopes they belong to" (apply.go:308).  It needs patient users too.
NoDanglingRef == ~ac.exists => \A s \in Scopes : OwnRefs(s) = {}

\* A scope that the spec refers to is gone.
ScopeMissing == \E s \in JoinedScopes(ac) : ~scopes[s].exists

\* A recorded workload is to leave a scope whose definition takes no references.
\* applyScope let it in without a reference, applyScopeRemoval reports an error each time
\* (apply.go:404), so neither an edit that drops the scope nor a deletion gets past it.
LeavesPlainScope ==
    \E e \in ToSet(ac.status) : \E s \in ToSet(e.scopes) \cap PlainScopes :
        /\ scopes[s].exists
        /\ ac.deleting \/ e.workload \notin Joining(ac.spec, s)

\* When edits end, the status reports success for the last generation, unless the spec has no
\* component, refers to a scope that is gone or leaves a plain one: after a conflict, a stale read,
\* an error or a crash the reconciler comes back by itself, without a resync (Reconcile).
Converges ==
    <>[](\/ ~ac.exists \/ ac.deleting
         \/ ac.spec = <<>> \/ ScopeMissing \/ LeavesPlainScope
         \/ Reconciled)

\* A deleted ApplicationConfiguration is gone in the end and its workloads and traits with
\* it, unless it is to leave a plain scope: the finalizer does not block it after errors,
\* conflicts and restarts, also when a scope was deleted before ("avoid blocking AppConfig
\* finalizer", apply.go:391).  It relies on the informer's resync, which comes every ten
\* hours unless configured: an error of Finalize that was reported before is not retried
\* otherwise.
DeletionCompletes ==
    WF_vars(Resync) => <>[](IF ac.exists THEN ac.deleting => LeavesPlainScope ELSE objects = {})
===============================================================================
