------------------------------- MODULE Rendering -------------------------------
(***************************************************************************)
(* What an ApplicationConfiguration makes of one component over the time   *)
(* in which the component gets new revisions and the ApplicationConfigura- *)
(* tion is edited: which name the rendered workload gets, and so whether a *)
(* new revision replaces the running workload or runs beside it, which     *)
(* names the traits get, which workload they refer to, what is garbage     *)
(* collected and what the status lists as history.  Specs come through the *)
(* admission webhooks, if those are enabled.                               *)
(*                                                                         *)
(* The names of past renderings live in the status only, so the module has *)
(* the whole cycle of render, apply, collect and status, each API call     *)
(* that writes as a step of its own.  The controller comes back after each *)
(* reconciliation: after an error at once, after a success when the time   *)
(* of --long-wait, one minute by default, is over.  Scopes are the matter  *)
(* of AppConfig, data passing that of Dependency, and how revisions come   *)
(* about and are cleaned up that of ComponentRevision.                     *)
(***************************************************************************)
EXTENDS Admission, FiniteSets

CONSTANTS
    Contents,       \* contents the component may be given
    Entries,        \* entries the spec of the ApplicationConfiguration may be given
    Webhooks,       \* the settings of --use-webhook to consider
    NoObject,       \* a workload that is not there
    MaxRevisions,   \* bound: revisions of the component
    MaxChanges,     \* bound: what users and others do
    MaxFaults       \* bound: failed calls and restarts

\* Names of workloads: n > 0 is "<component>-v<n>"; the others are the component's name, a name
\* the content has, a name a parameter value gives, and none.
PlainName == -1
ContentName == -2
ValueName == -3
NoWorkload == 0
RevisionNames == 1..MaxRevisions
WorkloadNames == {PlainName, ContentName, ValueName} \cup RevisionNames

ASSUME RenderingAssumption ==
    /\ Contents \subseteq Content /\ Entries \subseteq Entry
    /\ Webhooks \subseteq BOOLEAN
    /\ MaxRevisions \in Nat \ {0} /\ MaxChanges \in Nat /\ MaxFaults \in Nat

VARIABLES
    webhook,    \* --use-webhook
    component,  \* the component: its content and the number of status.latestRevision ...
    revisions,  \* ... the contents of its revisions ...
    defined,    \* ... the kinds that have a definition: all three as the process has them in its
                \* cache, where the reconciler and the webhooks read them (see ComponentRevision)
    app,        \* the ApplicationConfiguration on the API server
    cache,      \* its copy in the controller's cache, and whether it is the current one
    workloads,  \* the workloads on the API server, by name
    traits,     \* the traits on the API server
    ctl,        \* the reconciliation under way
    ahead,      \* history: revisions rendered with contents that were not theirs
    history,    \* history: "hasty", "slipped" (see Note)
    steady,     \* history: has nothing changed or failed since the last reconciliation began?
    changes, faults

vars == <<webhook, component, revisions, defined, app, cache, workloads, traits, ctl, ahead,
          history, steady, changes, faults>>

Workload == [data : Data, label : 0..MaxRevisions]

ASSUME NoObjectAssumption == NoObject \notin Workload

\* The name of a trait: one that is given, or one generated from component, type and contents.
TraitName == [form : {"gvk", "properties", "labelled", "none"}, data : Data \cup {NoName},
              given : TraitNames \cup {NoName}, typed : BOOLEAN]
TraitRef == [kind : TraitKinds, name : TraitName]
TraitObject == [data : Data, kind : TraitKinds, name : TraitName,
                ref : WorkloadNames \cup {NoWorkload}]

\* status.workloads has one entry: the revision, the workload, its traits; historyWorkloads.
Status == [rev : 0..MaxRevisions, workload : WorkloadNames \cup {NoWorkload},
           traits : Seq(TraitRef), history : SUBSET WorkloadNames]
App == [spec : Entry, generation : Nat, status : Status,
        condition : {"none", "success", "error"}, observed : Nat]

Operation == [workload : Workload, name : WorkloadNames, do : {"workload"}]
                \cup [do : {"trait"}, trait : TraitObject]
                \cup [name : WorkloadNames, do : {"collectWorkload"}]
                \cup [do : {"collectTrait"}, trait : TraitRef]

\* fresh: the version it works on is the current one; plan: what it will record.
Run == [at : {"idle", "apply", "error"}, fresh : BOOLEAN, plan : Status, enabled : BOOLEAN,
        todo : Seq(Operation)]

NoStatus == [rev |-> 0, workload |-> NoWorkload, traits |-> <<>>, history |-> {}]
Idle == [at |-> "idle", fresh |-> TRUE, plan |-> NoStatus, enabled |-> FALSE, todo |-> <<>>]

Running == {n \in WorkloadNames : workloads[n] # NoObject}

-------------------------------------------------------------------------------
(* Names, parameters and garbage collection *)

\* GetComponent: the revision the entry pins or the component, and the name of the revision; an
\* entry may also name neither.
Found(e) == (e.component \/ e.pin # 0) /\ e.pin <= Len(revisions)
ContentOf(e) == IF e.pin # 0 THEN revisions[e.pin] ELSE component.content
RevisionOf(e) == IF e.pin # 0 THEN e.pin ELSE component.rev

\* resolve: a value for a parameter that is not there, a required one that has no value.
Resolves(c, e) == /\ e.value => c.nameParam # "no"
                  /\ c.nameParam = "required" => e.value

\* The name the rendered workload has before SetWorkloadInstanceName.
GivenName(c, e) == IF e.value THEN ValueName
                   ELSE IF c.named THEN ContentName ELSE NoWorkload

\* renderComponent finds no error.  A trait that is still written by type has no kind; neither has
\* such a workload, which is noticed by its Apply, the first write.
Renders(e) ==
    /\ Found(e)
    /\ ContentOf(e).form = "gvk"
    /\ Resolves(ContentOf(e), e)
    /\ \A t \in Traits(e) : t.form # "type"
    /\ \/ RevisionOf(e) # 0
       \/ GivenName(ContentOf(e), e) # NoWorkload
       \/ ~RevisionEnabled(e, defined)

\* Mutant: the revision of the running workload is not compared.
ExistingRuns(status, rev) == status.workload \in Running

\* getExistingWorkload: the workload of the recorded name runs, with this revision.
ExistingHas(status, rev) ==
    status.workload \in Running /\ workloads[status.workload].label = rev

SetWorkloadInstanceName(e, status) ==
    LET given == GivenName(ContentOf(e), e)
        rev == RevisionOf(e)
    IN  CASE given # NoWorkload -> given
          [] given = NoWorkload /\ ~RevisionEnabled(e, defined) -> PlainName
          [] OTHER -> IF ExistingHas(status, rev) THEN status.workload ELSE rev

\* FetchTraitDefinition: there is a definition for the trait; the dummy one used in its place has a
\* name only.
HasDefinition(t) == t.kind \in defined

\* GenTraitName: the definition's name, or that of the dummy definition, and a hash of the trait.
GenTraitName(t) ==
    [given |-> NoName, typed |-> HasDefinition(t), form |-> t.form, data |-> t.data]

GivenTraitName(t) == [given |-> t.name, typed |-> FALSE, form |-> "none", data |-> NoName]

\* getTraitName: given, or that of the last trait recorded with this kind, or a new one.
getTraitName(t, status) ==
    LET same == {i \in DOMAIN status.traits : status.traits[i].kind = t.kind}
    IN  CASE t.name # NoName -> GivenTraitName(t)
          [] t.name = NoName /\ same # {} -> status.traits[Max(same)].name
          [] OTHER -> GenTraitName(t)

\* Mutant: the reference is made before the workload has its instance name.
WorkloadRefEarly(t, name) == IF HasDefinition(t) THEN PlainName ELSE NoWorkload

\* The reference a trait gets, if its definition has a workloadRefPath (a dummy one has not).
WorkloadRef(t, name) == IF HasDefinition(t) THEN name ELSE NoWorkload

RenderTrait(t, name, status) ==
    [kind |-> t.kind, name |-> getTraitName(t, status), data |-> t.data,
     ref |-> WorkloadRef(t, name)]

RefOf(t) == [kind |-> t.kind, name |-> t.name]

\* Mutant: no workload is taken for that of an old revision.
NeverRevisionWorkload(name) == FALSE

\* The name begins with that of the component and a dash; given names are taken not to.
IsRevisionWorkload(name) == name \in RevisionNames

\* Mutant: the first of them only.
PickedFirst(s, I) == IF I = {} THEN <<>> ELSE <<s[Min(I)]>>

\* The elements of s at the positions in I, in their order.
Picked(s, I) ==
    [k \in 1..Cardinality(I) |-> s[CHOOSE i \in I : Cardinality({j \in I : j <= i}) = k]]

\* eligible: what the status records and the rendering has not.
Eligible(status, name, applied) ==
    (IF status.workload \notin {NoWorkload, name} /\ ~IsRevisionWorkload(status.workload)
     THEN <<[do |-> "collectWorkload", name |-> status.workload]>> ELSE <<>>)
    \o LET gone == Picked(status.traits,
                          {i \in DOMAIN status.traits : status.traits[i] \notin applied})
       IN  [i \in DOMAIN gone |-> [do |-> "collectTrait", trait |-> gone[i]]]

\* What is left to do after Render of the entry e under this status.
Rendered(e, status, fresh) ==
    LET name == SetWorkloadInstanceName(e, status)
        ts == [i \in DOMAIN e.traits |-> RenderTrait(e.traits[i], name, status)]
        refs == [i \in DOMAIN ts |-> RefOf(ts[i])]
    IN  [at |-> "apply", fresh |-> fresh, enabled |-> RevisionEnabled(e, defined),
         plan |-> [rev |-> RevisionOf(e), workload |-> name, traits |-> refs, history |-> {}],
         todo |-> <<[do |-> "workload", name |-> name,
                     workload |-> [label |-> RevisionOf(e), data |-> ContentOf(e).data]]>>
                  \o [i \in DOMAIN ts |-> [do |-> "trait", trait |-> ts[i]]]
                  \o Eligible(status, name, ToSet(refs))]

-------------------------------------------------------------------------------
(* Users, definitions, the component controller, the rollout *)

Init ==
    /\ webhook \in Webhooks
    /\ defined = TraitKinds \cup {WorkloadKind}
    /\ \E c \in Contents :
          /\ webhook => ~MutateComponentErr(c, defined)
          /\ component = [content |-> IF webhook THEN MutateComponent(c) ELSE c, rev |-> 0]
    /\ revisions = <<>>
    /\ \E e \in Entries :
          /\ e.pin = 0
          /\ webhook => Found(e) /\ Valid(component.content, Mutate(e), defined)
          /\ app = [spec |-> IF webhook THEN Mutate(e) ELSE e, generation |-> 1,
                    status |-> NoStatus, condition |-> "none", observed |-> 0]
    /\ cache = [app |-> app, current |-> TRUE]
    /\ workloads = [n \in WorkloadNames |-> NoObject]
    /\ traits = {}
    /\ ctl = Idle
    /\ ahead = {}
    /\ history = IF webhook THEN {} ELSE {"slipped"}
    /\ steady = FALSE
    /\ changes = 0 /\ faults = 0

Change == changes < MaxChanges /\ changes' = changes + 1 /\ UNCHANGED faults
Fault == faults < MaxFaults /\ faults' = faults + 1 /\ UNCHANGED changes

\* The last reconciliation ended well, with all its calls, and nothing has changed since it began.
AtRest == ctl.at = "idle" /\ steady /\ app.condition = "success"

\* Would the validating webhook admit the spec now, and the one the controller still works from?
Admissible ==
    \A e \in {app.spec, cache.app.spec} : Found(e) /\ Valid(ContentOf(e), e, defined)

\* Remember a change that came before the last one was reconciled, and one that makes a spec in
\* force one that the webhook would deny.
Note ==
    /\ history' = history \cup (IF AtRest /\ cache.current THEN {} ELSE {"hasty"})
                          \cup (IF Admissible' THEN {} ELSE {"slipped"})
    /\ steady' = FALSE

\* A write of the ApplicationConfiguration: the cache does not have it yet.
Written(a) ==
    /\ app' = a
    /\ cache' = [cache EXCEPT !.current = FALSE]

EditApp(e) ==
    LET spec == IF webhook THEN Mutate(e) ELSE e
    IN  /\ webhook => /\ ~MutateErr(e, defined)
                      /\ Found(e)
                      /\ Valid(ContentOf(e), spec, defined)
        /\ spec # app.spec /\ Change
        /\ Written([app EXCEPT !.spec = spec, !.generation = @ + 1])
        /\ ctl' = [ctl EXCEPT !.fresh = ctl.at = "idle"]
        /\ UNCHANGED <<webhook, component, revisions, defined, workloads, traits, ahead>>
        /\ Note

EditComponent(c) ==
    LET content == IF webhook THEN MutateComponent(c) ELSE c
    IN  /\ webhook => ~MutateComponentErr(c, defined) /\ ValidateComponentObject(content)
        /\ content # component.content /\ Len(revisions) < MaxRevisions /\ Change
        /\ component' = [component EXCEPT !.content = content]
        /\ UNCHANGED <<webhook, revisions, defined, app, cache, workloads, traits, ctl, ahead>>
        /\ Note

\* The component controller makes a revision of new contents and publishes it (see
\* ComponentRevision, where this takes several steps).
PublishRevision ==
    /\ revisions # <<>> => Last(revisions) # component.content
    /\ Len(revisions) < MaxRevisions
    /\ revisions' = Append(revisions, component.content)
    /\ component' = [component EXCEPT !.rev = Len(revisions')]
    /\ steady' = FALSE
    /\ UNCHANGED <<webhook, defined, app, cache, workloads, traits, ctl, ahead, history, changes,
                   faults>>

\* An administrator removes or adds a definition.
Redefine(k) ==
    /\ Change
    /\ defined' = IF k \in defined THEN defined \ {k} ELSE defined \cup {k}
    /\ UNCHANGED <<webhook, component, revisions, app, cache, workloads, traits, ctl, ahead>>
    /\ Note

\* The controller of a rollout trait deletes a workload that the status lists as history.
RolloutDeletes(n) ==
    /\ n \in (app.status.history \cap Running) \ {app.status.workload}
    /\ Change
    /\ workloads' = [workloads EXCEPT ![n] = NoObject]
    /\ UNCHANGED <<webhook, component, revisions, defined, app, cache, traits, ctl, ahead, history,
                   steady>>

Deliver ==
    /\ ~cache.current
    /\ cache' = [app |-> app, current |-> TRUE]
    /\ UNCHANGED <<webhook, component, revisions, defined, app, workloads, traits, ctl, ahead,
                   history, steady, changes, faults>>

-------------------------------------------------------------------------------
(* The reconciler *)

\* Reconcile up to the first write.
Render ==
    LET e == cache.app.spec
    IN  /\ ctl.at = "idle"
        /\ IF Renders(e)
           THEN /\ ctl' = Rendered(e, cache.app.status, cache.current)
                /\ ahead' = IF RevisionOf(e) = 0 \/ ContentOf(e) = revisions[RevisionOf(e)]
                            THEN ahead ELSE ahead \cup {RevisionOf(e)}
           ELSE /\ ctl' = [Idle EXCEPT !.at = "error", !.fresh = cache.current]
                /\ UNCHANGED ahead
        /\ steady' = cache.current
        /\ UNCHANGED <<webhook, component, revisions, defined, app, cache, workloads, traits,
                       history, changes, faults>>

\* Mutant: a workload that is there is left as it is.
PatchedOnce(old, new) == IF old = NoObject THEN new ELSE old

\* The patching applicator creates the workload or merges the new one into it.
Patched(old, new) == new

\* The next API call of Apply and then of garbage collection.  The updating applicator replaces a
\* trait.
Call ==
    LET op == Head(ctl.todo)
    IN  /\ ctl.at = "apply" /\ ctl.todo # <<>>
        /\ workloads' = CASE op.do = "workload" ->
                               [workloads EXCEPT ![op.name] = Patched(@, op.workload)]
                          [] op.do = "collectWorkload" ->
                               [workloads EXCEPT ![op.name] = NoObject]
                          [] OTHER -> workloads
        /\ traits' = CASE op.do = "trait" ->
                            {t \in traits : RefOf(t) # RefOf(op.trait)} \cup {op.trait}
                       [] op.do = "collectTrait" -> {t \in traits : RefOf(t) # op.trait}
                       [] OTHER -> traits
        /\ ctl' = [ctl EXCEPT !.todo = Tail(@)]
        /\ UNCHANGED <<webhook, component, revisions, defined, app, cache, ahead, history,
                       steady, changes, faults>>

\* A call fails; what is left is not done.
CallFails ==
    /\ ctl.at = "apply" /\ ctl.todo # <<>> /\ Fault
    /\ ctl' = [Idle EXCEPT !.at = "error", !.fresh = ctl.fresh]
    /\ steady' = FALSE
    /\ UNCHANGED <<webhook, component, revisions, defined, app, cache, workloads, traits, ahead,
                   history>>

\* The workloads of the component's other revisions that updateStatus lists, if one trait's
\* definition asks for revisions.
HistoryWorkloads(rev, enabled) == IF enabled THEN Running \ {rev} ELSE {}

Observed(generation) == generation

\* updateStatus, or the error, and then the update of the status, which is refused if the
\* ApplicationConfiguration has changed since it was read.  An error keeps what was recorded; its
\* two updates, of the condition and of the observed generation, are one step here.
RecordStatus(listed) ==
    LET done == [ctl.plan EXCEPT !.history = listed]
        new == [app EXCEPT !.status = IF ctl.at = "error" THEN @ ELSE done,
                           !.condition = IF ctl.at = "error" THEN "error" ELSE "success",
                           !.observed = Observed(app.generation)]
    IN  /\ ctl.at = "error" \/ (ctl.at = "apply" /\ ctl.todo = <<>>)
        /\ ctl' = Idle
        /\ IF ctl.fresh /\ new # app THEN Written(new) ELSE UNCHANGED <<app, cache>>
        /\ UNCHANGED <<webhook, component, revisions, defined, workloads, traits, ahead, history>>

UpdateStatus ==
    /\ RecordStatus(HistoryWorkloads(ctl.plan.rev, ctl.enabled))
    /\ UNCHANGED <<steady, changes, faults>>

\* The list of workloads cannot be read: updateStatus goes on without it and reports success.
ListFails ==
    /\ ctl.at = "apply" /\ ctl.enabled /\ Fault
    /\ RecordStatus({})
    /\ steady' = FALSE

\* The controller stops at any point, or its status update fails; it starts with a new cache.
Restart ==
    /\ ctl # Idle /\ Fault
    /\ ctl' = Idle
    /\ cache' = [app |-> app, current |-> TRUE]
    /\ steady' = FALSE
    /\ UNCHANGED <<webhook, component, revisions, defined, app, workloads, traits, ahead, history>>

Reconcile == Render \/ Call \/ UpdateStatus

Next ==
    \/ \E e \in Entries : EditApp(e)
    \/ \E c \in Contents : EditComponent(c)
    \/ PublishRevision
    \/ \E k \in TraitKinds \cup {WorkloadKind} : Redefine(k)
    \/ \E n \in WorkloadNames : RolloutDeletes(n)
    \/ Deliver
    \/ Reconcile
    \/ CallFails
    \/ ListFails
    \/ Restart

\* The controller's worker, the informer and the component controller go on.
Spec == Init /\ [][Next]_vars /\ WF_vars(Reconcile) /\ WF_vars(Deliver) /\ WF_vars(PublishRevision)

-------------------------------------------------------------------------------
(* Properties *)

\* The state is of the types above; the last revision is the published one; the cache is the
\* current version if it is said to be; no later generation is observed than there is
\* (updateObservedGeneration).
TypeOK ==
    /\ webhook \in Webhooks
    /\ component \in [content : Content, rev : 0..MaxRevisions] /\ component.rev = Len(revisions)
    /\ revisions \in Seq(Content)
    /\ defined \subseteq TraitKinds \cup {WorkloadKind}
    /\ app \in App /\ cache \in [app : App, current : BOOLEAN]
    /\ \A a \in {app, cache.app} : a.observed <= a.generation
    /\ cache.current => cache.app = app
    /\ workloads \in [WorkloadNames -> Workload \cup {NoObject}]
    /\ traits \subseteq TraitObject
    /\ ctl \in Run
    /\ ahead \subseteq RevisionNames
    /\ history \subseteq {"hasty", "slipped"} /\ steady \in BOOLEAN
    /\ changes \in 0..MaxChanges /\ faults \in 0..MaxFaults

\* w is a workload of revision n, with its contents unless those were ahead of it.
OfRevision(n, w) ==
    n <= Len(revisions) /\ w.label = n /\ (n \in ahead \/ w.data = revisions[n].data)

\* The inductive invariant: a workload with the name of a revision is one of that revision ...
VersionInv == \A n \in RevisionNames \cap Running : OfRevision(n, workloads[n])

\* ... and so will it be after the calls that are left: the workload comes first, does not take
\* over that of another revision, and no workload of a revision is collected ...
PlanInv ==
    \A i \in DOMAIN ctl.todo :
        LET op == ctl.todo[i] IN
        /\ op.do = "workload" =>
              /\ i = 1
              /\ op.name \in RevisionNames => OfRevision(op.name, op.workload)
              /\ ctl.enabled /\ "slipped" \notin history /\ op.name \in Running =>
                    workloads[op.name].label = op.workload.label
        /\ op.do = "collectWorkload" => op.name \notin RevisionNames

\* ... since the specs in force are ones the webhook would admit, or this is remembered.
AdmittedInv == "slipped" \in history \/ Admissible

RenderInv == TypeOK /\ VersionInv /\ PlanInv /\ AdmittedInv

\* A workload with the name of a revision has the contents and the label of that revision,
\* whatever came after it, unless a reconciliation came between an edit of the component and the
\* publication of its revision (SetWorkloadInstanceName, GetComponent).
RevisionImmutable ==
    \A n \in (1..Len(revisions)) \ ahead :
        n \in Running => workloads[n] = [label |-> n, data |-> revisions[n].data]

\* The reconciler does not delete the workload of a revision, whatever is edited, redefined or
\* lost: only the rollout does (eligible, IsRevisionWorkload).
OldRevisionKept ==
    [][\A n \in RevisionNames :
          n \in Running /\ n \notin Running' => \E m \in WorkloadNames : RolloutDeletes(m)]_vars

\* Under a trait that asks for revisions no running workload is turned into one of another
\* revision, as long as the webhook would admit the spec again
\* (ValidateWorkloadNameForVersioningFn, SetWorkloadInstanceName).
NoTakeover ==
    [][\A n \in Running \cap Running' :
          workloads[n].label # workloads[n].label' => ~ctl.enabled \/ "slipped" \in history]_vars

\* Two traits of the same kind: from the second reconciliation on, one without a name gets the
\* name that was last recorded with the kind, which may be the other's.
Confused(e) ==
    \E i, j \in DOMAIN e.traits : i # j /\ e.traits[i].kind = e.traits[j].kind

\* At rest there is one object for each trait listed, with its contents, and no other; a trait
\* with a definition refers to the workload in the status, which is as the component has it; only
\* workloads of revisions run beside it, and the history lists them.  This is so whatever calls
\* failed on the way, unless a change came before the earlier one was reconciled (getTraitName,
\* workloadRef, eligible, updateStatus).
RestIsAsWanted ==
    AtRest /\ "hasty" \notin history /\ ~Confused(app.spec) =>
        /\ Cardinality(traits) = Len(app.spec.traits)
        /\ \A t \in Traits(app.spec) : \E o \in traits :
              /\ o.kind = t.kind /\ o.data = t.data
              /\ t.name # NoName => o.name.given = t.name
              /\ HasDefinition(t) => o.ref = app.status.workload
        /\ app.status.workload \in Running =>
              workloads[app.status.workload] =
                  [label |-> RevisionOf(app.spec), data |-> ContentOf(app.spec).data]
        /\ Running \subseteq {app.status.workload} \cup RevisionNames
        /\ RevisionEnabled(app.spec, defined) =>
              Running \subseteq {app.status.rev} \cup app.status.history

\* What is left to make, or to collect, by the calls in todo.
NamesLeft(todo, do) == {op.name : op \in {op \in ToSet(todo) : op.do = do}}
TraitsLeft(todo, do) == {op.trait : op \in {op \in ToSet(todo) : op.do = do}}

\* The references under which an entry's traits are rendered, and the name of its workload if it
\* needs no revision.
TraitRefs(e, status) == {[kind |-> t.kind, name |-> getTraitName(t, status)] : t \in Traits(e)}
OwnName(e) ==
    LET given == GivenName(ContentOf(e), e)
    IN  IF given = NoWorkload /\ ~RevisionEnabled(e, defined) THEN PlainName ELSE given

\* What may be there between two reconciliations, whatever failed: what the status lists, and what
\* the spec is rendered to under this status.  Names are found again there, so that no
\* reconciliation makes an object that the next one does not know.
KnownTraits == ToSet(app.status.traits) \cup TraitRefs(app.spec, app.status)
KnownWorkloads ==
    RevisionNames \cup {app.status.workload} \cup (IF Found(app.spec) THEN {OwnName(app.spec)} ELSE {})

\* A status, recorded or planned, that lists the traits of the entry.
Lists(status, e) ==
    /\ Len(status.traits) = Len(e.traits)
    /\ \A i \in DOMAIN e.traits :
          /\ status.traits[i].kind = e.traits[i].kind
          /\ e.traits[i].name # NoName => status.traits[i].name = GivenTraitName(e.traits[i])

WantedWorkload == [label |-> RevisionOf(app.spec), data |-> ContentOf(app.spec).data]
WantedTrait(i, status) ==
    [kind |-> app.spec.traits[i].kind, name |-> status.traits[i].name,
     data |-> app.spec.traits[i].data, ref |-> WorkloadRef(app.spec.traits[i], status.workload)]

\* What the spec wants is there, under the names in the status, or will be made ...
Complete(status, todo) ==
    /\ Found(app.spec) /\ OwnName(app.spec) \in {NoWorkload, status.workload}
    /\ IF todo # <<>> /\ Head(todo).do = "workload"
       THEN Head(todo) = [do |-> "workload", name |-> status.workload,
                          workload |-> WantedWorkload]
       ELSE status.workload \in Running => workloads[status.workload] = WantedWorkload
    /\ ~Confused(app.spec) =>
          /\ \A i \in DOMAIN app.spec.traits :
                WantedTrait(i, status) \in traits \cup TraitsLeft(todo, "trait")
          /\ \A t \in TraitsLeft(todo, "trait") :
                \E i \in DOMAIN app.spec.traits : t = WantedTrait(i, status)

\* ... and nothing else is, or it will be collected.
Exact(status, todo) ==
    /\ \A o \in traits : RefOf(o) \in ToSet(status.traits) \cup TraitsLeft(todo, "collectTrait")
    /\ Running \subseteq
          RevisionNames \cup {status.workload} \cup NamesLeft(todo, "collectWorkload")

\* The plan does not collect what it makes, and works on the current version if nothing changed.
TodoInv ==
    /\ ctl.at # "idle" => (steady => ctl.fresh) /\ (ctl.fresh => cache.current)
    /\ ctl.at = "apply" =>
          /\ NamesLeft(ctl.todo, "workload") \subseteq {ctl.plan.workload}
          /\ ctl.plan.workload \notin NamesLeft(ctl.todo, "collectWorkload")
          /\ \A t \in TraitsLeft(ctl.todo, "trait") : RefOf(t) \in ToSet(ctl.plan.traits)
          /\ TraitsLeft(ctl.todo, "collectTrait") \cap ToSet(ctl.plan.traits) = {}

\* Nothing is there, and none will be made even from an old copy of the ApplicationConfiguration,
\* that is not known.
KnownInv ==
    "hasty" \notin history =>
        /\ \A o \in traits : RefOf(o) \in KnownTraits
        /\ Running \subseteq KnownWorkloads
        /\ TraitRefs(cache.app.spec, cache.app.status) \subseteq KnownTraits
        /\ \/ cache.app.spec = app.spec
           \/ /\ Found(cache.app.spec)
              /\ OwnName(cache.app.spec) \in KnownWorkloads \cup {NoWorkload}
        /\ ctl.at = "apply" =>
              /\ ToSet(ctl.plan.traits) \subseteq KnownTraits
              /\ ctl.plan.workload \in KnownWorkloads

\* A reconciliation on its way to the state the spec wants ...
ApplyInv ==
    ctl.at = "apply" =>
        /\ ctl.fresh => Lists(ctl.plan, app.spec)
        /\ steady => /\ Complete(ctl.plan, ctl.todo)
                     /\ ctl.enabled = RevisionEnabled(app.spec, defined)
        /\ ctl.fresh /\ "hasty" \notin history =>
              /\ Exact(ctl.plan, ctl.todo)
              /\ TraitRefs(app.spec, app.status) \subseteq ToSet(ctl.plan.traits)

\* ... and when it has come there.
RestInv ==
    AtRest =>
        /\ Lists(app.status, app.spec) /\ Complete(app.status, <<>>)
        /\ RevisionEnabled(app.spec, defined) =>
              Running \subseteq {app.status.rev} \cup app.status.history
        /\ "hasty" \notin history => Exact(app.status, <<>>)

OneEach == \A o, p \in traits : RefOf(o) = RefOf(p) => o = p

\* The inductive invariant of a cycle of reconciliations: names are kept in the status only, and
\* that is enough to find everything again (Reconcile, getTraitName, SetWorkloadInstanceName,
\* eligible).
CycleInv == RenderInv /\ OneEach /\ TodoInv /\ KnownInv /\ ApplyInv /\ RestInv

\* In the end the status reports success for the last spec and revision and the workload runs
\* with their contents, unless the spec cannot be rendered: the webhook admits values for
\* parameters that are not there, and components may change after it was asked.
Settles ==
    <>[](Renders(app.spec) =>
            /\ app.condition = "success" /\ app.observed = app.generation
            /\ app.status.rev = RevisionOf(app.spec)
            /\ app.status.workload \in Running
            /\ workloads[app.status.workload] =
                  [label |-> RevisionOf(app.spec), data |-> ContentOf(app.spec).data])
===============================================================================
