---------------------------- MODULE AppConfigUsers ----------------------------
(***************************************************************************)
(* AppConfig with a history of its users' patience: what a reconciliation  *)
(* records is lost when an edit overtakes it, so what is promised of old   *)
(* objects and references is promised to users that wait for one edit to   *)
(* be reconciled before they make the next.                                *)
(***************************************************************************)
EXTENDS AppConfig

VARIABLE hasty      \* has an edit or the deletion come before the last one was reconciled?

UsersInit == Init /\ hasty = FALSE
UsersNext == Next /\ hasty' = (hasty \/ (edits' # edits /\ ~Reconciled))
UsersSpec == UsersInit /\ [][UsersNext]_<<vars, hasty>>

\* Nothing of an earlier spec is left behind for patient users, with faults, restarts and
\* other writers of the scopes (eligible, findDereferencedScopes, updateStatus).
NothingLeftBehindPatient == hasty \/ NothingLeftBehind

\* A deleted ApplicationConfiguration leaves no reference in a scope, for patient users
\* (Finalize, dereferenceAllScopes).
NoDanglingRefPatient == hasty \/ NoDanglingRef

-------------------------------------------------------------------------------
(* The inductive invariant behind these *)

\* The versions that the reconciler works on or will get.
InPlay == {acCache} \cup ToSet(events) \cup (IF At("idle") THEN {} ELSE {ctl.ac})

\* A reconciliation about to report a success has replaced the status of its version.
Succeeding == At("posthook") /\ ctl.ac.condition = "success"

\* A version at the object's resource version has its status; one of its generation is deleted
\* if the object is.
RecordInv ==
    /\ \A v \in {acCache} \cup ToSet(events) : v.rv = ac.rv => v.status = ac.status
    /\ ~At("idle") /\ ~Succeeding /\ ctl.ac.rv = ac.rv => ctl.ac.status = ac.status
    /\ Succeeding => ctl.ac.status = ctl.ac.spec
    /\ \A v \in InPlay : v.generation = ac.generation => v.deleting = ac.deleting
    /\ At("apply") => ~ctl.ac.deleting
    /\ \A s \in Scopes : ~scopes[s].exists => Refs(s) = {}

\* What is applied is what the version under way lists.
WantedInv ==
    \A i \in DOMAIN ctl.todo :
        LET c == ctl.todo[i] IN
        /\ c.do = "apply" => c.object \in Objects(ctl.ac.spec)
        /\ c.do = "ref" => c.workload \in Joining(ctl.ac.spec, c.scope)

\* The workload of a recorded entry has left scope s, and an object of it is gone, once the calls
\* given are made.
Left(e, s, calls) ==
    \/ e.workload \notin Refs(s)
    \/ [do |-> "unref", scope |-> s, workload |-> e.workload] \in calls
Dropped(o, calls) ==
    \/ o \notin objects
    \/ o \in Objects(ctl.ac.spec) \cup RevisionNamed
    \/ [do |-> "delete", object |-> o] \in calls

\* What the walks over the recorded entries have come to is left, and is dropped, but for what
\* the version under way still lists.
LeavingInv ==
    \A i \in DOMAIN ctl.ac.status :
        LET e == ctl.ac.status[i] IN
        /\ At("finalize") /\ i <= ctl.entry =>
              \A s \in ToSet(e.scopes) : Left(e, s, ToSet(ctl.todo))
        /\ At("collect") \/ (At("dereference") /\ i <= ctl.entry) =>
              \A s \in ToSet(e.scopes) :
                  e.workload \in Joining(ctl.ac.spec, s) \/ Left(e, s, ToSet(ctl.todo))
        /\ At("collect") /\ i <= ctl.entry =>
              \A o \in {e.workload} \cup ToSet(e.traits) : Dropped(o, ToSet(ctl.todo))

\* Nothing is on the server and in the scopes but what these lists say.
Within(lists) ==
    /\ \A o \in objects \ RevisionNamed : \E list \in lists : o \in Objects(list)
    /\ \A s \in Scopes : \A w \in OwnRefs(s) : \E list \in lists : w \in Joining(list, s)

\* The status is the link between two specs: versions of an older generation have the spec that
\* it records, and what is on the server is in the spec or in the record.
LinkInv ==
    ac.exists =>
        /\ \A v \in InPlay : v.generation = ac.generation \/ v.spec = ac.status
        /\ Reconciled \/ ac.deleting => ac.status = ac.spec
        /\ Within({ac.spec, ac.status})
        /\ Succeeding /\ ctl.ac.rv = ac.rv => Within({ac.spec})

\* Once the object is gone, no version can join a scope any more.
GoneInv ==
    ~ac.exists =>
        /\ \A s \in Scopes : OwnRefs(s) = {}
        /\ ~ac.finalizer
        /\ \A v \in InPlay : v.finalizer => v.deleting

\* The inductive invariant: why the record in the status is complete as long as users wait for
\* a success before they edit or delete (updateStatus, dereferenceScope, eligible, Finalize).
PatientInv ==
    /\ SuccessInv
    /\ RecordInv /\ WantedInv /\ LeavingInv
    /\ hasty \/ (LinkInv /\ GoneInv)
===============================================================================
