------------------------------- MODULE Dependency -------------------------------
(***************************************************************************)
(* Dependencies and data passing within an ApplicationConfiguration.  A    *)
(* workload or trait may declare data outputs, values of its own fields,   *)
(* and data inputs, values it waits for and is filled with; an output may  *)
(* also be written to a store (a ConfigMap, say), from which inputs read.  *)
(*                                                                         *)
(* Every reconciliation reads the sources of all inputs while it renders,  *)
(* and applies the objects whose inputs are ready afterwards, from what it *)
(* read.  The controllers of the objects change their fields at any time   *)
(* in between, and users edit the ApplicationConfiguration.  What happens  *)
(* to scopes, removed components and deletion is the subject of AppConfig. *)
(***************************************************************************)
EXTENDS Integers, Sequences, SequencesExt

CONSTANTS
    Objects,      \* references of workloads and traits
    Stores,       \* references of stores
    Outputs,      \* names of data outputs
    Fields,       \* field paths of objects and stores
    Vals,         \* the strings a field may hold
    Empty,        \* the empty string
    Absent,       \* what reading a field finds that is not there
    NoPath,       \* no field path given
    NoStore,      \* no store given
    NoOutput,     \* no data output given
    Apps,         \* the lists of nodes an ApplicationConfiguration may have
    FlagSets,     \* the command lines of the controller
    MaxChanges,   \* bound: changes of objects by their controllers
    MaxEdits,     \* bound: edits of the ApplicationConfiguration
    MaxFaults     \* bound: failed API calls and restarts of the controller

Paths == Fields \cup {NoPath}
Data == [Fields -> Vals \cup {Absent}]

Condition == [op : {"eq", "notEq", "notEmpty"}, path : Paths, value : Vals]
DataOperation == [to : Fields, path : Paths, value : Vals, conds : SUBSET Condition]
DataOutput == [name : Outputs, path : Paths, conds : SUBSET Condition,
               store : Stores \cup {NoStore}, ops : Seq(DataOperation)]
DataInput == [from : Outputs \cup {NoOutput}, store : Stores \cup {NoStore},
              ops : Seq(DataOperation), conds : SUBSET Condition]

\* A workload or trait, in the order in which Apply comes to them.
Node == [object : Objects, inputs : Seq(DataInput), outputs : Seq(DataOutput)]

\* Name "is the unique name of a DataOutput in an ApplicationConfiguration"
\* (core_types.go:486), and an object is rendered once.
Distinct(nodes) ==
    \A i, j \in DOMAIN nodes :
        /\ nodes[i].object = nodes[j].object => i = j
        /\ \A k \in DOMAIN nodes[i].outputs, l \in DOMAIN nodes[j].outputs :
              nodes[i].outputs[k].name = nodes[j].outputs[l].name => i = j /\ k = l

ASSUME SentinelsAssumption ==
    /\ Empty \in Vals
    /\ Absent \notin Vals
    /\ NoPath \notin Fields
    /\ NoStore \notin Stores
    /\ NoOutput \notin Outputs

ASSUME AppsAssumption ==
    /\ \A nodes \in Apps : nodes \in Seq(Node) /\ Distinct(nodes)
    /\ FlagSets \subseteq [longWait : BOOLEAN, applyOnceOnly : BOOLEAN]

ASSUME BoundsAssumption == MaxChanges \in Nat /\ MaxEdits \in Nat /\ MaxFaults \in Nat

VARIABLES
    app,         \* the nodes of the ApplicationConfiguration
    flags,       \* the flags the controller runs with
    generation,  \* the generation of the ApplicationConfiguration
    status,      \* its status
    objects,     \* the workloads and traits on the API server
    stores,      \* the stores on the API server
    seen,        \* history: the contents each object has had
    queued,      \* is the ApplicationConfiguration in the work queue?
    ctl,         \* the reconciliation under way
    changes, edits, faults

vars == <<app, flags, generation, status, objects, stores, seen, queued, ctl,
          changes, edits, faults>>

\* An object's contents, the generation it was applied for (an annotation), and the
\* values it was filled with: for each input the one from a data output, and those
\* of the operations on its input store.
Object == [exists : BOOLEAN, data : Data, generation : Nat,
           filled : Seq(Vals \cup {Absent}), stored : Seq(Seq(Vals \cup {Absent}))]

Store == [exists : BOOLEAN, data : Data]

Status == [condition : {"none", "success", "error"}, generation : Nat,
           unsatisfied : SUBSET (Objects \cup Stores)]

\* What is done for a node.
NodeCall == [do : {"output"}, output : DataOutput] \cup [do : {"input"}, input : DataInput]
                \cup [do : {"apply"}] \cup [do : {"emit"}, output : DataOutput]

\* A reconciliation: the node it is at and the calls left for that, the objects with
\* unmet inputs (HasDep), the outputs to be stored (DataOutputs), the values read.
Reconciliation ==
    [pc : {"idle", "render", "apply", "success", "error"}, generation : Nat,
     node : Nat, todo : Seq(NodeCall),
     hasDep : SUBSET Objects, ready : SUBSET Outputs,
     filled : [Objects -> Seq(Vals \cup {Absent})],
     unsatisfied : SUBSET (Objects \cup Stores)]

NoData == [f \in Fields |-> Absent]

Idle == [pc |-> "idle", generation |-> 0, node |-> 0, todo |-> <<>>, hasDep |-> {},
         ready |-> {}, filled |-> [o \in Objects |-> <<>>], unsatisfied |-> {}]

Init ==
    /\ app \in Apps
    /\ flags \in FlagSets
    /\ generation = 1
    /\ status = [condition |-> "none", generation |-> 0, unsatisfied |-> {}]
    /\ objects = [o \in Objects |-> [exists |-> FALSE, data |-> NoData, generation |-> 0,
                                     filled |-> <<>>, stored |-> <<>>]]
    /\ stores = [s \in Stores |-> [exists |-> FALSE, data |-> NoData]]
    /\ seen = {}
    /\ queued = TRUE
    /\ ctl = Idle
    /\ changes = 0 /\ edits = 0 /\ faults = 0

At(pc) == ctl.pc = pc

-------------------------------------------------------------------------------
(* Users, and the controllers of the objects *)

EditAppConfig ==
    /\ edits < MaxEdits
    /\ edits' = edits + 1
    /\ generation' = generation + 1
    /\ queued' = TRUE
    /\ UNCHANGED <<app, flags, status, objects, stores, seen, ctl, changes, faults>>

ObjectChanges(o, d) ==
    /\ objects[o].exists
    /\ objects[o].data # d
    /\ changes < MaxChanges
    /\ changes' = changes + 1
    /\ objects' = [objects EXCEPT ![o].data = d]
    /\ seen' = seen \cup {<<o, d>>}
    /\ UNCHANGED <<app, flags, generation, status, stores, queued, ctl, edits, faults>>

-------------------------------------------------------------------------------
(* When a value is ready *)

\* checkConditions, with val the value read, Absent if it is none or no string.
CheckConditions(conds, d, val) ==
    \A c \in conds :
        LET checkVal == IF c.path # NoPath THEN d[c.path] ELSE val IN
        /\ checkVal # Absent
        /\ c.op = "eq" => checkVal = c.value
        /\ c.op = "notEq" => checkVal # c.value
        /\ c.op = "notEmpty" => checkVal # Empty

\* matchValue: without a condition, "it is by default to check value not empty".
MatchValue(conds, d, val) ==
    IF conds = {} THEN val # Empty ELSE CheckConditions(conds, d, val)

ValueAt(d, path) == IF path = NoPath THEN Absent ELSE d[path]

\* The contents d are ready to be read at path.
ReadyIn(d, path, conds) ==
    IF path = NoPath THEN CheckConditions(conds, d, Absent)
    ELSE d[path] # Absent /\ MatchValue(conds, d, d[path])

\* getDataInput, for a source that may not exist.
GetDataInput(source, path, conds) ==
    \/ path = NoPath /\ conds = {}
    \/ source.exists /\ ReadyIn(source.data, path, conds)

\* The DAG: which object has a data output, and the output itself.
Source(name) ==
    CHOOSE n \in ToSet(app) : \E out \in ToSet(n.outputs) : out.name = name
OutputOf(name) == CHOOSE out \in ToSet(Source(name).outputs) : out.name = name
Declared(name) == \E n \in ToSet(app) : \E out \in ToSet(n.outputs) : out.name = name

-------------------------------------------------------------------------------
(* Reconcile: Render *)

Begin ==
    /\ At("idle")
    /\ queued
    /\ queued' = FALSE
    /\ ctl' = [Idle EXCEPT !.pc = "render", !.generation = generation]
    /\ UNCHANGED <<app, flags, generation, status, objects, stores, seen,
                   changes, edits, faults>>

\* handleDependency: the outputs of a node, then its inputs.
RenderCalls(n) ==
    [i \in DOMAIN n.outputs |-> [do |-> "output", output |-> n.outputs[i]]]
        \o [i \in DOMAIN n.inputs |-> [do |-> "input", input |-> n.inputs[i]]]

\* Apply: the object unless it has an unmet input, then the outputs to be stored, in
\* whatever order the map of them is walked.
ApplyCalls(n) ==
    LET emitted == {out \in ToSet(n.outputs) : out.name \in ctl.ready}
        object == IF n.object \in ctl.hasDep THEN <<>> ELSE <<[do |-> "apply"]>>
    IN
    {object \o [i \in DOMAIN outs |-> [do |-> "emit", output |-> outs[i]]] :
        outs \in SetToSeqs(emitted)}

Walking == At("render") \/ At("apply")
Here == app[ctl.node]

NextNode ==
    /\ Walking
    /\ ctl.todo = <<>>
    /\ ctl.node < Len(app)
    /\ \E calls \in IF At("render") THEN {RenderCalls(app[ctl.node + 1])}
                    ELSE ApplyCalls(app[ctl.node + 1]) :
          ctl' = [ctl EXCEPT !.node = @ + 1, !.todo = calls]
    /\ UNCHANGED <<app, flags, generation, status, objects, stores, seen, queued,
                   changes, edits, faults>>

AllNodesDone == ctl.todo = <<>> /\ ctl.node = Len(app)

\* All is rendered; or all is applied.
NextPhase ==
    /\ AllNodesDone
    /\ \/ At("render") /\ ctl' = [ctl EXCEPT !.pc = "apply", !.node = 0]
       \/ At("apply") /\ ctl' = [ctl EXCEPT !.pc = "success"]
    /\ UNCHANGED <<app, flags, generation, status, objects, stores, seen, queued,
                   changes, edits, faults>>

Calling(do) == Walking /\ ctl.todo # <<>> /\ Head(ctl.todo).do = do
Call == Head(ctl.todo)

\* An error of Render comes before the unsatisfied dependencies are recorded.
Failed == [ctl EXCEPT !.pc = "error", !.todo = <<>>,
                      !.unsatisfied = IF At("render") THEN {} ELSE @]

\* Mutant of Unsatisfied: reports the last one only.
UnsatisfiedLast(x) == {x}

Unsatisfied(x) == ctl.unsatisfied \cup {x}

\* handleDataOutput: an output is stored once each of its operations has its value.
CheckOutput ==
    LET out == Call.output IN
    /\ Calling("output")
    /\ ctl' = IF out.store = NoStore THEN [ctl EXCEPT !.todo = Tail(@)]
              ELSE IF \A op \in ToSet(out.ops) :
                          GetDataInput(objects[Here.object], op.path, op.conds)
              THEN [ctl EXCEPT !.todo = Tail(@), !.ready = @ \cup {out.name}]
              ELSE [ctl EXCEPT !.todo = Tail(@), !.unsatisfied = Unsatisfied(out.store)]
    /\ UNCHANGED <<app, flags, generation, status, objects, stores, seen, queued,
                   changes, edits, faults>>

\* An input that names a data output nobody declares.
Undeclared(in) ==
    /\ in.from # NoOutput \/ in.conds # {}
    /\ ~Declared(in.from)

\* handleDataStoreConds: the store has what each operation reads.
StoreReady(in) ==
    in.store # NoStore =>
        \A op \in ToSet(in.ops) : GetDataInput(stores[in.store], op.path, op.conds)

\* A named output is looked up before the store; when only the conditions ask for one,
\* the store comes first, and one that is not ready is reported instead of the error.
Rejected(in) == Undeclared(in) /\ (in.from = NoOutput => StoreReady(in))

\* handleDataOutputConds, handleDataStoreConds, handleDataInputConds: the output is
\* ready, the store is, the object itself, if it is there, meets the conditions.
InputReady(in) ==
    /\ in.from # NoOutput =>
          LET out == OutputOf(in.from) IN
          GetDataInput(objects[Source(in.from).object], out.path, out.conds)
    /\ StoreReady(in)
    /\ in.conds # {} /\ objects[Here.object].exists =>
          CheckConditions(in.conds, objects[Here.object].data, Absent)

\* fillValue: the value an input from a data output is filled with.
ValueFrom(in) ==
    IF in.from = NoOutput THEN Absent
    ELSE ValueAt(objects[Source(in.from).object].data, OutputOf(in.from).path)

\* Mutant of Held: an unmet input does not hold its object back.
HeldNever(o) == ctl.hasDep

Held(o) == ctl.hasDep \cup {o}

\* handleDataInput: the first unmet input ends the walk of a node's inputs.  What one input
\* asks for is read in one step.
CheckInput ==
    LET in == Call.input
        o == Here.object
    IN
    /\ Calling("input")
    /\ ctl' = IF Rejected(in) THEN Failed
              ELSE IF InputReady(in)
              THEN [ctl EXCEPT !.todo = Tail(@), !.filled[o] = Append(@, ValueFrom(in))]
              ELSE [ctl EXCEPT !.todo = <<>>, !.hasDep = Held(o),
                               !.unsatisfied = Unsatisfied(o)]
    /\ UNCHANGED <<app, flags, generation, status, objects, stores, seen, queued,
                   changes, edits, faults>>

-------------------------------------------------------------------------------
(* Reconcile: Apply *)

\* operationProcess: the value given, or else the one read, or else an error.
OperationValue(op, d) == IF op.value # Empty THEN op.value ELSE ValueAt(d, op.path)

\* ApplyInputRef: the values of the input stores, in order.
StoredValues(n) ==
    [i \in DOMAIN n.inputs |->
        IF n.inputs[i].store = NoStore THEN <<>>
        ELSE [k \in DOMAIN n.inputs[i].ops |->
                 OperationValue(n.inputs[i].ops[k], stores[n.inputs[i].store].data)]]

StoresThere(n) ==
    /\ \A in \in ToSet(n.inputs) : in.store # NoStore => stores[in.store].exists
    /\ \A i \in DOMAIN n.inputs : Absent \notin ToSet(StoredValues(n)[i])

\* Mutant of GenerationUnchanged: takes every object for applied already.
GenerationAlways(o) == objects[o].exists

\* applyOnceOnly: an object applied for this generation is left alone.
GenerationUnchanged(o) ==
    flags.applyOnceOnly /\ objects[o].exists /\ objects[o].generation = ctl.generation

ApplyObject ==
    LET o == Here.object IN
    /\ Calling("apply")
    /\ IF StoresThere(Here)
       THEN /\ ctl' = [ctl EXCEPT !.todo = Tail(@)]
            /\ objects' = IF GenerationUnchanged(o) THEN objects
                          ELSE [objects EXCEPT ![o] =
                                   [exists |-> TRUE, data |-> @.data,
                                    generation |-> ctl.generation,
                                    filled |-> ctl.filled[o], stored |-> StoredValues(Here)]]
       ELSE ctl' = Failed /\ UNCHANGED objects
    /\ UNCHANGED <<app, flags, generation, status, stores, seen, queued,
                   changes, edits, faults>>

\* The contents d after the operations, of which a later one overwrites an earlier.
Operated(ops, d, from) ==
    [f \in Fields |->
        LET here == {i \in DOMAIN ops : ops[i].to = f} IN
        IF here = {} THEN d[f] ELSE OperationValue(ops[Max(here)], from)]

\* The store of the output at hand is there.
StoreCreated == [stores EXCEPT ![Call.output.store].exists = TRUE]

\* ApplyOutputRef: reads the object, which may have changed since it was rendered or
\* may not be there, creates the store if need be and writes what the operations
\* make of it.  Between creating and filling it can only fail (see CallFault).
ApplyOutputRef ==
    LET out == Call.output
        o == Here.object
    IN
    /\ Calling("emit")
    /\ IF ~objects[o].exists
       THEN ctl' = Failed /\ UNCHANGED stores
       ELSE IF \E op \in ToSet(out.ops) : OperationValue(op, objects[o].data) = Absent
       THEN ctl' = Failed /\ stores' = StoreCreated
       ELSE /\ ctl' = [ctl EXCEPT !.todo = Tail(@)]
            /\ stores' = [StoreCreated EXCEPT ![out.store].data =
                                             Operated(out.ops, @, objects[o].data)]
    /\ UNCHANGED <<app, flags, generation, status, objects, seen, queued,
                   changes, edits, faults>>

-------------------------------------------------------------------------------
(* Reconcile: the status *)

Ending == At("success") \/ At("error")

\* Mutant of WaitTime: does not come back for what is unsatisfied.
WaitTimeLong(accepted) == flags.longWait \/ At("error") \/ ~accepted

\* Reconcile comes back for a refused update, after an error, after dependCheckWait
\* while something is unsatisfied, and after --long-wait.
WaitTime(accepted) ==
    flags.longWait \/ At("error") \/ ctl.unsatisfied # {} \/ ~accepted

\* Mutant of ObservedGeneration: counts up instead of copying.
ObservedNext == status.generation + 1

ObservedGeneration == ctl.generation

\* The status is refused if the ApplicationConfiguration was edited meanwhile.
UpdateStatus ==
    LET accepted == ctl.generation = generation IN
    /\ Ending
    /\ status' = IF accepted THEN [condition |-> ctl.pc, generation |-> ObservedGeneration,
                                   unsatisfied |-> ctl.unsatisfied]
                 ELSE status
    /\ queued' = (queued \/ WaitTime(accepted))
    /\ ctl' = Idle
    /\ UNCHANGED <<app, flags, generation, objects, stores, seen, changes, edits, faults>>

-------------------------------------------------------------------------------
(* Faults *)

\* A read of handleDataOutput fails: the output is not stored, and not reported.
CheckOutputFault ==
    /\ Calling("output")
    /\ faults < MaxFaults
    /\ faults' = faults + 1
    /\ ctl' = [ctl EXCEPT !.todo = Tail(@)]
    /\ UNCHANGED <<app, flags, generation, status, objects, stores, seen, queued,
                   changes, edits>>

\* Any other call fails, or took effect and its answer is lost; a store may have been
\* created and not filled.
CallFault ==
    /\ Walking
    /\ faults < MaxFaults
    /\ faults' = faults + 1
    /\ ctl' = Failed
    /\ \/ UNCHANGED stores
       \/ Calling("emit") /\ objects[Here.object].exists /\ stores' = StoreCreated
    /\ UNCHANGED <<app, flags, generation, status, objects, seen, queued, changes, edits>>

\* The status update fails, or the controller restarts: both start over.
StartOver ==
    /\ faults < MaxFaults
    /\ faults' = faults + 1
    /\ ctl' = Idle
    /\ queued' = TRUE
    /\ UNCHANGED <<app, flags, generation, status, objects, stores, seen, changes, edits>>

-------------------------------------------------------------------------------
ReconcileStep ==
    \/ Begin \/ NextNode \/ NextPhase \/ CheckOutput \/ CheckInput
    \/ ApplyObject \/ ApplyOutputRef \/ UpdateStatus

Next ==
    \/ EditAppConfig
    \/ \E o \in Objects, d \in Data : ObjectChanges(o, d)
    \/ ReconcileStep
    \/ CheckOutputFault \/ CallFault \/ StartOver

Spec == Init /\ [][Next]_vars

\* The worker serves its queue and runs each reconciliation to its end.
FairSpec == Spec /\ WF_vars(ReconcileStep)

-------------------------------------------------------------------------------
(* Correctness *)

\* The type of every variable; no generation is observed before it is written
\* (updateObservedGeneration).
TypeOK ==
    /\ app \in Apps /\ flags \in FlagSets
    /\ generation \in Nat
    /\ status \in Status /\ status.generation <= generation
    /\ objects \in [Objects -> Object]
    /\ stores \in [Stores -> Store]
    /\ seen \subseteq Objects \X Data
    /\ queued \in BOOLEAN
    /\ ctl \in Reconciliation
    /\ changes \in 0..MaxChanges /\ edits \in 0..MaxEdits /\ faults \in 0..MaxFaults

\* A source has offered value v under this name, with its conditions met.
Offered(name, v) ==
    LET out == OutputOf(name) IN
    \/ out.path = NoPath /\ out.conds = {} /\ v = Absent
    \/ \E d \in Data : /\ <<Source(name).object, d>> \in seen
                       /\ ReadyIn(d, out.path, out.conds)
                       /\ v = ValueAt(d, out.path)

\* The values, for the first inputs of n, are ones that their sources offered.
OfferedTo(n, values) ==
    \A i \in DOMAIN values :
        n.inputs[i].from # NoOutput => Offered(n.inputs[i].from, values[i])

Met(n, values) == Len(values) = Len(n.inputs) /\ OfferedTo(n, values)

\* An object exists only if each of its inputs was met, and is filled with values its
\* sources offered with their conditions met, whatever they changed to while the
\* reconciliation was on its way: "resource A could not be created until resource B
\* has been created and provided outputs" (design/resource-dependency.md:30).
FilledAsOffered ==
    \A n \in ToSet(app) : objects[n.object].exists => Met(n, objects[n.object].filled)

\* A status that reports success names each object that was not applied for the
\* current generation as waiting: nothing is held back silently (handleDependency).
WaitingReported ==
    status.condition = "success" /\ status.generation = generation =>
        \A n \in ToSet(app) :
            \/ objects[n.object].exists /\ objects[n.object].generation = generation
            \/ n.object \in status.unsatisfied

\* Why it is so.  What an object holds it once changed to ...
SeenInv ==
    \A o \in Objects : objects[o].data = NoData \/ <<o, objects[o].data>> \in seen

\* ... a reconciliation is at one of the nodes, its generation is not older than the
\* observed one, and it reports what it holds back ...
PlaceInv ==
    /\ ctl.node <= Len(app)
    /\ ctl.todo # <<>> => Walking /\ ctl.node # 0
    /\ ctl.pc # "idle" => status.generation <= ctl.generation /\ ctl.generation <= generation
    /\ ctl.pc # "error" => ctl.hasDep \subseteq ctl.unsatisfied

\* The calls left for the node n are the last ones of RenderCalls(n), q outputs and
\* the inputs it has no value for yet.
LeftToRender(n) ==
    LET filled == ctl.filled[n.object] IN
    \E q \in 0..Len(ctl.todo) :
        /\ q # 0 => filled = <<>>
        /\ Len(filled) + Len(ctl.todo) = Len(n.inputs) + q
        /\ \A i \in 1..q : ctl.todo[i].do = "output"
        /\ \A i \in (q + 1)..Len(ctl.todo) :
              ctl.todo[i] = [do |-> "input", input |-> n.inputs[Len(filled) + i - q]]

HeldOrMet(n) == n.object \in ctl.hasDep \/ Met(n, ctl.filled[n.object])

\* ... nodes it is done with are held back or have their inputs met, those it has
\* not come to have no value yet ...
RenderedInv ==
    /\ At("render") => \A i \in DOMAIN app :
          /\ i < ctl.node => HeldOrMet(app[i])
          /\ i = ctl.node =>
                \/ ctl.todo = <<>> /\ app[i].object \in ctl.hasDep
                \/ LeftToRender(app[i]) /\ OfferedTo(app[i], ctl.filled[app[i].object])
          /\ i > ctl.node => ctl.filled[app[i].object] = <<>>
    /\ At("apply") \/ At("success") => \A n \in ToSet(app) : HeldOrMet(n)

\* ... and are then held back or applied.
AppliedInv ==
    /\ At("apply") => \A k \in DOMAIN ctl.todo :
          /\ ctl.todo[k].do \in {"apply", "emit"}
          /\ ctl.todo[k].do = "apply" => Here.object \notin ctl.hasDep
    /\ At("apply") \/ At("success") => \A i \in DOMAIN app :
          \/ At("apply") /\ i > ctl.node
          \/ At("apply") /\ i = ctl.node /\ Calling("apply")
          \/ app[i].object \in ctl.hasDep
          \/ /\ objects[app[i].object].exists
             /\ objects[app[i].object].generation = ctl.generation

DependencyInv ==
    /\ TypeOK /\ SeenInv /\ PlaceInv /\ RenderedInv /\ AppliedInv
    /\ FilledAsOffered /\ WaitingReported

\* What a node waits for.
WaitsFor(nodes, n) ==
    {m \in ToSet(nodes) : \E in \in ToSet(n.inputs), out \in ToSet(m.outputs) :
        in.from = out.name \/ (in.store # NoStore /\ in.store = out.store)}

\* No node waits for itself in the end, each input has its source, and an object that
\* waits stores no output before it is there: that would be an error of
\* ApplyOutputRef, which keeps the objects after it from being applied.
Satisfiable(nodes) ==
    /\ \E rank \in [Objects -> 1..Len(nodes)] :
          \A n \in ToSet(nodes) :
              \A m \in WaitsFor(nodes, n) : rank[m.object] < rank[n.object]
    /\ \A n \in ToSet(nodes) : \A in \in ToSet(n.inputs) :
          in.from # NoOutput \/ in.conds # {} =>
              \E m \in ToSet(nodes) : \E out \in ToSet(m.outputs) : out.name = in.from
    /\ \A n \in ToSet(nodes) : \A out \in ToSet(n.outputs) :
          n.inputs # <<>> /\ out.store # NoStore =>
              \E op \in ToSet(out.ops) : op.path # NoPath \/ op.conds # {}

SatisfiableApps == {nodes \in Apps : Satisfiable(nodes)}

\* No object says when it may be updated.
UnguardedApps ==
    {nodes \in Apps : \A n \in ToSet(nodes) : \A in \in ToSet(n.inputs) : in.conds = {}}

\* The objects that are there offer their outputs.
Settled ==
    \A n \in ToSet(app) : objects[n.object].exists =>
        \A out \in ToSet(n.outputs) :
            /\ ReadyIn(objects[n.object].data, out.path, out.conds)
            /\ \A op \in ToSet(out.ops) : ReadyIn(objects[n.object].data, op.path, op.conds)

\* If the objects come to offer their outputs, everything is applied in the end, in
\* whatever order the components are listed and without --long-wait: Reconcile comes
\* back for what is unsatisfied (dependCheckWait).
AllApplied ==
    app \in SatisfiableApps /\ <>[]Settled => <>[](\A n \in ToSet(app) : objects[n.object].exists)

\* Each object is filled with what its sources and stores hold now.
Current ==
    \A n \in ToSet(app) :
        /\ objects[n.object].exists
        /\ \A i \in DOMAIN n.inputs :
              n.inputs[i].from # NoOutput => objects[n.object].filled[i] = ValueFrom(n.inputs[i])
        /\ objects[n.object].stored = StoredValues(n)
        /\ \A out \in ToSet(n.outputs) : out.store # NoStore =>
              \A op \in ToSet(out.ops) :
                  stores[out.store].data[op.to] = OperationValue(op, objects[n.object].data)

\* With --long-wait, and without --apply-once-only, later changes of an output reach
\* those that depend on it, also through a chain of objects and stores, unless they
\* refuse it by conditions of their own.
ChangesFollowed ==
    /\ app \in SatisfiableApps \cap UnguardedApps
    /\ flags.longWait /\ ~flags.applyOnceOnly
    /\ <>[]Settled
    => <>[]Current
===============================================================================
