---------------------------- MODULE DependencyProofs ----------------------------
(***************************************************************************)
(* For any ApplicationConfigurations, conditions, stores and flags, and    *)
(* any numbers of changes, edits and faults: an object is created only     *)
(* with values its sources offered, and what a reported success leaves out *)
(* it names as waiting.                                                    *)
(***************************************************************************)
EXTENDS Dependency, TLAPS, FiniteSetTheorems, SequenceTheorems, WellFoundedInduction

Values == Vals \cup {Absent}

-------------------------------------------------------------------------------
(* Sequences *)

LEMMA LeastNumber ==
    ASSUME NEW T \in SUBSET Nat, T # {}
    PROVE  \E x \in T : \A y \in T : x <= y
<1> DEFINE R == OpToRel(<, Nat)
<1>1. IsWellFoundedOn(R, Nat)
  BY NatLessThanWellFounded
<1>2. \A x, y \in Nat : x < y => <<x, y>> \in R
  BY DEF OpToRel
<1> HIDE DEF R
<1>3. PICK x \in T : \A y \in T : ~(<<y, x>> \in R)
  BY <1>1, WFMin
<1>4. \A y \in T : ~(y < x)
  BY <1>2, <1>3
<1> QED
  BY <1>3, <1>4

LEMMA GreatestPosition ==
    ASSUME NEW n \in Nat, NEW T \in SUBSET (1..n), T # {}
    PROVE  Max(T) \in T
<1> DEFINE D == {n - i : i \in T}
<1>1. D \in SUBSET Nat /\ D # {}
  <2>1. PICK t \in T : TRUE
    OBVIOUS
  <2>2. n - t \in D
    BY <2>1
  <2>3. \A d \in D : d \in Nat
    OBVIOUS
  <2> QED
    BY <2>2, <2>3
<1> HIDE DEF D
<1>2. PICK x \in D : \A y \in D : x <= y
  BY <1>1, LeastNumber
<1>3. PICK m \in T : x = n - m
  BY DEF D
<1>4. \A y \in T : m >= y
  <2> SUFFICES ASSUME NEW y \in T PROVE m >= y
    OBVIOUS
  <2>1. n - y \in D
    BY DEF D
  <2>2. n - m <= n - y
    BY <1>2, <1>3, <2>1
  <2> QED
    BY <2>2
<1>5. \E z \in T : \A y \in T : z >= y
  BY <1>4
<1> QED
  BY <1>5 DEF Max

LEMMA MappedSeq ==
    ASSUME NEW S, NEW T, NEW s \in Seq(S), NEW g, g \in [DOMAIN s -> T]
    PROVE  g \in Seq(T) /\ Len(g) = Len(s) /\ DOMAIN g = DOMAIN s
<1>1. Len(s) \in Nat /\ DOMAIN s = 1..Len(s)
  BY LenProperties
<1>2. g \in Seq(T)
  BY <1>1
<1> QED
  BY <1>1, <1>2, LenProperties

\* The first of the calls left is done.
LEMMA TailFacts ==
    ASSUME NEW S, NEW s \in Seq(S), s # <<>>
    PROVE  /\ Head(s) \in S /\ Head(s) = s[1] /\ Len(s) \in Nat /\ Len(s) > 0
           /\ Tail(s) \in Seq(S) /\ Len(Tail(s)) = Len(s) - 1
           /\ DOMAIN s = 1..Len(s) /\ DOMAIN Tail(s) = 1..(Len(s) - 1)
           /\ \A i \in 1..(Len(s) - 1) : Tail(s)[i] = s[i + 1]
<1>1. /\ Len(s) \in Nat /\ DOMAIN s = 1..Len(s) /\ Len(s) # 0
  BY LenProperties, EmptySeq
<1>2. /\ Head(s) \in S /\ Tail(s) \in Seq(S) /\ Len(Tail(s)) = Len(s) - 1
      /\ \A i \in 1..Len(Tail(s)) : Tail(s)[i] = s[i + 1]
  BY HeadTailProperties
<1>3. Head(s) = s[1]
  OBVIOUS
<1>4. DOMAIN Tail(s) = 1..Len(Tail(s))
  BY <1>2, LenProperties
<1> QED
  BY <1>1, <1>2, <1>3, <1>4

LEMMA SetSeq ==
    ASSUME NEW S, IsFiniteSet(S), NEW s \in SetToSeqs(S)
    PROVE  s \in Seq(S)
<1>1. Cardinality(S) \in Nat
  BY FS_CardinalityType
<1>2. s \in [1..Cardinality(S) -> S]
  BY DEF SetToSeqs
<1> QED
  BY <1>1, <1>2

LEMMA ToSetFinite ==
    ASSUME NEW S, NEW s \in Seq(S)
    PROVE  IsFiniteSet(ToSet(s)) /\ ToSet(s) \subseteq S
<1>1. Len(s) \in Nat /\ DOMAIN s = 1..Len(s) /\ s \in [1..Len(s) -> S]
  BY LenProperties
<1>2. IsFiniteSet(1..Len(s))
  BY <1>1, FS_Interval
<1>3. IsFiniteSet(ToSet(s))
  <2>1. s \in Surjection(1..Len(s), ToSet(s))
    BY <1>1 DEF Surjection, ToSet
  <2> QED
    BY <1>2, <2>1, FS_Surjection
<1> QED
  BY <1>1, <1>3 DEF ToSet

-------------------------------------------------------------------------------
(* The types of the parts *)

LEMMA NodeFacts ==
    ASSUME NEW n \in Node
    PROVE  /\ n.object \in Objects /\ n.inputs \in Seq(DataInput) /\ n.outputs \in Seq(DataOutput)
           /\ Len(n.inputs) \in Nat /\ DOMAIN n.inputs = 1..Len(n.inputs)
           /\ \A i \in DOMAIN n.inputs : n.inputs[i] \in DataInput
<1>1. n.object \in Objects /\ n.inputs \in Seq(DataInput) /\ n.outputs \in Seq(DataOutput)
  BY DEF Node
<1> QED
  BY <1>1, LenProperties, ElementOfSeq

LEMMA DataInputFacts ==
    ASSUME NEW in \in DataInput
    PROVE  /\ in.from \in Outputs \cup {NoOutput} /\ in.store \in Stores \cup {NoStore}
           /\ in.ops \in Seq(DataOperation) /\ in.conds \in SUBSET Condition
  BY DEF DataInput

LEMMA DataOutputFacts ==
    ASSUME NEW out \in DataOutput
    PROVE  /\ out.name \in Outputs /\ out.path \in Paths /\ out.conds \in SUBSET Condition
           /\ out.store \in Stores \cup {NoStore} /\ out.ops \in Seq(DataOperation)
  BY DEF DataOutput

LEMMA AppFacts ==
    ASSUME TypeOK
    PROVE  /\ app \in Seq(Node) /\ Len(app) \in Nat /\ DOMAIN app = 1..Len(app)
           /\ \A i \in DOMAIN app : app[i] \in Node /\ app[i] \in ToSet(app)
           /\ \A n \in ToSet(app) : n \in Node /\ \E i \in DOMAIN app : n = app[i]
           /\ \A i, j \in DOMAIN app : app[i].object = app[j].object => i = j
<1>1. app \in Seq(Node) /\ Distinct(app)
  BY AppsAssumption DEF TypeOK
<1>2. Len(app) \in Nat /\ DOMAIN app = 1..Len(app) /\ \A i \in DOMAIN app : app[i] \in Node
  BY <1>1, LenProperties, ElementOfSeq
<1> QED
  BY <1>1, <1>2 DEF ToSet, Distinct

LEMMA CtlFacts ==
    ASSUME TypeOK
    PROVE  /\ ctl \in Reconciliation /\ ctl.pc \in {"idle", "render", "apply", "success", "error"}
           /\ ctl.generation \in Nat /\ ctl.node \in Nat /\ ctl.todo \in Seq(NodeCall)
           /\ ctl.hasDep \in SUBSET Objects /\ ctl.ready \in SUBSET Outputs
           /\ ctl.filled \in [Objects -> Seq(Values)]
           /\ ctl.unsatisfied \in SUBSET (Objects \cup Stores)
  BY DEF TypeOK, Reconciliation, Values

LEMMA CallFacts ==
    ASSUME NEW c \in NodeCall
    PROVE  /\ c.do \in {"output", "input", "apply", "emit"}
           /\ c.do \in {"output", "emit"} => c.output \in DataOutput
           /\ c.do = "input" => c.input \in DataInput
  BY DEF NodeCall

LEMMA ObjectFacts ==
    ASSUME TypeOK, NEW o \in Objects
    PROVE  /\ objects[o] \in Object /\ objects[o].exists \in BOOLEAN /\ objects[o].data \in Data
           /\ objects[o].generation \in Nat /\ objects[o].filled \in Seq(Values)
           /\ objects[o].stored \in Seq(Seq(Values))
<1>1. objects[o] \in Object
  BY DEF TypeOK
<1> QED
  BY <1>1 DEF Object, Values

LEMMA ValueTypes ==
    ASSUME NEW d \in Data
    PROVE  /\ \A path \in Paths : ValueAt(d, path) \in Values
           /\ \A op \in DataOperation : OperationValue(op, d) \in Values
<1>1. \A path \in Paths : ValueAt(d, path) \in Values
  BY DEF Data, Paths, ValueAt, Values
<1>2. \A op \in DataOperation : op.value \in Vals /\ op.path \in Paths
  BY DEF DataOperation
<1> QED
  BY <1>1, <1>2 DEF OperationValue, Values

-------------------------------------------------------------------------------
(* Sources and what they offer *)

LEMMA SourceFacts ==
    ASSUME TypeOK, NEW name, Declared(name)
    PROVE  /\ Source(name) \in ToSet(app) /\ Source(name) \in Node
           /\ OutputOf(name) \in ToSet(Source(name).outputs) /\ OutputOf(name) \in DataOutput
           /\ Source(name).object \in Objects
<1>1. /\ Source(name) \in ToSet(app)
      /\ \E out \in ToSet(Source(name).outputs) : out.name = name
  BY DEF Declared, Source
<1>2. OutputOf(name) \in ToSet(Source(name).outputs)
  BY <1>1 DEF OutputOf
<1>3. Source(name) \in Node
  BY <1>1, AppFacts
<1>4. ToSet(Source(name).outputs) \subseteq DataOutput
  BY <1>3, NodeFacts, ToSetFinite
<1> QED
  BY <1>1, <1>2, <1>3, <1>4, NodeFacts

\* Nothing can be read from an object that never changed.
LEMMA NothingReady ==
    ASSUME NEW path \in Paths, NEW conds \in SUBSET Condition, ReadyIn(NoData, path, conds)
    PROVE  path = NoPath /\ conds = {}
<1>1. \A f \in Fields : NoData[f] = Absent
  BY DEF NoData
<1>2. path = NoPath
  BY <1>1 DEF ReadyIn, Paths
<1>3. conds = {}
  <2> SUFFICES ASSUME NEW c \in conds PROVE FALSE
    OBVIOUS
  <2>1. c.path \in Paths
    BY DEF Condition
  <2>2. (IF c.path # NoPath THEN NoData[c.path] ELSE Absent) = Absent
    BY <1>1, <2>1 DEF Paths
  <2> QED
    BY <1>2, <2>2 DEF ReadyIn, CheckConditions
<1> QED
  BY <1>2, <1>3

\* The value read for an input that is ready is one its source has offered.
LEMMA ReadIsOffered ==
    ASSUME TypeOK, SeenInv, NEW in \in DataInput, ~Undeclared(in), InputReady(in),
           in.from # NoOutput
    PROVE  Offered(in.from, ValueFrom(in))
<1> DEFINE src == Source(in.from).object
           out == OutputOf(in.from)
           d == objects[src].data
<1>1. src \in Objects /\ out \in DataOutput
  BY SourceFacts DEF Undeclared
<1>2. out.path \in Paths /\ out.conds \in SUBSET Condition
  BY <1>1, DataOutputFacts
<1>3. \/ out.path = NoPath /\ out.conds = {}
      \/ ReadyIn(d, out.path, out.conds)
  BY DEF InputReady, GetDataInput
<1>4. ValueFrom(in) = ValueAt(d, out.path)
  BY DEF ValueFrom
<1>5. d \in Data /\ (d = NoData \/ <<src, d>> \in seen)
  BY <1>1, ObjectFacts DEF SeenInv
<1> HIDE DEF d
<1>6. CASE out.path = NoPath /\ out.conds = {}
  BY <1>4, <1>6 DEF Offered, ValueAt
<1>7. CASE ReadyIn(d, out.path, out.conds) /\ d = NoData
  BY <1>2, <1>6, <1>7, NothingReady
<1>8. CASE ReadyIn(d, out.path, out.conds) /\ <<src, d>> \in seen
  BY <1>4, <1>5, <1>8 DEF Offered
<1> QED
  BY <1>3, <1>5, <1>6, <1>7, <1>8

LEMMA ValueFromType ==
    ASSUME TypeOK, NEW in \in DataInput, ~Undeclared(in)
    PROVE  ValueFrom(in) \in Values
<1>1. CASE in.from = NoOutput
  BY <1>1 DEF ValueFrom, Values
<1>2. CASE in.from # NoOutput
  <2>1. Source(in.from).object \in Objects /\ OutputOf(in.from) \in DataOutput
    BY <1>2, SourceFacts DEF Undeclared
  <2>2. objects[Source(in.from).object].data \in Data /\ OutputOf(in.from).path \in Paths
    BY <2>1, ObjectFacts, DataOutputFacts
  <2> QED
    BY <1>2, <2>2, ValueTypes DEF ValueFrom
<1> QED
  BY <1>1, <1>2

\* What was offered stays offered.
LEMMA MetLasts ==
    ASSUME app' = app, seen \subseteq seen', NEW n, NEW values
    PROVE  /\ OfferedTo(n, values) => OfferedTo(n, values)'
           /\ Met(n, values) => Met(n, values)'
<1>1. \A name, v : Offered(name, v) => Offered(name, v)'
  BY DEF Offered, OutputOf, Source
<1>2. OfferedTo(n, values) => OfferedTo(n, values)'
  BY <1>1 DEF OfferedTo
<1> QED
  BY <1>2 DEF Met

LEMMA StoredValuesType ==
    ASSUME TypeOK, NEW n \in Node
    PROVE  StoredValues(n) \in Seq(Seq(Values))
<1> DEFINE sv(in) == IF in.store = NoStore THEN <<>>
                     ELSE [k \in DOMAIN in.ops |-> OperationValue(in.ops[k], stores[in.store].data)]
<1>1. ASSUME NEW in \in DataInput PROVE sv(in) \in Seq(Values)
  <2>1. CASE in.store = NoStore
    <3>1. <<>> \in Seq(Values)
      BY EmptySeq
    <3> QED
      BY <2>1, <3>1
  <2>2. CASE in.store # NoStore
    <3>1. in.store \in Stores /\ in.ops \in Seq(DataOperation)
      BY <2>2, DataInputFacts
    <3>2. stores[in.store].data \in Data
      BY <3>1 DEF TypeOK, Store
    <3>3. \A k \in DOMAIN in.ops : in.ops[k] \in DataOperation
      BY <3>1, LenProperties, ElementOfSeq
    <3>4. sv(in) \in [DOMAIN in.ops -> Values]
      BY <2>2, <3>2, <3>3, ValueTypes
    <3> QED
      BY <3>1, <3>4, MappedSeq
  <2> QED
    BY <2>1, <2>2
<1>2. StoredValues(n) = [i \in DOMAIN n.inputs |-> sv(n.inputs[i])]
  BY DEF StoredValues
<1> HIDE DEF sv
<1>3. StoredValues(n) \in [DOMAIN n.inputs -> Seq(Values)]
  BY <1>1, <1>2, NodeFacts
<1> QED
  BY <1>3, NodeFacts, MappedSeq

LEMMA OperatedType ==
    ASSUME NEW ops \in Seq(DataOperation), NEW d \in Data, NEW from \in Data
    PROVE  Operated(ops, d, from) \in Data
<1> SUFFICES ASSUME NEW f \in Fields
             PROVE  LET here == {i \in DOMAIN ops : ops[i].to = f} IN
                    (IF here = {} THEN d[f] ELSE OperationValue(ops[Max(here)], from)) \in Values
  BY DEF Operated, Data, Values
<1> DEFINE here == {i \in DOMAIN ops : ops[i].to = f}
<1>1. Len(ops) \in Nat /\ DOMAIN ops = 1..Len(ops) /\ \A i \in DOMAIN ops : ops[i] \in DataOperation
  BY LenProperties, ElementOfSeq
<1>2. here \in SUBSET (1..Len(ops))
  BY <1>1
<1> HIDE DEF here
<1>3. here # {} => Max(here) \in DOMAIN ops
  BY <1>1, <1>2, GreatestPosition
<1>4. d[f] \in Values
  BY DEF Data, Values
<1>5. here # {} => OperationValue(ops[Max(here)], from) \in Values
  BY <1>1, <1>3, ValueTypes
<1> QED
  BY <1>4, <1>5 DEF here

-------------------------------------------------------------------------------
(* The calls for a node *)

LEMMA RenderCallsFacts ==
    ASSUME NEW n \in Node
    PROVE  LET c == RenderCalls(n)
               q == Len(n.outputs)
           IN  /\ c \in Seq(NodeCall) /\ q \in Nat /\ Len(c) = q + Len(n.inputs)
               /\ \A i \in 1..q : c[i].do = "output"
               /\ \A i \in (q + 1)..Len(c) : c[i] = [do |-> "input", input |-> n.inputs[i - q]]
<1> DEFINE a == [i \in DOMAIN n.outputs |-> [do |-> "output", output |-> n.outputs[i]]]
           b == [i \in DOMAIN n.inputs |-> [do |-> "input", input |-> n.inputs[i]]]
<1>1. n.inputs \in Seq(DataInput) /\ n.outputs \in Seq(DataOutput)
  BY NodeFacts
<1>2. /\ \A i \in DOMAIN n.outputs : n.outputs[i] \in DataOutput
      /\ \A i \in DOMAIN n.inputs : n.inputs[i] \in DataInput
  BY <1>1, LenProperties, ElementOfSeq
<1>3. /\ \A x \in DataOutput : [do |-> "output", output |-> x] \in NodeCall
      /\ \A x \in DataInput : [do |-> "input", input |-> x] \in NodeCall
  BY DEF NodeCall
<1>4. a \in [DOMAIN n.outputs -> NodeCall] /\ b \in [DOMAIN n.inputs -> NodeCall]
  BY <1>2, <1>3
<1>5. /\ \A i \in DOMAIN n.outputs : a[i].do = "output"
      /\ \A i \in DOMAIN n.inputs : b[i] = [do |-> "input", input |-> n.inputs[i]]
  OBVIOUS
<1>6. RenderCalls(n) = a \o b
  BY DEF RenderCalls
<1> HIDE DEF a, b
<1>7. /\ a \in Seq(NodeCall) /\ Len(a) = Len(n.outputs)
      /\ b \in Seq(NodeCall) /\ Len(b) = Len(n.inputs)
  BY <1>1, <1>4, MappedSeq
<1>8. /\ Len(n.outputs) \in Nat /\ DOMAIN n.outputs = 1..Len(n.outputs)
      /\ Len(n.inputs) \in Nat /\ DOMAIN n.inputs = 1..Len(n.inputs)
  BY <1>1, LenProperties
<1>9. /\ a \o b \in Seq(NodeCall) /\ Len(a \o b) = Len(a) + Len(b)
      /\ \A i \in 1..(Len(a) + Len(b)) :
            (a \o b)[i] = IF i <= Len(a) THEN a[i] ELSE b[i - Len(a)]
  BY <1>7, ConcatProperties, Zenon
<1>10. \A i \in 1..Len(n.outputs) : (a \o b)[i].do = "output"
  BY <1>5, <1>7, <1>8, <1>9
<1>11. \A i \in (Len(n.outputs) + 1)..Len(a \o b) :
          (a \o b)[i] = [do |-> "input", input |-> n.inputs[i - Len(n.outputs)]]
  <2> SUFFICES ASSUME NEW i \in (Len(n.outputs) + 1)..Len(a \o b)
               PROVE  (a \o b)[i] = [do |-> "input", input |-> n.inputs[i - Len(n.outputs)]]
    OBVIOUS
  <2>1. PICK p \in Nat, q \in Nat : p = Len(n.outputs) /\ q = Len(n.inputs)
    BY <1>8
  <2>2. i \in (p + 1)..(p + q) /\ DOMAIN n.inputs = 1..q /\ Len(a) = p /\ Len(b) = q
    BY <1>7, <1>8, <1>9, <2>1
  <2>3. i - p \in 1..q /\ i \in 1..(p + q) /\ ~(i <= p)
    BY <2>2
  <2>4. i - Len(n.outputs) \in DOMAIN n.inputs /\ (a \o b)[i] = b[i - Len(n.outputs)]
    BY <1>9, <2>1, <2>2, <2>3
  <2> QED
    BY <1>5, <2>4
<1> QED
  BY <1>6, <1>7, <1>8, <1>9, <1>10, <1>11

LEMMA ApplyCallsFacts ==
    ASSUME NEW n \in Node, NEW c \in ApplyCalls(n)
    PROVE  /\ c \in Seq(NodeCall)
           /\ \A k \in DOMAIN c : /\ c[k].do \in {"apply", "emit"}
                                  /\ c[k].do = "apply" => n.object \notin ctl.hasDep
           /\ n.object \notin ctl.hasDep => c # <<>> /\ Head(c).do = "apply"
<1> DEFINE emitted == {out \in ToSet(n.outputs) : out.name \in ctl.ready}
           a == IF n.object \in ctl.hasDep THEN <<>> ELSE <<[do |-> "apply"]>>
<1>1. PICK outs \in SetToSeqs(emitted) :
          c = a \o [i \in DOMAIN outs |-> [do |-> "emit", output |-> outs[i]]]
  BY DEF ApplyCalls
<1> DEFINE b == [i \in DOMAIN outs |-> [do |-> "emit", output |-> outs[i]]]
<1>2. IsFiniteSet(emitted) /\ emitted \subseteq DataOutput
  <2>1. IsFiniteSet(ToSet(n.outputs)) /\ ToSet(n.outputs) \subseteq DataOutput
    BY NodeFacts, ToSetFinite
  <2>2. emitted \in SUBSET ToSet(n.outputs)
    OBVIOUS
  <2> QED
    BY <2>1, <2>2, FS_Subset
<1> HIDE DEF emitted
<1>3. outs \in Seq(emitted)
  BY <1>2, SetSeq
<1>4. \A i \in DOMAIN outs : outs[i] \in DataOutput
  BY <1>2, <1>3, LenProperties, ElementOfSeq
<1>5. \A x \in DataOutput : [do |-> "emit", output |-> x] \in NodeCall
  BY DEF NodeCall
<1>6. b \in [DOMAIN outs -> NodeCall] /\ \A i \in DOMAIN outs : b[i].do = "emit"
  BY <1>4, <1>5
<1>7. c = a \o b
  BY <1>1
<1> HIDE DEF b
<1>8. b \in Seq(NodeCall) /\ Len(b) \in Nat /\ \A i \in 1..Len(b) : b[i].do = "emit"
  BY <1>3, <1>6, MappedSeq, LenProperties
<1>9. /\ a \in Seq(NodeCall) /\ Len(a) \in Nat
      /\ n.object \in ctl.hasDep => Len(a) = 0
      /\ n.object \notin ctl.hasDep => Len(a) = 1 /\ a[1].do = "apply"
  <2>1. [do |-> "apply"] \in NodeCall
    BY DEF NodeCall
  <2> QED
    BY <2>1
<1> HIDE DEF a
<1>10. /\ a \o b \in Seq(NodeCall) /\ Len(a \o b) = Len(a) + Len(b)
       /\ \A i \in 1..(Len(a) + Len(b)) :
             (a \o b)[i] = IF i <= Len(a) THEN a[i] ELSE b[i - Len(a)]
  BY <1>8, <1>9, ConcatProperties, Zenon
<1>11. DOMAIN c = 1..Len(c) /\ c \in Seq(NodeCall) /\ Len(c) = Len(a) + Len(b)
  BY <1>7, <1>10, LenProperties
<1>12. ASSUME NEW k \in DOMAIN c
       PROVE  /\ c[k].do \in {"apply", "emit"}
              /\ c[k].do = "apply" => n.object \notin ctl.hasDep
  <2>1. CASE k <= Len(a)
    <3>0. k \in Nat /\ k >= 1
      BY <1>8, <1>9, <1>11
    <3>1. Len(a) = 1 /\ n.object \notin ctl.hasDep /\ k = 1
      <4>1. CASE n.object \in ctl.hasDep
        <5>1. Len(a) = 0
          BY <1>9, <4>1
        <5> QED
          BY <2>1, <3>0, <5>1
      <4>2. CASE n.object \notin ctl.hasDep
        <5>1. Len(a) = 1
          BY <1>9, <4>2
        <5> QED
          BY <2>1, <3>0, <4>2, <5>1
      <4> QED
        BY <4>1, <4>2
    <3>2. c[k] = a[1]
      BY <1>7, <1>8, <1>10, <3>1
    <3> QED
      BY <1>9, <3>1, <3>2
  <2>2. CASE ~(k <= Len(a))
    <3>1. k - Len(a) \in 1..Len(b) /\ c[k] = b[k - Len(a)]
      BY <1>7, <1>8, <1>9, <1>10, <1>11, <2>2
    <3> QED
      BY <1>8, <3>1
  <2> QED
    BY <2>1, <2>2
<1>13. n.object \notin ctl.hasDep => c # <<>> /\ Head(c).do = "apply"
  <2> SUFFICES ASSUME n.object \notin ctl.hasDep PROVE c # <<>> /\ Head(c).do = "apply"
    OBVIOUS
  <2>0. Len(a) = 1 /\ a[1].do = "apply"
    BY <1>9
  <2>1. Len(a) = 1 /\ a[1].do = "apply" /\ Len(c) # 0
    BY <1>8, <1>11, <2>0
  <2>2. c # <<>>
    BY <1>11, <2>1, SMT
  <2>3. Head(c) = c[1]
    BY <1>11, <2>2, TailFacts
  <2>4. c[1] = a[1]
    BY <1>7, <1>8, <1>10, <2>1
  <2> QED
    BY <2>1, <2>2, <2>3, <2>4
<1> QED
  BY <1>11, <1>12, <1>13

-------------------------------------------------------------------------------
(* What most steps leave alone *)

LEMMA InvParts ==
    ASSUME DependencyInv
    PROVE  /\ TypeOK /\ SeenInv /\ PlaceInv /\ RenderedInv /\ AppliedInv
           /\ FilledAsOffered /\ WaitingReported
  BY DEF DependencyInv

LEMMA FilledKept ==
    ASSUME FilledAsOffered, UNCHANGED <<app, objects, seen>>
    PROVE  FilledAsOffered'
<1> SUFFICES ASSUME NEW n \in ToSet(app), objects[n.object].exists,
                    NEW values, values = objects[n.object].filled
             PROVE  Met(n, values)'
  BY DEF FilledAsOffered, Met, OfferedTo
<1> QED
  BY MetLasts DEF FilledAsOffered

\* The step changes neither objects nor status.
LEMMA ResultsKept ==
    ASSUME DependencyInv, UNCHANGED <<app, objects, seen, status, generation>>
    PROVE  SeenInv' /\ FilledAsOffered' /\ WaitingReported'
<1>1. SeenInv /\ FilledAsOffered /\ WaitingReported
  BY InvParts
<1>2. SeenInv' /\ WaitingReported'
  BY <1>1 DEF SeenInv, WaitingReported
<1> QED
  BY <1>1, <1>2, FilledKept

LEMMA IdleStep ==
    ASSUME TypeOK, ctl' = Idle, app' = app
    PROVE  ctl' \in Reconciliation /\ PlaceInv' /\ RenderedInv' /\ AppliedInv'
<1>1. /\ Idle.pc = "idle" /\ Idle.node = 0 /\ Idle.todo = <<>> /\ Idle.hasDep = {}
  BY DEF Idle
<1>2. Idle \in Reconciliation
  <2>1. <<>> \in Seq(NodeCall) /\ <<>> \in Seq(Values)
    BY EmptySeq
  <2> QED
    BY <2>1 DEF Idle, Reconciliation, Values
<1>3. PlaceInv'
  BY <1>1, AppFacts DEF PlaceInv
<1>4. RenderedInv' /\ AppliedInv'
  BY <1>1 DEF RenderedInv, AppliedInv, At
<1> QED
  BY <1>2, <1>3, <1>4

LEMMA FailedStep ==
    ASSUME DependencyInv, Walking, ctl' = Failed, UNCHANGED <<app, generation, status>>
    PROVE  ctl' \in Reconciliation /\ PlaceInv' /\ RenderedInv' /\ AppliedInv'
<1> DEFINE u == IF At("render") THEN {} ELSE ctl.unsatisfied
<1>1. TypeOK /\ PlaceInv /\ ctl.pc # "idle"
  BY InvParts DEF Walking, At
<1>2. ctl \in Reconciliation /\ ctl.unsatisfied \in SUBSET (Objects \cup Stores)
  BY <1>1, CtlFacts
<1>3. Failed = [ctl EXCEPT !.pc = "error", !.todo = <<>>, !.unsatisfied = u]
  BY <1>2 DEF Failed, Reconciliation
<1>4. u \in SUBSET (Objects \cup Stores)
  BY <1>2
<1> HIDE DEF u
<1>5. <<>> \in Seq(NodeCall)
  BY EmptySeq
<1>6. /\ Failed \in Reconciliation /\ Failed.pc = "error" /\ Failed.todo = <<>>
      /\ Failed.node = ctl.node /\ Failed.generation = ctl.generation
  BY <1>2, <1>3, <1>4, <1>5 DEF Reconciliation
<1>7. PlaceInv'
  BY <1>1, <1>6 DEF PlaceInv
<1>8. RenderedInv' /\ AppliedInv'
  BY <1>6 DEF RenderedInv, AppliedInv, At
<1> QED
  BY <1>6, <1>7, <1>8

\* The step does not touch the reconciliation; objects stay there, seen grows.
LEMMA WalkKept ==
    ASSUME DependencyInv, UNCHANGED <<app, ctl, status>>, seen \subseteq seen',
           generation' \in Nat, generation <= generation',
           \A o \in Objects : objects[o].exists =>
               objects'[o].exists /\ objects'[o].generation = objects[o].generation
    PROVE  PlaceInv' /\ RenderedInv' /\ AppliedInv'
<1>1. TypeOK /\ PlaceInv /\ RenderedInv /\ AppliedInv
  BY InvParts
<1>2. PlaceInv'
  <2>1. generation \in Nat /\ ctl.generation \in Nat
    BY <1>1, CtlFacts DEF TypeOK
  <2> QED
    BY <1>1, <2>1 DEF PlaceInv, Walking, At
<1>3. \A n, values : /\ OfferedTo(n, values) => OfferedTo(n, values)'
                     /\ Met(n, values) => Met(n, values)'
  BY MetLasts
<1>4. RenderedInv'
  <2>1. \A n : LeftToRender(n) => LeftToRender(n)'
    BY DEF LeftToRender
  <2>2. ASSUME NEW n, HeldOrMet(n) PROVE HeldOrMet(n)'
    <3>1. PICK values : values = ctl.filled[n.object]
      OBVIOUS
    <3>2. n.object \in ctl.hasDep \/ Met(n, values)'
      BY <1>3, <2>2, <3>1 DEF HeldOrMet
    <3> QED
      BY <3>1, <3>2 DEF HeldOrMet, Met, OfferedTo
  <2>3. ASSUME NEW n, OfferedTo(n, ctl.filled[n.object])
        PROVE  OfferedTo(n, ctl.filled[n.object])'
    <3>1. PICK values : values = ctl.filled[n.object]
      OBVIOUS
    <3>2. OfferedTo(n, values)'
      BY <1>3, <2>3, <3>1
    <3> QED
      BY <3>1, <3>2 DEF OfferedTo
  <2>4. At("render") = At("render")' /\ At("apply") = At("apply")' /\ At("success") = At("success")'
    BY DEF At
  <2> QED
    BY <1>1, <2>1, <2>2, <2>3, <2>4 DEF RenderedInv
<1>5. AppliedInv'
  <2>1. \A i \in DOMAIN app : app[i].object \in Objects
    BY <1>1, AppFacts, NodeFacts
  <2> QED
    BY <1>1, <2>1 DEF AppliedInv, At, Here, Calling, Walking
<1> QED
  BY <1>2, <1>4, <1>5

LEMMA CountFacts ==
    ASSUME TypeOK
    PROVE  /\ faults < MaxFaults /\ faults' = faults + 1 => faults' \in 0..MaxFaults
           /\ changes < MaxChanges /\ changes' = changes + 1 => changes' \in 0..MaxChanges
           /\ edits < MaxEdits /\ edits' = edits + 1 => edits' \in 0..MaxEdits
  BY BoundsAssumption DEF TypeOK

-------------------------------------------------------------------------------
(* Users, the beginning and the end of a reconciliation, faults *)

LEMMA EditAppConfigStep ==
    ASSUME DependencyInv, EditAppConfig
    PROVE  DependencyInv'
<1>1. /\ TypeOK /\ SeenInv /\ FilledAsOffered
      /\ UNCHANGED <<app, flags, status, objects, stores, seen, ctl, changes, faults>>
      /\ generation' = generation + 1 /\ queued' = TRUE
      /\ edits < MaxEdits /\ edits' = edits + 1
  BY InvParts DEF EditAppConfig
<1>2. generation \in Nat /\ generation' \in Nat /\ status.generation \in Nat
      /\ status.generation <= generation
  BY <1>1 DEF TypeOK, Status
<1>3. edits' \in 0..MaxEdits
  BY <1>1, CountFacts
<1>4. queued' \in BOOLEAN
  BY <1>1
<1>5. status.generation <= generation' /\ status.generation # generation'
  BY <1>1, <1>2
<1>6. TypeOK'
  BY <1>1, <1>2, <1>3, <1>4, <1>5 DEF TypeOK
<1>7. PlaceInv' /\ RenderedInv' /\ AppliedInv'
  <2>1. generation <= generation'
    BY <1>1, <1>2
  <2> QED
    BY <1>1, <1>2, <2>1, WalkKept
<1>8. SeenInv' /\ WaitingReported'
  BY <1>1, <1>5 DEF SeenInv, WaitingReported
<1>9. FilledAsOffered'
  BY <1>1, FilledKept
<1> QED
  BY <1>6, <1>7, <1>8, <1>9 DEF DependencyInv

LEMMA ObjectChangesStep ==
    ASSUME DependencyInv, NEW o \in Objects, NEW d \in Data, ObjectChanges(o, d)
    PROVE  DependencyInv'
<1>1. /\ TypeOK /\ SeenInv /\ FilledAsOffered /\ WaitingReported
      /\ UNCHANGED <<app, flags, generation, status, stores, queued, ctl, edits, faults>>
      /\ objects' = [objects EXCEPT ![o].data = d] /\ seen' = seen \cup {<<o, d>>}
      /\ changes < MaxChanges /\ changes' = changes + 1
  BY InvParts DEF ObjectChanges
<1>2. objects \in [Objects -> Object]
  BY <1>1 DEF TypeOK
<1>3. /\ objects' \in [Objects -> Object]
      /\ \A p \in Objects :
            /\ objects'[p].exists = objects[p].exists
            /\ objects'[p].generation = objects[p].generation
            /\ objects'[p].filled = objects[p].filled
            /\ objects'[p].data = IF p = o THEN d ELSE objects[p].data
  BY <1>1, <1>2 DEF Object
<1>4. seen' \subseteq Objects \X Data /\ seen \subseteq seen'
  BY <1>1 DEF TypeOK
<1>5. TypeOK'
  BY <1>1, <1>3, <1>4, CountFacts DEF TypeOK
<1>6. PlaceInv' /\ RenderedInv' /\ AppliedInv'
  <2>1. generation' \in Nat /\ generation <= generation'
    BY <1>1 DEF TypeOK
  <2> QED
    BY <1>1, <1>3, <1>4, <2>1, WalkKept
<1>7. SeenInv'
  BY <1>1, <1>3 DEF SeenInv
<1>8. \A n \in ToSet(app) : n.object \in Objects
  BY <1>1, AppFacts, NodeFacts
<1>9. FilledAsOffered'
  <2> SUFFICES ASSUME NEW n \in ToSet(app), objects[n.object].exists,
                      NEW values, values = objects[n.object].filled
               PROVE  Met(n, values)'
    BY <1>1, <1>3, <1>8 DEF FilledAsOffered, Met, OfferedTo
  <2> QED
    BY <1>1, <1>4, MetLasts DEF FilledAsOffered
<1>10. WaitingReported'
  BY <1>1, <1>3, <1>8 DEF WaitingReported
<1> QED
  BY <1>5, <1>6, <1>7, <1>9, <1>10 DEF DependencyInv

LEMMA BeginStep ==
    ASSUME DependencyInv, Begin
    PROVE  DependencyInv'
<1>1. /\ TypeOK /\ queued' = FALSE
      /\ ctl' = [Idle EXCEPT !.pc = "render", !.generation = generation]
      /\ UNCHANGED <<app, flags, generation, status, objects, stores, seen, changes, edits, faults>>
  BY InvParts DEF Begin
<1>2. generation \in Nat /\ status.generation <= generation
  BY <1>1 DEF TypeOK
<1>3. /\ ctl' \in Reconciliation /\ ctl'.pc = "render" /\ ctl'.generation = generation
      /\ ctl'.node = 0 /\ ctl'.todo = <<>> /\ ctl'.hasDep = {}
      /\ \A o \in Objects : ctl'.filled[o] = <<>>
  <2>1. <<>> \in Seq(NodeCall) /\ <<>> \in Seq(Values)
    BY EmptySeq
  <2> QED
    BY <1>1, <1>2, <2>1 DEF Idle, Reconciliation, Values
<1>4. queued' \in BOOLEAN
  BY <1>1
<1>5. TypeOK'
  BY <1>1, <1>3, <1>4 DEF TypeOK
<1>6. PlaceInv'
  BY <1>1, <1>2, <1>3, AppFacts DEF PlaceInv
<1>7. RenderedInv' /\ AppliedInv'
  <2>1. \A i \in DOMAIN app : i > 0 /\ i # 0 /\ ~(i < 0) /\ app[i].object \in Objects
    BY <1>1, AppFacts, NodeFacts
  <2> QED
    BY <1>1, <1>3, <2>1 DEF RenderedInv, AppliedInv, At
<1> QED
  BY <1>1, <1>5, <1>6, <1>7, ResultsKept DEF DependencyInv

LEMMA UpdateStatusStep ==
    ASSUME DependencyInv, UpdateStatus
    PROVE  DependencyInv'
<1>1. /\ TypeOK /\ SeenInv /\ PlaceInv /\ AppliedInv /\ FilledAsOffered /\ WaitingReported
      /\ ctl' = Idle /\ Ending
      /\ UNCHANGED <<app, flags, generation, objects, stores, seen, changes, edits, faults>>
      /\ queued' = (queued \/ WaitTime(ctl.generation = generation))
  BY InvParts DEF UpdateStatus
<1>2. status' = IF ctl.generation = generation
                THEN [condition |-> ctl.pc, generation |-> ctl.generation,
                      unsatisfied |-> ctl.unsatisfied]
                ELSE status
  BY DEF UpdateStatus, ObservedGeneration
<1>3. /\ status \in Status /\ status.generation <= generation /\ generation \in Nat
  BY <1>1 DEF TypeOK
<1>4. /\ ctl.pc \in {"success", "error"} /\ ctl.generation \in Nat
      /\ ctl.unsatisfied \in SUBSET (Objects \cup Stores)
  BY <1>1, CtlFacts DEF Ending, At
<1>5. status' \in Status /\ status'.generation <= generation
  BY <1>2, <1>3, <1>4 DEF Status
<1>6. queued' \in BOOLEAN
  BY <1>1, Zenon DEF WaitTime
<1>7. /\ ctl' \in Reconciliation /\ PlaceInv' /\ RenderedInv' /\ AppliedInv'
  BY <1>1, IdleStep
<1>8. TypeOK'
  BY <1>1, <1>5, <1>6, <1>7 DEF TypeOK
<1>9. SeenInv' /\ FilledAsOffered'
  BY <1>1, FilledKept DEF SeenInv
<1>10. WaitingReported'
  <2>1. CASE status' = status
    BY <1>1, <2>1 DEF WaitingReported
  <2>2. CASE ctl.generation = generation /\ ctl.pc = "success"
    <3>1. status'.unsatisfied = ctl.unsatisfied
      BY <1>2, <2>2
    <3>2. \A i \in DOMAIN app :
             \/ app[i].object \in ctl.hasDep
             \/ objects[app[i].object].exists /\ objects[app[i].object].generation = generation
      BY <1>1, <2>2 DEF AppliedInv, At
    <3>3. ctl.hasDep \subseteq ctl.unsatisfied
      BY <1>1, <2>2 DEF PlaceInv
    <3> QED
      BY <1>1, <3>1, <3>2, <3>3, AppFacts DEF WaitingReported
  <2>3. CASE ctl.generation = generation /\ ctl.pc = "error"
    <3>1. status'.condition = "error"
      BY <1>2, <2>3
    <3> QED
      BY <3>1 DEF WaitingReported
  <2> QED
    BY <1>2, <1>4, <2>1, <2>2, <2>3
<1> QED
  BY <1>7, <1>8, <1>9, <1>10 DEF DependencyInv

LEMMA StartOverStep ==
    ASSUME DependencyInv, StartOver
    PROVE  DependencyInv'
<1>1. /\ TypeOK /\ ctl' = Idle /\ queued' = TRUE /\ faults < MaxFaults /\ faults' = faults + 1
      /\ UNCHANGED <<app, flags, generation, status, objects, stores, seen, changes, edits>>
  BY InvParts DEF StartOver
<1>2. ctl' \in Reconciliation /\ PlaceInv' /\ RenderedInv' /\ AppliedInv'
  BY <1>1, IdleStep
<1>3. queued' \in BOOLEAN
  BY <1>1
<1>4. TypeOK'
  BY <1>1, <1>2, <1>3, CountFacts DEF TypeOK
<1> QED
  BY <1>1, <1>2, <1>4, ResultsKept DEF DependencyInv

LEMMA CallFaultStep ==
    ASSUME DependencyInv, CallFault
    PROVE  DependencyInv'
<1>1. /\ TypeOK /\ Walking /\ ctl' = Failed /\ faults < MaxFaults /\ faults' = faults + 1
      /\ UNCHANGED <<app, flags, generation, status, objects, seen, queued, changes, edits>>
      /\ stores' \in {stores, StoreCreated}
  BY InvParts DEF CallFault
<1>2. ctl' \in Reconciliation /\ PlaceInv' /\ RenderedInv' /\ AppliedInv'
  BY <1>1, FailedStep
<1>3. stores \in [Stores -> Store] /\ StoreCreated \in [Stores -> Store]
  BY <1>1 DEF TypeOK, Store, StoreCreated
<1>4. TypeOK'
  BY <1>1, <1>2, <1>3, CountFacts DEF TypeOK
<1> QED
  BY <1>1, <1>2, <1>4, ResultsKept DEF DependencyInv

-------------------------------------------------------------------------------
(* The walk through the nodes *)

\* A node without calls left that is not held back has all its inputs met.
LEMMA NothingLeft ==
    ASSUME TypeOK, NEW n \in Node, ctl.todo = <<>>, LeftToRender(n),
           OfferedTo(n, ctl.filled[n.object])
    PROVE  Met(n, ctl.filled[n.object])
<1>1. Len(ctl.todo) = 0
  OBVIOUS
<1>2. PICK q \in 0..Len(ctl.todo) : Len(ctl.filled[n.object]) + Len(ctl.todo) = Len(n.inputs) + q
  BY DEF LeftToRender
<1>3. ctl.filled[n.object] \in Seq(Values) /\ Len(ctl.filled[n.object]) \in Nat
      /\ Len(n.inputs) \in Nat
  BY CtlFacts, NodeFacts, LenProperties
<1>4. Len(ctl.filled[n.object]) = Len(n.inputs)
  BY <1>1, <1>2, <1>3
<1> QED
  BY <1>4 DEF Met

\* Held or met stays so.
LEMMA HeldOrMetLasts ==
    ASSUME UNCHANGED <<app, seen>>, ctl.hasDep \subseteq ctl'.hasDep, NEW n,
           ctl'.filled[n.object] = ctl.filled[n.object], HeldOrMet(n)
    PROVE  HeldOrMet(n)'
<1>1. PICK values : values = ctl.filled[n.object]
  OBVIOUS
<1>2. n.object \in ctl.hasDep \/ Met(n, values)'
  BY <1>1, MetLasts DEF HeldOrMet
<1> QED
  BY <1>1, <1>2 DEF HeldOrMet, Met, OfferedTo

\* The call that is next, and in which phase it is.
LEMMA CallingFacts ==
    ASSUME DependencyInv, NEW do, Calling(do)
    PROVE  /\ ctl.todo \in Seq(NodeCall) /\ ctl.todo # <<>> /\ Walking
           /\ Head(ctl.todo) \in NodeCall /\ Head(ctl.todo) = ctl.todo[1]
           /\ Head(ctl.todo).do = do
           /\ ctl.node \in DOMAIN app /\ Here = app[ctl.node] /\ Here \in Node
           /\ Here \in ToSet(app) /\ Here.object \in Objects
           /\ do \in {"output", "input"} =>
                 /\ At("render") /\ LeftToRender(Here)
                 /\ OfferedTo(Here, ctl.filled[Here.object])
           /\ do \in {"apply", "emit"} => At("apply")
           /\ do = "apply" => Here.object \notin ctl.hasDep
<1>1. TypeOK /\ PlaceInv /\ RenderedInv /\ AppliedInv
  BY InvParts
<1>2. ctl.todo \in Seq(NodeCall) /\ ctl.todo # <<>> /\ Walking /\ Head(ctl.todo).do = do
  BY <1>1, CtlFacts DEF Calling
<1>3. /\ Head(ctl.todo) \in NodeCall /\ Head(ctl.todo) = ctl.todo[1] /\ 1 \in DOMAIN ctl.todo
      /\ 1 \in 1..Len(ctl.todo) /\ Len(ctl.todo) \in Nat
  BY <1>2, TailFacts
<1>4. ctl.node \in DOMAIN app /\ Here = app[ctl.node]
  <2>1. ctl.node \in Nat /\ ctl.node # 0 /\ ctl.node <= Len(app)
    BY <1>1, <1>2, CtlFacts DEF PlaceInv
  <2> QED
    BY <1>1, <2>1, AppFacts DEF Here
<1>5. Here \in Node /\ Here \in ToSet(app) /\ Here.object \in Objects
  BY <1>1, <1>4, AppFacts, NodeFacts
<1>6. CASE At("apply")
  <2>1. do \in {"apply", "emit"} /\ (do = "apply" => Here.object \notin ctl.hasDep)
    BY <1>1, <1>2, <1>3, <1>6 DEF AppliedInv
  <2> QED
    BY <1>2, <1>3, <1>4, <1>5, <1>6, <2>1
<1>7. CASE At("render")
  <2>1. LeftToRender(Here) /\ OfferedTo(Here, ctl.filled[Here.object])
    BY <1>1, <1>2, <1>4, <1>7 DEF RenderedInv
  <2>2. PICK q \in 0..Len(ctl.todo) :
            /\ \A i \in 1..q : ctl.todo[i].do = "output"
            /\ \A i \in (q + 1)..Len(ctl.todo) :
                  ctl.todo[i] = [do |-> "input",
                                 input |-> Here.inputs[Len(ctl.filled[Here.object]) + i - q]]
    BY <2>1 DEF LeftToRender
  <2>3. 1 \in 1..q \/ 1 \in (q + 1)..Len(ctl.todo)
    BY <1>3
  <2>4. do \in {"output", "input"}
    <3>1. CASE 1 \in 1..q
      <4>1. ctl.todo[1].do = "output"
        BY <2>2, <3>1
      <4> QED
        BY <1>2, <1>3, <4>1
    <3>2. CASE 1 \in (q + 1)..Len(ctl.todo)
      <4>1. PICK x : ctl.todo[1] = [do |-> "input", input |-> x]
        BY <2>2, <3>2
      <4> QED
        BY <1>2, <1>3, <4>1
    <3> QED
      BY <2>3, <3>1, <3>2
  <2> QED
    BY <1>2, <1>3, <1>4, <1>5, <1>7, <2>1, <2>4
<1> QED
  BY <1>2, <1>6, <1>7 DEF Walking

\* A step of Render that stays at its node.
LEMMA RenderWalk ==
    ASSUME DependencyInv, At("render"), ctl.node \in DOMAIN app, NEW n, n = app[ctl.node],
           UNCHANGED <<app, seen>>, ctl'.pc = "render", ctl'.node = ctl.node,
           ctl.hasDep \subseteq ctl'.hasDep,
           \A o \in Objects \ {n.object} : ctl'.filled[o] = ctl.filled[o],
           \/ ctl'.todo = <<>> /\ n.object \in ctl'.hasDep
           \/ LeftToRender(n)' /\ OfferedTo(n, ctl.filled[n.object])'
    PROVE  RenderedInv' /\ AppliedInv'
<1>1. TypeOK /\ RenderedInv
  BY InvParts
<1>2. ASSUME NEW i \in DOMAIN app, i # ctl.node
      PROVE  ctl'.filled[app[i].object] = ctl.filled[app[i].object]
  <2>1. app[i].object \in Objects /\ app[i].object # n.object
    BY <1>1, <1>2, AppFacts, NodeFacts
  <2> QED
    BY <2>1
<1>3. ASSUME NEW i \in DOMAIN app, i < ctl.node PROVE HeldOrMet(app[i])'
  <2>1. PICK m : m = app[i]
    OBVIOUS
  <2>2. i # ctl.node
    BY <1>1, <1>3, AppFacts, CtlFacts
  <2>3. HeldOrMet(m) /\ ctl'.filled[m.object] = ctl.filled[m.object]
    BY <1>1, <1>2, <1>3, <2>1, <2>2 DEF RenderedInv
  <2>4. HeldOrMet(m)'
    BY <2>3, HeldOrMetLasts
  <2> QED
    BY <2>1, <2>4 DEF HeldOrMet, Met, OfferedTo
<1>4. ASSUME NEW i \in DOMAIN app, i > ctl.node PROVE ctl'.filled[app[i].object] = <<>>
  <2>1. i # ctl.node
    BY <1>1, <1>4, AppFacts, CtlFacts
  <2> QED
    BY <1>1, <1>2, <1>4, <2>1 DEF RenderedInv
<1>5. \/ ctl'.todo = <<>> /\ app[ctl.node].object \in ctl'.hasDep
      \/ LeftToRender(app[ctl.node])' /\ OfferedTo(app[ctl.node], ctl.filled[app[ctl.node].object])'
  BY ZenonT(40) DEF LeftToRender, OfferedTo
<1>6. RenderedInv'
  BY <1>3, <1>4, <1>5 DEF RenderedInv, At
<1> QED
  BY <1>6 DEF AppliedInv, At

\* A call of Apply that has been done.
LEMMA ApplyWalk ==
    ASSUME DependencyInv, NEW do, Calling(do), do \in {"apply", "emit"},
           UNCHANGED <<app, seen>>, ctl' = [ctl EXCEPT !.todo = Tail(@)],
           \A o \in Objects : objects[o].exists /\ objects[o].generation = ctl.generation =>
               objects'[o].exists /\ objects'[o].generation = ctl.generation,
           do = "apply" => /\ objects'[Here.object].exists
                           /\ objects'[Here.object].generation = ctl.generation
    PROVE  ctl' \in Reconciliation /\ RenderedInv' /\ AppliedInv'
<1>1. TypeOK /\ RenderedInv /\ AppliedInv
  BY InvParts
<1>2. ctl \in Reconciliation /\ ctl.todo \in Seq(NodeCall) /\ ctl.todo # <<>>
      /\ At("apply") /\ Head(ctl.todo).do = do
  BY <1>1, CtlFacts, CallingFacts
<1>3. /\ Tail(ctl.todo) \in Seq(NodeCall) /\ DOMAIN Tail(ctl.todo) = 1..(Len(ctl.todo) - 1)
      /\ Len(ctl.todo) \in Nat /\ DOMAIN ctl.todo = 1..Len(ctl.todo)
      /\ \A i \in 1..(Len(ctl.todo) - 1) : Tail(ctl.todo)[i] = ctl.todo[i + 1]
  BY <1>2, TailFacts
<1>4. /\ ctl' \in Reconciliation /\ ctl'.todo = Tail(ctl.todo) /\ ctl'.pc = "apply"
      /\ ctl'.node = ctl.node /\ ctl'.hasDep = ctl.hasDep /\ ctl'.filled = ctl.filled
      /\ ctl'.generation = ctl.generation
  BY <1>2, <1>3 DEF Reconciliation, At
<1>5. RenderedInv'
  <2>1. ASSUME NEW n \in ToSet(app) PROVE HeldOrMet(n)'
    BY <1>1, <1>2, <1>4, HeldOrMetLasts DEF RenderedInv
  <2> QED
    BY <1>4, <2>1 DEF RenderedInv, At
<1>6. ASSUME NEW k \in DOMAIN ctl'.todo
      PROVE  /\ ctl'.todo[k].do \in {"apply", "emit"}
             /\ ctl'.todo[k].do = "apply" => Here.object \notin ctl.hasDep
  <2>1. k + 1 \in DOMAIN ctl.todo /\ ctl'.todo[k] = ctl.todo[k + 1]
    BY <1>3, <1>4
  <2> QED
    BY <1>1, <1>2, <2>1 DEF AppliedInv
<1>7. ASSUME NEW i \in DOMAIN app
      PROVE  \/ i > ctl.node
             \/ app[i].object \in ctl.hasDep
             \/ /\ objects'[app[i].object].exists
                /\ objects'[app[i].object].generation = ctl.generation
  <2>1. app[i].object \in Objects
    BY <1>1, AppFacts, NodeFacts
  <2>2. CASE i = ctl.node /\ Calling("apply")
    <3>1. do = "apply" /\ Here = app[i]
      BY <1>2, <2>2 DEF Calling, Here
    <3> QED
      BY <3>1
  <2>3. CASE i > ctl.node \/ app[i].object \in ctl.hasDep
    BY <2>3
  <2>4. CASE objects[app[i].object].exists /\ objects[app[i].object].generation = ctl.generation
    BY <2>1, <2>4
  <2> QED
    BY <1>1, <1>2, <2>2, <2>3, <2>4 DEF AppliedInv
<1>8. AppliedInv'
  <2>1. Here' = Here
    BY <1>4 DEF Here
  <2> QED
    BY <1>4, <1>6, <1>7, <2>1 DEF AppliedInv, At
<1> QED
  BY <1>4, <1>5, <1>8

LEMMA NextNodeStep ==
    ASSUME DependencyInv, NextNode
    PROVE  DependencyInv'
<1>1. /\ TypeOK /\ PlaceInv /\ RenderedInv /\ AppliedInv
      /\ Walking /\ ctl.todo = <<>> /\ ctl.node < Len(app)
      /\ UNCHANGED <<app, flags, generation, status, objects, stores, seen, queued,
                     changes, edits, faults>>
  BY InvParts DEF NextNode
<1>2. PICK calls \in IF At("render") THEN {RenderCalls(app[ctl.node + 1])}
                     ELSE ApplyCalls(app[ctl.node + 1]) :
          ctl' = [ctl EXCEPT !.node = @ + 1, !.todo = calls]
  BY DEF NextNode
<1>3. PICK n : n = app[ctl.node + 1]
  OBVIOUS
<1>4. /\ ctl \in Reconciliation /\ ctl.node \in Nat /\ ctl.node + 1 \in DOMAIN app
      /\ n \in Node /\ n.object \in Objects
  BY <1>1, <1>3, CtlFacts, AppFacts, NodeFacts
<1>5. /\ At("render") => calls = RenderCalls(n)
      /\ At("apply") => calls \in ApplyCalls(n)
  BY <1>2, <1>3 DEF At
<1>6. calls \in Seq(NodeCall)
  <2>1. CASE At("render")
    <3>1. RenderCalls(n) \in Seq(NodeCall)
      BY <1>4, RenderCallsFacts
    <3> QED
      BY <1>5, <2>1, <3>1
  <2>2. CASE At("apply")
    BY <1>4, <1>5, <2>2, ApplyCallsFacts
  <2> QED
    BY <1>1, <2>1, <2>2 DEF Walking
<1>7. /\ ctl' \in Reconciliation /\ ctl'.node = ctl.node + 1 /\ ctl'.todo = calls
      /\ ctl'.pc = ctl.pc /\ ctl'.generation = ctl.generation /\ ctl'.hasDep = ctl.hasDep
      /\ ctl'.filled = ctl.filled /\ ctl'.unsatisfied = ctl.unsatisfied
  <2>1. PICK k \in Nat : k = ctl.node + 1
    BY <1>4
  <2>2. ctl' = [ctl EXCEPT !.node = k, !.todo = calls]
    BY <1>2, <2>1
  <2> QED
    BY <1>4, <1>6, <2>1, <2>2 DEF Reconciliation
<1>8. TypeOK'
  BY <1>1, <1>7 DEF TypeOK
<1>9. PlaceInv'
  <2>1. ctl.node + 1 <= Len(app) /\ ctl.node + 1 # 0
    BY <1>1, <1>4, AppFacts
  <2> QED
    BY <1>1, <1>7, <2>1 DEF PlaceInv, Walking, At
<1>10. CASE At("render")
  <2>1. \A i \in DOMAIN app : i \in Nat /\ (i < ctl.node + 1 => i < ctl.node \/ i = ctl.node)
                              /\ (i > ctl.node + 1 => i > ctl.node)
    BY <1>1, <1>4, AppFacts
  <2>2. ASSUME NEW i \in DOMAIN app, i < ctl.node + 1 PROVE HeldOrMet(app[i])'
    <3>1. PICK m : m = app[i]
      OBVIOUS
    <3>2. m \in Node
      BY <1>1, <3>1, AppFacts
    <3>3. HeldOrMet(m)
      <4>1. CASE i < ctl.node
        BY <1>1, <1>10, <3>1, <4>1 DEF RenderedInv
      <4>2. CASE i = ctl.node
        <5>1. \/ m.object \in ctl.hasDep
              \/ LeftToRender(m) /\ OfferedTo(m, ctl.filled[m.object])
          BY <1>1, <1>10, <3>1, <4>2 DEF RenderedInv
        <5> QED
          BY <1>1, <3>2, <5>1, NothingLeft DEF HeldOrMet
      <4> QED
        BY <2>1, <2>2, <4>1, <4>2
    <3>4. HeldOrMet(m)'
      BY <1>1, <1>7, <3>3, HeldOrMetLasts
    <3> QED
      BY <1>1, <3>1, <3>4 DEF HeldOrMet, Met, OfferedTo
  <2>3. ctl.filled[n.object] = <<>>
    BY <1>1, <1>3, <1>4, <1>10 DEF RenderedInv
  <2>4. LeftToRender(n)'
    <3>1. PICK q : q = Len(n.outputs)
      OBVIOUS
    <3>2. /\ q \in Nat /\ Len(calls) = q + Len(n.inputs) /\ Len(n.inputs) \in Nat
          /\ \A i \in 1..q : calls[i].do = "output"
          /\ \A i \in (q + 1)..Len(calls) : calls[i] = [do |-> "input", input |-> n.inputs[i - q]]
      BY <1>4, <1>5, <1>10, <3>1, RenderCallsFacts, NodeFacts
    <3>3. Len(ctl'.filled[n.object]) = 0 /\ ctl'.filled[n.object] = <<>>
      BY <1>7, <2>3
    <3>4. q \in 0..Len(calls) /\ 0 + Len(calls) = Len(n.inputs) + q
      BY <3>2
    <3>5. \A i \in (q + 1)..Len(calls) :
             calls[i] = [do |-> "input", input |-> n.inputs[0 + i - q]]
      <4>1. \A i \in (q + 1)..Len(calls) : 0 + i - q = i - q
        BY <3>2
      <4> QED
        BY <3>2, <4>1
    <3>6. /\ q # 0 => ctl'.filled[n.object] = <<>>
          /\ Len(ctl'.filled[n.object]) + Len(ctl'.todo) = Len(n.inputs) + q
          /\ \A i \in 1..q : ctl'.todo[i].do = "output"
          /\ \A i \in (q + 1)..Len(ctl'.todo) :
                ctl'.todo[i] = [do |-> "input",
                                input |-> n.inputs[Len(ctl'.filled[n.object]) + i - q]]
      BY <1>7, <3>2, <3>3, <3>4, <3>5
    <3> QED
      BY <1>7, <3>4, <3>6 DEF LeftToRender
  <2>5. OfferedTo(n, ctl.filled[n.object])'
    BY <1>7, <2>3 DEF OfferedTo
  <2>6. ASSUME NEW i \in DOMAIN app, i > ctl.node + 1 PROVE ctl'.filled[app[i].object] = <<>>
    BY <1>1, <1>7, <1>10, <2>1, <2>6 DEF RenderedInv
  <2>7. /\ LeftToRender(app[ctl.node])'
        /\ OfferedTo(app[ctl.node], ctl.filled[app[ctl.node].object])'
    <3>1. app'[ctl'.node] = n
      BY <1>1, <1>3, <1>7
    <3> QED
      BY <2>4, <2>5, <3>1 DEF LeftToRender, OfferedTo
  <2>8. RenderedInv'
    BY <1>1, <1>7, <1>10, <2>2, <2>6, <2>7 DEF RenderedInv, At
  <2>9. AppliedInv'
    BY <1>7, <1>10 DEF AppliedInv, At
  <2> QED
    BY <1>1, <1>8, <1>9, <2>8, <2>9, ResultsKept DEF DependencyInv
<1>11. CASE At("apply")
  <2>1. RenderedInv'
    <3>1. ASSUME NEW m \in ToSet(app) PROVE HeldOrMet(m)'
      BY <1>1, <1>7, <1>11, HeldOrMetLasts DEF RenderedInv
    <3> QED
      BY <1>1, <1>7, <1>11, <3>1 DEF RenderedInv, At
  <2>2. /\ \A k \in DOMAIN calls : /\ calls[k].do \in {"apply", "emit"}
                                   /\ calls[k].do = "apply" => n.object \notin ctl.hasDep
        /\ n.object \notin ctl.hasDep => calls # <<>> /\ Head(calls).do = "apply"
    BY <1>4, <1>5, <1>11, ApplyCallsFacts
  <2>3. Here' = n
    BY <1>1, <1>3, <1>7 DEF Here
  <2>4. ASSUME NEW i \in DOMAIN app
        PROVE  \/ i > ctl.node + 1
               \/ i = ctl.node + 1 /\ calls # <<>> /\ Head(calls).do = "apply"
               \/ app[i].object \in ctl.hasDep
               \/ /\ objects[app[i].object].exists
                  /\ objects[app[i].object].generation = ctl.generation
    <3>1. i \in Nat /\ (i > ctl.node + 1 \/ i = ctl.node + 1 \/ ~(i > ctl.node))
      BY <1>1, <1>4, AppFacts
    <3>2. CASE i = ctl.node + 1
      BY <1>3, <2>2, <3>2
    <3>3. CASE ~(i > ctl.node)
      <4>1. ~Calling("apply")
        BY <1>1 DEF Calling
      <4> QED
        BY <1>1, <1>11, <3>3, <4>1 DEF AppliedInv
    <3> QED
      BY <3>1, <3>2, <3>3
  <2>5. AppliedInv'
    BY <1>1, <1>7, <1>11, <2>2, <2>3, <2>4 DEF AppliedInv, At, Calling, Walking
  <2> QED
    BY <1>1, <1>8, <1>9, <2>1, <2>5, ResultsKept DEF DependencyInv
<1> QED
  BY <1>1, <1>10, <1>11 DEF Walking

LEMMA NextPhaseStep ==
    ASSUME DependencyInv, NextPhase
    PROVE  DependencyInv'
<1>1. /\ TypeOK /\ PlaceInv /\ RenderedInv /\ AppliedInv
      /\ ctl.todo = <<>> /\ ctl.node = Len(app)
      /\ UNCHANGED <<app, flags, generation, status, objects, stores, seen, queued,
                     changes, edits, faults>>
  BY InvParts DEF NextPhase, AllNodesDone
<1>2. /\ ctl \in Reconciliation /\ ctl.node \in Nat
      /\ \A i \in DOMAIN app : i \in Nat /\ i > 0 /\ (i < ctl.node \/ i = ctl.node) /\ ~(i > ctl.node)
  BY <1>1, CtlFacts, AppFacts
<1>3. /\ ctl' \in Reconciliation /\ ctl'.todo = <<>> /\ ctl'.generation = ctl.generation
      /\ ctl'.hasDep = ctl.hasDep /\ ctl'.filled = ctl.filled
      /\ ctl'.unsatisfied = ctl.unsatisfied
      /\ \/ At("render") /\ ctl'.pc = "apply" /\ ctl'.node = 0
         \/ At("apply") /\ ctl'.pc = "success" /\ ctl'.node = ctl.node
  <2>1. CASE At("render") /\ ctl' = [ctl EXCEPT !.pc = "apply", !.node = 0]
    BY <1>1, <1>2, <2>1 DEF Reconciliation
  <2>2. CASE At("apply") /\ ctl' = [ctl EXCEPT !.pc = "success"]
    BY <1>1, <1>2, <2>2 DEF Reconciliation
  <2> QED
    BY <2>1, <2>2 DEF NextPhase
<1>4. TypeOK'
  BY <1>1, <1>3 DEF TypeOK
<1>5. PlaceInv'
  BY <1>1, <1>2, <1>3, AppFacts DEF PlaceInv, At
<1>6. ASSUME NEW n \in ToSet(app) PROVE HeldOrMet(n)
  <2>1. PICK i \in DOMAIN app : n = app[i]
    BY <1>1, AppFacts
  <2>2. CASE At("render") /\ i = ctl.node
    <3>1. \/ n.object \in ctl.hasDep
          \/ LeftToRender(n) /\ OfferedTo(n, ctl.filled[n.object])
      BY <1>1, <2>1, <2>2 DEF RenderedInv
    <3> QED
      BY <1>1, <3>1, NothingLeft, AppFacts DEF HeldOrMet
  <2>3. CASE At("render") /\ i < ctl.node
    BY <1>1, <2>1, <2>3 DEF RenderedInv
  <2>4. CASE At("apply")
    BY <1>1, <2>4 DEF RenderedInv
  <2> QED
    BY <1>2, <1>3, <2>2, <2>3, <2>4
<1>7. RenderedInv'
  <2>1. ASSUME NEW n \in ToSet(app) PROVE HeldOrMet(n)'
    BY <1>1, <1>3, <1>6, HeldOrMetLasts
  <2> QED
    BY <1>1, <1>3, <2>1 DEF RenderedInv, At
<1>8. AppliedInv'
  <2>1. CASE At("render")
    BY <1>1, <1>2, <1>3, <2>1 DEF AppliedInv, At
  <2>2. CASE At("apply")
    <3>1. ~Calling("apply")
      BY <1>1 DEF Calling
    <3>2. \A i \in DOMAIN app :
             \/ app[i].object \in ctl.hasDep
             \/ /\ objects[app[i].object].exists
                /\ objects[app[i].object].generation = ctl.generation
      BY <1>1, <1>2, <2>2, <3>1 DEF AppliedInv
    <3> QED
      BY <1>1, <1>3, <2>2, <3>2 DEF AppliedInv, At
  <2> QED
    BY <1>3, <2>1, <2>2
<1> QED
  BY <1>1, <1>4, <1>5, <1>7, <1>8, ResultsKept DEF DependencyInv

\* An output has been looked at, whether it is ready, reported or could not be read.
LEMMA OutputDone ==
    ASSUME DependencyInv, Calling("output"),
           UNCHANGED <<app, flags, generation, status, objects, stores, seen, queued, changes, edits>>,
           faults' \in 0..MaxFaults,
           NEW ready \in SUBSET Outputs, NEW unsatisfied \in SUBSET (Objects \cup Stores),
           ctl.unsatisfied \subseteq unsatisfied,
           ctl' = [ctl EXCEPT !.todo = Tail(ctl.todo), !.ready = ready, !.unsatisfied = unsatisfied]
    PROVE  DependencyInv'
<1>1. TypeOK /\ PlaceInv
  BY InvParts
<1>2. PICK n : n = Here
  OBVIOUS
<1>3. /\ ctl.todo \in Seq(NodeCall) /\ ctl.todo # <<>> /\ At("render")
      /\ Head(ctl.todo) = ctl.todo[1] /\ Head(ctl.todo).do = "output"
      /\ ctl.node \in DOMAIN app /\ n = app[ctl.node] /\ n \in Node /\ n.object \in Objects
      /\ LeftToRender(n) /\ OfferedTo(n, ctl.filled[n.object])
  BY <1>2, CallingFacts
<1>4. PICK t : t = Tail(ctl.todo)
  OBVIOUS
<1>5. /\ t \in Seq(NodeCall) /\ Len(t) = Len(ctl.todo) - 1 /\ Len(ctl.todo) \in Nat
      /\ Len(ctl.todo) > 0 /\ \A i \in 1..(Len(ctl.todo) - 1) : t[i] = ctl.todo[i + 1]
  BY <1>3, <1>4, TailFacts
<1>6. ctl \in Reconciliation
  BY <1>1, CtlFacts
<1>7. /\ ctl' \in Reconciliation /\ ctl'.todo = t /\ ctl'.pc = "render" /\ ctl'.node = ctl.node
      /\ ctl'.hasDep = ctl.hasDep /\ ctl'.filled = ctl.filled
      /\ ctl'.unsatisfied = unsatisfied /\ ctl'.generation = ctl.generation
  BY <1>3, <1>4, <1>5, <1>6 DEF Reconciliation, At
<1>8. TypeOK'
  BY <1>1, <1>7 DEF TypeOK
<1>9. PlaceInv'
  BY <1>1, <1>3, <1>7 DEF PlaceInv, Walking, At
<1>10. LeftToRender(n)'
  <2>1. PICK f : f = ctl.filled[n.object]
    OBVIOUS
  <2>2. PICK q \in 0..Len(ctl.todo) :
            /\ q # 0 => f = <<>>
            /\ Len(f) + Len(ctl.todo) = Len(n.inputs) + q
            /\ \A i \in 1..q : ctl.todo[i].do = "output"
            /\ \A i \in (q + 1)..Len(ctl.todo) :
                  ctl.todo[i] = [do |-> "input", input |-> n.inputs[Len(f) + i - q]]
    BY <1>3, <2>1 DEF LeftToRender
  <2>3. Len(f) \in Nat /\ Len(n.inputs) \in Nat
    BY <1>1, <1>3, <2>1, CtlFacts, NodeFacts, LenProperties
  <2>4. q # 0
    <3> SUFFICES ASSUME q = 0 PROVE FALSE
      OBVIOUS
    <3>1. 1 \in (q + 1)..Len(ctl.todo)
      BY <1>5
    <3>2. PICK x : ctl.todo[1] = [do |-> "input", input |-> x]
      BY <2>2, <3>1
    <3> QED
      BY <1>3, <3>2
  <2>5. PICK r \in 0..Len(t) : q = r + 1
    <3>1. q - 1 \in 0..Len(t) /\ q = (q - 1) + 1
      BY <1>5, <2>4
    <3> QED
      BY <3>1
  <2>6. /\ f = <<>> /\ Len(f) + Len(t) = Len(n.inputs) + r
    <3>1. f = <<>>
      BY <2>2, <2>4
    <3>2. Len(f) + Len(ctl.todo) = Len(n.inputs) + q
      BY <2>2
    <3>3. PICK a \in Nat, b \in Nat, c \in Nat : a = Len(f) /\ b = Len(ctl.todo) /\ c = Len(n.inputs)
      BY <1>5, <2>3
    <3>4. Len(t) = b - 1 /\ a + b = c + q /\ r \in Nat /\ q = r + 1
      BY <1>5, <2>5, <3>2, <3>3
    <3>5. a + (b - 1) = c + r
      <4>1. a \in Nat /\ b \in Nat /\ c \in Nat
        OBVIOUS
      <4>2. a + b = c + (r + 1)
        BY <3>4
      <4>3. r \in Nat
        BY <3>4
      <4> QED
        BY <4>1, <4>2, <4>3
    <3>6. Len(f) + Len(t) = Len(n.inputs) + r
      BY <3>3, <3>4, <3>5
    <3> QED
      BY <3>1, <3>6
  <2>7. \A i \in 1..r : t[i].do = "output"
    <3> SUFFICES ASSUME NEW i \in 1..r PROVE t[i].do = "output"
      OBVIOUS
    <3>1. i \in 1..(Len(ctl.todo) - 1) /\ i + 1 \in 1..q
      BY <1>5, <2>5
    <3> QED
      BY <1>5, <2>2, <3>1
  <2>8. \A i \in (r + 1)..Len(t) : t[i] = [do |-> "input", input |-> n.inputs[Len(f) + i - r]]
    <3> SUFFICES ASSUME NEW i \in (r + 1)..Len(t)
                 PROVE  t[i] = [do |-> "input", input |-> n.inputs[Len(f) + i - r]]
      OBVIOUS
    <3>1. /\ i \in 1..(Len(ctl.todo) - 1) /\ i + 1 \in (q + 1)..Len(ctl.todo)
          /\ Len(f) + (i + 1) - q = Len(f) + i - r
      BY <1>5, <2>3, <2>5
    <3>2. t[i] = ctl.todo[i + 1]
      BY <1>5, <3>1
    <3>3. ctl.todo[i + 1] = [do |-> "input", input |-> n.inputs[Len(f) + (i + 1) - q]]
      BY <2>2, <3>1
    <3> QED
      BY <3>1, <3>2, <3>3
  <2>9. ctl'.filled[n.object] = f /\ ctl'.todo = t
    BY <1>7, <2>1
  <2> QED
    BY ZenonT(40), <2>5, <2>6, <2>7, <2>8, <2>9 DEF LeftToRender
<1>11. OfferedTo(n, ctl.filled[n.object])'
  <2>1. PICK f : f = ctl.filled[n.object]
    OBVIOUS
  <2>2. OfferedTo(n, f)'
    BY <1>3, <2>1, MetLasts
  <2> QED
    BY <1>7, <2>1, <2>2 DEF OfferedTo
<1>12. RenderedInv' /\ AppliedInv'
  BY <1>3, <1>7, <1>10, <1>11, RenderWalk
<1> QED
  BY <1>8, <1>9, <1>12, ResultsKept DEF DependencyInv

LEMMA CheckOutputStep ==
    ASSUME DependencyInv, CheckOutput
    PROVE  DependencyInv'
<1>1. /\ TypeOK /\ Calling("output")
      /\ UNCHANGED <<app, flags, generation, status, objects, stores, seen, queued,
                     changes, edits, faults>>
  BY InvParts DEF CheckOutput
<1>2. PICK out : out = Call.output
  OBVIOUS
<1>3. out \in DataOutput /\ out.name \in Outputs /\ out.store \in Stores \cup {NoStore}
  BY <1>1, <1>2, CallingFacts, CallFacts, DataOutputFacts DEF Call
<1>4. /\ ctl \in Reconciliation /\ ctl.ready \in SUBSET Outputs
      /\ ctl.unsatisfied \in SUBSET (Objects \cup Stores) /\ faults' \in 0..MaxFaults
  BY <1>1, CtlFacts DEF TypeOK
<1>5. \/ ctl' = [ctl EXCEPT !.todo = Tail(ctl.todo), !.ready = ctl.ready,
                            !.unsatisfied = ctl.unsatisfied]
      \/ ctl' = [ctl EXCEPT !.todo = Tail(ctl.todo), !.ready = ctl.ready \cup {out.name},
                            !.unsatisfied = ctl.unsatisfied]
      \/ /\ out.store # NoStore
         /\ ctl' = [ctl EXCEPT !.todo = Tail(ctl.todo), !.ready = ctl.ready,
                               !.unsatisfied = ctl.unsatisfied \cup {out.store}]
  <2>1. \/ ctl' = [ctl EXCEPT !.todo = Tail(@)]
        \/ ctl' = [ctl EXCEPT !.todo = Tail(@), !.ready = @ \cup {out.name}]
        \/ /\ out.store # NoStore
           /\ ctl' = [ctl EXCEPT !.todo = Tail(@), !.unsatisfied = Unsatisfied(out.store)]
    BY <1>2 DEF CheckOutput
  <2> QED
    BY <1>4, <2>1 DEF Reconciliation, Unsatisfied
<1>6. CASE out.store # NoStore /\
           ctl' = [ctl EXCEPT !.todo = Tail(ctl.todo), !.ready = ctl.ready,
                              !.unsatisfied = ctl.unsatisfied \cup {out.store}]
  <2>1. ctl.unsatisfied \cup {out.store} \in SUBSET (Objects \cup Stores)
    BY <1>3, <1>4, <1>6
  <2> QED
    BY <1>1, <1>4, <1>6, <2>1, OutputDone
<1>7. CASE ctl' = [ctl EXCEPT !.todo = Tail(ctl.todo), !.ready = ctl.ready \cup {out.name},
                              !.unsatisfied = ctl.unsatisfied]
  <2>1. ctl.ready \cup {out.name} \in SUBSET Outputs
    BY <1>3, <1>4
  <2> QED
    BY <1>1, <1>4, <1>7, <2>1, OutputDone
<1>8. CASE ctl' = [ctl EXCEPT !.todo = Tail(ctl.todo), !.ready = ctl.ready,
                              !.unsatisfied = ctl.unsatisfied]
  BY <1>1, <1>4, <1>8, OutputDone
<1> QED
  BY <1>5, <1>6, <1>7, <1>8

LEMMA CheckOutputFaultStep ==
    ASSUME DependencyInv, CheckOutputFault
    PROVE  DependencyInv'
<1>1. /\ TypeOK /\ Calling("output") /\ faults < MaxFaults /\ faults' = faults + 1
      /\ UNCHANGED <<app, flags, generation, status, objects, stores, seen, queued, changes, edits>>
      /\ ctl' = [ctl EXCEPT !.todo = Tail(@)]
  BY InvParts DEF CheckOutputFault
<1>2. /\ ctl \in Reconciliation /\ ctl.ready \in SUBSET Outputs
      /\ ctl.unsatisfied \in SUBSET (Objects \cup Stores) /\ faults' \in 0..MaxFaults
  BY <1>1, CtlFacts, CountFacts
<1>3. ctl' = [ctl EXCEPT !.todo = Tail(ctl.todo), !.ready = ctl.ready,
                         !.unsatisfied = ctl.unsatisfied]
  BY <1>1, <1>2 DEF Reconciliation
<1> QED
  BY <1>1, <1>2, <1>3, OutputDone

\* An input is ready: its value is the next one.
LEMMA InputMet ==
    ASSUME DependencyInv, Calling("input"), ~Undeclared(Call.input), InputReady(Call.input),
           UNCHANGED <<app, seen>>, NEW o, o = Here.object,
           ctl' = [ctl EXCEPT !.todo = Tail(@), !.filled[o] = Append(@, ValueFrom(Call.input))]
    PROVE  ctl' \in Reconciliation /\ RenderedInv' /\ AppliedInv' /\
           ctl'.pc = ctl.pc /\ ctl'.node = ctl.node /\ ctl'.hasDep = ctl.hasDep /\
           ctl'.unsatisfied = ctl.unsatisfied /\ ctl'.generation = ctl.generation
<1>1. TypeOK /\ SeenInv
  BY InvParts
<1>2. PICK n : n = Here
  OBVIOUS
<1>3. /\ ctl.todo \in Seq(NodeCall) /\ ctl.todo # <<>> /\ At("render")
      /\ Head(ctl.todo) \in NodeCall
      /\ Head(ctl.todo) = ctl.todo[1] /\ Head(ctl.todo).do = "input"
      /\ ctl.node \in DOMAIN app /\ n = app[ctl.node] /\ n \in Node /\ o \in Objects
      /\ o = n.object /\ LeftToRender(n) /\ OfferedTo(n, ctl.filled[n.object])
  BY <1>2, CallingFacts
<1>4. PICK t, f, in, v : /\ t = Tail(ctl.todo) /\ f = ctl.filled[o]
                         /\ in = Call.input /\ v = ValueFrom(in)
  OBVIOUS
<1>5. /\ t \in Seq(NodeCall) /\ Len(t) = Len(ctl.todo) - 1 /\ Len(ctl.todo) \in Nat
      /\ Len(ctl.todo) > 0 /\ \A i \in 1..(Len(ctl.todo) - 1) : t[i] = ctl.todo[i + 1]
  BY <1>3, <1>4, TailFacts
<1>6. in \in DataInput /\ in = ctl.todo[1].input
  BY <1>3, <1>4, CallFacts DEF Call
<1>7. /\ v \in Values
      /\ in.from # NoOutput => Offered(in.from, v)
  BY <1>1, <1>4, <1>6, ValueFromType, ReadIsOffered
<1>8. /\ ctl \in Reconciliation /\ ctl.filled \in [Objects -> Seq(Values)]
      /\ f \in Seq(Values) /\ Len(f) \in Nat /\ DOMAIN f = 1..Len(f)
  BY <1>1, <1>3, <1>4, CtlFacts, LenProperties
<1>9. PICK g : g = Append(f, v)
  OBVIOUS
<1>10. /\ g \in Seq(Values) /\ Len(g) = Len(f) + 1 /\ DOMAIN g = 1..(Len(f) + 1)
       /\ \A i \in 1..Len(f) : g[i] = f[i]
       /\ g[Len(f) + 1] = v
  <2>1. /\ g \in Seq(Values) /\ Len(g) = Len(f) + 1
        /\ \A i \in 1..Len(f) : g[i] = f[i] /\ g[Len(f) + 1] = v
    BY <1>7, <1>8, <1>9, AppendProperties
  <2>2. g[Len(f) + 1] = v
    BY <1>7, <1>8, <1>9, AppendProperties
  <2>3. DOMAIN g = 1..Len(g)
    BY <2>1, LenProperties
  <2> QED
    BY <2>1, <2>2, <2>3
<1>11. PICK F : F = [ctl.filled EXCEPT ![o] = g]
  OBVIOUS
<1>12. /\ F \in [Objects -> Seq(Values)] /\ F[o] = g
       /\ \A p \in Objects \ {o} : F[p] = ctl.filled[p]
  BY <1>3, <1>8, <1>10, <1>11
<1>13. ctl' = [ctl EXCEPT !.todo = t, !.filled = F]
  BY <1>3, <1>4, <1>8, <1>9, <1>11 DEF Reconciliation
<1>14. /\ ctl' \in Reconciliation /\ ctl'.todo = t /\ ctl'.filled = F /\ ctl'.pc = ctl.pc
       /\ ctl'.node = ctl.node /\ ctl'.hasDep = ctl.hasDep
       /\ ctl'.unsatisfied = ctl.unsatisfied /\ ctl'.generation = ctl.generation
  BY <1>5, <1>8, <1>12, <1>13 DEF Reconciliation, Values
<1>15. PICK q \in 0..Len(ctl.todo) :
           /\ Len(f) + Len(ctl.todo) = Len(n.inputs) + q
           /\ \A i \in 1..q : ctl.todo[i].do = "output"
           /\ \A i \in (q + 1)..Len(ctl.todo) :
                 ctl.todo[i] = [do |-> "input", input |-> n.inputs[Len(f) + i - q]]
  BY <1>3, <1>4 DEF LeftToRender
<1>16. q = 0
  <2> SUFFICES ASSUME q # 0 PROVE FALSE
    OBVIOUS
  <2>1. 1 \in 1..q
    BY <1>5
  <2>2. ctl.todo[1].do = "output"
    BY <1>15, <2>1
  <2> QED
    BY <1>3, <2>2
<1>17. \A i \in 1..Len(ctl.todo) :
          ctl.todo[i] = [do |-> "input", input |-> n.inputs[Len(f) + i]]
  <2> SUFFICES ASSUME NEW i \in 1..Len(ctl.todo)
               PROVE  ctl.todo[i] = [do |-> "input", input |-> n.inputs[Len(f) + i]]
    OBVIOUS
  <2>1. i \in (q + 1)..Len(ctl.todo) /\ Len(f) + i - q = Len(f) + i
    BY <1>5, <1>8, <1>16
  <2> QED
    BY <1>15, <2>1
<1>18. in = n.inputs[Len(f) + 1]
  <2>1. 1 \in 1..Len(ctl.todo)
    BY <1>5
  <2>2. ctl.todo[1] = [do |-> "input", input |-> n.inputs[Len(f) + 1]]
    BY <1>17, <2>1
  <2> QED
    BY <1>6, <2>2
<1>19. LeftToRender(n)'
  <2>1. Len(g) + Len(t) = Len(n.inputs) + 0
    <3>1. Len(n.inputs) \in Nat
      BY <1>3, NodeFacts
    <3>2. Len(f) + Len(ctl.todo) = Len(n.inputs) + 0
      BY <1>15, <1>16
    <3> QED
      <4>1. PICK a \in Nat, b \in Nat, c \in Nat :
                a = Len(f) /\ b = Len(ctl.todo) /\ c = Len(n.inputs)
        BY <1>5, <1>8, <3>1
      <4>2. a + b = c + 0 /\ Len(g) = a + 1 /\ Len(t) = b - 1
        BY <1>5, <1>10, <3>2, <4>1
      <4>3. (a + 1) + (b - 1) = c + 0
        BY <4>2
      <4> QED
        BY <4>1, <4>2, <4>3
  <2>2. \A i \in (0 + 1)..Len(t) :
           t[i] = [do |-> "input", input |-> n.inputs[Len(g) + i - 0]]
    <3> SUFFICES ASSUME NEW i \in (0 + 1)..Len(t)
                 PROVE  t[i] = [do |-> "input", input |-> n.inputs[Len(g) + i - 0]]
      OBVIOUS
    <3>1. /\ i \in 1..(Len(ctl.todo) - 1) /\ i + 1 \in 1..Len(ctl.todo)
          /\ Len(g) + i - 0 = Len(f) + (i + 1)
      <4>1. PICK a \in Nat, b \in Nat : a = Len(f) /\ b = Len(ctl.todo)
        BY <1>5, <1>8
      <4>2. Len(g) = a + 1 /\ Len(t) = b - 1 /\ b > 0
        BY <1>5, <1>10, <4>1
      <4>3. i \in 1..(b - 1)
        BY <4>2
      <4>4. i \in 1..(b - 1) /\ i + 1 \in 1..b /\ (a + 1) + i - 0 = a + (i + 1)
        BY <4>3
      <4> QED
        BY <4>1, <4>2, <4>4
    <3> QED
      BY <1>5, <1>17, <3>1
  <2>3. 0 \in 0..Len(t) /\ \A i \in 1..0 : t[i].do = "output"
    BY <1>5
  <2>4. ctl'.filled[n.object] = g /\ ctl'.todo = t
    BY <1>3, <1>12, <1>14
  <2> QED
    BY <2>1, <2>2, <2>3, <2>4 DEF LeftToRender
<1>20. OfferedTo(n, ctl.filled[n.object])'
  <2>1. OfferedTo(n, g)
    <3> SUFFICES ASSUME NEW i \in 1..(Len(f) + 1), n.inputs[i].from # NoOutput
                 PROVE  Offered(n.inputs[i].from, g[i])
      BY <1>10 DEF OfferedTo
    <3>1. CASE i \in 1..Len(f)
      BY <1>3, <1>4, <1>8, <1>10, <3>1 DEF OfferedTo
    <3>2. CASE i = Len(f) + 1
      BY <1>7, <1>10, <1>18, <3>2
    <3> QED
      BY <1>8, <3>1, <3>2
  <2>2. OfferedTo(n, g)'
    BY <2>1, MetLasts
  <2>3. ctl'.filled[n.object] = g
    BY <1>3, <1>12, <1>14
  <2> QED
    BY <2>2, <2>3 DEF OfferedTo
<1>21. RenderedInv' /\ AppliedInv'
  BY <1>3, <1>12, <1>14, <1>19, <1>20, RenderWalk DEF At
<1> QED
  BY <1>14, <1>21

LEMMA CheckInputStep ==
    ASSUME DependencyInv, CheckInput
    PROVE  DependencyInv'
<1>1. /\ TypeOK /\ PlaceInv /\ Calling("input")
      /\ UNCHANGED <<app, flags, generation, status, objects, stores, seen, queued,
                     changes, edits, faults>>
  BY InvParts DEF CheckInput
<1>2. PICK o : o = Here.object
  OBVIOUS
<1>3. /\ ctl.todo \in Seq(NodeCall) /\ ctl.todo # <<>> /\ At("render") /\ Walking
      /\ ctl.node \in DOMAIN app /\ o = app[ctl.node].object /\ o \in Objects
  BY <1>1, <1>2, CallingFacts
<1>4. /\ ctl \in Reconciliation /\ ctl.hasDep \in SUBSET Objects
      /\ ctl.unsatisfied \in SUBSET (Objects \cup Stores)
  BY <1>1, CtlFacts
<1>5. \/ ctl' = Failed
      \/ /\ ~Undeclared(Call.input) /\ InputReady(Call.input)
         /\ ctl' = [ctl EXCEPT !.todo = Tail(@), !.filled[o] = Append(@, ValueFrom(Call.input))]
      \/ ctl' = [ctl EXCEPT !.todo = <<>>, !.hasDep = Held(o), !.unsatisfied = Unsatisfied(o)]
  BY <1>2 DEF CheckInput, Rejected, InputReady
<1>6. /\ ctl' \in Reconciliation /\ PlaceInv' /\ RenderedInv' /\ AppliedInv'
  <2>1. CASE ctl' = Failed
    BY <1>1, <1>3, <2>1, FailedStep
  <2>2. CASE /\ ~Undeclared(Call.input) /\ InputReady(Call.input)
             /\ ctl' = [ctl EXCEPT !.todo = Tail(@),
                                   !.filled[o] = Append(@, ValueFrom(Call.input))]
    <3>1. /\ ctl' \in Reconciliation /\ RenderedInv' /\ AppliedInv'
          /\ ctl'.pc = ctl.pc /\ ctl'.node = ctl.node /\ ctl'.hasDep = ctl.hasDep
          /\ ctl'.unsatisfied = ctl.unsatisfied /\ ctl'.generation = ctl.generation
      BY <1>1, <1>2, <2>2, InputMet
    <3>2. PlaceInv'
      BY <1>1, <1>3, <3>1 DEF PlaceInv, Walking, At
    <3> QED
      BY <3>1, <3>2
  <2>3. CASE ctl' = [ctl EXCEPT !.todo = <<>>, !.hasDep = Held(o), !.unsatisfied = Unsatisfied(o)]
    <3>1. PICK h, u : h = ctl.hasDep \cup {o} /\ u = ctl.unsatisfied \cup {o}
      OBVIOUS
    <3>2. /\ h \in SUBSET Objects /\ u \in SUBSET (Objects \cup Stores)
          /\ ctl' = [ctl EXCEPT !.todo = <<>>, !.hasDep = h, !.unsatisfied = u]
      BY <1>3, <1>4, <2>3, <3>1 DEF Held, Unsatisfied
    <3>3. <<>> \in Seq(NodeCall)
      BY EmptySeq
    <3>4. /\ ctl' \in Reconciliation /\ ctl'.todo = <<>> /\ ctl'.hasDep = h
          /\ ctl'.unsatisfied = u /\ ctl'.filled = ctl.filled /\ ctl'.pc = ctl.pc
          /\ ctl'.node = ctl.node /\ ctl'.generation = ctl.generation
      BY <1>4, <3>2, <3>3 DEF Reconciliation
    <3>5. PlaceInv'
      BY <1>1, <1>3, <3>1, <3>4 DEF PlaceInv, Walking, At
    <3>6. PICK n : n = app[ctl.node]
      OBVIOUS
    <3>7. RenderedInv' /\ AppliedInv'
      BY <1>1, <1>3, <3>1, <3>4, <3>6, RenderWalk DEF At
    <3> QED
      BY <3>4, <3>5, <3>7
  <2> QED
    BY <1>5, <2>1, <2>2, <2>3
<1>7. TypeOK'
  BY <1>1, <1>6 DEF TypeOK
<1> QED
  BY <1>1, <1>6, <1>7, ResultsKept DEF DependencyInv

LEMMA ApplyObjectStep ==
    ASSUME DependencyInv, ApplyObject
    PROVE  DependencyInv'
<1>1. /\ TypeOK /\ SeenInv /\ PlaceInv /\ RenderedInv /\ FilledAsOffered /\ WaitingReported
      /\ Calling("apply")
      /\ UNCHANGED <<app, flags, generation, status, stores, seen, queued, changes, edits, faults>>
  BY InvParts DEF ApplyObject
<1>2. PICK n : n = Here
  OBVIOUS
<1>3. PICK o : o = n.object
  OBVIOUS
<1>4. /\ At("apply") /\ Walking /\ n \in Node /\ n \in ToSet(app) /\ o \in Objects
      /\ o \notin ctl.hasDep
  BY <1>1, <1>2, <1>3, CallingFacts
<1>5. CASE ctl' = Failed /\ UNCHANGED objects
  <2>1. ctl' \in Reconciliation /\ PlaceInv' /\ RenderedInv' /\ AppliedInv'
    BY <1>1, <1>4, <1>5, FailedStep
  <2>2. TypeOK'
    BY <1>1, <1>5, <2>1 DEF TypeOK
  <2> QED
    BY <1>1, <1>5, <2>1, <2>2, ResultsKept DEF DependencyInv
<1> DEFINE new == [exists |-> TRUE, data |-> objects[o].data, generation |-> ctl.generation,
                   filled |-> ctl.filled[o], stored |-> StoredValues(n)]
<1>6. CASE /\ ctl' = [ctl EXCEPT !.todo = Tail(@)]
           /\ objects' = IF GenerationUnchanged(o) THEN objects ELSE [objects EXCEPT ![o] = new]
  <2>1. /\ ctl.generation \in Nat /\ ctl.filled[o] \in Seq(Values)
        /\ StoredValues(n) \in Seq(Seq(Values)) /\ objects[o].data \in Data
    BY <1>1, <1>4, CtlFacts, ObjectFacts, StoredValuesType
  <2>2. new \in Object
    BY <2>1 DEF Object, Values
  <2>3. /\ new.exists /\ new.generation = ctl.generation /\ new.filled = ctl.filled[o]
        /\ new.data = objects[o].data
    OBVIOUS
  <2> HIDE DEF new
  <2>4. objects \in [Objects -> Object]
    BY <1>1 DEF TypeOK
  <2>5. /\ objects' \in [Objects -> Object]
        /\ \A p \in Objects \ {o} : objects'[p] = objects[p]
        /\ objects'[o] = new \/ (objects'[o] = objects[o] /\ GenerationUnchanged(o))
    <3>1. CASE GenerationUnchanged(o)
      BY <1>6, <2>4, <3>1
    <3>2. CASE ~GenerationUnchanged(o)
      BY <1>4, <1>6, <2>2, <2>4, <3>2
    <3> QED
      BY <3>1, <3>2
  <2>6. /\ objects'[o].exists /\ objects'[o].generation = ctl.generation
        /\ objects'[o].data = objects[o].data
    BY <2>3, <2>5 DEF GenerationUnchanged
  <2>7. /\ ctl' \in Reconciliation /\ RenderedInv' /\ AppliedInv'
    <3>1. \A p \in Objects : objects[p].exists /\ objects[p].generation = ctl.generation =>
              objects'[p].exists /\ objects'[p].generation = ctl.generation
      BY <2>5, <2>6
    <3>2. objects'[Here.object].exists /\ objects'[Here.object].generation = ctl.generation
      BY <1>2, <1>3, <2>6
    <3> QED
      BY <1>1, <1>6, <3>1, <3>2, ApplyWalk
  <2>8. TypeOK'
    BY <1>1, <2>5, <2>7 DEF TypeOK
  <2>9. PlaceInv'
    <3>1. ctl \in Reconciliation
      BY <1>1, CtlFacts
    <3>2. /\ ctl'.pc = ctl.pc /\ ctl'.node = ctl.node /\ ctl'.hasDep = ctl.hasDep
          /\ ctl'.unsatisfied = ctl.unsatisfied /\ ctl'.generation = ctl.generation
      BY <1>6, <3>1 DEF Reconciliation
    <3>3. ctl.todo # <<>>
      BY <1>1 DEF Calling
    <3> QED
      BY <1>1, <1>4, <3>2, <3>3 DEF PlaceInv, Walking, At
  <2>10. SeenInv'
    <3>1. \A p \in Objects : objects'[p].data = objects[p].data
      BY <2>5, <2>6
    <3> QED
      BY <1>1, <3>1 DEF SeenInv
  <2>11. \A m \in ToSet(app) : m.object \in Objects /\ (m.object = o => m = n)
    BY <1>1, <1>3, <1>4, AppFacts, NodeFacts
  <2>12. FilledAsOffered'
    <3> SUFFICES ASSUME NEW m \in ToSet(app), objects'[m.object].exists,
                        NEW values, values = objects'[m.object].filled
                 PROVE  Met(m, values)'
      BY <1>1 DEF FilledAsOffered, Met, OfferedTo
    <3>1. CASE objects'[m.object] = objects[m.object]
      BY <1>1, <3>1, MetLasts DEF FilledAsOffered
    <3>2. CASE m = n /\ objects'[o] = new
      <4>1. values = ctl.filled[n.object]
        BY <1>3, <2>3, <3>2
      <4>2. Met(n, values)
        BY <1>1, <1>3, <1>4, <4>1 DEF RenderedInv, HeldOrMet
      <4> QED
        BY <1>1, <3>2, <4>2, MetLasts
    <3> QED
      BY <2>5, <2>11, <3>1, <3>2
  <2>13. WaitingReported'
    <3> SUFFICES ASSUME status.condition = "success", status.generation = generation,
                        NEW m \in ToSet(app), m.object \notin status.unsatisfied
                 PROVE  objects'[m.object].exists /\ objects'[m.object].generation = generation
      BY <1>1 DEF WaitingReported
    <3>1. CASE m.object = o
      <4>1. status.generation <= ctl.generation /\ ctl.generation <= generation
        BY <1>1, <1>4 DEF PlaceInv, At
      <4>2. ctl.generation = generation
        BY <1>1, <2>1, <4>1 DEF TypeOK
      <4> QED
        BY <2>6, <3>1, <4>2
    <3>2. CASE m.object # o
      BY <1>1, <2>5, <2>11, <3>2 DEF WaitingReported
    <3> QED
      BY <3>1, <3>2
  <2> QED
    BY <2>7, <2>8, <2>9, <2>10, <2>12, <2>13 DEF DependencyInv
<1>7. \/ ctl' = Failed /\ UNCHANGED objects
      \/ /\ ctl' = [ctl EXCEPT !.todo = Tail(@)]
         /\ objects' = IF GenerationUnchanged(o) THEN objects ELSE [objects EXCEPT ![o] = new]
  <2>1. objects \in [Objects -> Object]
    BY <1>1 DEF TypeOK
  <2>2. [objects EXCEPT ![o] = [exists |-> TRUE, data |-> @.data, generation |-> ctl.generation,
                                filled |-> ctl.filled[o], stored |-> StoredValues(n)]]
        = [objects EXCEPT ![o] = new]
    BY <1>4, <2>1
  <2> QED
    BY <1>2, <1>3, <2>2 DEF ApplyObject
<1> QED
  BY <1>5, <1>6, <1>7

LEMMA ApplyOutputRefStep ==
    ASSUME DependencyInv, ApplyOutputRef
    PROVE  DependencyInv'
<1>1. /\ TypeOK /\ PlaceInv /\ Calling("emit")
      /\ UNCHANGED <<app, flags, generation, status, objects, seen, queued, changes, edits, faults>>
  BY InvParts DEF ApplyOutputRef
<1>2. PICK out, o : out = Call.output /\ o = Here.object
  OBVIOUS
<1>3. /\ At("apply") /\ Walking /\ o \in Objects /\ out \in DataOutput /\ ctl.todo # <<>>
  BY <1>1, <1>2, CallingFacts, CallFacts DEF Call
<1>4. out.ops \in Seq(DataOperation) /\ objects[o].data \in Data
  BY <1>1, <1>3, DataOutputFacts, ObjectFacts
<1>5. stores \in [Stores -> Store]
  BY <1>1 DEF TypeOK
<1> DEFINE created == [stores EXCEPT ![out.store].exists = TRUE]
<1>6. created \in [Stores -> Store]
  BY <1>5 DEF Store
<1>7. PICK made : made = created
  OBVIOUS
<1>8. [made EXCEPT ![out.store].data = Operated(out.ops, @, objects[o].data)] \in [Stores -> Store]
  <2>1. \A d \in Data : Operated(out.ops, d, objects[o].data) \in Data
    BY <1>4, OperatedType
  <2>2. made \in [Stores -> Store]
    BY <1>6, <1>7
  <2>3. CASE out.store \in Stores
    <3>1. made[out.store] \in Store /\ made[out.store].data \in Data
      BY <2>2, <2>3 DEF Store
    <3>2. PICK d : d = Operated(out.ops, made[out.store].data, objects[o].data)
      OBVIOUS
    <3>3. d \in Data
      BY <2>1, <3>1, <3>2
    <3>4. [made[out.store] EXCEPT !.data = d] \in Store
      BY <3>1, <3>3 DEF Store
    <3>5. [made EXCEPT ![out.store].data = Operated(out.ops, @, objects[o].data)]
          = [made EXCEPT ![out.store] = [made[out.store] EXCEPT !.data = d]]
      BY <2>2, <2>3, <3>1, <3>2 DEF Store
    <3> QED
      BY <2>2, <3>4, <3>5
  <2>4. CASE out.store \notin Stores
    BY <2>2, <2>4
  <2> QED
    BY <2>3, <2>4
<1>9. \/ ctl' = Failed /\ stores' \in {stores, created}
      \/ /\ ctl' = [ctl EXCEPT !.todo = Tail(@)]
         /\ stores' = [made EXCEPT ![out.store].data = Operated(out.ops, @, objects[o].data)]
  <2>1. \/ ctl' = Failed /\ UNCHANGED stores
        \/ ctl' = Failed /\ stores' = created
        \/ /\ ctl' = [ctl EXCEPT !.todo = Tail(@)]
           /\ stores' = [created EXCEPT ![out.store].data = Operated(out.ops, @, objects[o].data)]
    BY <1>2 DEF ApplyOutputRef, StoreCreated
  <2> QED
    BY <1>7, <2>1
<1>10. stores' \in [Stores -> Store]
  <2> HIDE DEF created
  <2> QED
    BY <1>5, <1>6, <1>8, <1>9
<1>11. ctl' \in Reconciliation /\ PlaceInv' /\ RenderedInv' /\ AppliedInv'
  <2>1. CASE ctl' = Failed
    BY <1>1, <1>3, <2>1, FailedStep
  <2>2. CASE ctl' = [ctl EXCEPT !.todo = Tail(@)]
    <3>1. ctl' \in Reconciliation /\ RenderedInv' /\ AppliedInv'
      BY <1>1, <2>2, ApplyWalk
    <3>2. ctl \in Reconciliation
      BY <1>1, CtlFacts
    <3>3. /\ ctl'.pc = ctl.pc /\ ctl'.node = ctl.node /\ ctl'.hasDep = ctl.hasDep
          /\ ctl'.unsatisfied = ctl.unsatisfied /\ ctl'.generation = ctl.generation
      BY <2>2, <3>2 DEF Reconciliation
    <3>4. PlaceInv'
      BY <1>1, <1>3, <3>3 DEF PlaceInv, Walking, At
    <3> QED
      BY <3>1, <3>4
  <2> QED
    BY <1>9, <2>1, <2>2
<1>12. TypeOK'
  BY <1>1, <1>10, <1>11 DEF TypeOK
<1> QED
  BY <1>1, <1>11, <1>12, ResultsKept DEF DependencyInv

-------------------------------------------------------------------------------
(* The invariant *)

LEMMA InitInv ==
    ASSUME Init
    PROVE  DependencyInv
<1>1. /\ app \in Apps /\ flags \in FlagSets /\ generation = 1 /\ seen = {} /\ queued = TRUE
      /\ ctl = Idle /\ changes = 0 /\ edits = 0 /\ faults = 0
      /\ status = [condition |-> "none", generation |-> 0, unsatisfied |-> {}]
      /\ objects = [o \in Objects |-> [exists |-> FALSE, data |-> NoData, generation |-> 0,
                                       filled |-> <<>>, stored |-> <<>>]]
      /\ stores = [s \in Stores |-> [exists |-> FALSE, data |-> NoData]]
  BY DEF Init
<1>2. NoData \in Data
  BY DEF NoData, Data
<1>3. <<>> \in Seq(Values) /\ <<>> \in Seq(Seq(Values)) /\ <<>> \in Seq(NodeCall)
  BY EmptySeq
<1>4. /\ objects \in [Objects -> Object]
      /\ \A o \in Objects : ~objects[o].exists /\ objects[o].data = NoData
  BY <1>1, <1>2, <1>3 DEF Object, Values
<1>5. stores \in [Stores -> Store]
  BY <1>1, <1>2 DEF Store
<1>6. /\ ctl \in Reconciliation /\ ctl.pc = "idle" /\ ctl.node = 0 /\ ctl.todo = <<>>
      /\ ctl.hasDep = {}
  BY <1>1, <1>3 DEF Idle, Reconciliation, Values
<1>7. status \in Status /\ status.generation <= generation /\ status.condition = "none"
  BY <1>1 DEF Status
<1>8. changes \in 0..MaxChanges /\ edits \in 0..MaxEdits /\ faults \in 0..MaxFaults
  BY <1>1, BoundsAssumption
<1>9. queued \in BOOLEAN /\ seen \subseteq Objects \X Data /\ generation \in Nat
  BY <1>1
<1>10. TypeOK
  BY <1>1, <1>4, <1>5, <1>6, <1>7, <1>8, <1>9 DEF TypeOK
<1>11. SeenInv /\ WaitingReported
  BY <1>4, <1>7 DEF SeenInv, WaitingReported
<1>12. PlaceInv
  BY <1>6, <1>10, AppFacts DEF PlaceInv
<1>13. RenderedInv /\ AppliedInv
  BY <1>6 DEF RenderedInv, AppliedInv, At
<1>14. FilledAsOffered
  BY <1>4, <1>10, AppFacts, NodeFacts DEF FilledAsOffered
<1> QED
  BY <1>10, <1>11, <1>12, <1>13, <1>14 DEF DependencyInv

\* One case for each disjunct of Next.
LEMMA NextKeepsInv ==
    ASSUME DependencyInv, [Next]_vars
    PROVE  DependencyInv'
<1>1. CASE EditAppConfig
  BY <1>1, EditAppConfigStep
<1>2. ASSUME NEW o \in Objects, NEW d \in Data, ObjectChanges(o, d) PROVE DependencyInv'
  BY <1>2, ObjectChangesStep
<1>3. CASE Begin
  BY <1>3, BeginStep
<1>4. CASE NextNode
  BY <1>4, NextNodeStep
<1>5. CASE NextPhase
  BY <1>5, NextPhaseStep
<1>6. CASE CheckOutput
  BY <1>6, CheckOutputStep
<1>7. CASE CheckInput
  BY <1>7, CheckInputStep
<1>8. CASE ApplyObject
  BY <1>8, ApplyObjectStep
<1>9. CASE ApplyOutputRef
  BY <1>9, ApplyOutputRefStep
<1>10. CASE UpdateStatus
  BY <1>10, UpdateStatusStep
<1>11. CASE CheckOutputFault
  BY <1>11, CheckOutputFaultStep
<1>12. CASE CallFault
  BY <1>12, CallFaultStep
<1>13. CASE StartOver
  BY <1>13, StartOverStep
<1>14. CASE UNCHANGED vars
  <2>1. /\ TypeOK
        /\ UNCHANGED <<app, flags, generation, status, objects, stores>>
        /\ UNCHANGED <<seen, queued, ctl, changes, edits, faults>>
    BY <1>14, InvParts DEF vars
  <2>2. TypeOK'
    BY <2>1 DEF TypeOK
  <2>3. PlaceInv' /\ RenderedInv' /\ AppliedInv'
    <3>1. generation' \in Nat /\ generation <= generation'
      BY <2>1 DEF TypeOK
    <3> QED
      BY <2>1, <3>1, WalkKept
  <2> QED
    BY <2>1, <2>2, <2>3, ResultsKept DEF DependencyInv
<1> QED
  BY <1>1, <1>2, <1>3, <1>4, <1>5, <1>6, <1>7, <1>8, <1>9, <1>10, <1>11, <1>12, <1>13, <1>14
  DEF Next, ReconcileStep

\* The inductive invariant holds in every reachable state: the walk of Render and Apply through
\* the nodes (render.go, apply.go) holds an object back or has a value for each of its inputs.
THEOREM DependencyInvariant == Spec => []DependencyInv
<1>1. Init => DependencyInv
  BY InitInv
<1>2. DependencyInv /\ [Next]_vars => DependencyInv'
  BY NextKeepsInv
<1> QED
  BY <1>1, <1>2, PTL DEF Spec

\* An object exists only if each of its inputs was met, and is filled with values its sources
\* offered with their conditions met (handleDataInput, getDataInput, fillValue).
THEOREM OnlyOfferedValues == Spec => []FilledAsOffered
<1>1. DependencyInv => FilledAsOffered
  BY DEF DependencyInv
<1> QED
  BY <1>1, DependencyInvariant, PTL

\* A status that reports success names each object that was not applied for the current
\* generation as waiting (handleDependency, updateStatus).
THEOREM NothingHeldSilently == Spec => []WaitingReported
<1>1. DependencyInv => WaitingReported
  BY DEF DependencyInv
<1> QED
  BY <1>1, DependencyInvariant, PTL
=================================================================================
