----------------------------- MODULE RenderingProofs -----------------------------
(***************************************************************************)
(* For any contents, entries, definitions and numbers of revisions,        *)
(* changes and faults: a workload with the name of a revision keeps the    *)
(* contents of that revision, the reconciler never deletes it, and under   *)
(* admitted specs no workload is turned into one of another revision.  At  *)
(* rest all is as the spec wants it: the names kept in the status are      *)
(* enough to find every object again, whatever failed.                     *)
(***************************************************************************)
EXTENDS Rendering, TLAPS, FiniteSetTheorems, SequenceTheorems, WellFoundedInduction

-------------------------------------------------------------------------------
(* Positions in a sequence *)

LEMMA LeastNumber ==
    ASSUME NEW T \in SUBSET Nat, T # {}
    PROVE  \E x \in T : \A y \in T : x <= y
<1> DEFINE R == OpToRel(<, Nat)
<1>1. IsWellFoundedOn(R, Nat)
  BY NatLessThanWellFounded
<1>2. \A x, y \in Nat : x < y => <<x, y>> \in R
  BY DEF OpToRel
<1> HIDE DEF R
<1>3. PICK x \in T : \A y \in T : ~(<<y, x>> \in R)
  BY <1>1, WFMin
<1>4. \A y \in T : ~(y < x)
  BY <1>2, <1>3
<1> QED
  BY <1>3, <1>4

LEMMA GreatestPosition ==
    ASSUME NEW n \in Nat, NEW T \in SUBSET (1..n), T # {}
    PROVE  Max(T) \in T /\ \A y \in T : y <= Max(T)
<1> DEFINE D == {n - i : i \in T}
<1>1. D \in SUBSET Nat /\ D # {}
  <2>1. PICK t \in T : TRUE
    OBVIOUS
  <2>2. n - t \in D
    BY <2>1
  <2>3. \A d \in D : d \in Nat
    OBVIOUS
  <2> QED
    BY <2>2, <2>3
<1> HIDE DEF D
<1>2. PICK x \in D : \A y \in D : x <= y
  BY <1>1, LeastNumber
<1>3. PICK m \in T : x = n - m
  BY DEF D
<1>4. \A y \in T : m >= y
  <2> SUFFICES ASSUME NEW y \in T PROVE m >= y
    OBVIOUS
  <2>1. n - y \in D
    BY DEF D
  <2>2. n - m <= n - y
    BY <1>2, <1>3, <2>1
  <2> QED
    BY <2>2
<1>5. \E z \in T : \A y \in T : z >= y
  BY <1>4
<1> QED
  BY <1>5 DEF Max

\* Picked picks: each of its elements is one at a position in I.
LEMMA PickedFacts ==
    ASSUME NEW S, NEW s \in Seq(S), NEW I \in SUBSET DOMAIN s
    PROVE  /\ Picked(s, I) \in Seq(S)
           /\ \A k \in DOMAIN Picked(s, I) : \E i \in I : Picked(s, I)[k] = s[i]
<1> DEFINE upTo(i) == {j \in I : j <= i}
           rank(i) == Cardinality(upTo(i))
<1>1. Len(s) \in Nat /\ DOMAIN s = 1..Len(s) /\ s \in [1..Len(s) -> S]
  BY LenProperties
<1>2. I \subseteq 1..Len(s) /\ I \subseteq Nat
  BY <1>1
<1>3. IsFiniteSet(I) /\ Cardinality(I) \in Nat
  <2>1. IsFiniteSet(1..Len(s))
    BY <1>1, FS_Interval
  <2> QED
    BY <1>2, <2>1, FS_Subset, FS_CardinalityType
<1>4. \A J \in SUBSET I : IsFiniteSet(J) /\ Cardinality(J) \in Nat
  BY <1>3, FS_Subset, FS_CardinalityType
<1>5. ASSUME NEW k \in 1..Cardinality(I)
      PROVE  \E i \in I : rank(i) = k
  <2> DEFINE T == {i \in I : rank(i) >= k}
  <2>1. I # {}
    <3>1. Cardinality(I) # 0
      BY <1>3
    <3> QED
      BY <3>1, FS_EmptySet
  <2>2. Max(I) \in I /\ \A j \in I : j <= Max(I)
    BY <1>1, <1>2, <2>1, GreatestPosition
  <2>3. Max(I) \in T
    <3>1. upTo(Max(I)) = I
      <4>1. \A j : j \in upTo(Max(I)) <=> j \in I
        BY <2>2
      <4> HIDE DEF upTo
      <4> QED
        BY <4>1
    <3>2. rank(Max(I)) >= k
      <4> HIDE DEF upTo
      <4>1. rank(Max(I)) = Cardinality(I)
        BY <3>1
      <4> HIDE DEF rank
      <4> QED
        BY <1>3, <1>5, <4>1
    <3> QED
      BY <2>2, <3>2
  <2>4. PICK i \in T : \A y \in T : i <= y
    <3>1. T \in SUBSET Nat /\ T # {}
      BY <1>2, <2>3
    <3> HIDE DEF T
    <3> QED
      BY <3>1, LeastNumber
  <2> DEFINE L == {j \in I : j < i}
  <2>5. i \in I /\ rank(i) >= k /\ i \in Nat
    BY <1>2, <2>4
  <2>6. upTo(i) = L \cup {i} /\ i \notin L /\ L \in SUBSET I
    BY <1>2, <2>5
  <2>7. rank(i) = Cardinality(L) + 1 /\ Cardinality(L) \in Nat
    <3>1. IsFiniteSet(L) /\ Cardinality(L) \in Nat
      BY <1>4, <2>6
    <3> HIDE DEF L
    <3>2. Cardinality(L \cup {i}) = Cardinality(L) + 1
      BY <2>6, <3>1, FS_AddElement
    <3> QED
      BY <2>6, <3>1, <3>2
  <2>8. CASE L = {}
    <3>1. Cardinality(L) = 0
      BY <2>8, FS_EmptySet
    <3>2. rank(i) = k
      BY <1>3, <2>5, <2>7, <3>1
    <3> QED
      BY <2>5, <3>2
  <2>9. CASE L # {}
    <3>1. L \in SUBSET (1..Len(s))
      BY <1>2
    <3>2. Max(L) \in L /\ \A j \in L : j <= Max(L)
      <4> HIDE DEF L
      <4> QED
        BY <1>1, <2>9, <3>1, GreatestPosition
    <3> DEFINE p == Max(L)
    <3>3. p \in I /\ p < i /\ p \in Nat
      BY <1>2, <3>2
    <3>4. upTo(p) = L
      <4> HIDE DEF p
      <4>1. \A j \in I : j <= p => j < i
        BY <1>2, <2>5, <3>3
      <4>2. \A j \in L : j <= p
        BY <3>2 DEF p
      <4> QED
        BY <4>1, <4>2
    <3>5. p \notin T
      <4> HIDE DEF p, T
      <4> QED
        BY <1>2, <2>4, <2>5, <3>3
    <3>6. ~(Cardinality(L) >= k)
      BY <3>3, <3>4, <3>5
    <3>7. rank(i) = k
      <4> HIDE DEF rank, L
      <4> QED
        BY <1>3, <2>5, <2>7, <3>6
    <3> QED
      BY <2>5, <3>7
  <2> QED
    BY <2>8, <2>9
<1>6. ASSUME NEW k \in 1..Cardinality(I)
      PROVE  \E i \in I : Picked(s, I)[k] = s[i]
  <2>1. Picked(s, I)[k] = s[CHOOSE i \in I : rank(i) = k]
    BY DEF Picked
  <2>2. (CHOOSE i \in I : rank(i) = k) \in I
    <3> HIDE DEF rank
    <3> QED
      BY <1>5
  <2> QED
    BY <2>1, <2>2
<1>7. DOMAIN Picked(s, I) = 1..Cardinality(I)
  BY DEF Picked
<1>8. Picked(s, I) \in [1..Cardinality(I) -> S]
  <2>1. \A k \in 1..Cardinality(I) : Picked(s, I)[k] \in S
    BY <1>1, <1>2, <1>6
  <2>2. Picked(s, I) = [k \in 1..Cardinality(I) |-> Picked(s, I)[k]]
    BY DEF Picked
  <2> QED
    BY <2>1, <2>2
<1>9. Picked(s, I) \in Seq(S)
  BY <1>3, <1>8
<1> QED
  BY <1>6, <1>7, <1>9

\* A sequence made position by position from another.
LEMMA MappedSeq ==
    ASSUME NEW S, NEW T, NEW s \in Seq(S), NEW g, g \in [DOMAIN s -> T]
    PROVE  g \in Seq(T) /\ Len(g) = Len(s) /\ DOMAIN g = DOMAIN s
<1>1. Len(s) \in Nat /\ DOMAIN s = 1..Len(s)
  BY LenProperties
<1>2. g \in Seq(T)
  BY <1>1
<1> QED
  BY <1>1, <1>2, LenProperties

-------------------------------------------------------------------------------
(* Contents, entries and the webhooks *)

LEMMA ContentFacts ==
    ASSUME NEW c \in Content
    PROVE  /\ c.form \in {"gvk", "type"} /\ c.data \in Data /\ c.named \in BOOLEAN
           /\ c.nameParam \in {"no", "optional", "required"}
           /\ MutateComponent(c) \in Content
  BY DEF Content, MutateComponent

LEMMA EntryFacts ==
    ASSUME NEW e \in Entry
    PROVE  /\ e.pin \in Nat /\ e.value \in BOOLEAN /\ e.traits \in Seq(Trait)
           /\ \A i \in DOMAIN e.traits : e.traits[i] \in Trait /\ e.traits[i] \in Traits(e)
<1>1. e.pin \in Nat /\ e.value \in BOOLEAN /\ e.traits \in Seq(Trait)
  BY DEF Entry
<1> QED
  BY <1>1, ElementOfSeq, LenProperties DEF Traits, ToSet

LEMMA MutateType ==
    ASSUME NEW e \in Entry
    PROVE  Mutate(e) \in Entry
<1> DEFINE g == [i \in DOMAIN e.traits |-> mutateTrait(e.traits[i])]
<1>1. \A t \in Trait : mutateTrait(t) \in Trait
  BY DEF Trait, mutateTrait
<1>2. g \in [DOMAIN e.traits -> Trait]
  BY <1>1, EntryFacts
<1>3. g \in Seq(Trait)
  BY <1>2, EntryFacts, MappedSeq
<1>4. Mutate(e) = [e EXCEPT !.traits = g]
  BY DEF Mutate
<1> HIDE DEF g
<1> QED
  BY <1>3, <1>4 DEF Entry

-------------------------------------------------------------------------------
(* Rendering *)

LEMMA NamesFacts ==
    /\ RevisionNames \subseteq WorkloadNames
    /\ PlainName \in WorkloadNames \ RevisionNames /\ ContentName \in WorkloadNames \ RevisionNames
    /\ ValueName \in WorkloadNames \ RevisionNames
    /\ NoWorkload \notin WorkloadNames /\ NoWorkload \notin {PlainName, ContentName, ValueName}
  BY RenderingAssumption DEF RevisionNames, WorkloadNames, PlainName, ContentName, ValueName, NoWorkload

\* The revision and the contents an entry stands for.
LEMMA RevisionFacts ==
    ASSUME TypeOK, NEW e \in Entry, Found(e)
    PROVE  /\ RevisionOf(e) \in 0..MaxRevisions /\ RevisionOf(e) <= Len(revisions)
           /\ RevisionOf(e) # 0 => RevisionOf(e) \in RevisionNames
           /\ ContentOf(e) \in Content
<1>1. /\ component.rev \in 0..MaxRevisions /\ component.rev = Len(revisions)
      /\ component.content \in Content /\ revisions \in Seq(Content)
  BY DEF TypeOK
<1>2. Len(revisions) \in Nat /\ DOMAIN revisions = 1..Len(revisions)
  BY <1>1, LenProperties
<1>3. e.pin \in Nat /\ e.pin <= Len(revisions)
  BY EntryFacts DEF Found
<1>4. e.pin # 0 => revisions[e.pin] \in Content
  BY <1>1, <1>2, <1>3, ElementOfSeq
<1> QED
  BY <1>1, <1>2, <1>3, <1>4, RenderingAssumption DEF RevisionOf, ContentOf, RevisionNames

\* The name the workload gets.
LEMMA NameFacts ==
    ASSUME TypeOK, VersionInv, NEW e \in Entry, Renders(e), NEW status \in Status
    PROVE  LET name == SetWorkloadInstanceName(e, status)
               rev == RevisionOf(e) IN
           /\ name \in WorkloadNames
           /\ name \in RevisionNames => name = rev
           /\ /\ RevisionEnabled(e, defined) /\ GivenName(ContentOf(e), e) = NoWorkload
              /\ name \in Running
              => workloads[name].label = rev
<1> DEFINE name == SetWorkloadInstanceName(e, status)
           rev == RevisionOf(e)
           given == GivenName(ContentOf(e), e)
<1>1. given \in {NoWorkload, ContentName, ValueName}
  BY DEF GivenName
<1>2. CASE given # NoWorkload
  <2>1. name = given
    BY <1>2 DEF SetWorkloadInstanceName
  <2>2. given \in WorkloadNames \ RevisionNames
    BY <1>1, <1>2, NamesFacts
  <2> QED
    BY <1>2, <2>1, <2>2
<1>3. CASE given = NoWorkload /\ ~RevisionEnabled(e, defined)
  <2>1. name = PlainName
    BY <1>3 DEF SetWorkloadInstanceName
  <2> QED
    BY <1>3, <2>1, NamesFacts
<1>4. CASE given = NoWorkload /\ RevisionEnabled(e, defined)
  <2>1. name = IF ExistingHas(status, rev) THEN status.workload ELSE rev
    BY <1>4 DEF SetWorkloadInstanceName
  <2>2. rev \in RevisionNames
    BY <1>4, RevisionFacts DEF Renders
  <2>3. CASE ExistingHas(status, rev)
    <3>1. name \in Running /\ name \in WorkloadNames /\ workloads[name].label = rev
      BY <2>1, <2>3 DEF ExistingHas, Running
    <3>2. name \in RevisionNames => workloads[name].label = name
      BY <3>1 DEF VersionInv, OfRevision
    <3> QED
      BY <3>1, <3>2
  <2>4. CASE ~ExistingHas(status, rev)
    <3>1. name = rev
      BY <2>1, <2>4
    <3>2. rev \in Running => workloads[rev].label = rev
      BY <2>2 DEF VersionInv, OfRevision
    <3> QED
      BY <2>2, <3>1, <3>2, NamesFacts
  <2> QED
    BY <2>3, <2>4
<1> QED
  BY <1>2, <1>3, <1>4

LEMMA StatusFacts ==
    ASSUME NEW status \in Status
    PROVE  /\ status.rev \in 0..MaxRevisions /\ status.workload \in WorkloadNames \cup {NoWorkload}
           /\ status.traits \in Seq(TraitRef)
           /\ \A i \in DOMAIN status.traits : status.traits[i] \in TraitRef
<1>1. /\ status.rev \in 0..MaxRevisions /\ status.workload \in WorkloadNames \cup {NoWorkload}
      /\ status.traits \in Seq(TraitRef)
  BY DEF Status
<1> QED
  BY <1>1, ElementOfSeq, LenProperties

\* The name a trait gets.
LEMMA TraitNameType ==
    ASSUME NEW t \in Trait, t.form # "type", NEW status \in Status
    PROVE  getTraitName(t, status) \in TraitName
<1> DEFINE same == {i \in DOMAIN status.traits : status.traits[i].kind = t.kind}
<1>1. /\ t.form \in {"gvk", "properties", "labelled"} /\ t.kind \in TraitKinds
      /\ t.name \in TraitNames \cup {NoName} /\ t.data \in Data
  BY DEF Trait
<1>2. CASE t.name # NoName
  <2>1. getTraitName(t, status)
            = [given |-> t.name, typed |-> FALSE, form |-> "none", data |-> NoName]
    BY <1>2 DEF getTraitName, GivenTraitName
  <2> QED
    BY <1>1, <2>1 DEF TraitName
<1>3. CASE t.name = NoName /\ same # {}
  <2>1. getTraitName(t, status) = status.traits[Max(same)].name
    BY <1>3 DEF getTraitName
  <2>2. Len(status.traits) \in Nat /\ DOMAIN status.traits = 1..Len(status.traits)
    BY StatusFacts, LenProperties
  <2>3. same \in SUBSET (1..Len(status.traits))
    BY <2>2
  <2>4. Max(same) \in DOMAIN status.traits
    <3> HIDE DEF same
    <3> QED
      BY <1>3, <2>2, <2>3, GreatestPosition
  <2>5. status.traits[Max(same)] \in TraitRef
    BY <2>4, StatusFacts
  <2> QED
    BY <2>1, <2>5 DEF TraitRef
<1>4. CASE t.name = NoName /\ same = {}
  <2>1. getTraitName(t, status) = GenTraitName(t)
    BY <1>4 DEF getTraitName
  <2>2. HasDefinition(t) \in BOOLEAN
    BY DEF HasDefinition
  <2> QED
    BY <1>1, <2>1, <2>2 DEF GenTraitName, TraitName
<1> QED
  BY <1>2, <1>3, <1>4

LEMMA RenderTraitType ==
    ASSUME NEW t \in Trait, t.form # "type", NEW status \in Status, NEW name \in WorkloadNames
    PROVE  /\ RenderTrait(t, name, status) \in TraitObject
           /\ RefOf(RenderTrait(t, name, status)) \in TraitRef
<1>1. getTraitName(t, status) \in TraitName
  BY TraitNameType
<1>2. t.kind \in TraitKinds /\ t.data \in Data
  BY DEF Trait
<1>3. WorkloadRef(t, name) \in WorkloadNames \cup {NoWorkload}
  BY DEF WorkloadRef
<1> HIDE DEF getTraitName
<1> QED
  BY <1>1, <1>2, <1>3 DEF RenderTrait, TraitObject, RefOf, TraitRef

-------------------------------------------------------------------------------
(* What is left to do *)

LEMMA OperationFacts ==
    ASSUME NEW op \in Operation
    PROVE  /\ op.do \in {"workload", "trait", "collectWorkload", "collectTrait"}
           /\ op.do = "workload" => op.name \in WorkloadNames /\ op.workload \in Workload
           /\ op.do = "trait" => op.trait \in TraitObject
           /\ op.do = "collectWorkload" => op.name \in WorkloadNames
  BY DEF Operation

\* The calls after the first one.
LaterOps ==
    {op \in Operation : /\ op.do # "workload"
                        /\ op.do = "collectWorkload" => op.name \notin RevisionNames}

LEMMA EligibleFacts ==
    ASSUME NEW status \in Status, NEW name, NEW applied
    PROVE  Eligible(status, name, applied) \in Seq(LaterOps)
<1> DEFINE w == [do |-> "collectWorkload", name |-> status.workload]
           a == IF status.workload \notin {NoWorkload, name} /\ ~IsRevisionWorkload(status.workload)
                THEN <<w>> ELSE <<>>
           gone == Picked(status.traits,
                          {i \in DOMAIN status.traits : status.traits[i] \notin applied})
           b == [i \in DOMAIN gone |-> [do |-> "collectTrait", trait |-> gone[i]]]
<1>1. a \in Seq(LaterOps)
  <2>1. CASE status.workload \notin {NoWorkload, name} /\ ~IsRevisionWorkload(status.workload)
    <3>1. status.workload \in WorkloadNames \ RevisionNames
      BY <2>1, StatusFacts DEF IsRevisionWorkload
    <3>2. w \in Operation
      BY <3>1 DEF Operation
    <3>3. w \in LaterOps
      BY <3>1, <3>2 DEF LaterOps
    <3> QED
      BY <2>1, <3>3
  <2>2. CASE ~(status.workload \notin {NoWorkload, name} /\ ~IsRevisionWorkload(status.workload))
    BY <2>2, EmptySeq
  <2> QED
    BY <2>1, <2>2
<1>2. gone \in Seq(TraitRef)
  <2> DEFINE I == {i \in DOMAIN status.traits : status.traits[i] \notin applied}
  <2>1. I \in SUBSET DOMAIN status.traits
    OBVIOUS
  <2> HIDE DEF I
  <2>2. Picked(status.traits, I) \in Seq(TraitRef)
    BY <2>1, StatusFacts, PickedFacts
  <2> QED
    BY <2>2 DEF I
<1>3. b \in Seq(LaterOps)
  <2> HIDE DEF gone
  <2>1. \A i \in DOMAIN gone : gone[i] \in TraitRef
    BY <1>2, ElementOfSeq, LenProperties
  <2>2. \A r \in TraitRef : [do |-> "collectTrait", trait |-> r] \in LaterOps
    BY DEF LaterOps, Operation
  <2>3. b \in [DOMAIN gone -> LaterOps]
    BY <2>1, <2>2
  <2> HIDE DEF b
  <2> QED
    BY <1>2, <2>3, MappedSeq
<1>4. Eligible(status, name, applied) = a \o b
  BY DEF Eligible
<1> HIDE DEF a, b
<1> QED
  BY <1>1, <1>3, <1>4, ConcatProperties

LEMMA TodoFacts ==
    ASSUME NEW w \in Operation, NEW b \in Seq(LaterOps), NEW c \in Seq(LaterOps)
    PROVE  LET t == <<w>> \o b \o c IN
           /\ t \in Seq(Operation)
           /\ \A i \in DOMAIN t : IF i = 1 THEN t[i] = w ELSE t[i] \in LaterOps
<1> DEFINE a == <<w>>
           ab == a \o b
           t == ab \o c
<1>1. a \in Seq(Operation) /\ Len(a) = 1 /\ a[1] = w
  OBVIOUS
<1>2. b \in Seq(Operation) /\ c \in Seq(Operation)
  <2>1. LaterOps \subseteq Operation
    BY DEF LaterOps
  <2>2. \A s \in Seq(LaterOps) : s \in Seq(Operation)
    BY <2>1, LenProperties
  <2> QED
    BY <2>2
<1>3. /\ Len(b) \in Nat /\ Len(c) \in Nat
      /\ \A i \in 1..Len(b) : b[i] \in LaterOps
      /\ \A i \in 1..Len(c) : c[i] \in LaterOps
  BY LenProperties, ElementOfSeq
<1> HIDE DEF a
<1>4. /\ ab \in Seq(Operation) /\ Len(ab) = 1 + Len(b)
      /\ \A i \in 1..(1 + Len(b)) : ab[i] = IF i <= 1 THEN a[i] ELSE b[i - 1]
  <2>1. /\ ab \in Seq(Operation) /\ Len(ab) = Len(a) + Len(b)
        /\ \A i \in 1..(Len(a) + Len(b)) : ab[i] = IF i <= Len(a) THEN a[i] ELSE b[i - Len(a)]
    BY <1>1, <1>2, ConcatProperties, Zenon
  <2> HIDE DEF ab
  <2> QED
    BY <1>1, <2>1
<1> HIDE DEF ab
<1>5. /\ t \in Seq(Operation) /\ Len(t) = (1 + Len(b)) + Len(c)
      /\ \A i \in 1..((1 + Len(b)) + Len(c)) :
            t[i] = IF i <= 1 + Len(b) THEN ab[i] ELSE c[i - (1 + Len(b))]
  <2>1. /\ t \in Seq(Operation) /\ Len(t) = Len(ab) + Len(c)
        /\ \A i \in 1..(Len(ab) + Len(c)) : t[i] = IF i <= Len(ab) THEN ab[i] ELSE c[i - Len(ab)]
    BY <1>2, <1>4, ConcatProperties, Zenon
  <2> HIDE DEF t
  <2> QED
    BY <1>4, <2>1
<1>6. DOMAIN t = 1..((1 + Len(b)) + Len(c))
  BY <1>5, LenProperties
<1> HIDE DEF t
<1>7. ASSUME NEW i \in DOMAIN t
      PROVE  IF i = 1 THEN t[i] = w ELSE t[i] \in LaterOps
  <2>1. i \in 1..((1 + Len(b)) + Len(c)) /\ i \in Nat
    BY <1>3, <1>6
  <2>2. CASE i = 1
    BY <1>1, <1>3, <1>4, <1>5, <2>1, <2>2
  <2>3. CASE i # 1 /\ i <= 1 + Len(b)
    <3>1. t[i] = b[i - 1] /\ i - 1 \in 1..Len(b)
      BY <1>3, <1>4, <1>5, <2>1, <2>3
    <3> QED
      BY <1>3, <2>3, <3>1
  <2>4. CASE i # 1 /\ ~(i <= 1 + Len(b))
    <3>1. t[i] = c[i - (1 + Len(b))] /\ i - (1 + Len(b)) \in 1..Len(c)
      BY <1>3, <1>5, <2>1, <2>4
    <3> QED
      BY <1>3, <2>4, <3>1
  <2> QED
    BY <2>2, <2>3, <2>4
<1> QED
  BY <1>5, <1>7 DEF t, ab, a

\* The first call after Render of the entry e.
WorkloadOp(e, status) ==
    [do |-> "workload", name |-> SetWorkloadInstanceName(e, status),
     workload |-> [label |-> RevisionOf(e), data |-> ContentOf(e).data]]

LEMMA RenderedFacts ==
    ASSUME TypeOK, VersionInv, NEW e \in Entry, Renders(e), NEW status \in Status,
           NEW fresh \in BOOLEAN
    PROVE  LET c == Rendered(e, status, fresh) IN
           /\ c \in Run /\ c.enabled = RevisionEnabled(e, defined)
           /\ \A i \in DOMAIN c.todo :
                 IF i = 1 THEN c.todo[i] = WorkloadOp(e, status) ELSE c.todo[i] \in LaterOps
<1> DEFINE c == Rendered(e, status, fresh)
           name == SetWorkloadInstanceName(e, status)
           ts == [i \in DOMAIN e.traits |-> RenderTrait(e.traits[i], name, status)]
           refs == [i \in DOMAIN ts |-> RefOf(ts[i])]
           plan == [rev |-> RevisionOf(e), workload |-> name, traits |-> refs, history |-> {}]
           b == [i \in DOMAIN ts |-> [do |-> "trait", trait |-> ts[i]]]
           w == WorkloadOp(e, status)
           todo == <<w>> \o b \o Eligible(status, name, ToSet(refs))
<1>1. c = [at |-> "apply", fresh |-> fresh, enabled |-> RevisionEnabled(e, defined),
           plan |-> plan, todo |-> todo]
  BY DEF Rendered, WorkloadOp
<1>2. name \in WorkloadNames
  BY NameFacts
<1>3. /\ RevisionOf(e) \in 0..MaxRevisions /\ ContentOf(e) \in Content
  BY RevisionFacts DEF Renders
<1> HIDE DEF name, c
<1>4. ASSUME NEW i \in DOMAIN e.traits
      PROVE  /\ RenderTrait(e.traits[i], name, status) \in TraitObject
             /\ RefOf(RenderTrait(e.traits[i], name, status)) \in TraitRef
  <2>1. e.traits[i] \in Trait /\ e.traits[i].form # "type"
    BY EntryFacts DEF Renders
  <2> QED
    BY <1>2, <2>1, RenderTraitType
<1>5. /\ DOMAIN ts = DOMAIN e.traits
      /\ \A i \in DOMAIN ts : ts[i] \in TraitObject /\ RefOf(ts[i]) \in TraitRef
  BY <1>4
<1> HIDE DEF ts
<1>6. refs \in Seq(TraitRef)
  <2>1. refs \in [DOMAIN e.traits -> TraitRef]
    BY <1>5
  <2> HIDE DEF refs
  <2> QED
    BY <2>1, EntryFacts, MappedSeq
<1>7. b \in Seq(LaterOps)
  <2>1. \A t \in TraitObject : [do |-> "trait", trait |-> t] \in LaterOps
    BY DEF LaterOps, Operation
  <2>2. b \in [DOMAIN e.traits -> LaterOps]
    BY <1>5, <2>1
  <2> HIDE DEF b
  <2> QED
    BY <2>2, EntryFacts, MappedSeq
<1>8. w \in Operation
  <2>1. [label |-> RevisionOf(e), data |-> ContentOf(e).data] \in Workload
    BY <1>3, ContentFacts DEF Workload
  <2> QED
    BY <1>2, <2>1 DEF WorkloadOp, Operation, name
<1>9. Eligible(status, name, ToSet(refs)) \in Seq(LaterOps)
  BY EligibleFacts
<1> HIDE DEF refs, b, w
<1>10. /\ todo \in Seq(Operation)
       /\ \A i \in DOMAIN todo : IF i = 1 THEN todo[i] = w ELSE todo[i] \in LaterOps
  BY <1>7, <1>8, <1>9, TodoFacts
<1>11. plan \in Status
  BY <1>2, <1>3, <1>6 DEF Status
<1> HIDE DEF plan, todo
<1>12. RevisionEnabled(e, defined) \in BOOLEAN
  BY DEF RevisionEnabled
<1>13. c \in Run /\ c.enabled = RevisionEnabled(e, defined) /\ c.todo = todo
  BY <1>1, <1>10, <1>11, <1>12 DEF Run
<1> QED
  BY <1>10, <1>13 DEF c, w

-------------------------------------------------------------------------------
(* The steps *)

\* Specs that would be admitted still would.
LEMMA AdmissibleLasts ==
    ASSUME TypeOK, AdmittedInv, history' = history, defined' = defined,
           component'.content = component.content,
           revisions' = revisions \/ (\E c \in Content : revisions' = Append(revisions, c)),
           app'.spec = app.spec, cache'.app.spec \in {app.spec, cache.app.spec}
    PROVE  AdmittedInv'
<1> SUFFICES ASSUME Admissible PROVE Admissible'
  BY DEF AdmittedInv
<1>1. app.spec \in Entry /\ cache.app.spec \in Entry
  BY DEF TypeOK, App
<1>2. revisions \in Seq(Content) /\ Len(revisions) \in Nat
  BY LenProperties DEF TypeOK
<1>3. Len(revisions') >= Len(revisions) /\ \A i \in 1..Len(revisions) : revisions'[i] = revisions[i]
  BY <1>2, AppendProperties
<1>4. ASSUME NEW e \in Entry, Found(e), Valid(ContentOf(e), e, defined)
      PROVE  Found(e)' /\ Valid(ContentOf(e), e, defined)'
  <2>1. e.pin \in Nat /\ e.pin <= Len(revisions)
    BY <1>4, EntryFacts DEF Found
  <2>2. Found(e)'
    BY <1>2, <1>3, <1>4, <2>1 DEF Found
  <2>3. ContentOf(e)' = ContentOf(e)
    BY <1>2, <1>3, <2>1 DEF ContentOf
  <2> QED
    BY <1>4, <2>2, <2>3
<1> QED
  BY <1>1, <1>4 DEF Admissible

\* Contents of revisions do not change, and ahead only grows.
LEMMA OfRevisionLasts ==
    ASSUME TypeOK, ahead \subseteq ahead',
           revisions' = revisions \/ (\E c \in Content : revisions' = Append(revisions, c)),
           NEW n \in RevisionNames, NEW w, OfRevision(n, w)
    PROVE  OfRevision(n, w)'
<1>1. revisions \in Seq(Content) /\ Len(revisions) \in Nat /\ n \in Nat /\ n >= 1
  BY LenProperties, RenderingAssumption DEF TypeOK, RevisionNames
<1>2. Len(revisions') \in Nat /\ Len(revisions') >= Len(revisions)
      /\ \A i \in 1..Len(revisions) : revisions'[i] = revisions[i]
  BY <1>1, AppendProperties
<1>3. n <= Len(revisions) /\ n <= Len(revisions') /\ revisions'[n] = revisions[n]
  BY <1>1, <1>2 DEF OfRevision
<1> QED
  BY <1>3 DEF OfRevision

\* A step that writes no workload, but may drop one, or what is left to do.
LEMMA QuietStep ==
    ASSUME RenderInv, ahead \subseteq ahead', history \subseteq history',
           revisions' = revisions \/ (\E c \in Content : revisions' = Append(revisions, c)),
           \A n \in WorkloadNames : workloads'[n] \in {workloads[n], NoObject},
           ctl'.todo = <<>> \/ (ctl'.todo = ctl.todo /\ ctl'.enabled = ctl.enabled)
    PROVE  VersionInv' /\ PlanInv'
<1>1. TypeOK /\ VersionInv /\ PlanInv
  BY DEF RenderInv
<1>2. \A n \in Running' : n \in WorkloadNames /\ n \in Running /\ workloads'[n] = workloads[n]
  BY DEF Running
<1>3. VersionInv'
  <2> SUFFICES ASSUME NEW n \in RevisionNames \cap Running' PROVE OfRevision(n, workloads[n])'
    BY DEF VersionInv
  <2>1. PICK w : w = workloads[n]
    OBVIOUS
  <2>2. OfRevision(n, w)
    BY <1>1, <1>2, <2>1 DEF VersionInv
  <2>3. OfRevision(n, w)'
    BY <1>1, <2>2, OfRevisionLasts
  <2>4. workloads'[n] = w
    BY <1>2, <2>1
  <2> QED
    BY <2>3, <2>4 DEF OfRevision
<1>4. CASE ctl'.todo = <<>>
  BY <1>3, <1>4 DEF PlanInv
<1>5. CASE ctl'.todo = ctl.todo /\ ctl'.enabled = ctl.enabled
  <2> SUFFICES ASSUME NEW i \in DOMAIN ctl.todo
               PROVE  /\ ctl.todo[i].do = "workload" =>
                            /\ i = 1
                            /\ ctl.todo[i].name \in RevisionNames =>
                                  OfRevision(ctl.todo[i].name, ctl.todo[i].workload)'
                            /\ /\ ctl.enabled /\ "slipped" \notin history'
                               /\ ctl.todo[i].name \in Running'
                               => workloads'[ctl.todo[i].name].label = ctl.todo[i].workload.label
                      /\ ctl.todo[i].do = "collectWorkload" => ctl.todo[i].name \notin RevisionNames
    BY <1>3, <1>5 DEF PlanInv, OfRevision
  <2>1. PICK op : op = ctl.todo[i]
    OBVIOUS
  <2>2. /\ op.do = "workload" =>
              /\ i = 1
              /\ op.name \in RevisionNames => OfRevision(op.name, op.workload)
              /\ ctl.enabled /\ "slipped" \notin history /\ op.name \in Running =>
                    workloads[op.name].label = op.workload.label
        /\ op.do = "collectWorkload" => op.name \notin RevisionNames
    BY <1>1, <2>1 DEF PlanInv
  <2>3. /\ op.do = "workload" /\ op.name \in RevisionNames => OfRevision(op.name, op.workload)'
    BY <1>1, <2>2, OfRevisionLasts
  <2>4. op.name \in Running' => op.name \in Running /\ workloads'[op.name] = workloads[op.name]
    BY <1>2
  <2>5. op.do = "workload" /\ op.name \in RevisionNames =>
            OfRevision(ctl.todo[i].name, ctl.todo[i].workload)'
    BY <1>5, <2>1, <2>3 DEF OfRevision
  <2> QED
    BY <2>1, <2>2, <2>4, <2>5
<1> QED
  BY <1>3, <1>4, <1>5

LEMMA NoteFacts ==
    ASSUME TypeOK, Note
    PROVE  /\ AdmittedInv' /\ history \subseteq history' /\ history' \subseteq {"hasty", "slipped"}
           /\ steady' \in BOOLEAN
<1>1. history \subseteq {"hasty", "slipped"}
  BY DEF TypeOK
<1>2. /\ history' = (history \cup (IF AtRest /\ cache.current THEN {} ELSE {"hasty"}))
                       \cup (IF Admissible' THEN {} ELSE {"slipped"})
      /\ steady' = FALSE
  BY DEF Note
<1> QED
  BY <1>1, <1>2 DEF AdmittedInv

LEMMA CountFacts ==
    ASSUME TypeOK
    PROVE  /\ Change => changes' \in 0..MaxChanges /\ faults' = faults
           /\ Fault => faults' \in 0..MaxFaults /\ changes' = changes
  BY RenderingAssumption DEF TypeOK, Change, Fault

LEMMA AppFacts ==
    ASSUME TypeOK
    PROVE  /\ app \in App /\ app.spec \in Entry /\ app.generation \in Nat /\ app.status \in Status
           /\ app.observed \in Nat /\ app.observed <= app.generation
           /\ cache.app \in App /\ cache.app.spec \in Entry /\ cache.app.status \in Status
           /\ cache.app.observed <= cache.app.generation /\ cache.current \in BOOLEAN
  BY DEF TypeOK, App

LEMMA RunFacts ==
    ASSUME TypeOK
    PROVE  /\ ctl.at \in {"idle", "apply", "error"} /\ ctl.fresh \in BOOLEAN
           /\ ctl.plan \in Status /\ ctl.enabled \in BOOLEAN /\ ctl.todo \in Seq(Operation)
  BY DEF TypeOK, Run

LEMMA IdleFacts ==
    /\ Idle \in Run /\ Idle.todo = <<>>
    /\ \A b \in BOOLEAN : LET c == [Idle EXCEPT !.at = "error", !.fresh = b] IN
                          c \in Run /\ c.todo = <<>>
<1>1. NoStatus \in Status
  <2>1. <<>> \in Seq(TraitRef)
    BY EmptySeq
  <2> QED
    BY <2>1, RenderingAssumption DEF NoStatus, Status, NoWorkload
<1>2. <<>> \in Seq(Operation)
  BY EmptySeq
<1> QED
  BY <1>1, <1>2 DEF Idle, Run

\* A write of the ApplicationConfiguration leaves the cache behind.
LEMMA WrittenFacts ==
    ASSUME TypeOK, NEW a \in App, a.observed <= a.generation, Written(a)
    PROVE  /\ app' = a /\ cache' \in [app : App, current : BOOLEAN]
           /\ cache'.app = cache.app /\ ~cache'.current
           /\ \A x \in {app', cache'.app} : x.observed <= x.generation
<1>1. app' = a /\ cache' = [cache EXCEPT !.current = FALSE]
  BY DEF Written
<1>2. cache \in [app : App, current : BOOLEAN]
  BY DEF TypeOK
<1>3. cache' \in [app : App, current : BOOLEAN] /\ cache'.app = cache.app /\ ~cache'.current
  BY <1>1, <1>2
<1> QED
  BY <1>1, <1>3, AppFacts

LEMMA EditAppStep ==
    ASSUME RenderInv, NEW e \in Entries, EditApp(e)
    PROVE  RenderInv'
<1> DEFINE spec == IF webhook THEN Mutate(e) ELSE e
           a == [app EXCEPT !.spec = spec, !.generation = @ + 1]
<1>1. TypeOK /\ UNCHANGED <<webhook, component, revisions, defined, workloads, traits, ahead>>
  BY DEF RenderInv, EditApp
<1>2. Written(a) /\ Change /\ Note /\ ctl' = [ctl EXCEPT !.fresh = ctl.at = "idle"]
  BY DEF EditApp
<1>3. spec \in Entry
  BY MutateType, RenderingAssumption
<1> HIDE DEF spec
<1>4. a \in App /\ a.observed <= a.generation
  <2>1. /\ app \in App /\ app.generation \in Nat /\ app.observed \in Nat
        /\ app.observed <= app.generation
    BY <1>1, AppFacts
  <2>2. a \in App /\ a.observed = app.observed /\ a.generation = app.generation + 1
    <3> DEFINE g == app.generation + 1
    <3>1. g \in Nat
      BY <2>1
    <3>2. a = [app EXCEPT !.spec = spec, !.generation = g]
      BY <2>1 DEF App
    <3> HIDE DEF g, a
    <3>3. a \in App /\ a.observed = app.observed /\ a.generation = g
      BY <1>3, <2>1, <3>1, <3>2 DEF App
    <3> QED
      BY <3>3 DEF g
  <2> HIDE DEF a
  <2> QED
    BY <2>1, <2>2
<1> HIDE DEF a
<1>5. /\ app' = a /\ cache' \in [app : App, current : BOOLEAN] /\ ~cache'.current
      /\ \A x \in {app', cache'.app} : x.observed <= x.generation
  BY <1>1, <1>2, <1>4, WrittenFacts
<1>6. ctl' \in Run /\ ctl'.todo = ctl.todo /\ ctl'.enabled = ctl.enabled
  <2>1. (ctl.at = "idle") \in BOOLEAN
    OBVIOUS
  <2> QED
    BY <1>1, <1>2, <2>1 DEF TypeOK, Run
<1>7. /\ AdmittedInv' /\ history \subseteq history' /\ history' \subseteq {"hasty", "slipped"}
      /\ steady' \in BOOLEAN
  BY <1>1, <1>2, NoteFacts
<1>8. changes' \in 0..MaxChanges /\ faults' = faults
  BY <1>1, <1>2, CountFacts
<1>9. TypeOK'
  BY <1>1, <1>4, <1>5, <1>6, <1>7, <1>8 DEF TypeOK
<1>10. VersionInv' /\ PlanInv'
  BY <1>1, <1>6, <1>7, QuietStep
<1> QED
  BY <1>7, <1>9, <1>10 DEF RenderInv

LEMMA EditComponentStep ==
    ASSUME RenderInv, NEW c \in Contents, EditComponent(c)
    PROVE  RenderInv'
<1> DEFINE content == IF webhook THEN MutateComponent(c) ELSE c
<1>1. TypeOK /\ UNCHANGED <<webhook, revisions, defined, app, cache, workloads, traits, ctl, ahead>>
  BY DEF RenderInv, EditComponent
<1>2. component' = [component EXCEPT !.content = content] /\ Change /\ Note
  BY DEF EditComponent
<1>3. content \in Content
  BY ContentFacts, RenderingAssumption
<1> HIDE DEF content
<1>4. /\ component' \in [content : Content, rev : 0..MaxRevisions]
      /\ component'.rev = component.rev
  BY <1>1, <1>2, <1>3 DEF TypeOK
<1>5. /\ AdmittedInv' /\ history \subseteq history' /\ history' \subseteq {"hasty", "slipped"}
      /\ steady' \in BOOLEAN
  BY <1>1, <1>2, NoteFacts
<1>6. changes' \in 0..MaxChanges /\ faults' = faults
  BY <1>1, <1>2, CountFacts
<1>7. TypeOK'
  BY <1>1, <1>4, <1>5, <1>6 DEF TypeOK
<1>8. VersionInv' /\ PlanInv'
  BY <1>1, <1>5, QuietStep
<1> QED
  BY <1>5, <1>7, <1>8 DEF RenderInv

LEMMA RedefineStep ==
    ASSUME RenderInv, NEW k \in TraitKinds \cup {WorkloadKind}, Redefine(k)
    PROVE  RenderInv'
<1>1. /\ TypeOK /\ Change /\ Note
      /\ UNCHANGED <<webhook, component, revisions, app, cache, workloads, traits, ctl, ahead>>
  BY DEF RenderInv, Redefine
<1>2. defined' \subseteq TraitKinds \cup {WorkloadKind}
  BY <1>1 DEF Redefine, TypeOK
<1>3. /\ AdmittedInv' /\ history \subseteq history' /\ history' \subseteq {"hasty", "slipped"}
      /\ steady' \in BOOLEAN
  BY <1>1, NoteFacts
<1>4. changes' \in 0..MaxChanges /\ faults' = faults
  BY <1>1, CountFacts
<1>5. TypeOK'
  BY <1>1, <1>2, <1>3, <1>4 DEF TypeOK
<1>6. VersionInv' /\ PlanInv'
  BY <1>1, <1>3, QuietStep
<1> QED
  BY <1>3, <1>5, <1>6 DEF RenderInv

LEMMA PublishRevisionStep ==
    ASSUME RenderInv, PublishRevision
    PROVE  RenderInv'
<1>1. /\ TypeOK /\ AdmittedInv
      /\ UNCHANGED <<webhook, defined, app, cache, workloads, traits, ctl, ahead, history, changes,
                     faults>>
  BY DEF RenderInv, PublishRevision
<1>2. /\ revisions' = Append(revisions, component.content) /\ Len(revisions) < MaxRevisions
      /\ component' = [component EXCEPT !.rev = Len(revisions')] /\ steady' = FALSE
  BY DEF PublishRevision
<1>3. revisions \in Seq(Content) /\ component.content \in Content /\ Len(revisions) \in Nat
  BY <1>1, LenProperties DEF TypeOK
<1>4. revisions' \in Seq(Content) /\ Len(revisions') = Len(revisions) + 1
  BY <1>2, <1>3, AppendProperties
<1>5. /\ component' \in [content : Content, rev : 0..MaxRevisions]
      /\ component'.rev = Len(revisions') /\ component'.content = component.content
  BY <1>1, <1>2, <1>3, <1>4, RenderingAssumption DEF TypeOK
<1>6. TypeOK'
  BY <1>1, <1>2, <1>4, <1>5 DEF TypeOK
<1>7. VersionInv' /\ PlanInv'
  BY <1>1, <1>2, <1>3, QuietStep
<1>8. AdmittedInv'
  BY <1>1, <1>2, <1>3, <1>5, AdmissibleLasts
<1> QED
  BY <1>6, <1>7, <1>8 DEF RenderInv

LEMMA RolloutDeletesStep ==
    ASSUME RenderInv, NEW n \in WorkloadNames, RolloutDeletes(n)
    PROVE  RenderInv'
<1>1. /\ TypeOK /\ AdmittedInv /\ Change
      /\ UNCHANGED <<webhook, component, revisions, defined, app, cache, traits, ctl, ahead, history,
                     steady>>
  BY DEF RenderInv, RolloutDeletes
<1>2. /\ workloads' \in [WorkloadNames -> Workload \cup {NoObject}]
      /\ \A m \in WorkloadNames : workloads'[m] \in {workloads[m], NoObject}
  BY <1>1 DEF RolloutDeletes, TypeOK
<1>3. changes' \in 0..MaxChanges /\ faults' = faults
  BY <1>1, CountFacts
<1>4. TypeOK'
  BY <1>1, <1>2, <1>3 DEF TypeOK
<1>5. VersionInv' /\ PlanInv'
  BY <1>1, <1>2, QuietStep
<1>6. AdmittedInv'
  BY <1>1, AdmissibleLasts
<1> QED
  BY <1>4, <1>5, <1>6 DEF RenderInv

LEMMA DeliverStep ==
    ASSUME RenderInv, Deliver
    PROVE  RenderInv'
<1>1. /\ TypeOK /\ AdmittedInv
      /\ UNCHANGED <<webhook, component, revisions, defined, app, workloads, traits, ctl, ahead,
                     history, steady, changes, faults>>
  BY DEF RenderInv, Deliver
<1>2. /\ cache' \in [app : App, current : BOOLEAN] /\ cache'.app = app
      /\ \A x \in {app', cache'.app} : x.observed <= x.generation
  BY <1>1, AppFacts DEF Deliver
<1>3. TypeOK'
  BY <1>1, <1>2 DEF TypeOK
<1>4. VersionInv' /\ PlanInv'
  BY <1>1, QuietStep
<1>5. AdmittedInv'
  BY <1>1, <1>2, AdmissibleLasts
<1> QED
  BY <1>3, <1>4, <1>5 DEF RenderInv

LEMMA CallFailsStep ==
    ASSUME RenderInv, CallFails
    PROVE  RenderInv'
<1>1. /\ TypeOK /\ AdmittedInv /\ Fault /\ steady' = FALSE
      /\ UNCHANGED <<webhook, component, revisions, defined, app, cache, workloads, traits, ahead,
                     history>>
  BY DEF RenderInv, CallFails
<1>2. ctl' \in Run /\ ctl'.todo = <<>>
  BY <1>1, IdleFacts, RunFacts DEF CallFails
<1>3. faults' \in 0..MaxFaults /\ changes' = changes
  BY <1>1, CountFacts
<1>4. TypeOK'
  BY <1>1, <1>2, <1>3 DEF TypeOK
<1>5. VersionInv' /\ PlanInv'
  BY <1>1, <1>2, QuietStep
<1>6. AdmittedInv'
  BY <1>1, AdmissibleLasts
<1> QED
  BY <1>4, <1>5, <1>6 DEF RenderInv

LEMMA RestartStep ==
    ASSUME RenderInv, Restart
    PROVE  RenderInv'
<1>1. /\ TypeOK /\ AdmittedInv /\ Fault /\ steady' = FALSE
      /\ UNCHANGED <<webhook, component, revisions, defined, app, workloads, traits, ahead, history>>
  BY DEF RenderInv, Restart
<1>2. ctl' \in Run /\ ctl'.todo = <<>>
  BY IdleFacts DEF Restart
<1>3. faults' \in 0..MaxFaults /\ changes' = changes
  BY <1>1, CountFacts
<1>4. /\ cache' \in [app : App, current : BOOLEAN] /\ cache'.app = app
      /\ \A x \in {app', cache'.app} : x.observed <= x.generation
  BY <1>1, AppFacts DEF Restart
<1>5. TypeOK'
  BY <1>1, <1>2, <1>3, <1>4 DEF TypeOK
<1>6. VersionInv' /\ PlanInv'
  BY <1>1, <1>2, QuietStep
<1>7. AdmittedInv'
  BY <1>1, <1>4, AdmissibleLasts
<1> QED
  BY <1>5, <1>6, <1>7 DEF RenderInv

LEMMA RenderStep ==
    ASSUME RenderInv, Render
    PROVE  RenderInv'
<1> DEFINE e == cache.app.spec
           status == cache.app.status
           rev == RevisionOf(e)
<1>1. /\ TypeOK /\ VersionInv /\ AdmittedInv
      /\ UNCHANGED <<webhook, component, revisions, defined, app, cache, workloads, traits,
                     history, changes, faults>>
  BY DEF RenderInv, Render
<1>2. e \in Entry /\ status \in Status /\ cache.current \in BOOLEAN
  BY <1>1, AppFacts
<1>3. steady' \in BOOLEAN
  BY <1>2 DEF Render
<1>4. AdmittedInv'
  BY <1>1, AdmissibleLasts
<1>5. CASE ~Renders(e)
  <2>1. ctl' = [Idle EXCEPT !.at = "error", !.fresh = cache.current] /\ ahead' = ahead
    BY <1>5 DEF Render
  <2>2. ctl' \in Run /\ ctl'.todo = <<>>
    BY <1>2, <2>1, IdleFacts
  <2>3. TypeOK'
    BY <1>1, <1>3, <2>1, <2>2 DEF TypeOK
  <2>4. VersionInv' /\ PlanInv'
    BY <1>1, <2>1, <2>2, QuietStep
  <2> QED
    BY <1>4, <2>3, <2>4 DEF RenderInv
<1>6. CASE Renders(e)
  <2>1. /\ ctl' = Rendered(e, status, cache.current)
        /\ ahead' = IF rev = 0 \/ ContentOf(e) = revisions[rev] THEN ahead ELSE ahead \cup {rev}
    BY <1>6 DEF Render
  <2>2. /\ rev \in 0..MaxRevisions /\ rev <= Len(revisions)
        /\ rev # 0 => rev \in RevisionNames
    BY <1>1, <1>2, <1>6, RevisionFacts DEF Renders
  <2> HIDE DEF rev
  <2>3. /\ ahead' \subseteq RevisionNames /\ ahead \subseteq ahead'
        /\ rev # 0 => rev \in ahead' \/ ContentOf(e) = revisions[rev]
    <3>1. ahead \subseteq RevisionNames
      BY <1>1 DEF TypeOK
    <3> QED
      BY <2>1, <2>2, <3>1
  <2>n. PICK op, name : op = WorkloadOp(e, status) /\ name = SetWorkloadInstanceName(e, status)
    OBVIOUS
  <2>4. /\ ctl' \in Run /\ ctl'.enabled = RevisionEnabled(e, defined)
        /\ \A i \in DOMAIN ctl'.todo :
              IF i = 1 THEN ctl'.todo[i] = op ELSE ctl'.todo[i] \in LaterOps
    BY <1>1, <1>2, <1>6, <2>1, <2>n, RenderedFacts
  <2>5. /\ op.do = "workload" /\ op.name = name
        /\ op.workload.label = rev /\ op.workload.data = ContentOf(e).data
    BY <2>n DEF WorkloadOp, rev
  <2>6. /\ name \in WorkloadNames
        /\ name \in RevisionNames => name = rev
        /\ /\ RevisionEnabled(e, defined) /\ GivenName(ContentOf(e), e) = NoWorkload
           /\ name \in Running
           => workloads[name].label = rev
    BY <1>1, <1>2, <1>6, <2>n, NameFacts DEF rev
  <2>7. TypeOK'
    BY <1>1, <1>3, <2>3, <2>4 DEF TypeOK
  <2>8. VersionInv'
    <3> SUFFICES ASSUME NEW n \in RevisionNames \cap Running PROVE OfRevision(n, workloads[n])'
      BY <1>1 DEF VersionInv, Running
    <3>1. OfRevision(n, workloads[n])
      BY <1>1 DEF VersionInv
    <3> QED
      BY <1>1, <2>3, <3>1 DEF OfRevision
  <2>9. RevisionEnabled(e, defined) /\ "slipped" \notin history =>
            GivenName(ContentOf(e), e) = NoWorkload
    <3> SUFFICES ASSUME RevisionEnabled(e, defined), "slipped" \notin history
                 PROVE  GivenName(ContentOf(e), e) = NoWorkload
      OBVIOUS
    <3>1. Valid(ContentOf(e), e, defined)
      BY <1>1 DEF AdmittedInv, Admissible
    <3>2. checkParams(ContentOf(e), e) /\ ~ContentOf(e).named
      BY <3>1 DEF Valid, ValidateWorkloadNameForVersioning
    <3>3. e.value => ContentOf(e).nameParam # "no"
      BY <1>6 DEF Renders, Resolves
    <3>4. ~e.value
      BY <3>2, <3>3 DEF checkParams
    <3> QED
      BY <3>2, <3>4 DEF GivenName
  <2>10. name \in RevisionNames => OfRevision(name, op.workload)'
    <3> SUFFICES ASSUME name \in RevisionNames
                 PROVE  OfRevision(name, op.workload)'
      OBVIOUS
    <3>1. name = rev /\ rev # 0
      BY <2>6, RenderingAssumption DEF RevisionNames
    <3>2. rev \in ahead' \/ op.workload.data = revisions[rev].data
      BY <2>3, <2>5, <3>1
    <3> QED
      BY <1>1, <2>2, <2>5, <3>1, <3>2 DEF OfRevision
  <2>11. /\ RevisionEnabled(e, defined) /\ "slipped" \notin history /\ name \in Running
         => workloads[name].label = op.workload.label
    BY <2>5, <2>6, <2>9
  <2>12. PlanInv'
    <3> SUFFICES ASSUME NEW i \in DOMAIN ctl'.todo, NEW x, x = ctl'.todo[i]
                 PROVE  /\ x.do = "workload" =>
                              /\ i = 1
                              /\ x.name \in RevisionNames => OfRevision(x.name, x.workload)'
                              /\ ctl'.enabled /\ "slipped" \notin history' /\ x.name \in Running' =>
                                    workloads'[x.name].label = x.workload.label
                        /\ x.do = "collectWorkload" => x.name \notin RevisionNames
      BY DEF PlanInv, OfRevision
    <3>1. CASE i = 1
      <4>1. x = op
        BY <2>4, <3>1
      <4>2. Running' = Running /\ workloads' = workloads /\ history' = history
        BY <1>1 DEF Running
      <4>3. x.do # "collectWorkload"
        BY <2>5, <4>1
      <4>4. x.name \in RevisionNames => OfRevision(x.name, x.workload)'
        BY <2>5, <2>10, <4>1
      <4>5. ctl'.enabled /\ "slipped" \notin history' /\ x.name \in Running' =>
              workloads'[x.name].label = x.workload.label
        BY <2>4, <2>5, <2>11, <4>1, <4>2
      <4> QED
        BY <3>1, <4>3, <4>4, <4>5
    <3>2. CASE i # 1
      BY <2>4, <3>2 DEF LaterOps
    <3> QED
      BY <3>1, <3>2
  <2> QED
    BY <1>4, <2>7, <2>8, <2>12 DEF RenderInv
<1> QED
  BY <1>5, <1>6

\* What the next call does to the workloads.
LEMMA CallFacts ==
    ASSUME RenderInv, Call, NEW op, op = Head(ctl.todo)
    PROVE  /\ op \in Operation /\ 1 \in DOMAIN ctl.todo /\ op = ctl.todo[1]
           /\ op.do = "workload" => workloads' = [workloads EXCEPT ![op.name] = op.workload]
           /\ op.do = "collectWorkload" => workloads' = [workloads EXCEPT ![op.name] = NoObject]
           /\ op.do \in {"trait", "collectTrait"} => workloads' = workloads
           /\ traits' \subseteq TraitObject
           /\ ctl' \in Run /\ ctl'.enabled = ctl.enabled
           /\ \A i \in DOMAIN ctl'.todo :
                 i + 1 \in DOMAIN ctl.todo /\ i + 1 # 1 /\ ctl'.todo[i] = ctl.todo[i + 1]
<1>1. TypeOK /\ ctl \in Run /\ ctl.todo \in Seq(Operation) /\ ctl.todo # <<>>
  BY RunFacts DEF RenderInv, Call, TypeOK
<1>2. /\ Head(ctl.todo) \in Operation /\ Tail(ctl.todo) \in Seq(Operation)
      /\ Len(Tail(ctl.todo)) = Len(ctl.todo) - 1
      /\ \A i \in 1..Len(Tail(ctl.todo)) : Tail(ctl.todo)[i] = ctl.todo[i + 1]
  BY <1>1, HeadTailProperties
<1>3. Len(ctl.todo) \in Nat \ {0} /\ DOMAIN ctl.todo = 1..Len(ctl.todo)
  BY <1>1, EmptySeq, LenProperties
<1>4. op \in Operation /\ 1 \in DOMAIN ctl.todo /\ op = ctl.todo[1]
  BY <1>1, <1>2, <1>3
<1>5. op.do \in {"workload", "trait", "collectWorkload", "collectTrait"}
  BY <1>4, OperationFacts
<1>6. workloads' = CASE op.do = "workload" ->
                          [workloads EXCEPT ![op.name] = Patched(@, op.workload)]
                     [] op.do = "collectWorkload" ->
                          [workloads EXCEPT ![op.name] = NoObject]
                     [] OTHER -> workloads
  BY DEF Call
<1>7. /\ op.do = "workload" => workloads' = [workloads EXCEPT ![op.name] = op.workload]
      /\ op.do = "collectWorkload" => workloads' = [workloads EXCEPT ![op.name] = NoObject]
      /\ op.do \in {"trait", "collectTrait"} => workloads' = workloads
  BY <1>6 DEF Patched
<1>8. traits' \subseteq TraitObject
  <2>1. traits' = CASE op.do = "trait" ->
                         {t \in traits : RefOf(t) # RefOf(op.trait)} \cup {op.trait}
                    [] op.do = "collectTrait" -> {t \in traits : RefOf(t) # op.trait}
                    [] OTHER -> traits
    BY DEF Call
  <2>2. traits \subseteq TraitObject
    BY <1>1 DEF TypeOK
  <2>3. op.do = "trait" => op.trait \in TraitObject
    BY <1>4, OperationFacts
  <2>4. CASE op.do = "trait"
    <3>1. traits' = {t \in traits : RefOf(t) # RefOf(op.trait)} \cup {op.trait}
      BY <2>1, <2>4
    <3> QED
      BY <2>2, <2>3, <2>4, <3>1
  <2>5. CASE op.do # "trait"
    <3>1. traits' \subseteq traits
      BY <1>5, <2>1, <2>5
    <3> QED
      BY <2>2, <3>1
  <2> QED
    BY <2>4, <2>5
<1>9. ctl' = [ctl EXCEPT !.todo = Tail(ctl.todo)]
  BY DEF Call
<1>10. ctl' \in Run /\ ctl'.enabled = ctl.enabled /\ ctl'.todo = Tail(ctl.todo)
  <2>1. PICK tl : tl = Tail(ctl.todo)
    OBVIOUS
  <2>2. ctl' = [ctl EXCEPT !.todo = tl] /\ tl \in Seq(Operation)
    BY <1>2, <1>9, <2>1
  <2>3. ctl' \in Run /\ ctl'.enabled = ctl.enabled /\ ctl'.todo = tl
    BY <1>1, <2>2 DEF Run
  <2> QED
    BY <2>1, <2>3
<1>11. ASSUME NEW i \in DOMAIN ctl'.todo
       PROVE  i + 1 \in DOMAIN ctl.todo /\ i + 1 # 1 /\ ctl'.todo[i] = ctl.todo[i + 1]
  <2>1. i \in 1..Len(Tail(ctl.todo))
    BY <1>2, <1>10, LenProperties
  <2>2. ctl'.todo[i] = ctl.todo[i + 1]
    BY <1>2, <1>10, <2>1
  <2>3. Len(Tail(ctl.todo)) = Len(ctl.todo) - 1
    BY <1>2
  <2>4. PICK k, l : k = Len(Tail(ctl.todo)) /\ l = Len(ctl.todo)
    OBVIOUS
  <2>5. i \in 1..k /\ k = l - 1 /\ l \in Nat \ {0} /\ DOMAIN ctl.todo = 1..l
    BY <1>3, <2>1, <2>3, <2>4
  <2>6. i + 1 \in 1..l /\ i + 1 # 1
    BY <2>5
  <2> QED
    BY <2>2, <2>5, <2>6
<1> QED
  BY <1>4, <1>7, <1>8, <1>10, <1>11

LEMMA CallStep ==
    ASSUME RenderInv, Call
    PROVE  RenderInv'
<1>1. /\ TypeOK /\ VersionInv /\ PlanInv /\ AdmittedInv
      /\ UNCHANGED <<webhook, component, revisions, defined, app, cache, ahead, history,
                     steady, changes, faults>>
  BY DEF RenderInv, Call
<1>2. PICK op : op = Head(ctl.todo)
  OBVIOUS
<1>3. /\ op \in Operation /\ 1 \in DOMAIN ctl.todo /\ op = ctl.todo[1]
      /\ op.do = "workload" => workloads' = [workloads EXCEPT ![op.name] = op.workload]
      /\ op.do = "collectWorkload" => workloads' = [workloads EXCEPT ![op.name] = NoObject]
      /\ op.do \in {"trait", "collectTrait"} => workloads' = workloads
      /\ traits' \subseteq TraitObject
      /\ ctl' \in Run /\ ctl'.enabled = ctl.enabled
      /\ \A i \in DOMAIN ctl'.todo :
            i + 1 \in DOMAIN ctl.todo /\ i + 1 # 1 /\ ctl'.todo[i] = ctl.todo[i + 1]
  BY <1>2, CallFacts
<1>4. /\ op.do \in {"workload", "trait", "collectWorkload", "collectTrait"}
      /\ op.do = "workload" => op.name \in WorkloadNames /\ op.workload \in Workload
      /\ op.do = "collectWorkload" => op.name \in WorkloadNames
  BY <1>3, OperationFacts
<1>5. /\ workloads' \in [WorkloadNames -> Workload \cup {NoObject}]
      /\ \A n \in WorkloadNames :
            \/ workloads'[n] \in {workloads[n], NoObject}
            \/ op.do = "workload" /\ n = op.name /\ workloads'[n] = op.workload
  <2>1. workloads \in [WorkloadNames -> Workload \cup {NoObject}]
    BY <1>1 DEF TypeOK
  <2>2. CASE op.do = "workload"
    BY <1>3, <1>4, <2>1, <2>2
  <2>3. CASE op.do = "collectWorkload"
    BY <1>3, <1>4, <2>1, <2>3
  <2>4. CASE op.do \in {"trait", "collectTrait"}
    BY <1>3, <2>1, <2>4
  <2> QED
    BY <1>4, <2>2, <2>3, <2>4
<1>6. TypeOK'
  BY <1>1, <1>3, <1>5 DEF TypeOK
<1>7. VersionInv'
  <2> SUFFICES ASSUME NEW n \in RevisionNames, n \in Running', NEW w, w = workloads'[n]
               PROVE  OfRevision(n, w)
    BY <1>1 DEF VersionInv, OfRevision
  <2>1. n \in WorkloadNames /\ w # NoObject
    BY DEF Running
  <2>2. CASE w = workloads[n]
    BY <1>1, <2>1, <2>2 DEF VersionInv, Running
  <2>3. CASE op.do = "workload" /\ n = op.name /\ w = op.workload
    BY <1>1, <1>3, <2>3 DEF PlanInv
  <2> QED
    BY <1>5, <2>1, <2>2, <2>3
<1>8. PlanInv'
  <2> SUFFICES ASSUME NEW i \in DOMAIN ctl'.todo, NEW x, x = ctl'.todo[i]
               PROVE  /\ x.do # "workload"
                      /\ x.do = "collectWorkload" => x.name \notin RevisionNames
    BY DEF PlanInv
  <2>1. i + 1 \in DOMAIN ctl.todo /\ i + 1 # 1 /\ x = ctl.todo[i + 1]
    BY <1>3
  <2> QED
    BY <1>1, <2>1 DEF PlanInv
<1>9. AdmittedInv'
  BY <1>1, AdmissibleLasts
<1> QED
  BY <1>6, <1>7, <1>8, <1>9 DEF RenderInv

LEMMA RecordStatusStep ==
    ASSUME RenderInv, UpdateStatus \/ ListFails
    PROVE  RenderInv'
<1>1. PICK listed \in SUBSET WorkloadNames : RecordStatus(listed)
  <2>1. \A rev, enabled : HistoryWorkloads(rev, enabled) \in SUBSET WorkloadNames
    BY DEF HistoryWorkloads, Running
  <2>2. {} \in SUBSET WorkloadNames
    OBVIOUS
  <2> QED
    BY <2>1, <2>2 DEF UpdateStatus, ListFails
<1>2. /\ TypeOK /\ AdmittedInv /\ ctl' = Idle
      /\ UNCHANGED <<webhook, component, revisions, defined, workloads, traits, ahead, history>>
  BY <1>1 DEF RenderInv, RecordStatus
<1>3. steady' \in BOOLEAN /\ changes' \in 0..MaxChanges /\ faults' \in 0..MaxFaults
  <2>1. CASE UpdateStatus
    BY <1>2, <2>1 DEF UpdateStatus, TypeOK
  <2>2. CASE ListFails
    <3>1. steady' = FALSE /\ Fault
      BY <2>2 DEF ListFails
    <3>2. steady' \in BOOLEAN
      BY <3>1
    <3>3. changes' \in 0..MaxChanges /\ faults' \in 0..MaxFaults
      BY <1>2, <3>1, CountFacts DEF TypeOK
    <3> QED
      BY <3>2, <3>3
  <2> QED
    BY <2>1, <2>2
<1> DEFINE done == [ctl.plan EXCEPT !.history = listed]
           st == IF ctl.at = "error" THEN app.status ELSE done
           cond == IF ctl.at = "error" THEN "error" ELSE "success"
           new == [app EXCEPT !.status = st, !.condition = cond, !.observed = app.generation]
<1>4. Written(new) \/ UNCHANGED <<app, cache>>
  <2>1. new = [app EXCEPT !.status = IF ctl.at = "error" THEN @ ELSE done,
                          !.condition = IF ctl.at = "error" THEN "error" ELSE "success",
                          !.observed = Observed(app.generation)]
    BY <1>2, AppFacts DEF Observed, App
  <2> QED
    BY <1>1, <2>1 DEF RecordStatus
<1>5. st \in Status
  <2>1. done \in Status
    BY <1>2, RunFacts DEF Status
  <2> HIDE DEF done
  <2> QED
    BY <1>2, <2>1, AppFacts
<1>6. cond \in {"none", "success", "error"}
  OBVIOUS
<1> HIDE DEF st, cond
<1>7. new \in App /\ new.observed <= new.generation /\ new.spec = app.spec
  <2>1. app \in App /\ app.generation \in Nat
    BY <1>2, AppFacts
  <2>2. new \in App /\ new.observed = app.generation /\ new.generation = app.generation
        /\ new.spec = app.spec
    BY <1>5, <1>6, <2>1 DEF App
  <2> HIDE DEF new
  <2> QED
    BY <2>1, <2>2
<1> HIDE DEF new
<1>8. /\ app' \in App /\ cache' \in [app : App, current : BOOLEAN]
      /\ \A x \in {app', cache'.app} : x.observed <= x.generation
      /\ cache'.current => cache'.app = app'
      /\ app'.spec = app.spec /\ cache'.app.spec = cache.app.spec
  <2>1. CASE Written(new)
    <3>1. /\ app' = new /\ cache' \in [app : App, current : BOOLEAN]
          /\ cache'.app = cache.app /\ ~cache'.current
          /\ \A x \in {app', cache'.app} : x.observed <= x.generation
      BY <1>2, <1>7, <2>1, WrittenFacts
    <3> QED
      BY <1>7, <3>1
  <2>2. CASE UNCHANGED <<app, cache>>
    BY <1>2, <2>2 DEF TypeOK
  <2> QED
    BY <1>4, <2>1, <2>2
<1>9. ctl' \in Run /\ ctl'.todo = <<>>
  BY <1>2, IdleFacts
<1>10. TypeOK'
  BY <1>2, <1>3, <1>8, <1>9 DEF TypeOK
<1>11. VersionInv' /\ PlanInv'
  BY <1>2, <1>9, QuietStep
<1>12. AdmittedInv'
  BY <1>2, <1>8, AdmissibleLasts
<1> QED
  BY <1>10, <1>11, <1>12 DEF RenderInv

-------------------------------------------------------------------------------
(* The invariant *)

LEMMA InitInv ==
    ASSUME Init
    PROVE  RenderInv
<1>1. PICK c \in Contents :
          component = [content |-> IF webhook THEN MutateComponent(c) ELSE c, rev |-> 0]
  BY DEF Init
<1>2. PICK e \in Entries :
          /\ e.pin = 0
          /\ webhook => Found(e) /\ Valid(component.content, Mutate(e), defined)
          /\ app = [spec |-> IF webhook THEN Mutate(e) ELSE e, generation |-> 1,
                    status |-> NoStatus, condition |-> "none", observed |-> 0]
  BY DEF Init
<1>3. /\ defined = TraitKinds \cup {WorkloadKind} /\ revisions = <<>>
      /\ cache = [app |-> app, current |-> TRUE]
      /\ workloads = [n \in WorkloadNames |-> NoObject] /\ traits = {} /\ ctl = Idle /\ ahead = {}
      /\ history = (IF webhook THEN {} ELSE {"slipped"}) /\ steady = FALSE
      /\ changes = 0 /\ faults = 0
  BY DEF Init
<1>4. webhook \in Webhooks /\ webhook \in BOOLEAN
  BY RenderingAssumption DEF Init
<1>5. component \in [content : Content, rev : 0..MaxRevisions] /\ component.rev = 0
  <2>1. (IF webhook THEN MutateComponent(c) ELSE c) \in Content
    BY ContentFacts, RenderingAssumption
  <2> QED
    BY <1>1, <2>1, RenderingAssumption
<1> DEFINE spec == IF webhook THEN Mutate(e) ELSE e
<1>6. spec \in Entry /\ spec.pin = 0
  <2>1. e \in Entry /\ Mutate(e) \in Entry
    BY MutateType, RenderingAssumption
  <2>2. Mutate(e).pin = e.pin
    BY <2>1 DEF Mutate, Entry
  <2> QED
    BY <1>2, <2>1, <2>2
<1>7. /\ app.spec = spec /\ app.observed = 0 /\ app.generation = 1
  BY <1>2
<1> HIDE DEF spec
<1>8. app \in App
  <2>1. NoStatus \in Status
    <3>1. <<>> \in Seq(TraitRef)
      BY EmptySeq
    <3> QED
      BY <3>1, RenderingAssumption DEF NoStatus, Status, NoWorkload
  <2> QED
    BY <1>2, <1>6, <2>1 DEF App, spec
<1>9. /\ cache \in [app : App, current : BOOLEAN] /\ cache.app = app
  BY <1>3, <1>8
<1>10. revisions \in Seq(Content) /\ Len(revisions) = 0
  BY <1>3, EmptySeq
<1>11. steady \in BOOLEAN /\ history \subseteq {"hasty", "slipped"}
  BY <1>3
<1>12. /\ workloads \in [WorkloadNames -> Workload \cup {NoObject}]
       /\ traits \subseteq TraitObject /\ ctl \in Run /\ ctl.todo = <<>>
  BY <1>3, IdleFacts
<1>13. changes \in 0..MaxChanges /\ faults \in 0..MaxFaults
  BY <1>3, RenderingAssumption
<1>14. TypeOK
  BY <1>3, <1>4, <1>5, <1>7, <1>8, <1>9, <1>10, <1>11, <1>12, <1>13 DEF TypeOK
<1>15. VersionInv
  BY <1>3 DEF VersionInv, Running
<1>16. PlanInv
  BY <1>12 DEF PlanInv
<1>17. AdmittedInv
  <2>1. CASE webhook = FALSE
    BY <1>3, <2>1 DEF AdmittedInv
  <2>2. CASE webhook = TRUE
    <3>1. Valid(component.content, spec, defined)
      BY <1>2, <2>2 DEF spec
    <3>2. ContentOf(spec) = component.content
      BY <1>6 DEF ContentOf
    <3>3. spec.component = e.component
      BY <2>2, RenderingAssumption DEF spec, Mutate, Entry
    <3>4. Found(spec)
      BY <1>2, <1>6, <1>10, <2>2, <3>3 DEF Found
    <3> QED
      BY <1>7, <1>9, <3>1, <3>2, <3>4 DEF AdmittedInv, Admissible
  <2> QED
    BY <1>4, <2>1, <2>2
<1> QED
  BY <1>14, <1>15, <1>16, <1>17 DEF RenderInv

\* One case for each disjunct of Next.
LEMMA NextKeepsInv ==
    ASSUME RenderInv, [Next]_vars
    PROVE  RenderInv'
<1>1. ASSUME NEW e \in Entries, EditApp(e) PROVE RenderInv'
  BY <1>1, EditAppStep
<1>2. ASSUME NEW c \in Contents, EditComponent(c) PROVE RenderInv'
  BY <1>2, EditComponentStep
<1>3. CASE PublishRevision
  BY <1>3, PublishRevisionStep
<1>4. ASSUME NEW k \in TraitKinds \cup {WorkloadKind}, Redefine(k) PROVE RenderInv'
  BY <1>4, RedefineStep
<1>5. ASSUME NEW n \in WorkloadNames, RolloutDeletes(n) PROVE RenderInv'
  BY <1>5, RolloutDeletesStep
<1>6. CASE Deliver
  BY <1>6, DeliverStep
<1>7. CASE Render
  BY <1>7, RenderStep
<1>8. CASE Call
  BY <1>8, CallStep
<1>9. CASE UpdateStatus \/ ListFails
  BY <1>9, RecordStatusStep
<1>10. CASE CallFails
  BY <1>10, CallFailsStep
<1>11. CASE Restart
  BY <1>11, RestartStep
<1>12. CASE UNCHANGED vars
  <2>1. /\ TypeOK /\ AdmittedInv
        /\ UNCHANGED <<webhook, component, revisions, defined, app, cache, workloads, traits>>
        /\ UNCHANGED <<ctl, ahead, history, steady, changes, faults>>
    BY <1>12 DEF vars, RenderInv
  <2>2. TypeOK'
    BY <2>1 DEF TypeOK
  <2>3. VersionInv' /\ PlanInv'
    BY <2>1, QuietStep
  <2>4. AdmittedInv'
    BY <2>1, AdmissibleLasts
  <2> QED
    BY <2>2, <2>3, <2>4 DEF RenderInv
<1> QED
  BY <1>1, <1>2, <1>3, <1>4, <1>5, <1>6, <1>7, <1>8, <1>9, <1>10, <1>11, <1>12
  DEF Next, Reconcile

\* The inductive invariant holds in every reachable state, for every set of contents and entries
\* and whatever the bounds: what render.go and apply.go leave running under the name of a revision
\* is of that revision, and what is left to do keeps it so.
THEOREM RenderInvariant == Spec => []RenderInv
<1>1. Init => RenderInv
  BY InitInv
<1>2. RenderInv /\ [Next]_vars => RenderInv'
  BY NextKeepsInv
<1> QED
  BY <1>1, <1>2, PTL DEF Spec

\* A workload with the name of a revision has the contents and the label of that revision
\* (SetWorkloadInstanceName, GetComponent).
THEOREM RevisionsImmutable == Spec => []RevisionImmutable
<1>1. ASSUME RenderInv PROVE RevisionImmutable
  <2> SUFFICES ASSUME NEW n \in (1..Len(revisions)) \ ahead, n \in Running
               PROVE  workloads[n] = [label |-> n, data |-> revisions[n].data]
    BY DEF RevisionImmutable
  <2>1. /\ workloads \in [WorkloadNames -> Workload \cup {NoObject}]
        /\ component.rev = Len(revisions) /\ component.rev \in 0..MaxRevisions
    BY <1>1 DEF RenderInv, TypeOK
  <2>2. n \in RevisionNames
    BY <2>1, RenderingAssumption DEF RevisionNames
  <2>3. workloads[n].label = n /\ workloads[n].data = revisions[n].data
    BY <1>1, <2>2 DEF RenderInv, VersionInv, OfRevision
  <2>4. workloads[n] \in Workload
    BY <2>1 DEF Running
  <2> QED
    BY <2>3, <2>4 DEF Workload
<1> QED
  BY <1>1, RenderInvariant, PTL

\* What a step does to the workloads: the reconciler writes the one it rendered or collects one
\* that has not the name of a revision; only the rollout deletes others.
LEMMA WorkloadSteps ==
    ASSUME RenderInv, [Next]_vars
    PROVE  \/ UNCHANGED workloads
           \/ \E n \in WorkloadNames : RolloutDeletes(n)
           \/ \E n \in WorkloadNames \ RevisionNames :
                 workloads' = [workloads EXCEPT ![n] = NoObject]
           \/ \E n \in WorkloadNames, w \in Workload :
                 /\ workloads' = [workloads EXCEPT ![n] = w]
                 /\ ctl.enabled /\ "slipped" \notin history /\ n \in Running =>
                       workloads[n].label = w.label
<1>1. CASE Call
  <2>1. PICK op : op = Head(ctl.todo)
    OBVIOUS
  <2>2. /\ op \in Operation /\ 1 \in DOMAIN ctl.todo /\ op = ctl.todo[1]
        /\ op.do = "workload" => workloads' = [workloads EXCEPT ![op.name] = op.workload]
        /\ op.do = "collectWorkload" => workloads' = [workloads EXCEPT ![op.name] = NoObject]
        /\ op.do \in {"trait", "collectTrait"} => workloads' = workloads
    BY <1>1, <2>1, CallFacts DEF RenderInv
  <2>3. /\ op.do \in {"workload", "trait", "collectWorkload", "collectTrait"}
        /\ op.do = "workload" => op.name \in WorkloadNames /\ op.workload \in Workload
        /\ op.do = "collectWorkload" => op.name \in WorkloadNames
    BY <2>2, OperationFacts
  <2>4. /\ op.do = "collectWorkload" => op.name \notin RevisionNames
        /\ op.do = "workload" =>
              (ctl.enabled /\ "slipped" \notin history /\ op.name \in Running =>
                  workloads[op.name].label = op.workload.label)
    BY <2>2 DEF RenderInv, PlanInv
  <2>5. CASE op.do = "workload"
    BY <2>2, <2>3, <2>4, <2>5
  <2>6. CASE op.do = "collectWorkload"
    BY <2>2, <2>3, <2>4, <2>6
  <2>7. CASE op.do \in {"trait", "collectTrait"}
    BY <2>2, <2>7
  <2> QED
    BY <2>3, <2>5, <2>6, <2>7
<1>2. CASE \E n \in WorkloadNames : RolloutDeletes(n)
  BY <1>2
<1>3. CASE \/ \E e \in Entries : EditApp(e)
           \/ \E c \in Contents : EditComponent(c)
           \/ \E k \in TraitKinds \cup {WorkloadKind} : Redefine(k)
           \/ PublishRevision \/ Deliver \/ Render \/ CallFails \/ Restart
  BY <1>3 DEF EditApp, EditComponent, Redefine, PublishRevision, Deliver, Render, CallFails, Restart
<1>4. CASE UpdateStatus \/ ListFails
  BY <1>4 DEF UpdateStatus, ListFails, RecordStatus
<1>5. CASE UNCHANGED vars
  BY <1>5 DEF vars
<1> QED
  BY <1>1, <1>2, <1>3, <1>4, <1>5 DEF Next, Reconcile

\* The reconciler does not delete the workload of a revision (eligible, IsRevisionWorkload).
THEOREM OldRevisionsKept == Spec => OldRevisionKept
<1>1. ASSUME RenderInv, [Next]_vars, NEW n \in RevisionNames, n \in Running, n \notin Running'
      PROVE  \E m \in WorkloadNames : RolloutDeletes(m)
  <2>1. workloads \in [WorkloadNames -> Workload \cup {NoObject}] /\ n \in WorkloadNames
    BY <1>1, NamesFacts DEF RenderInv, TypeOK
  <2>2. workloads[n] # NoObject /\ workloads'[n] = NoObject
    BY <1>1, <2>1 DEF Running
  <2>3. CASE UNCHANGED workloads
    BY <2>2, <2>3
  <2>4. ASSUME NEW m \in WorkloadNames \ RevisionNames,
               workloads' = [workloads EXCEPT ![m] = NoObject]
        PROVE  FALSE
    BY <2>1, <2>2, <2>4
  <2>5. ASSUME NEW m \in WorkloadNames, NEW w \in Workload,
               workloads' = [workloads EXCEPT ![m] = w]
        PROVE  FALSE
    BY <2>1, <2>2, <2>5, NoObjectAssumption
  <2> QED
    BY <1>1, <2>3, <2>4, <2>5, WorkloadSteps
<1>2. RenderInv /\ [Next]_vars =>
          [\A n \in RevisionNames :
              n \in Running /\ n \notin Running' => \E m \in WorkloadNames : RolloutDeletes(m)]_vars
  BY <1>1
<1> QED
  BY <1>2, RenderInvariant, PTL DEF Spec, OldRevisionKept

\* Under a trait that asks for revisions no running workload is turned into one of another
\* revision (ValidateWorkloadNameForVersioningFn, SetWorkloadInstanceName).
THEOREM NoWorkloadTakenOver == Spec => NoTakeover
<1>1. ASSUME RenderInv, [Next]_vars, NEW n \in Running \cap Running',
             workloads[n].label # workloads'[n].label, ctl.enabled, "slipped" \notin history
      PROVE  FALSE
  <2>1. workloads \in [WorkloadNames -> Workload \cup {NoObject}] /\ n \in WorkloadNames
    BY <1>1 DEF RenderInv, TypeOK, Running
  <2>2. workloads'[n] # NoObject
    BY <1>1 DEF Running
  <2>3. CASE UNCHANGED workloads
    BY <1>1, <2>3
  <2>4. ASSUME NEW m \in WorkloadNames, workloads' = [workloads EXCEPT ![m] = NoObject]
        PROVE  FALSE
    BY <1>1, <2>1, <2>2, <2>4
  <2>5. ASSUME NEW m \in WorkloadNames, NEW w \in Workload,
               workloads' = [workloads EXCEPT ![m] = w],
               m \in Running => workloads[m].label = w.label
        PROVE  FALSE
    BY <1>1, <2>1, <2>2, <2>5
  <2>6. ASSUME NEW m \in WorkloadNames, RolloutDeletes(m) PROVE FALSE
    BY <2>4, <2>6 DEF RolloutDeletes
  <2> QED
    BY <1>1, <2>3, <2>4, <2>5, <2>6, WorkloadSteps
<1>2. RenderInv /\ [Next]_vars =>
          [\A n \in Running \cap Running' :
              workloads[n].label # workloads[n].label' => ~ctl.enabled \/ "slipped" \in history]_vars
  BY <1>1
<1> QED
  BY <1>2, RenderInvariant, PTL DEF Spec, NoTakeover

-------------------------------------------------------------------------------
(* The elements of sequences *)

LEMMA ToSetFacts ==
    ASSUME NEW S, NEW s \in Seq(S)
    PROVE  ToSet(s) = {s[i] : i \in 1..Len(s)} /\ ToSet(s) \subseteq S
<1>1. Len(s) \in Nat /\ DOMAIN s = 1..Len(s) /\ s \in [1..Len(s) -> S]
  BY LenProperties
<1> QED
  BY <1>1 DEF ToSet

LEMMA ToSetTail ==
    ASSUME NEW S, NEW s \in Seq(S), s # <<>>
    PROVE  ToSet(s) = {Head(s)} \cup ToSet(Tail(s))
<1> DEFINE n == Len(s)
           tl == Tail(s)
<1>1. /\ Head(s) \in S /\ tl \in Seq(S) /\ Len(tl) = n - 1
      /\ \A i \in 1..Len(tl) : tl[i] = s[i + 1]
  BY HeadTailProperties
<1>2. n \in Nat \ {0} /\ Head(s) = s[1]
  BY EmptySeq, LenProperties
<1>3. ToSet(s) = {s[i] : i \in 1..n} /\ ToSet(tl) = {tl[i] : i \in 1..Len(tl)}
  BY <1>1, ToSetFacts
<1> HIDE DEF n, tl
<1>4. ASSUME NEW i \in 1..n PROVE s[i] \in {Head(s)} \cup ToSet(tl)
  <2>1. CASE i = 1
    BY <1>2, <2>1
  <2>2. CASE i # 1
    <3>1. i - 1 \in 1..(n - 1) /\ (i - 1) + 1 = i
      BY <1>2, <2>2
    <3>2. tl[i - 1] = s[i] /\ i - 1 \in 1..Len(tl)
      BY <1>1, <3>1
    <3> QED
      BY <1>3, <3>2
  <2> QED
    BY <2>1, <2>2
<1>5. ASSUME NEW i \in 1..Len(tl) PROVE tl[i] \in ToSet(s)
  <2>1. i + 1 \in 1..n /\ tl[i] = s[i + 1]
    BY <1>1, <1>2
  <2> QED
    BY <1>3, <2>1
<1>6. Head(s) \in ToSet(s)
  BY <1>2, <1>3
<1> QED
  BY <1>3, <1>4, <1>5, <1>6 DEF tl

LEMMA ToSetConcat ==
    ASSUME NEW S, NEW a \in Seq(S), NEW b \in Seq(S)
    PROVE  a \o b \in Seq(S) /\ ToSet(a \o b) = ToSet(a) \cup ToSet(b)
<1> DEFINE t == a \o b
           m == Len(a)
           n == Len(b)
<1>1. /\ t \in Seq(S) /\ Len(t) = m + n
      /\ \A i \in 1..(m + n) : t[i] = IF i <= m THEN a[i] ELSE b[i - m]
  BY ConcatProperties, Zenon
<1>2. m \in Nat /\ n \in Nat
  BY LenProperties
<1>3. /\ ToSet(t) = {t[i] : i \in 1..(m + n)}
      /\ ToSet(a) = {a[i] : i \in 1..m} /\ ToSet(b) = {b[i] : i \in 1..n}
  BY <1>1, ToSetFacts
<1> HIDE DEF t, m, n
<1>4. ASSUME NEW i \in 1..(m + n) PROVE t[i] \in ToSet(a) \cup ToSet(b)
  <2>1. CASE i <= m
    <3>1. t[i] = a[i] /\ i \in 1..m
      BY <1>1, <1>2, <2>1
    <3> QED
      BY <1>3, <3>1
  <2>2. CASE ~(i <= m)
    <3>1. t[i] = b[i - m] /\ i - m \in 1..n
      BY <1>1, <1>2, <2>2
    <3> QED
      BY <1>3, <3>1
  <2> QED
    BY <2>1, <2>2
<1>5. ASSUME NEW i \in 1..m PROVE a[i] \in ToSet(t)
  <2>1. i \in 1..(m + n) /\ t[i] = a[i]
    BY <1>1, <1>2
  <2> QED
    BY <1>3, <2>1
<1>6. ASSUME NEW i \in 1..n PROVE b[i] \in ToSet(t)
  <2>1. i + m \in 1..(m + n) /\ ~(i + m <= m) /\ (i + m) - m = i
    BY <1>2
  <2>2. t[i + m] = b[i]
    BY <1>1, <2>1
  <2> QED
    BY <1>3, <2>1, <2>2
<1>7. ToSet(t) = ToSet(a) \cup ToSet(b)
  BY <1>3, <1>4, <1>5, <1>6
<1> QED
  BY <1>1, <1>7 DEF t

\* Picked leaves out nothing that is at a position in I.
LEMMA PickedAll ==
    ASSUME NEW S, NEW s \in Seq(S), NEW I \in SUBSET DOMAIN s
    PROVE  ToSet(Picked(s, I)) = {s[i] : i \in I}
<1> DEFINE upTo(i) == {j \in I : j <= i}
           rank(i) == Cardinality(upTo(i))
<1>1. Len(s) \in Nat /\ DOMAIN s = 1..Len(s)
  BY LenProperties
<1>2. I \subseteq 1..Len(s) /\ I \subseteq Nat
  BY <1>1
<1>3. IsFiniteSet(I) /\ Cardinality(I) \in Nat
  <2>1. IsFiniteSet(1..Len(s))
    BY <1>1, FS_Interval
  <2> QED
    BY <1>2, <2>1, FS_Subset, FS_CardinalityType
<1>4. ASSUME NEW J \in SUBSET I
      PROVE  IsFiniteSet(J) /\ Cardinality(J) \in Nat /\ Cardinality(J) <= Cardinality(I)
  BY <1>3, FS_Subset, FS_CardinalityType
<1>5. ASSUME NEW i \in I, NEW j \in I, i < j PROVE rank(i) < rank(j)
  <2>1. j \notin upTo(i) /\ upTo(i) \cup {j} \subseteq upTo(j)
    BY <1>2, <1>5
  <2>2. upTo(i) \in SUBSET I /\ upTo(j) \in SUBSET I
    OBVIOUS
  <2> HIDE DEF upTo
  <2>3. IsFiniteSet(upTo(i)) /\ IsFiniteSet(upTo(j)) /\ rank(i) \in Nat /\ rank(j) \in Nat
    BY <1>4, <2>2
  <2>4. Cardinality(upTo(i) \cup {j}) = rank(i) + 1
    BY <2>1, <2>3, FS_AddElement
  <2>5. Cardinality(upTo(i) \cup {j}) <= rank(j)
    BY <2>1, <2>3, FS_Subset
  <2> QED
    BY <2>3, <2>4, <2>5
<1>6. ASSUME NEW i \in I, NEW j \in I, rank(i) = rank(j) PROVE i = j
  <2>1. i \in Nat /\ j \in Nat
    BY <1>2
  <2>2. CASE i < j
    <3>1. rank(i) < rank(j)
      BY <1>5, <2>2
    <3>2. rank(i) \in Nat /\ rank(j) \in Nat
      <4>1. upTo(i) \in SUBSET I /\ upTo(j) \in SUBSET I
        OBVIOUS
      <4> HIDE DEF upTo
      <4> QED
        BY <1>4, <4>1
    <3> HIDE DEF rank
    <3> QED
      BY <1>6, <3>1, <3>2
  <2>3. CASE j < i
    <3>1. rank(j) < rank(i)
      BY <1>5, <2>3
    <3>2. rank(i) \in Nat /\ rank(j) \in Nat
      <4>1. upTo(i) \in SUBSET I /\ upTo(j) \in SUBSET I
        OBVIOUS
      <4> HIDE DEF upTo
      <4> QED
        BY <1>4, <4>1
    <3> HIDE DEF rank
    <3> QED
      BY <1>6, <3>1, <3>2
  <2> QED
    BY <2>1, <2>2, <2>3
<1>7. ASSUME NEW i \in I PROVE rank(i) \in 1..Cardinality(I)
  <2>1. i \in upTo(i) /\ upTo(i) \in SUBSET I
    BY <1>2
  <2> HIDE DEF upTo
  <2>2. IsFiniteSet(upTo(i)) /\ rank(i) \in Nat /\ rank(i) <= Cardinality(I)
    BY <1>4, <2>1
  <2>3. rank(i) # 0
    BY <2>1, <2>2, FS_EmptySet
  <2> HIDE DEF rank
  <2> QED
    BY <1>3, <2>2, <2>3
<1> DEFINE p == Picked(s, I)
<1>8. /\ p \in Seq(S) /\ DOMAIN p = 1..Cardinality(I)
      /\ \A k \in DOMAIN p : \E i \in I : p[k] = s[i]
  <2>1. DOMAIN p = 1..Cardinality(I)
    BY DEF Picked
  <2> HIDE DEF p
  <2>2. Picked(s, I) = p
    BY DEF p
  <2>3. p \in Seq(S) /\ \A k \in DOMAIN p : \E i \in I : p[k] = s[i]
    BY <2>2, PickedFacts
  <2> QED
    BY <2>1, <2>3
<1>9. ASSUME NEW i \in I PROVE \E k \in DOMAIN p : p[k] = s[i]
  <2> DEFINE k == rank(i)
             c == CHOOSE j \in I : Cardinality({l \in I : l <= j}) = k
  <2>1. k \in 1..Cardinality(I)
    BY <1>7
  <2>2. p[k] = s[c]
    <3> HIDE DEF k
    <3> QED
      BY <2>1 DEF Picked
  <2>3. c \in I /\ rank(c) = k
    <3>1. \E j \in I : Cardinality({l \in I : l <= j}) = k
      OBVIOUS
    <3> HIDE DEF k
    <3>2. c \in I /\ Cardinality({l \in I : l <= c}) = k
      BY <3>1
    <3> QED
      BY <3>2
  <2>4. c = i
    <3> HIDE DEF c
    <3> QED
      BY <1>6, <2>3
  <2> QED
    BY <1>8, <2>1, <2>2, <2>4
<1> HIDE DEF p
<1>10. ToSet(p) = {p[k] : k \in DOMAIN p}
  BY DEF ToSet
<1>11. ToSet(p) = {s[i] : i \in I}
  BY <1>8, <1>9, <1>10
<1> QED
  BY <1>11 DEF p

-------------------------------------------------------------------------------
(* The plan of a reconciliation *)

\* eligible collects what the status lists and the rendering has not.
LEMMA EligibleSet ==
    ASSUME NEW status \in Status, NEW name, NEW applied
    PROVE  ToSet(Eligible(status, name, applied)) =
               {[do |-> "collectWorkload", name |-> n] :
                   n \in {status.workload} \ ({NoWorkload, name} \cup RevisionNames)}
               \cup {[do |-> "collectTrait", trait |-> r] : r \in ToSet(status.traits) \ applied}
<1> DEFINE w == [do |-> "collectWorkload", name |-> status.workload]
           a == IF status.workload \notin {NoWorkload, name} /\ ~IsRevisionWorkload(status.workload)
                THEN <<w>> ELSE <<>>
           I == {i \in DOMAIN status.traits : status.traits[i] \notin applied}
           gone == Picked(status.traits, I)
           b == [i \in DOMAIN gone |-> [do |-> "collectTrait", trait |-> gone[i]]]
           A == {[do |-> "collectWorkload", name |-> n] :
                   n \in {status.workload} \ ({NoWorkload, name} \cup RevisionNames)}
           B == {[do |-> "collectTrait", trait |-> r] : r \in ToSet(status.traits) \ applied}
<1>1. a \in Seq(A) /\ ToSet(a) = A
  <2>1. CASE status.workload \notin {NoWorkload, name} /\ ~IsRevisionWorkload(status.workload)
    <3>1. a = <<w>> /\ w \in A /\ A = {w}
      BY <2>1 DEF IsRevisionWorkload
    <3> HIDE DEF w, A
    <3>2. <<w>> \in Seq(A) /\ ToSet(<<w>>) = {w}
      BY <3>1 DEF ToSet
    <3> QED
      BY <3>1, <3>2
  <2>2. CASE ~(status.workload \notin {NoWorkload, name} /\ ~IsRevisionWorkload(status.workload))
    <3>1. a = <<>> /\ A = {}
      BY <2>2 DEF IsRevisionWorkload
    <3>2. <<>> \in Seq(A) /\ ToSet(<<>>) = {}
      BY EmptySeq DEF ToSet
    <3> QED
      BY <3>1, <3>2
  <2> QED
    BY <2>1, <2>2
<1>2. /\ gone \in Seq(TraitRef) /\ ToSet(gone) = {status.traits[i] : i \in I}
  <2>1. status.traits \in Seq(TraitRef)
    BY StatusFacts
  <2>2. I \in SUBSET DOMAIN status.traits
    OBVIOUS
  <2> HIDE DEF I
  <2> QED
    BY <2>1, <2>2, PickedFacts, PickedAll
<1>3. ToSet(gone) = ToSet(status.traits) \ applied
  BY <1>2 DEF ToSet
<1> HIDE DEF gone
<1>4. \A i \in DOMAIN gone : gone[i] \in ToSet(gone)
  BY DEF ToSet
<1>5. b \in Seq(B) /\ ToSet(b) = B
  <2>1. b \in [DOMAIN gone -> B]
    BY <1>3, <1>4
  <2>2. b \in Seq(B)
    <3> HIDE DEF b
    <3> QED
      BY <1>2, <2>1, MappedSeq
  <2>3. ToSet(b) = {[do |-> "collectTrait", trait |-> r] : r \in ToSet(gone)}
    BY DEF ToSet
  <2> QED
    BY <1>3, <2>2, <2>3
<1>6. Eligible(status, name, applied) = a \o b
  BY DEF Eligible, gone
<1> HIDE DEF a, b, A, B
<1>7. a \in Seq(A \cup B) /\ b \in Seq(A \cup B)
  <2>1. \A s \in Seq(A) : s \in Seq(A \cup B)
    BY LenProperties
  <2>2. \A s \in Seq(B) : s \in Seq(A \cup B)
    BY LenProperties
  <2> QED
    BY <1>1, <1>5, <2>1, <2>2
<1>8. ToSet(a \o b) = ToSet(a) \cup ToSet(b)
  BY <1>7, ToSetConcat
<1> QED
  BY <1>1, <1>5, <1>6, <1>8 DEF A, B

\* The plan made of the entry e under this status, and the calls that carry it out.
LEMMA PlanFacts ==
    ASSUME TypeOK, VersionInv, NEW e \in Entry, Renders(e), NEW status \in Status,
           NEW fresh \in BOOLEAN
    PROVE  LET c == Rendered(e, status, fresh)
               name == SetWorkloadInstanceName(e, status) IN
           /\ c.at = "apply" /\ c.fresh = fresh /\ c.enabled = RevisionEnabled(e, defined)
           /\ c.plan.workload = name
           /\ c.plan.traits \in Seq(TraitRef) /\ DOMAIN c.plan.traits = DOMAIN e.traits
           /\ Len(c.plan.traits) = Len(e.traits)
           /\ \A i \in DOMAIN e.traits :
                 c.plan.traits[i] = RefOf(RenderTrait(e.traits[i], name, status))
           /\ c.todo # <<>> /\ Head(c.todo) = WorkloadOp(e, status)
           /\ ToSet(c.todo) =
                 {WorkloadOp(e, status)}
                 \cup {[do |-> "trait", trait |-> RenderTrait(e.traits[i], name, status)] :
                          i \in DOMAIN e.traits}
                 \cup {[do |-> "collectWorkload", name |-> n] :
                          n \in {status.workload} \ ({NoWorkload, name} \cup RevisionNames)}
                 \cup {[do |-> "collectTrait", trait |-> r] :
                          r \in ToSet(status.traits) \ ToSet(c.plan.traits)}
<1> DEFINE c == Rendered(e, status, fresh)
           name == SetWorkloadInstanceName(e, status)
           ts == [i \in DOMAIN e.traits |-> RenderTrait(e.traits[i], name, status)]
           refs == [i \in DOMAIN ts |-> RefOf(ts[i])]
           plan == [rev |-> RevisionOf(e), workload |-> name, traits |-> refs, history |-> {}]
           b == [i \in DOMAIN ts |-> [do |-> "trait", trait |-> ts[i]]]
           w == WorkloadOp(e, status)
           el == Eligible(status, name, ToSet(refs))
           todo == <<w>> \o b \o el
<1>1. c = [at |-> "apply", fresh |-> fresh, enabled |-> RevisionEnabled(e, defined),
           plan |-> plan, todo |-> todo]
  BY DEF Rendered, WorkloadOp
<1>2. /\ c \in Run
      /\ \A i \in DOMAIN c.todo : IF i = 1 THEN c.todo[i] = w ELSE c.todo[i] \in LaterOps
  BY RenderedFacts
<1>p. plan.workload = name /\ plan.traits = refs
  OBVIOUS
<1> HIDE DEF plan, todo, c
<1>3. c.todo = todo /\ c.plan = plan /\ c.at = "apply" /\ c.fresh = fresh
      /\ c.enabled = RevisionEnabled(e, defined)
  BY <1>1
<1>4. c.plan.workload = name /\ c.plan.traits = refs
  BY <1>p, <1>3
<1>5. name \in WorkloadNames
  BY NameFacts
<1> HIDE DEF name
<1>6. ASSUME NEW i \in DOMAIN e.traits
      PROVE  /\ RenderTrait(e.traits[i], name, status) \in TraitObject
             /\ RefOf(RenderTrait(e.traits[i], name, status)) \in TraitRef
  <2>1. e.traits[i] \in Trait /\ e.traits[i].form # "type"
    BY EntryFacts DEF Renders
  <2> QED
    BY <1>5, <2>1, RenderTraitType
<1>7. /\ refs \in [DOMAIN e.traits -> TraitRef]
      /\ \A i \in DOMAIN e.traits : refs[i] = RefOf(RenderTrait(e.traits[i], name, status))
      /\ b \in [DOMAIN e.traits -> LaterOps]
      /\ \A i \in DOMAIN e.traits :
            b[i] = [do |-> "trait", trait |-> RenderTrait(e.traits[i], name, status)]
  <2>1. DOMAIN ts = DOMAIN e.traits
    OBVIOUS
  <2>2. \A i \in DOMAIN e.traits : ts[i] = RenderTrait(e.traits[i], name, status)
    OBVIOUS
  <2> HIDE DEF ts
  <2>3. \A t \in TraitObject : [do |-> "trait", trait |-> t] \in LaterOps
    BY DEF LaterOps, Operation
  <2> QED
    BY <1>6, <2>1, <2>2, <2>3
<1> HIDE DEF refs, b
<1>8. refs \in Seq(TraitRef) /\ Len(refs) = Len(e.traits) /\ DOMAIN refs = DOMAIN e.traits
  BY <1>7, EntryFacts, MappedSeq
<1>9. b \in Seq(LaterOps) /\ DOMAIN b = DOMAIN e.traits
  BY <1>7, EntryFacts, MappedSeq
<1>10. el \in Seq(LaterOps)
  BY EligibleFacts
<1>11. w \in Operation /\ todo \in Seq(Operation) /\ todo # <<>> /\ Head(todo) = w
  <2>1. c.todo \in Seq(Operation)
    BY <1>2 DEF Run
  <2>2. w \in Operation
    <3>1. /\ RevisionOf(e) \in 0..MaxRevisions /\ ContentOf(e) \in Content
      BY RevisionFacts DEF Renders
    <3>2. [label |-> RevisionOf(e), data |-> ContentOf(e).data] \in Workload
      BY <3>1, ContentFacts DEF Workload
    <3> QED
      BY <1>5, <3>2 DEF WorkloadOp, Operation, name
  <2> HIDE DEF w, el
  <2>3. /\ <<w>> \in Seq(Operation) /\ Len(<<w>>) = 1 /\ <<w>>[1] = w
    BY <2>2
  <2>4. b \in Seq(Operation) /\ el \in Seq(Operation)
    <3>1. LaterOps \subseteq Operation
      BY DEF LaterOps
    <3>2. \A s \in Seq(LaterOps) : s \in Seq(Operation)
      BY <3>1, LenProperties
    <3> QED
      BY <1>9, <1>10, <3>2
  <2> DEFINE a == <<w>>
  <2> HIDE DEF a
  <2>5. /\ a \o b \in Seq(Operation) /\ Len(a \o b) = Len(a) + Len(b)
        /\ \A i \in 1..(Len(a) + Len(b)) : (a \o b)[i] = IF i <= Len(a) THEN a[i] ELSE b[i - Len(a)]
    BY <2>3, <2>4, ConcatProperties, Zenon DEF a
  <2>6. Len(b) \in Nat /\ Len(el) \in Nat /\ Len(a) = 1 /\ a[1] = w
    BY <2>3, <2>4, LenProperties DEF a
  <2> DEFINE ab == a \o b
  <2>7. Len(ab) = 1 + Len(b) /\ ab[1] = w
    BY <2>5, <2>6
  <2>8. ab \in Seq(Operation)
    BY <2>5
  <2> HIDE DEF ab
  <2>9. /\ ab \o el \in Seq(Operation) /\ Len(ab \o el) = Len(ab) + Len(el)
        /\ \A i \in 1..(Len(ab) + Len(el)) :
              (ab \o el)[i] = IF i <= Len(ab) THEN ab[i] ELSE el[i - Len(ab)]
    BY <2>4, <2>8, ConcatProperties, Zenon
  <2> DEFINE x == ab \o el
  <2>10. x \in Seq(Operation) /\ Len(x) = (1 + Len(b)) + Len(el) /\ x[1] = w
    BY <2>6, <2>7, <2>9
  <2> HIDE DEF x
  <2>11. x # <<>> /\ Head(x) = w
    BY <2>6, <2>10
  <2>12. x = todo
    BY DEF x, ab, a, todo
  <2> QED
    BY <2>2, <2>10, <2>11, <2>12
<1>12. ToSet(todo) = {w} \cup ToSet(b) \cup ToSet(el)
  <2> HIDE DEF w, el
  <2>1. b \in Seq(Operation) /\ el \in Seq(Operation)
    <3>1. LaterOps \subseteq Operation
      BY DEF LaterOps
    <3>2. \A s \in Seq(LaterOps) : s \in Seq(Operation)
      BY <3>1, LenProperties
    <3> QED
      BY <1>9, <1>10, <3>2
  <2> DEFINE a == <<w>>
             ab == a \o b
  <2>2. a \in Seq(Operation) /\ ToSet(a) = {w}
    BY <1>11 DEF ToSet
  <2> HIDE DEF a
  <2>3. ab \in Seq(Operation) /\ ToSet(ab) = ToSet(a) \cup ToSet(b)
    BY <2>1, <2>2, ToSetConcat
  <2> HIDE DEF ab
  <2>4. ToSet(ab \o el) = ToSet(ab) \cup ToSet(el)
    BY <2>1, <2>3, ToSetConcat
  <2>5. todo = ab \o el
    BY DEF todo, ab, a
  <2> QED
    BY <2>2, <2>3, <2>4, <2>5
<1>13. ToSet(b) = {[do |-> "trait", trait |-> RenderTrait(e.traits[i], name, status)] :
                      i \in DOMAIN e.traits}
  BY <1>7, <1>9 DEF ToSet
<1>14. ToSet(el) = {[do |-> "collectWorkload", name |-> n] :
                       n \in {status.workload} \ ({NoWorkload, name} \cup RevisionNames)}
                   \cup {[do |-> "collectTrait", trait |-> r] :
                            r \in ToSet(status.traits) \ ToSet(refs)}
  BY EligibleSet
<1> HIDE DEF w, el, todo
<1>15. /\ c.at = "apply" /\ c.fresh = fresh /\ c.enabled = RevisionEnabled(e, defined)
       /\ c.plan.workload = name
       /\ c.plan.traits \in Seq(TraitRef) /\ DOMAIN c.plan.traits = DOMAIN e.traits
       /\ Len(c.plan.traits) = Len(e.traits)
  BY <1>3, <1>4, <1>8
<1>16. \A i \in DOMAIN e.traits :
          c.plan.traits[i] = RefOf(RenderTrait(e.traits[i], name, status))
  BY <1>4, <1>7
<1>17. c.todo # <<>> /\ Head(c.todo) = w
  BY <1>3, <1>11
<1>18. ToSet(c.todo) =
          {w} \cup {[do |-> "trait", trait |-> RenderTrait(e.traits[i], name, status)] :
                       i \in DOMAIN e.traits}
          \cup {[do |-> "collectWorkload", name |-> n] :
                   n \in {status.workload} \ ({NoWorkload, name} \cup RevisionNames)}
          \cup {[do |-> "collectTrait", trait |-> r] :
                   r \in ToSet(status.traits) \ ToSet(c.plan.traits)}
  BY <1>3, <1>4, <1>12, <1>13, <1>14, Zenon
<1> QED
  BY <1>15, <1>16, <1>17, <1>18 DEF c, w, name

\* The same by kind of call.
LEMMA PlanLeft ==
    ASSUME TypeOK, VersionInv, NEW e \in Entry, Renders(e), NEW status \in Status,
           NEW fresh \in BOOLEAN
    PROVE  LET c == Rendered(e, status, fresh)
               name == SetWorkloadInstanceName(e, status) IN
           /\ NamesLeft(c.todo, "workload") = {name}
           /\ NamesLeft(c.todo, "collectWorkload") =
                 {status.workload} \ ({NoWorkload, name} \cup RevisionNames)
           /\ TraitsLeft(c.todo, "trait") =
                 {RenderTrait(e.traits[i], name, status) : i \in DOMAIN e.traits}
           /\ TraitsLeft(c.todo, "collectTrait") = ToSet(status.traits) \ ToSet(c.plan.traits)
<1> DEFINE c == Rendered(e, status, fresh)
           name == SetWorkloadInstanceName(e, status)
           w == WorkloadOp(e, status)
           T == {RenderTrait(e.traits[i], name, status) : i \in DOMAIN e.traits}
           N == {status.workload} \ ({NoWorkload, name} \cup RevisionNames)
           R == ToSet(status.traits) \ ToSet(c.plan.traits)
           M == ToSet(c.todo)
<1>1. M = {w} \cup {[do |-> "trait", trait |-> RenderTrait(e.traits[i], name, status)] :
                       i \in DOMAIN e.traits}
            \cup {[do |-> "collectWorkload", name |-> n] : n \in N}
            \cup {[do |-> "collectTrait", trait |-> r] : r \in R}
  BY PlanFacts
<1>2. w.do = "workload" /\ w.name = name
  BY DEF WorkloadOp
<1> HIDE DEF name, w, c, N, R, M
<1>3. M = {w} \cup {[do |-> "trait", trait |-> t] : t \in T}
            \cup {[do |-> "collectWorkload", name |-> n] : n \in N}
            \cup {[do |-> "collectTrait", trait |-> r] : r \in R}
  BY <1>1
<1> HIDE DEF T
<1>4. {op.name : op \in {op \in M : op.do = "workload"}} = {name}
  BY <1>2, <1>3
<1>5. {op.name : op \in {op \in M : op.do = "collectWorkload"}} = N
  <2>1. ASSUME NEW n \in N PROVE \E op \in M : op.do = "collectWorkload" /\ op.name = n
    <3> DEFINE op == [do |-> "collectWorkload", name |-> n]
    <3>1. op \in M /\ op.do = "collectWorkload" /\ op.name = n
      BY <1>3
    <3> QED
      BY <3>1
  <2>2. \A op \in M : op.do = "collectWorkload" => op.name \in N
    BY <1>2, <1>3
  <2> HIDE DEF M
  <2> QED
    BY <2>1, <2>2, Zenon
<1>6. {op.trait : op \in {op \in M : op.do = "trait"}} = T
  <2>1. ASSUME NEW t \in T PROVE \E op \in M : op.do = "trait" /\ op.trait = t
    <3> DEFINE op == [do |-> "trait", trait |-> t]
    <3>1. op \in M /\ op.do = "trait" /\ op.trait = t
      BY <1>3
    <3> QED
      BY <3>1
  <2>2. \A op \in M : op.do = "trait" => op.trait \in T
    BY <1>2, <1>3
  <2> HIDE DEF M
  <2> QED
    BY <2>1, <2>2, Zenon
<1>7. {op.trait : op \in {op \in M : op.do = "collectTrait"}} = R
  <2>1. ASSUME NEW r \in R PROVE \E op \in M : op.do = "collectTrait" /\ op.trait = r
    <3> DEFINE op == [do |-> "collectTrait", trait |-> r]
    <3>1. op \in M /\ op.do = "collectTrait" /\ op.trait = r
      BY <1>3
    <3> QED
      BY <3>1
  <2>2. \A op \in M : op.do = "collectTrait" => op.trait \in R
    BY <1>2, <1>3
  <2> HIDE DEF M
  <2> QED
    BY <2>1, <2>2, Zenon
<1> QED
  BY <1>4, <1>5, <1>6, <1>7 DEF NamesLeft, TraitsLeft, M, N, R, T, c, name

-------------------------------------------------------------------------------
(* Names are found again *)

LEMMA NamedTrait ==
    ASSUME NEW t, NEW status, t.name # NoName
    PROVE  getTraitName(t, status) = GivenTraitName(t)
  BY DEF getTraitName

\* An entry under a status that lists its traits is rendered to the names in that status.
LEMMA ListedRefs ==
    ASSUME NEW e \in Entry, NEW status \in Status, Lists(status, e)
    PROVE  TraitRefs(e, status) \subseteq ToSet(status.traits)
<1> SUFFICES ASSUME NEW t \in Traits(e)
             PROVE  [kind |-> t.kind, name |-> getTraitName(t, status)] \in ToSet(status.traits)
  BY DEF TraitRefs
<1>1. PICK i \in DOMAIN e.traits : t = e.traits[i]
  BY DEF Traits, ToSet
<1>2. /\ Len(status.traits) \in Nat /\ DOMAIN status.traits = 1..Len(status.traits)
      /\ DOMAIN e.traits = 1..Len(e.traits)
  BY StatusFacts, EntryFacts, LenProperties
<1>3. /\ i \in DOMAIN status.traits /\ status.traits[i].kind = t.kind
      /\ t.name # NoName => status.traits[i].name = GivenTraitName(t)
  BY <1>1, <1>2 DEF Lists
<1>4. \A j \in DOMAIN status.traits :
          /\ status.traits[j] \in ToSet(status.traits)
          /\ status.traits[j] = [kind |-> status.traits[j].kind, name |-> status.traits[j].name]
  BY StatusFacts DEF ToSet, TraitRef
<1>5. CASE t.name # NoName
  BY <1>3, <1>4, <1>5, NamedTrait
<1>6. CASE t.name = NoName
  <2> DEFINE same == {j \in DOMAIN status.traits : status.traits[j].kind = t.kind}
  <2>1. same # {} /\ same \in SUBSET (1..Len(status.traits))
    BY <1>2, <1>3
  <2>2. getTraitName(t, status) = status.traits[Max(same)].name
    BY <1>6, <2>1 DEF getTraitName
  <2>3. Max(same) \in same
    <3> HIDE DEF same
    <3> QED
      BY <1>2, <2>1, GreatestPosition
  <2> QED
    BY <1>4, <2>2, <2>3
<1> QED
  BY <1>5, <1>6

\* With the same definitions the same names are generated.
LEMMA RefsPrimed ==
    ASSUME defined' = defined
    PROVE  /\ TraitRefs(app.spec, app.status)' = TraitRefs(app'.spec, app'.status)
           /\ TraitRefs(cache.app.spec, cache.app.status)' =
                 TraitRefs(cache'.app.spec, cache'.app.status)
  BY DEF TraitRefs, getTraitName, GenTraitName, HasDefinition

\* What renders the ApplicationConfiguration stays as it is, but for a revision that comes up.
SameSpec ==
    /\ defined' = defined /\ component'.content = component.content
    /\ revisions' = revisions \/ (\E c \in Content : revisions' = Append(revisions, c))

LEMMA OwnNameLasts ==
    ASSUME TypeOK, SameSpec, NEW e \in Entry, Found(e)
    PROVE  Found(e)' /\ ContentOf(e)' = ContentOf(e) /\ OwnName(e)' = OwnName(e)
<1>1. revisions \in Seq(Content) /\ Len(revisions) \in Nat
  BY LenProperties DEF TypeOK
<1>2. Len(revisions') >= Len(revisions) /\ \A i \in 1..Len(revisions) : revisions'[i] = revisions[i]
  BY <1>1, AppendProperties DEF SameSpec
<1>3. Len(revisions') \in Nat
  BY <1>1, AppendProperties DEF SameSpec
<1>4. e.pin \in Nat /\ e.pin <= Len(revisions)
  BY EntryFacts DEF Found
<1>5. Found(e)'
  BY <1>1, <1>2, <1>3, <1>4 DEF Found
<1>6. ContentOf(e)' = ContentOf(e)
  BY <1>1, <1>2, <1>4 DEF ContentOf, SameSpec
<1>7. defined' = defined
  BY DEF SameSpec
<1>8. OwnName(e)' = OwnName(e)
  BY <1>6, <1>7 DEF OwnName
<1> QED
  BY <1>5, <1>6, <1>8

LEMMA FoundPrimed ==
    ASSUME NEW e
    PROVE  /\ app'.spec = e => /\ Found(app.spec)' <=> Found(e)'
                               /\ OwnName(app.spec)' = OwnName(e)'
           /\ cache'.app.spec = e => /\ Found(cache.app.spec)' <=> Found(e)'
                                     /\ OwnName(cache.app.spec)' = OwnName(e)'
  BY DEF Found, OwnName, GivenName, ContentOf, RevisionEnabled

LEMMA KnownTraitsPrimed ==
    ASSUME defined' = defined
    PROVE  KnownTraits' = ToSet(app'.status.traits) \cup TraitRefs(app'.spec, app'.status)
  BY RefsPrimed DEF KnownTraits

LEMMA KnownLasts ==
    ASSUME TypeOK, SameSpec, app' = app
    PROVE  KnownTraits' = KnownTraits /\ KnownWorkloads \subseteq KnownWorkloads'
<1>1. KnownTraits' = KnownTraits
  BY KnownTraitsPrimed DEF SameSpec, KnownTraits
<1>2. PICK e : e = app.spec
  OBVIOUS
<1>3. e \in Entry
  BY <1>2, AppFacts
<1>4. Found(e) => Found(e)' /\ OwnName(e)' = OwnName(e)
  BY <1>3, OwnNameLasts
<1>5. (Found(app.spec)' <=> Found(e)') /\ OwnName(app.spec)' = OwnName(e)'
  BY <1>2, FoundPrimed
<1>6. Found(app.spec) => Found(app.spec)' /\ OwnName(app.spec)' = OwnName(app.spec)
  BY <1>2, <1>4, <1>5
<1>7. KnownWorkloads \subseteq KnownWorkloads'
  BY <1>6 DEF KnownWorkloads
<1> QED
  BY <1>1, <1>7

-------------------------------------------------------------------------------
(* Complete and Exact from step to step *)

LEMMA GoalsPrimed ==
    ASSUME NEW s, NEW t
    PROVE  /\ ctl'.plan = s /\ ctl'.todo = t =>
                 /\ Complete(ctl.plan, ctl.todo)' <=> Complete(s, t)'
                 /\ Exact(ctl.plan, ctl.todo)' <=> Exact(s, t)'
           /\ app'.status = s =>
                 /\ Complete(app.status, <<>>)' <=> Complete(s, <<>>)'
                 /\ Exact(app.status, <<>>)' <=> Exact(s, <<>>)'
<1>1. ASSUME ctl'.plan = s, ctl'.todo = t
      PROVE  /\ Complete(ctl.plan, ctl.todo)' <=> Complete(s, t)'
             /\ Exact(ctl.plan, ctl.todo)' <=> Exact(s, t)'
  <2>1. Exact(ctl.plan, ctl.todo)' <=> Exact(s, t)'
    BY <1>1 DEF Exact
  <2>2. \A i : WantedTrait(i, ctl.plan)' = WantedTrait(i, s)'
    BY <1>1 DEF WantedTrait, WorkloadRef, HasDefinition
  <2>3. Complete(ctl.plan, ctl.todo)' <=> Complete(s, t)'
    BY <1>1, <2>2 DEF Complete
  <2> QED
    BY <2>1, <2>3
<1>2. ASSUME app'.status = s
      PROVE  /\ Complete(app.status, <<>>)' <=> Complete(s, <<>>)'
             /\ Exact(app.status, <<>>)' <=> Exact(s, <<>>)'
  <2>1. Exact(app.status, <<>>)' <=> Exact(s, <<>>)'
    BY <1>2 DEF Exact
  <2>2. \A i : WantedTrait(i, app.status)' = WantedTrait(i, s)'
    BY <1>2 DEF WantedTrait, WorkloadRef, HasDefinition
  <2>3. Complete(app.status, <<>>)' <=> Complete(s, <<>>)'
    BY <1>2, <2>2 DEF Complete
  <2> QED
    BY <2>1, <2>3
<1> QED
  BY <1>1, <1>2

\* Fewer workloads, and nothing else that is new.
LEMMA GoalsLast ==
    ASSUME NEW s, NEW t, app'.spec = app.spec, UNCHANGED <<defined, traits>>,
           \A n \in WorkloadNames : workloads'[n] \in {workloads[n], NoObject}
    PROVE  /\ Running' \subseteq Running
           /\ Exact(s, t) => Exact(s, t)'
           /\ component' = component /\ revisions' = revisions =>
                 (Complete(s, t) => Complete(s, t)')
<1>1. Running' \subseteq Running /\ \A n \in Running' : workloads'[n] = workloads[n]
  BY DEF Running
<1>2. Exact(s, t) => Exact(s, t)'
  BY <1>1 DEF Exact
<1>3. ASSUME component' = component, revisions' = revisions, Complete(s, t)
      PROVE  Complete(s, t)'
  <2>1. WantedWorkload' = WantedWorkload
    BY <1>3 DEF WantedWorkload, RevisionOf, ContentOf
  <2>2. \A i : WantedTrait(i, s)' = WantedTrait(i, s)
    BY DEF WantedTrait, WorkloadRef, HasDefinition
  <2>3. (Found(app.spec)' <=> Found(app.spec)) /\ OwnName(app.spec)' = OwnName(app.spec)
    BY <1>3 DEF Found, OwnName, GivenName, ContentOf, RevisionEnabled
  <2>4. Found(app.spec)' /\ OwnName(app.spec)' \in {NoWorkload, s.workload}
    BY <1>3, <2>3 DEF Complete
  <2>5. IF t # <<>> /\ Head(t).do = "workload"
        THEN Head(t) = [do |-> "workload", name |-> s.workload, workload |-> WantedWorkload']
        ELSE s.workload \in Running' => workloads'[s.workload] = WantedWorkload'
    BY <1>1, <1>3, <2>1 DEF Complete
  <2>6. ~Confused(app'.spec) =>
            /\ \A i \in DOMAIN app'.spec.traits :
                  WantedTrait(i, s)' \in traits' \cup TraitsLeft(t, "trait")
            /\ \A x \in TraitsLeft(t, "trait") :
                  \E i \in DOMAIN app'.spec.traits : x = WantedTrait(i, s)'
    BY <1>3, <2>2 DEF Complete
  <2> QED
    BY <2>4, <2>5, <2>6 DEF Complete
<1> QED
  BY <1>1, <1>2, <1>3

-------------------------------------------------------------------------------
(* The steps of a cycle of reconciliations, one by one *)

\* A step that makes nothing, changes neither specs nor definitions and keeps what is left to do,
\* or drops it.
LEMMA QuietCycle ==
    ASSUME CycleInv, SameSpec, app' = app, traits' = traits, history' = history,
           cache'.app \in {app, cache.app},
           \A n \in WorkloadNames : workloads'[n] \in {workloads[n], NoObject},
           ctl'.at # "idle" => (steady' => ctl'.fresh) /\ (ctl'.fresh => cache'.current),
           ctl'.at = "apply" =>
               /\ ctl' = ctl
               /\ steady' => steady /\ component' = component /\ revisions' = revisions,
           AtRest' => AtRest /\ component' = component /\ revisions' = revisions
    PROVE  OneEach' /\ TodoInv' /\ KnownInv' /\ ApplyInv' /\ RestInv'
<1>1. TypeOK /\ OneEach /\ TodoInv /\ KnownInv /\ ApplyInv /\ RestInv
  BY DEF CycleInv, RenderInv
<1>2. defined' = defined
  BY DEF SameSpec
<1>3. Running' \subseteq Running
  BY DEF Running
<1>4. KnownTraits' = KnownTraits /\ KnownWorkloads \subseteq KnownWorkloads'
  BY <1>1, KnownLasts
<1>5. OneEach'
  BY <1>1 DEF OneEach
<1>6. TodoInv'
  <2>1. ASSUME ctl'.at = "apply"
        PROVE  /\ NamesLeft(ctl'.todo, "workload") \subseteq {ctl'.plan.workload}
               /\ ctl'.plan.workload \notin NamesLeft(ctl'.todo, "collectWorkload")
               /\ \A t \in TraitsLeft(ctl'.todo, "trait") : RefOf(t) \in ToSet(ctl'.plan.traits)
               /\ TraitsLeft(ctl'.todo, "collectTrait") \cap ToSet(ctl'.plan.traits) = {}
    BY <1>1, <2>1 DEF TodoInv
  <2> QED
    BY <2>1 DEF TodoInv
<1>7. KnownInv'
  <2> SUFFICES ASSUME "hasty" \notin history
               PROVE  /\ \A o \in traits : RefOf(o) \in KnownTraits'
                      /\ Running' \subseteq KnownWorkloads'
                      /\ TraitRefs(cache.app.spec, cache.app.status)' \subseteq KnownTraits'
                      /\ \/ cache'.app.spec = app'.spec
                         \/ /\ Found(cache.app.spec)'
                            /\ OwnName(cache.app.spec)' \in KnownWorkloads' \cup {NoWorkload}
                      /\ ctl'.at = "apply" =>
                            /\ ToSet(ctl'.plan.traits) \subseteq KnownTraits'
                            /\ ctl'.plan.workload \in KnownWorkloads'
    BY DEF KnownInv
  <2>1. (\A o \in traits : RefOf(o) \in KnownTraits') /\ Running' \subseteq KnownWorkloads'
    BY <1>1, <1>3, <1>4 DEF KnownInv
  <2>2. ctl'.at = "apply" =>
            /\ ToSet(ctl'.plan.traits) \subseteq KnownTraits'
            /\ ctl'.plan.workload \in KnownWorkloads'
    BY <1>1, <1>4 DEF KnownInv
  <2>3. TraitRefs(cache.app.spec, cache.app.status)' =
            TraitRefs(cache'.app.spec, cache'.app.status)
    BY <1>2, RefsPrimed
  <2>4. CASE cache'.app = app
    <3>1. TraitRefs(app.spec, app.status) \subseteq KnownTraits'
      BY <1>4 DEF KnownTraits
    <3>2. TraitRefs(cache.app.spec, cache.app.status)' = TraitRefs(app.spec, app.status)
      BY <2>3, <2>4
    <3>3. TraitRefs(cache.app.spec, cache.app.status)' \subseteq KnownTraits'
      BY <3>1, <3>2
    <3> QED
      BY <2>1, <2>2, <2>4, <3>3
  <2>5. CASE cache'.app = cache.app
    <3>1. TraitRefs(cache.app.spec, cache.app.status) \subseteq KnownTraits'
      BY <1>1, <1>4 DEF KnownInv
    <3>2. TraitRefs(cache.app.spec, cache.app.status)' = TraitRefs(cache.app.spec, cache.app.status)
      BY <2>3, <2>5
    <3>3. TraitRefs(cache.app.spec, cache.app.status)' \subseteq KnownTraits'
      BY <3>1, <3>2
    <3>4. CASE cache.app.spec = app.spec
      BY <2>1, <2>2, <2>5, <3>3, <3>4
    <3>5. CASE /\ Found(cache.app.spec)
               /\ OwnName(cache.app.spec) \in KnownWorkloads \cup {NoWorkload}
      <4>1. PICK e : e = cache.app.spec
        OBVIOUS
      <4>2. e \in Entry
        BY <1>1, <4>1, AppFacts
      <4>3. Found(e)' /\ OwnName(e)' = OwnName(e)
        BY <1>1, <3>5, <4>1, <4>2, OwnNameLasts
      <4>4. (Found(cache.app.spec)' <=> Found(e)') /\ OwnName(cache.app.spec)' = OwnName(e)'
        BY <2>5, <4>1, FoundPrimed
      <4>5. OwnName(cache.app.spec)' \in KnownWorkloads' \cup {NoWorkload}
        BY <1>4, <3>5, <4>1, <4>3, <4>4
      <4> QED
        BY <2>1, <2>2, <3>3, <4>3, <4>4, <4>5
    <3> QED
      BY <1>1, <3>4, <3>5 DEF KnownInv
  <2> QED
    BY <2>4, <2>5
<1>8. ApplyInv'
  <2> SUFFICES ASSUME ctl'.at = "apply"
               PROVE  /\ ctl'.fresh => Lists(ctl'.plan, app'.spec)
                      /\ steady' => /\ Complete(ctl.plan, ctl.todo)'
                                    /\ ctl'.enabled = RevisionEnabled(app'.spec, defined')
                      /\ ctl'.fresh /\ "hasty" \notin history' =>
                            /\ Exact(ctl.plan, ctl.todo)'
                            /\ TraitRefs(app.spec, app.status)' \subseteq ToSet(ctl'.plan.traits)
    BY DEF ApplyInv
  <2>1. ctl' = ctl
    OBVIOUS
  <2>2. PICK s, t : s = ctl.plan /\ t = ctl.todo
    OBVIOUS
  <2>3. /\ Complete(ctl.plan, ctl.todo)' <=> Complete(s, t)'
        /\ Exact(ctl.plan, ctl.todo)' <=> Exact(s, t)'
    BY <2>1, <2>2, GoalsPrimed
  <2>4. /\ Exact(s, t) => Exact(s, t)'
        /\ component' = component /\ revisions' = revisions => (Complete(s, t) => Complete(s, t)')
    BY <1>2, GoalsLast
  <2>5. ctl'.fresh => Lists(ctl'.plan, app'.spec)
    BY <1>1, <2>1 DEF ApplyInv
  <2>6. steady' => /\ Complete(s, t)
                   /\ ctl.enabled = RevisionEnabled(app.spec, defined)
    BY <1>1, <2>1, <2>2 DEF ApplyInv
  <2>7. steady' => /\ Complete(ctl.plan, ctl.todo)'
                   /\ ctl'.enabled = RevisionEnabled(app'.spec, defined')
    BY <1>2, <2>1, <2>3, <2>4, <2>6
  <2>8. TraitRefs(app.spec, app.status)' = TraitRefs(app.spec, app.status)
    BY <1>2, RefsPrimed
  <2>9. ctl'.fresh /\ "hasty" \notin history' =>
            /\ Exact(s, t)
            /\ TraitRefs(app.spec, app.status) \subseteq ToSet(ctl.plan.traits)
    BY <1>1, <2>1, <2>2 DEF ApplyInv
  <2>10. ctl'.fresh /\ "hasty" \notin history' =>
             /\ Exact(ctl.plan, ctl.todo)'
             /\ TraitRefs(app.spec, app.status)' \subseteq ToSet(ctl'.plan.traits)
    BY <2>1, <2>3, <2>4, <2>8, <2>9
  <2> QED
    BY <2>5, <2>7, <2>10
<1>9. RestInv'
  <2> SUFFICES ASSUME AtRest'
               PROVE  /\ Lists(app'.status, app'.spec) /\ Complete(app.status, <<>>)'
                      /\ RevisionEnabled(app'.spec, defined') =>
                            Running' \subseteq {app'.status.rev} \cup app'.status.history
                      /\ "hasty" \notin history' => Exact(app.status, <<>>)'
    BY DEF RestInv
  <2>1. /\ Lists(app.status, app.spec) /\ Complete(app.status, <<>>)
        /\ RevisionEnabled(app.spec, defined) =>
              Running \subseteq {app.status.rev} \cup app.status.history
        /\ "hasty" \notin history => Exact(app.status, <<>>)
    BY <1>1 DEF RestInv
  <2>2. PICK s : s = app.status
    OBVIOUS
  <2>3. /\ Complete(app.status, <<>>)' <=> Complete(s, <<>>)'
        /\ Exact(app.status, <<>>)' <=> Exact(s, <<>>)'
    BY <2>2, GoalsPrimed
  <2>4. /\ Exact(s, <<>>) => Exact(s, <<>>)'
        /\ component' = component /\ revisions' = revisions =>
              (Complete(s, <<>>) => Complete(s, <<>>)')
    BY <1>2, GoalsLast
  <2>5. Complete(s, <<>>) /\ ("hasty" \notin history => Exact(s, <<>>))
    BY <2>1, <2>2
  <2>6. Complete(app.status, <<>>)' /\ ("hasty" \notin history' => Exact(app.status, <<>>)')
    BY <2>3, <2>4, <2>5
  <2> QED
    BY <1>2, <1>3, <2>1, <2>6
<1> QED
  BY <1>5, <1>6, <1>7, <1>8, <1>9

\* CycleInv without RenderInv, which is an invariant by itself.
CycleRest == OneEach /\ TodoInv /\ KnownInv /\ ApplyInv /\ RestInv

LEMMA RunLasts ==
    ASSUME CycleInv, ctl' = ctl, steady' => steady, cache.current => cache'.current
    PROVE  ctl'.at # "idle" => (steady' => ctl'.fresh) /\ (ctl'.fresh => cache'.current)
  BY DEF CycleInv, TodoInv

LEMMA StutterCycle ==
    ASSUME CycleInv, UNCHANGED vars
    PROVE  CycleRest'
<1>1. /\ UNCHANGED <<component, revisions, defined, app, cache, workloads, traits, ctl>>
      /\ UNCHANGED <<history, steady>>
  BY DEF vars
<1>2. SameSpec /\ (AtRest' => AtRest)
  BY <1>1 DEF SameSpec, AtRest
<1>3. ctl'.at # "idle" => (steady' => ctl'.fresh) /\ (ctl'.fresh => cache'.current)
  BY <1>1, RunLasts
<1> QED
  BY <1>1, <1>2, <1>3, QuietCycle DEF CycleRest

LEMMA DeliverCycle ==
    ASSUME CycleInv, Deliver
    PROVE  CycleRest'
<1>1. /\ UNCHANGED <<component, revisions, defined, app, workloads, traits, ctl, history, steady>>
      /\ cache' = [app |-> app, current |-> TRUE]
  BY DEF Deliver
<1>2. SameSpec /\ (AtRest' => AtRest)
  BY <1>1 DEF SameSpec, AtRest
<1>3. cache'.app = app /\ cache'.current
  BY <1>1
<1>4. ctl'.at # "idle" => (steady' => ctl'.fresh) /\ (ctl'.fresh => cache'.current)
  BY <1>1, <1>3, RunLasts
<1> QED
  BY <1>1, <1>2, <1>3, <1>4, QuietCycle DEF CycleRest

LEMMA PublishRevisionCycle ==
    ASSUME CycleInv, PublishRevision
    PROVE  CycleRest'
<1>1. /\ UNCHANGED <<defined, app, cache, workloads, traits, ctl, history>>
      /\ steady' = FALSE /\ revisions' = Append(revisions, component.content)
      /\ component' = [component EXCEPT !.rev = Len(revisions')]
  BY DEF PublishRevision
<1>2. component \in [content : Content, rev : 0..MaxRevisions]
  BY DEF CycleInv, RenderInv, TypeOK
<1>3. component'.content = component.content /\ component.content \in Content
  BY <1>1, <1>2
<1>4. SameSpec /\ ~AtRest'
  BY <1>1, <1>3 DEF SameSpec, AtRest
<1>5. ctl'.at # "idle" => (steady' => ctl'.fresh) /\ (ctl'.fresh => cache'.current)
  BY <1>1, RunLasts
<1> QED
  BY <1>1, <1>4, <1>5, QuietCycle DEF CycleRest

LEMMA RolloutDeletesCycle ==
    ASSUME CycleInv, NEW n \in WorkloadNames, RolloutDeletes(n)
    PROVE  CycleRest'
<1>1. /\ UNCHANGED <<component, revisions, defined, app, cache, traits, ctl, history, steady>>
      /\ workloads' = [workloads EXCEPT ![n] = NoObject]
  BY DEF RolloutDeletes
<1>2. workloads \in [WorkloadNames -> Workload \cup {NoObject}]
  BY DEF CycleInv, RenderInv, TypeOK
<1>3. \A m \in WorkloadNames : workloads'[m] \in {workloads[m], NoObject}
  BY <1>1, <1>2
<1>4. SameSpec /\ (AtRest' => AtRest)
  BY <1>1 DEF SameSpec, AtRest
<1>5. ctl'.at # "idle" => (steady' => ctl'.fresh) /\ (ctl'.fresh => cache'.current)
  BY <1>1, RunLasts
<1> QED
  BY <1>1, <1>3, <1>4, <1>5, QuietCycle DEF CycleRest

LEMMA CallFailsCycle ==
    ASSUME CycleInv, CallFails
    PROVE  CycleRest'
<1>1. /\ UNCHANGED <<component, revisions, defined, app, cache, workloads, traits, history>>
      /\ ctl' = [Idle EXCEPT !.at = "error", !.fresh = ctl.fresh] /\ steady' = FALSE
      /\ ctl.at = "apply"
  BY DEF CallFails
<1>2. ctl'.at = "error" /\ ctl'.fresh = ctl.fresh
  BY <1>1 DEF Idle
<1>3. SameSpec /\ ~AtRest'
  BY <1>1 DEF SameSpec, AtRest
<1>4. ctl.fresh => cache.current
  BY <1>1 DEF CycleInv, TodoInv
<1> QED
  BY <1>1, <1>2, <1>3, <1>4, QuietCycle DEF CycleRest

LEMMA RestartCycle ==
    ASSUME CycleInv, Restart
    PROVE  CycleRest'
<1>1. /\ UNCHANGED <<component, revisions, defined, app, workloads, traits, history>>
      /\ ctl' = Idle /\ cache' = [app |-> app, current |-> TRUE] /\ steady' = FALSE
  BY DEF Restart
<1>2. ctl'.at = "idle" /\ cache'.app = app
  BY <1>1 DEF Idle
<1>3. SameSpec /\ ~AtRest'
  BY <1>1 DEF SameSpec, AtRest
<1> QED
  BY <1>1, <1>2, <1>3, QuietCycle DEF CycleRest

LEMMA RenderErrorCycle ==
    ASSUME CycleInv, Render, ~Renders(cache.app.spec)
    PROVE  CycleRest'
<1>1. /\ UNCHANGED <<component, revisions, defined, app, cache, workloads, traits, history>>
      /\ ctl' = [Idle EXCEPT !.at = "error", !.fresh = cache.current] /\ steady' = cache.current
  BY DEF Render
<1>2. ctl'.at = "error" /\ ctl'.fresh = cache.current
  BY <1>1 DEF Idle
<1>3. SameSpec /\ ~AtRest'
  BY <1>1, <1>2 DEF SameSpec, AtRest
<1> QED
  BY <1>1, <1>2, <1>3, QuietCycle DEF CycleRest

LEMMA NothingLeft ==
    ASSUME NEW do
    PROVE  NamesLeft(<<>>, do) = {} /\ TraitsLeft(<<>>, do) = {}
<1>1. ToSet(<<>>) = {}
  BY EmptySeq DEF ToSet
<1> QED
  BY <1>1 DEF NamesLeft, TraitsLeft

\* What is known when everything is as the status has it.
LEMMA RestFacts ==
    ASSUME CycleInv, AtRest, cache.current, "hasty" \notin history
    PROVE  /\ ctl.at = "idle" /\ cache.app = app
           /\ \A o \in traits : RefOf(o) \in ToSet(app.status.traits)
           /\ Running \subseteq RevisionNames \cup {app.status.workload}
           /\ TraitRefs(app.spec, app.status) \subseteq ToSet(app.status.traits)
           /\ Found(app.spec) /\ OwnName(app.spec) \in {NoWorkload, app.status.workload}
<1>1. ctl.at = "idle"
  BY DEF AtRest
<1>2. TypeOK /\ cache.app = app
  BY DEF CycleInv, RenderInv, TypeOK
<1>3. Lists(app.status, app.spec) /\ Complete(app.status, <<>>) /\ Exact(app.status, <<>>)
  BY DEF CycleInv, RestInv
<1>4. /\ \A o \in traits : RefOf(o) \in ToSet(app.status.traits)
      /\ Running \subseteq RevisionNames \cup {app.status.workload}
  BY <1>3, NothingLeft DEF Exact
<1>5. app.spec \in Entry /\ app.status \in Status
  BY <1>2, AppFacts
<1>6. TraitRefs(app.spec, app.status) \subseteq ToSet(app.status.traits)
  BY <1>3, <1>5, ListedRefs
<1> QED
  BY <1>1, <1>2, <1>3, <1>4, <1>6 DEF Complete

\* A change is at rest, or remembered as hasty.
LEMMA NoteHasty ==
    ASSUME Note
    PROVE  /\ steady' = FALSE /\ ~AtRest'
           /\ "hasty" \notin history' => AtRest /\ cache.current /\ "hasty" \notin history
<1>1. /\ history' = (history \cup (IF AtRest /\ cache.current THEN {} ELSE {"hasty"}))
                       \cup (IF Admissible' THEN {} ELSE {"slipped"})
      /\ steady' = FALSE
  BY DEF Note
<1> QED
  BY <1>1 DEF AtRest

\* A change of what the spec refers to.
LEMMA ReferredCycle ==
    ASSUME CycleInv, Note, UNCHANGED <<app, cache, workloads, traits, ctl>>
    PROVE  CycleRest'
<1>1. /\ steady' = FALSE /\ ~AtRest'
      /\ "hasty" \notin history' => AtRest /\ cache.current /\ "hasty" \notin history
  BY NoteHasty
<1>2. TypeOK /\ OneEach /\ TodoInv /\ ApplyInv
  BY DEF CycleInv, RenderInv
<1>3. OneEach'
  BY <1>2 DEF OneEach
<1>4. TodoInv'
  BY <1>1, <1>2 DEF TodoInv
<1>5. KnownInv'
  <2> SUFFICES ASSUME "hasty" \notin history'
               PROVE  /\ \A o \in traits : RefOf(o) \in KnownTraits'
                      /\ Running' \subseteq KnownWorkloads'
                      /\ TraitRefs(cache.app.spec, cache.app.status)' \subseteq KnownTraits'
                      /\ cache'.app.spec = app'.spec
                      /\ ctl'.at # "apply"
    BY DEF KnownInv
  <2>1. /\ ctl.at = "idle" /\ cache.app = app
        /\ \A o \in traits : RefOf(o) \in ToSet(app.status.traits)
        /\ Running \subseteq RevisionNames \cup {app.status.workload}
    BY <1>1, RestFacts
  <2>2. Running' = Running
    BY DEF Running
  <2>3. /\ ToSet(app.status.traits) \subseteq KnownTraits'
        /\ TraitRefs(app.spec, app.status)' \subseteq KnownTraits'
        /\ RevisionNames \cup {app.status.workload} \subseteq KnownWorkloads'
    BY DEF KnownTraits, KnownWorkloads
  <2>4. TraitRefs(cache.app.spec, cache.app.status)' = TraitRefs(app.spec, app.status)'
    BY <2>1 DEF TraitRefs, getTraitName, GenTraitName, HasDefinition
  <2> QED
    BY <2>1, <2>2, <2>3, <2>4
<1>6. ApplyInv'
  <2> SUFFICES ASSUME ctl'.at = "apply"
               PROVE  /\ ctl'.fresh => Lists(ctl'.plan, app'.spec)
                      /\ "hasty" \in history'
    BY <1>1 DEF ApplyInv
  <2>1. ctl'.fresh => Lists(ctl'.plan, app'.spec)
    BY <1>2 DEF ApplyInv
  <2>2. "hasty" \in history'
    BY <1>1 DEF AtRest
  <2> QED
    BY <2>1, <2>2
<1>7. RestInv'
  BY <1>1 DEF RestInv
<1> QED
  BY <1>3, <1>4, <1>5, <1>6, <1>7 DEF CycleRest

\* What was right for the old spec is what the status lists.
LEMMA EditAppCycle ==
    ASSUME CycleInv, NEW e \in Entries, EditApp(e)
    PROVE  CycleRest'
<1> DEFINE spec == IF webhook THEN Mutate(e) ELSE e
           a == [app EXCEPT !.spec = spec, !.generation = @ + 1]
<1>1. /\ Note /\ Written(a) /\ ctl' = [ctl EXCEPT !.fresh = ctl.at = "idle"]
      /\ UNCHANGED <<component, revisions, defined, workloads, traits>>
  BY DEF EditApp
<1> HIDE DEF spec
<1>2. /\ steady' = FALSE /\ ~AtRest'
      /\ "hasty" \notin history' => AtRest /\ cache.current /\ "hasty" \notin history
  BY <1>1, NoteHasty
<1>3. TypeOK /\ OneEach /\ TodoInv
  BY DEF CycleInv, RenderInv
<1>4. /\ app'.status = app.status /\ cache'.app = cache.app
  <2>1. app \in App /\ cache \in [app : App, current : BOOLEAN]
    BY <1>3 DEF TypeOK
  <2>2. app' = a /\ cache' = [cache EXCEPT !.current = FALSE]
    BY <1>1 DEF Written
  <2> QED
    BY <2>1, <2>2 DEF App
<1>5. /\ ctl'.at = ctl.at /\ ctl'.plan = ctl.plan /\ ctl'.todo = ctl.todo
      /\ ctl'.at # "idle" => ~ctl'.fresh
  <2>1. ctl \in Run
    BY <1>3 DEF TypeOK
  <2> QED
    BY <1>1, <2>1 DEF Run
<1>6. OneEach'
  BY <1>1, <1>3 DEF OneEach
<1>7. TodoInv'
  BY <1>2, <1>3, <1>5 DEF TodoInv
<1>8. KnownInv'
  <2> SUFFICES ASSUME "hasty" \notin history'
               PROVE  /\ \A o \in traits' : RefOf(o) \in KnownTraits'
                      /\ Running' \subseteq KnownWorkloads'
                      /\ TraitRefs(cache.app.spec, cache.app.status)' \subseteq KnownTraits'
                      /\ Found(cache.app.spec)'
                      /\ OwnName(cache.app.spec)' \in KnownWorkloads' \cup {NoWorkload}
                      /\ ctl'.at # "apply"
    BY DEF KnownInv
  <2>1. /\ ctl.at = "idle" /\ cache.app = app
        /\ \A o \in traits : RefOf(o) \in ToSet(app.status.traits)
        /\ Running \subseteq RevisionNames \cup {app.status.workload}
        /\ TraitRefs(app.spec, app.status) \subseteq ToSet(app.status.traits)
        /\ Found(app.spec) /\ OwnName(app.spec) \in {NoWorkload, app.status.workload}
    BY <1>2, RestFacts
  <2>2. Running' = Running
    BY <1>1 DEF Running
  <2>3. /\ ToSet(app.status.traits) \subseteq KnownTraits'
        /\ RevisionNames \cup {app.status.workload} \subseteq KnownWorkloads'
    BY <1>4 DEF KnownTraits, KnownWorkloads
  <2>4. TraitRefs(cache.app.spec, cache.app.status)' = TraitRefs(app.spec, app.status)
    <3>1. TraitRefs(cache.app.spec, cache.app.status)' =
              TraitRefs(cache'.app.spec, cache'.app.status)
      BY <1>1, RefsPrimed
    <3> QED
      BY <1>4, <2>1, <3>1
  <2>5. Found(cache.app.spec)' /\ OwnName(cache.app.spec)' = OwnName(app.spec)
    BY <1>1, <1>4, <2>1 DEF Found, OwnName, GivenName, ContentOf, RevisionEnabled
  <2> QED
    BY <1>1, <1>5, <2>1, <2>2, <2>3, <2>4, <2>5
<1>9. ApplyInv'
  BY <1>2, <1>5 DEF ApplyInv
<1>10. RestInv'
  BY <1>2 DEF RestInv
<1> QED
  BY <1>6, <1>7, <1>8, <1>9, <1>10 DEF CycleRest

\* The name is the entry's own, or that of the workload that runs, or that of a revision.
LEMMA NameIs ==
    ASSUME TypeOK, NEW e \in Entry, Renders(e), NEW status \in Status
    PROVE  LET name == SetWorkloadInstanceName(e, status) IN
           \/ OwnName(e) = name
           \/ OwnName(e) = NoWorkload /\ name \in Running \cup RevisionNames
<1> DEFINE name == SetWorkloadInstanceName(e, status)
           given == GivenName(ContentOf(e), e)
<1>1. CASE given # NoWorkload
  BY <1>1 DEF SetWorkloadInstanceName, OwnName
<1>2. CASE given = NoWorkload /\ ~RevisionEnabled(e, defined)
  BY <1>2 DEF SetWorkloadInstanceName, OwnName
<1>3. CASE given = NoWorkload /\ RevisionEnabled(e, defined)
  <2>1. name = IF ExistingHas(status, RevisionOf(e)) THEN status.workload ELSE RevisionOf(e)
    BY <1>3 DEF SetWorkloadInstanceName
  <2>2. RevisionOf(e) \in RevisionNames
    BY <1>3, RevisionFacts DEF Renders
  <2>3. name \in Running \cup RevisionNames
    BY <2>1, <2>2 DEF ExistingHas
  <2> QED
    BY <1>3, <2>3 DEF OwnName
<1> QED
  BY <1>1, <1>2, <1>3

\* The plan lists exactly what the entry is rendered to, and its calls are right for it.
LEMMA PlanGoals ==
    ASSUME TypeOK, VersionInv, NEW e \in Entry, Renders(e), NEW status \in Status,
           NEW fresh \in BOOLEAN, NEW c, c = Rendered(e, status, fresh)
    PROVE  /\ c.at = "apply" /\ c.fresh = fresh /\ c.enabled = RevisionEnabled(e, defined)
           /\ c.plan.workload = SetWorkloadInstanceName(e, status)
           /\ ToSet(c.plan.traits) = TraitRefs(e, status) /\ Lists(c.plan, e)
           /\ NamesLeft(c.todo, "workload") \subseteq {c.plan.workload}
           /\ c.plan.workload \notin NamesLeft(c.todo, "collectWorkload")
           /\ \A t \in TraitsLeft(c.todo, "trait") : RefOf(t) \in ToSet(c.plan.traits)
           /\ TraitsLeft(c.todo, "collectTrait") \cap ToSet(c.plan.traits) = {}
           /\ e = app.spec => Complete(c.plan, c.todo)
<1> DEFINE name == SetWorkloadInstanceName(e, status)
<1>0. c.at = "apply" /\ c.fresh = fresh /\ c.enabled = RevisionEnabled(e, defined)
  BY PlanFacts
<1>1. /\ c.plan.workload = name
      /\ c.plan.traits \in Seq(TraitRef) /\ DOMAIN c.plan.traits = DOMAIN e.traits
      /\ Len(c.plan.traits) = Len(e.traits)
      /\ \A i \in DOMAIN e.traits :
            c.plan.traits[i] = RefOf(RenderTrait(e.traits[i], name, status))
      /\ c.todo # <<>> /\ Head(c.todo) = WorkloadOp(e, status)
  BY PlanFacts
<1>2. /\ NamesLeft(c.todo, "workload") = {name}
      /\ NamesLeft(c.todo, "collectWorkload") =
            {status.workload} \ ({NoWorkload, name} \cup RevisionNames)
      /\ TraitsLeft(c.todo, "trait") =
            {RenderTrait(e.traits[i], name, status) : i \in DOMAIN e.traits}
      /\ TraitsLeft(c.todo, "collectTrait") = ToSet(status.traits) \ ToSet(c.plan.traits)
  BY PlanLeft
<1>3. \/ OwnName(e) = name
      \/ OwnName(e) = NoWorkload
  BY NameIs
<1>4. WorkloadOp(e, status) = [do |-> "workload", name |-> name,
                               workload |-> [label |-> RevisionOf(e), data |-> ContentOf(e).data]]
  BY DEF WorkloadOp
<1> HIDE DEF name
<1>5. ASSUME NEW i \in DOMAIN e.traits
      PROVE  /\ c.plan.traits[i] =
                    [kind |-> e.traits[i].kind, name |-> getTraitName(e.traits[i], status)]
             /\ RenderTrait(e.traits[i], name, status) =
                    [kind |-> e.traits[i].kind, name |-> getTraitName(e.traits[i], status),
                     data |-> e.traits[i].data, ref |-> WorkloadRef(e.traits[i], name)]
  <2>1. PICK t, n : t = e.traits[i] /\ n = getTraitName(t, status)
    OBVIOUS
  <2>2. RenderTrait(t, name, status) =
            [kind |-> t.kind, name |-> n, data |-> t.data, ref |-> WorkloadRef(t, name)]
    BY <2>1 DEF RenderTrait
  <2>3. RefOf(RenderTrait(t, name, status)) = [kind |-> t.kind, name |-> n]
    BY <2>2 DEF RefOf
  <2> QED
    BY <1>1, <2>1, <2>2, <2>3
<1>6. ToSet(c.plan.traits) = {c.plan.traits[i] : i \in DOMAIN e.traits}
  BY <1>1 DEF ToSet
<1>7. ToSet(c.plan.traits) = TraitRefs(e, status)
  <2> DEFINE r(i) == [kind |-> e.traits[i].kind, name |-> getTraitName(e.traits[i], status)]
  <2>1. Traits(e) = {e.traits[i] : i \in DOMAIN e.traits}
    BY DEF Traits, ToSet
  <2>2. TraitRefs(e, status) = {r(i) : i \in DOMAIN e.traits}
    BY <2>1 DEF TraitRefs
  <2>3. \A i \in DOMAIN e.traits : c.plan.traits[i] = r(i)
    BY <1>5
  <2> HIDE DEF r
  <2> QED
    BY <1>6, <2>2, <2>3
<1>8. Lists(c.plan, e)
  <2>1. ASSUME NEW i \in DOMAIN e.traits
        PROVE  /\ c.plan.traits[i].kind = e.traits[i].kind
               /\ e.traits[i].name # NoName =>
                     c.plan.traits[i].name = GivenTraitName(e.traits[i])
    <3>1. PICK t, n : t = e.traits[i] /\ n = getTraitName(t, status)
      OBVIOUS
    <3>2. c.plan.traits[i] = [kind |-> t.kind, name |-> n]
      BY <1>5, <3>1
    <3>3. t.name # NoName => n = GivenTraitName(t)
      BY <3>1, NamedTrait
    <3> QED
      BY <3>1, <3>2, <3>3
  <2> QED
    BY <1>1, <2>1 DEF Lists
<1>9. ASSUME NEW t \in TraitsLeft(c.todo, "trait") PROVE RefOf(t) \in ToSet(c.plan.traits)
  <2>1. PICK i \in DOMAIN e.traits : t = RenderTrait(e.traits[i], name, status)
    BY <1>2
  <2> QED
    BY <1>1, <1>6, <2>1
<1>10. ASSUME e = app.spec PROVE Complete(c.plan, c.todo)
  <2>1. Found(app.spec) /\ OwnName(app.spec) \in {NoWorkload, c.plan.workload}
    BY <1>1, <1>3, <1>10 DEF Renders
  <2>2. /\ c.todo # <<>>
        /\ Head(c.todo) = [do |-> "workload", name |-> c.plan.workload,
                           workload |-> WantedWorkload]
    BY <1>1, <1>4, <1>10 DEF WantedWorkload
  <2>3. ASSUME NEW i \in DOMAIN app.spec.traits
        PROVE  WantedTrait(i, c.plan) = RenderTrait(e.traits[i], name, status)
    <3>1. PICK t, n : t = e.traits[i] /\ n = getTraitName(t, status)
      OBVIOUS
    <3>2. /\ c.plan.traits[i] = [kind |-> t.kind, name |-> n]
          /\ RenderTrait(t, name, status) =
                [kind |-> t.kind, name |-> n, data |-> t.data, ref |-> WorkloadRef(t, name)]
      BY <1>5, <1>10, <3>1
    <3>3. c.plan.traits[i].name = n
      BY <3>2
    <3> QED
      BY <1>1, <1>10, <3>1, <3>2, <3>3 DEF WantedTrait
  <2>4. /\ \A i \in DOMAIN app.spec.traits :
              WantedTrait(i, c.plan) \in traits \cup TraitsLeft(c.todo, "trait")
        /\ \A t \in TraitsLeft(c.todo, "trait") :
              \E i \in DOMAIN app.spec.traits : t = WantedTrait(i, c.plan)
    BY <1>2, <1>10, <2>3
  <2> QED
    BY <2>1, <2>2, <2>4 DEF Complete
<1> QED
  BY <1>0, <1>1, <1>2, <1>7, <1>8, <1>9, <1>10 DEF name

\* Everything that is there is found again, or collected.
LEMMA PlanExact ==
    ASSUME TypeOK, VersionInv, KnownInv, "hasty" \notin history, Renders(app.spec),
           NEW fresh \in BOOLEAN, NEW c, c = Rendered(app.spec, app.status, fresh)
    PROVE  Exact(c.plan, c.todo)
<1>e. PICK e, status : e = app.spec /\ status = app.status
  OBVIOUS
<1>1. e \in Entry /\ status \in Status /\ Renders(e) /\ c = Rendered(e, status, fresh)
  BY <1>e, AppFacts
<1> DEFINE name == SetWorkloadInstanceName(e, status)
<1>2. ToSet(c.plan.traits) = TraitRefs(e, status) /\ c.plan.workload = name
  BY <1>1, PlanGoals
<1>4. /\ NamesLeft(c.todo, "collectWorkload") =
            {status.workload} \ ({NoWorkload, name} \cup RevisionNames)
      /\ TraitsLeft(c.todo, "collectTrait") = ToSet(status.traits) \ ToSet(c.plan.traits)
  BY <1>1, PlanLeft
<1>5. OwnName(e) = name \/ OwnName(e) = NoWorkload
  BY <1>1, NameIs
<1> HIDE DEF name
<1>6. \A o \in traits : RefOf(o) \in ToSet(c.plan.traits) \cup TraitsLeft(c.todo, "collectTrait")
  <2>1. \A o \in traits : RefOf(o) \in KnownTraits
    BY DEF KnownInv
  <2>2. KnownTraits = ToSet(status.traits) \cup TraitRefs(e, status)
    BY <1>e DEF KnownTraits
  <2> QED
    BY <1>2, <1>4, <2>1, <2>2
<1>7. Running \subseteq RevisionNames \cup {status.workload, OwnName(e)}
  BY <1>e DEF KnownInv, KnownWorkloads
<1>8. NoWorkload \notin Running
  BY NamesFacts DEF Running
<1>9. Running \subseteq RevisionNames \cup {name} \cup NamesLeft(c.todo, "collectWorkload")
  BY <1>4, <1>5, <1>7, <1>8
<1> QED
  BY <1>2, <1>6, <1>9 DEF Exact

LEMMA RenderCycle ==
    ASSUME CycleInv, Render, Renders(cache.app.spec)
    PROVE  CycleRest'
<1>e. PICK e, status : e = cache.app.spec /\ status = cache.app.status
  OBVIOUS
<1>1. /\ UNCHANGED <<component, revisions, defined, app, cache, workloads, traits, history>>
      /\ ctl' = Rendered(e, status, cache.current) /\ steady' = cache.current
  BY <1>e DEF Render
<1>2. /\ TypeOK /\ VersionInv /\ OneEach /\ KnownInv /\ cache.current \in BOOLEAN
      /\ e \in Entry /\ status \in Status /\ Renders(e)
      /\ cache.current => cache.app = app
  BY <1>e, AppFacts DEF CycleInv, RenderInv, TypeOK
<1>3. PICK c : c = Rendered(e, status, cache.current)
  OBVIOUS
<1>4. /\ c.at = "apply" /\ c.fresh = cache.current /\ c.enabled = RevisionEnabled(e, defined)
      /\ c.plan.workload = SetWorkloadInstanceName(e, status)
  BY <1>2, <1>3, PlanGoals
<1>5. /\ ToSet(c.plan.traits) = TraitRefs(e, status) /\ Lists(c.plan, e)
      /\ NamesLeft(c.todo, "workload") \subseteq {c.plan.workload}
      /\ c.plan.workload \notin NamesLeft(c.todo, "collectWorkload")
      /\ \A t \in TraitsLeft(c.todo, "trait") : RefOf(t) \in ToSet(c.plan.traits)
      /\ TraitsLeft(c.todo, "collectTrait") \cap ToSet(c.plan.traits) = {}
      /\ e = app.spec => Complete(c.plan, c.todo)
  BY <1>2, <1>3, PlanGoals
<1>6. \/ OwnName(e) = c.plan.workload
      \/ OwnName(e) = NoWorkload /\ c.plan.workload \in Running \cup RevisionNames
  BY <1>2, <1>4, NameIs
<1>7. c.plan.workload \in WorkloadNames
  BY <1>2, <1>4, NameFacts
<1>8. ctl' = c
  BY <1>1, <1>3
<1>9. cache.current => e = app.spec /\ status = app.status
  BY <1>e, <1>2
<1>10. ASSUME cache.current, "hasty" \notin history PROVE Exact(c.plan, c.todo)
  <2>1. c = Rendered(app.spec, app.status, cache.current) /\ Renders(app.spec)
    BY <1>2, <1>3, <1>9, <1>10
  <2> QED
    BY <1>2, <1>10, <2>1, PlanExact
<1>f. Found(e)
  BY <1>2 DEF Renders
<1>11. OneEach'
  BY <1>1, <1>2 DEF OneEach
<1>12. TodoInv'
  BY <1>1, <1>4, <1>5, <1>8 DEF TodoInv
<1>13. KnownInv'
  <2> SUFFICES ASSUME "hasty" \notin history
               PROVE  /\ \A o \in traits : RefOf(o) \in KnownTraits'
                      /\ Running' \subseteq KnownWorkloads'
                      /\ TraitRefs(cache.app.spec, cache.app.status)' \subseteq KnownTraits'
                      /\ \/ cache'.app.spec = app'.spec
                         \/ /\ Found(cache.app.spec)'
                            /\ OwnName(cache.app.spec)' \in KnownWorkloads' \cup {NoWorkload}
                      /\ ToSet(c.plan.traits) \subseteq KnownTraits'
                      /\ c.plan.workload \in KnownWorkloads'
    BY <1>1, <1>8 DEF KnownInv
  <2>1. /\ \A o \in traits : RefOf(o) \in KnownTraits
        /\ Running \subseteq KnownWorkloads
        /\ TraitRefs(e, status) \subseteq KnownTraits
        /\ e = app.spec \/ OwnName(e) \in KnownWorkloads \cup {NoWorkload}
    BY <1>e, <1>2 DEF KnownInv
  <2>2. SameSpec
    BY <1>1 DEF SameSpec
  <2>3. KnownTraits' = KnownTraits /\ KnownWorkloads \subseteq KnownWorkloads'
    BY <1>1, <1>2, <2>2, KnownLasts
  <2>4. Running' = Running
    BY <1>1 DEF Running
  <2>5. TraitRefs(cache.app.spec, cache.app.status)' = TraitRefs(e, status)
    BY <1>e, <1>1, RefsPrimed
  <2>6. c.plan.workload \in KnownWorkloads
    <3>1. CASE OwnName(e) = c.plan.workload
      <4>1. c.plan.workload # NoWorkload
        BY <1>7, NamesFacts
      <4>2. e = app.spec => OwnName(e) \in KnownWorkloads
        BY <1>f DEF KnownWorkloads
      <4> QED
        BY <2>1, <3>1, <4>1, <4>2
    <3>2. CASE c.plan.workload \in Running \cup RevisionNames
      BY <2>1, <3>2 DEF KnownWorkloads
    <3> QED
      BY <1>6, <3>1, <3>2
  <2>7. (Found(cache.app.spec)' <=> Found(e)) /\ OwnName(cache.app.spec)' = OwnName(e)
    BY <1>e, <1>1 DEF Found, OwnName, GivenName, ContentOf, RevisionEnabled
  <2>8. \/ cache'.app.spec = app'.spec
        \/ /\ Found(cache.app.spec)'
           /\ OwnName(cache.app.spec)' \in KnownWorkloads' \cup {NoWorkload}
    <3>1. CASE e = app.spec
      BY <1>e, <1>1, <3>1
    <3>2. CASE OwnName(e) \in KnownWorkloads \cup {NoWorkload}
      BY <1>f, <2>3, <2>7, <3>2
    <3> QED
      BY <2>1, <3>1, <3>2
  <2>9. (\A o \in traits : RefOf(o) \in KnownTraits') /\ Running' \subseteq KnownWorkloads'
    BY <2>1, <2>3, <2>4
  <2>10. /\ TraitRefs(cache.app.spec, cache.app.status)' \subseteq KnownTraits'
         /\ ToSet(c.plan.traits) \subseteq KnownTraits'
    BY <1>5, <2>1, <2>3, <2>5
  <2>11. c.plan.workload \in KnownWorkloads'
    BY <2>3, <2>6
  <2> QED
    BY <2>8, <2>9, <2>10, <2>11
<1>14. ApplyInv'
  <2> SUFFICES ASSUME cache.current
               PROVE  /\ Lists(c.plan, app.spec)
                      /\ Complete(ctl.plan, ctl.todo)'
                      /\ c.enabled = RevisionEnabled(app.spec, defined)
                      /\ "hasty" \notin history =>
                            /\ Exact(ctl.plan, ctl.todo)'
                            /\ TraitRefs(app.spec, app.status)' \subseteq ToSet(c.plan.traits)
    BY <1>1, <1>4, <1>8 DEF ApplyInv
  <2>1. e = app.spec /\ status = app.status
    BY <1>9
  <2>2. PICK s, t : s = c.plan /\ t = c.todo
    OBVIOUS
  <2>3. /\ Complete(ctl.plan, ctl.todo)' <=> Complete(s, t)'
        /\ Exact(ctl.plan, ctl.todo)' <=> Exact(s, t)'
    BY <1>8, <2>2, GoalsPrimed
  <2>4. /\ Exact(s, t) => Exact(s, t)'
        /\ Complete(s, t) => Complete(s, t)'
    BY <1>1, GoalsLast
  <2>5. Complete(s, t)
    BY <1>5, <2>1, <2>2
  <2>6. "hasty" \notin history => Exact(s, t)
    BY <1>10, <2>2
  <2>7. TraitRefs(app.spec, app.status)' = TraitRefs(e, status)
    <3>1. TraitRefs(app.spec, app.status)' = TraitRefs(app'.spec, app'.status)
      BY <1>1, RefsPrimed
    <3> QED
      BY <1>1, <2>1, <3>1
  <2>8. Complete(ctl.plan, ctl.todo)' /\ ("hasty" \notin history => Exact(ctl.plan, ctl.todo)')
    BY <2>3, <2>4, <2>5, <2>6
  <2> QED
    BY <1>4, <1>5, <2>1, <2>7, <2>8
<1>15. RestInv'
  BY <1>4, <1>8 DEF RestInv, AtRest
<1> QED
  BY <1>11, <1>12, <1>13, <1>14, <1>15 DEF CycleRest

LEMMA LeftTail ==
    ASSUME NEW s \in Seq(Operation), s # <<>>, NEW do
    PROVE  /\ NamesLeft(Tail(s), do) \subseteq NamesLeft(s, do)
           /\ \A n \in NamesLeft(s, do) :
                 n \in NamesLeft(Tail(s), do) \/ (Head(s).do = do /\ n = Head(s).name)
           /\ Head(s).do = do => Head(s).name \in NamesLeft(s, do)
           /\ TraitsLeft(Tail(s), do) \subseteq TraitsLeft(s, do)
           /\ \A x \in TraitsLeft(s, do) :
                 x \in TraitsLeft(Tail(s), do) \/ (Head(s).do = do /\ x = Head(s).trait)
           /\ Head(s).do = do => Head(s).trait \in TraitsLeft(s, do)
<1>0. PICK op, rest : op = Head(s) /\ rest = Tail(s)
  OBVIOUS
<1> DEFINE A == {x \in ToSet(s) : x.do = do}
           B == {x \in ToSet(rest) : x.do = do}
<1>1. ToSet(s) = {op} \cup ToSet(rest)
  BY <1>0, ToSetTail
<1>2. /\ B \subseteq A /\ \A x \in A : x \in B \/ (op.do = do /\ x = op)
      /\ op.do = do => op \in A
  BY <1>1
<1>3. /\ NamesLeft(s, do) = {x.name : x \in A} /\ NamesLeft(rest, do) = {x.name : x \in B}
      /\ TraitsLeft(s, do) = {x.trait : x \in A} /\ TraitsLeft(rest, do) = {x.trait : x \in B}
  BY DEF NamesLeft, TraitsLeft
<1> HIDE DEF A, B
<1>4. /\ NamesLeft(rest, do) \subseteq NamesLeft(s, do)
      /\ \A n \in NamesLeft(s, do) : n \in NamesLeft(rest, do) \/ (op.do = do /\ n = op.name)
      /\ op.do = do => op.name \in NamesLeft(s, do)
  BY <1>2, <1>3
<1>5. /\ TraitsLeft(rest, do) \subseteq TraitsLeft(s, do)
      /\ \A x \in TraitsLeft(s, do) : x \in TraitsLeft(rest, do) \/ (op.do = do /\ x = op.trait)
      /\ op.do = do => op.trait \in TraitsLeft(s, do)
  BY <1>2, <1>3
<1> QED
  BY <1>0, <1>4, <1>5

\* The traits and the workloads after the next call.
LEMMA CallEffect ==
    ASSUME RenderInv, Call, NEW op, op = Head(ctl.todo)
    PROVE  /\ op.do = "trait" =>
                 traits' = {t \in traits : RefOf(t) # RefOf(op.trait)} \cup {op.trait}
           /\ op.do = "collectTrait" => traits' = {t \in traits : RefOf(t) # op.trait}
           /\ op.do \notin {"trait", "collectTrait"} => traits' = traits
           /\ op.do = "workload" =>
                 /\ op.name \in WorkloadNames /\ workloads'[op.name] = op.workload
                 /\ \A n \in WorkloadNames \ {op.name} : workloads'[n] = workloads[n]
                 /\ Running' \subseteq Running \cup {op.name}
           /\ op.do = "collectWorkload" => Running' = Running \ {op.name}
           /\ op.do # "workload" =>
                 /\ Running' \subseteq Running
                 /\ \A n \in Running' : workloads'[n] = workloads[n]
<1>1. /\ op \in Operation
      /\ op.do = "workload" => workloads' = [workloads EXCEPT ![op.name] = op.workload]
      /\ op.do = "collectWorkload" => workloads' = [workloads EXCEPT ![op.name] = NoObject]
      /\ op.do \in {"trait", "collectTrait"} => workloads' = workloads
  BY CallFacts
<1>2. /\ op.do \in {"workload", "trait", "collectWorkload", "collectTrait"}
      /\ op.do = "workload" => op.name \in WorkloadNames
      /\ op.do = "collectWorkload" => op.name \in WorkloadNames
  BY <1>1, OperationFacts
<1>3. workloads \in [WorkloadNames -> Workload \cup {NoObject}]
  BY DEF RenderInv, TypeOK
<1>4. /\ op.do = "trait" =>
            traits' = {t \in traits : RefOf(t) # RefOf(op.trait)} \cup {op.trait}
      /\ op.do = "collectTrait" => traits' = {t \in traits : RefOf(t) # op.trait}
      /\ op.do \notin {"trait", "collectTrait"} => traits' = traits
  BY DEF Call
<1>5. ASSUME op.do = "workload"
      PROVE  /\ op.name \in WorkloadNames /\ workloads'[op.name] = op.workload
             /\ \A n \in WorkloadNames \ {op.name} : workloads'[n] = workloads[n]
             /\ Running' \subseteq Running \cup {op.name}
  <2>1. /\ op.name \in WorkloadNames /\ workloads'[op.name] = op.workload
        /\ \A n \in WorkloadNames \ {op.name} : workloads'[n] = workloads[n]
    BY <1>1, <1>2, <1>3, <1>5
  <2> QED
    BY <2>1 DEF Running
<1>6. ASSUME op.do = "collectWorkload"
      PROVE  /\ Running' = Running \ {op.name}
             /\ \A n \in Running' : workloads'[n] = workloads[n]
  <2>1. /\ op.name \in WorkloadNames /\ workloads'[op.name] = NoObject
        /\ \A n \in WorkloadNames \ {op.name} : workloads'[n] = workloads[n]
    BY <1>1, <1>2, <1>3, <1>6
  <2> QED
    BY <2>1 DEF Running
<1>7. ASSUME op.do \in {"trait", "collectTrait"}
      PROVE  Running' = Running /\ \A n \in Running' : workloads'[n] = workloads[n]
  BY <1>1, <1>7 DEF Running
<1> QED
  BY <1>2, <1>4, <1>5, <1>6, <1>7

\* The reference under which a trait is wanted is the one that the status lists.
LEMMA WantedRef ==
    ASSUME NEW s \in Status, Lists(s, app.spec), app.spec \in Entry,
           NEW i \in DOMAIN app.spec.traits
    PROVE  RefOf(WantedTrait(i, s)) = s.traits[i] /\ s.traits[i] \in ToSet(s.traits)
<1>1. /\ Len(s.traits) \in Nat /\ DOMAIN s.traits = 1..Len(s.traits)
      /\ DOMAIN app.spec.traits = 1..Len(app.spec.traits)
  BY StatusFacts, EntryFacts, LenProperties
<1>2. i \in DOMAIN s.traits /\ s.traits[i].kind = app.spec.traits[i].kind
  BY <1>1 DEF Lists
<1>3. s.traits[i] = [kind |-> s.traits[i].kind, name |-> s.traits[i].name]
  BY <1>2, StatusFacts DEF TraitRef
<1>4. RefOf(WantedTrait(i, s)) = [kind |-> app.spec.traits[i].kind, name |-> s.traits[i].name]
  BY DEF RefOf, WantedTrait
<1> QED
  BY <1>2, <1>3, <1>4 DEF ToSet

LEMMA CallComplete ==
    ASSUME CycleInv, Call, PlanInv', steady, NEW s, NEW t, s = ctl.plan, t = Tail(ctl.todo)
    PROVE  Complete(s, t)'
<1>1. /\ RenderInv /\ TypeOK /\ PlanInv /\ TodoInv /\ ApplyInv
      /\ ctl.at = "apply" /\ ctl.todo # <<>> /\ ctl.todo \in Seq(Operation) /\ ctl.plan \in Status
      /\ app.spec \in Entry /\ ctl' = [ctl EXCEPT !.todo = t]
      /\ UNCHANGED <<component, revisions, defined, app>>
  BY RunFacts, AppFacts DEF CycleInv, RenderInv, Call
<1>2. PICK op, todo : op = Head(ctl.todo) /\ todo = ctl.todo
  OBVIOUS
<1>3. /\ Complete(s, todo) /\ Lists(s, app.spec) /\ s \in Status
  BY <1>1, <1>2 DEF ApplyInv, TodoInv
<1>4. /\ NamesLeft(todo, "workload") \subseteq {s.workload}
      /\ s.workload \notin NamesLeft(todo, "collectWorkload")
      /\ TraitsLeft(todo, "collectTrait") \cap ToSet(s.traits) = {}
  BY <1>1, <1>2 DEF TodoInv
<1>q. todo \in Seq(Operation) /\ todo # <<>> /\ op = Head(todo) /\ t = Tail(todo)
  BY <1>1, <1>2
<1>n. op.do = "workload" => op.name \in NamesLeft(todo, "workload")
  BY <1>q, LeftTail
<1>t. /\ TraitsLeft(t, "trait") \subseteq TraitsLeft(todo, "trait")
      /\ \A x \in TraitsLeft(todo, "trait") :
            x \in TraitsLeft(t, "trait") \/ (op.do = "trait" /\ x = op.trait)
      /\ op.do = "trait" => op.trait \in TraitsLeft(todo, "trait")
  BY <1>q, LeftTail
<1>5. op.do = "collectTrait" => op.trait \in TraitsLeft(todo, "collectTrait")
  BY <1>q, LeftTail
<1>6. op.do \in {"workload", "trait", "collectWorkload", "collectTrait"}
  BY <1>1, <1>2, CallFacts, OperationFacts
<1>7. WantedWorkload' = WantedWorkload
  BY <1>1 DEF WantedWorkload, RevisionOf, ContentOf
<1>8. \A i : WantedTrait(i, s)' = WantedTrait(i, s)
  BY <1>1 DEF WantedTrait, WorkloadRef, HasDefinition
<1>9. Found(app.spec)' /\ OwnName(app.spec)' \in {NoWorkload, s.workload}
  <2>1. (Found(app.spec)' <=> Found(app.spec)) /\ OwnName(app.spec)' = OwnName(app.spec)
    BY <1>1 DEF Found, OwnName, GivenName, ContentOf, RevisionEnabled
  <2> QED
    BY <1>3, <2>1 DEF Complete
<1>10. t # <<>> => Head(t).do # "workload"
  <2> SUFFICES ASSUME t # <<>> PROVE Head(t).do # "workload"
    OBVIOUS
  <2>1. t \in Seq(Operation)
    BY <1>1, HeadTailProperties
  <2>2. 1 \in DOMAIN t /\ Head(t) = t[1]
    BY <2>1, EmptySeq, LenProperties
  <2>3. ctl'.todo = t
    <3>1. ctl \in Run
      BY <1>1 DEF TypeOK
    <3> QED
      BY <1>1, <3>1 DEF Run
  <2>4. ctl'.enabled = ctl.enabled /\ (1 \in DOMAIN ctl'.todo => ctl'.todo[1] = ctl.todo[1 + 1] /\ 2 \in DOMAIN ctl.todo)
    <3>1. \A i \in DOMAIN ctl'.todo :
              i + 1 \in DOMAIN ctl.todo /\ i + 1 # 1 /\ ctl'.todo[i] = ctl.todo[i + 1]
      BY <1>1, <1>2, CallFacts
    <3>2. ctl'.enabled = ctl.enabled
      BY <1>1, <1>2, CallFacts
    <3>3. 1 + 1 = 2
      OBVIOUS
    <3> QED
      BY <3>1, <3>2, <3>3
  <2>5. 2 \in DOMAIN ctl.todo /\ t[1] = ctl.todo[2]
    BY <2>2, <2>3, <2>4
  <2>6. ctl.todo[2].do = "workload" => 2 = 1
    BY <1>1, <2>5 DEF PlanInv
  <2> QED
    BY <2>2, <2>5, <2>6
<1>11. s.workload \in Running' => workloads'[s.workload] = WantedWorkload
  <2>1. CASE op.do = "workload"
    <3>1. op.name = s.workload
      BY <1>4, <1>n, <2>1
    <3>2. op.workload = WantedWorkload
      BY <1>1, <1>2, <1>3, <2>1 DEF Complete
    <3>3. workloads'[op.name] = op.workload
      BY <1>1, <1>2, <2>1, CallEffect
    <3> QED
      BY <3>1, <3>2, <3>3
  <2>2. CASE op.do # "workload"
    <3>1. s.workload \in Running => workloads[s.workload] = WantedWorkload
      BY <1>1, <1>2, <1>3, <2>2 DEF Complete
    <3>2. Running' \subseteq Running /\ \A n \in Running' : workloads'[n] = workloads[n]
      BY <1>1, <1>2, <2>2, CallEffect
    <3> QED
      BY <3>1, <3>2
  <2> QED
    BY <2>1, <2>2
<1>12. ASSUME ~Confused(app.spec)
       PROVE  /\ \A i \in DOMAIN app.spec.traits :
                    WantedTrait(i, s) \in traits' \cup TraitsLeft(t, "trait")
              /\ \A x \in TraitsLeft(t, "trait") :
                    \E i \in DOMAIN app.spec.traits : x = WantedTrait(i, s)
  <2>1. /\ \A i \in DOMAIN app.spec.traits :
              WantedTrait(i, s) \in traits \cup TraitsLeft(todo, "trait")
        /\ \A x \in TraitsLeft(todo, "trait") :
              \E i \in DOMAIN app.spec.traits : x = WantedTrait(i, s)
    BY <1>3, <1>12 DEF Complete
  <2>2. \A x \in TraitsLeft(t, "trait") : \E i \in DOMAIN app.spec.traits : x = WantedTrait(i, s)
    BY <1>t, <2>1
  <2>3. ASSUME NEW i \in DOMAIN app.spec.traits
        PROVE  WantedTrait(i, s) \in traits' \cup TraitsLeft(t, "trait")
    <3>1. RefOf(WantedTrait(i, s)) = s.traits[i] /\ s.traits[i] \in ToSet(s.traits)
      BY <1>1, <1>3, WantedRef
    <3>2. CASE op.do = "trait"
      <4>1. traits' = {x \in traits : RefOf(x) # RefOf(op.trait)} \cup {op.trait}
        BY <1>1, <1>2, <3>2, CallEffect
      <4>2. CASE WantedTrait(i, s) = op.trait
        BY <4>1, <4>2
      <4>3. CASE WantedTrait(i, s) # op.trait /\ WantedTrait(i, s) \in TraitsLeft(todo, "trait")
        BY <1>t, <4>3
      <4>4. CASE WantedTrait(i, s) # op.trait /\ WantedTrait(i, s) \in traits
        <5>1. PICK j \in DOMAIN app.spec.traits : op.trait = WantedTrait(j, s)
          BY <1>t, <2>1, <3>2
        <5>2. i # j
          BY <4>4, <5>1
        <5>3. app.spec.traits[i].kind # app.spec.traits[j].kind
          BY <1>12, <5>2 DEF Confused
        <5>4. RefOf(WantedTrait(i, s)) # RefOf(WantedTrait(j, s))
          BY <5>3 DEF RefOf, WantedTrait
        <5> QED
          BY <4>1, <4>4, <5>1, <5>4
      <4> QED
        BY <2>1, <4>2, <4>3, <4>4
    <3>3. CASE op.do = "collectTrait"
      <4>1. traits' = {x \in traits : RefOf(x) # op.trait}
        BY <1>1, <1>2, <3>3, CallEffect
      <4>2. op.trait # s.traits[i]
        BY <1>4, <1>5, <3>1, <3>3
      <4>3. TraitsLeft(todo, "trait") \subseteq TraitsLeft(t, "trait")
        BY <1>t, <3>3
      <4> QED
        BY <2>1, <3>1, <4>1, <4>2, <4>3
    <3>4. CASE op.do \notin {"trait", "collectTrait"}
      <4>1. traits' = traits
        BY <1>1, <1>2, <3>4, CallEffect
      <4>2. TraitsLeft(todo, "trait") \subseteq TraitsLeft(t, "trait")
        BY <1>t, <3>4
      <4> QED
        BY <2>1, <4>1, <4>2
    <3> QED
      BY <3>2, <3>3, <3>4
  <2> QED
    BY <2>2, <2>3
<1>13. IF t # <<>> /\ Head(t).do = "workload"
       THEN Head(t) = [do |-> "workload", name |-> s.workload, workload |-> WantedWorkload']
       ELSE s.workload \in Running' => workloads'[s.workload] = WantedWorkload'
  BY <1>7, <1>10, <1>11
<1>14. ~Confused(app'.spec) =>
          /\ \A i \in DOMAIN app'.spec.traits :
                WantedTrait(i, s)' \in traits' \cup TraitsLeft(t, "trait")
          /\ \A x \in TraitsLeft(t, "trait") :
                \E i \in DOMAIN app'.spec.traits : x = WantedTrait(i, s)'
  BY <1>1, <1>8, <1>12
<1> QED
  BY <1>9, <1>13, <1>14 DEF Complete

LEMMA CallExact ==
    ASSUME CycleInv, Call, NEW s, NEW t, s = ctl.plan, t = Tail(ctl.todo), Exact(s, ctl.todo)
    PROVE  Exact(s, t)'
<1>1. /\ RenderInv /\ TodoInv
      /\ ctl.at = "apply" /\ ctl.todo # <<>> /\ ctl.todo \in Seq(Operation)
  BY RunFacts DEF CycleInv, RenderInv, Call
<1>2. PICK op, todo : op = Head(ctl.todo) /\ todo = ctl.todo
  OBVIOUS
<1>3. /\ NamesLeft(todo, "workload") \subseteq {s.workload}
      /\ \A x \in TraitsLeft(todo, "trait") : RefOf(x) \in ToSet(s.traits)
  BY <1>1, <1>2 DEF TodoInv
<1>4. /\ \A o \in traits : RefOf(o) \in ToSet(s.traits) \cup TraitsLeft(todo, "collectTrait")
      /\ Running \subseteq
            RevisionNames \cup {s.workload} \cup NamesLeft(todo, "collectWorkload")
  BY <1>2 DEF Exact
<1>5. op.do \in {"workload", "trait", "collectWorkload", "collectTrait"}
  BY <1>1, <1>2, CallFacts, OperationFacts
<1>q. todo \in Seq(Operation) /\ todo # <<>> /\ op = Head(todo) /\ t = Tail(todo)
  BY <1>1, <1>2
<1>n. op.do = "workload" => op.name \in NamesLeft(todo, "workload")
  BY <1>q, LeftTail
<1>t. op.do = "trait" => op.trait \in TraitsLeft(todo, "trait")
  BY <1>q, LeftTail
<1>6. \A n \in NamesLeft(todo, "collectWorkload") :
          n \in NamesLeft(t, "collectWorkload") \/ (op.do = "collectWorkload" /\ n = op.name)
  BY <1>q, LeftTail
<1>c. \A x \in TraitsLeft(todo, "collectTrait") :
          x \in TraitsLeft(t, "collectTrait") \/ (op.do = "collectTrait" /\ x = op.trait)
  BY <1>q, LeftTail
<1>7. /\ op.do = "trait" =>
            traits' = {x \in traits : RefOf(x) # RefOf(op.trait)} \cup {op.trait}
      /\ op.do = "collectTrait" => traits' = {x \in traits : RefOf(x) # op.trait}
      /\ op.do \notin {"trait", "collectTrait"} => traits' = traits
      /\ op.do = "workload" => Running' \subseteq Running \cup {op.name}
      /\ op.do = "collectWorkload" => Running' = Running \ {op.name}
      /\ op.do # "workload" => Running' \subseteq Running
  BY <1>1, <1>2, CallEffect
<1>8. \A o \in traits' : RefOf(o) \in ToSet(s.traits) \cup TraitsLeft(t, "collectTrait")
  <2>1. CASE op.do = "trait"
    <3>1. RefOf(op.trait) \in ToSet(s.traits)
      BY <1>3, <1>t, <2>1
    <3>2. TraitsLeft(todo, "collectTrait") \subseteq TraitsLeft(t, "collectTrait")
      BY <1>c, <2>1
    <3>3. \A o \in traits' : o \in traits \/ o = op.trait
      BY <1>7, <2>1
    <3> QED
      BY <1>4, <3>1, <3>2, <3>3
  <2>2. CASE op.do = "collectTrait"
    <3>1. \A o \in traits' : o \in traits /\ RefOf(o) # op.trait
      BY <1>7, <2>2
    <3>2. TraitsLeft(todo, "collectTrait") \subseteq TraitsLeft(t, "collectTrait") \cup {op.trait}
      BY <1>c
    <3> QED
      BY <1>4, <3>1, <3>2
  <2>3. CASE op.do \notin {"trait", "collectTrait"}
    <3>1. TraitsLeft(todo, "collectTrait") \subseteq TraitsLeft(t, "collectTrait") /\ traits' = traits
      BY <1>c, <1>7, <2>3
    <3> QED
      BY <1>4, <3>1
  <2> QED
    BY <2>1, <2>2, <2>3
<1>9. Running' \subseteq RevisionNames \cup {s.workload} \cup NamesLeft(t, "collectWorkload")
  <2>1. CASE op.do = "workload"
    <3>1. op.name = s.workload /\ Running' \subseteq Running \cup {op.name}
      BY <1>3, <1>n, <1>7, <2>1
    <3>2. NamesLeft(todo, "collectWorkload") \subseteq NamesLeft(t, "collectWorkload")
      BY <1>6, <2>1
    <3> QED
      BY <1>4, <3>1, <3>2
  <2>2. CASE op.do = "collectWorkload"
    <3>1. Running' = Running \ {op.name}
      BY <1>7, <2>2
    <3>2. NamesLeft(todo, "collectWorkload") \subseteq
              NamesLeft(t, "collectWorkload") \cup {op.name}
      BY <1>6
    <3> QED
      BY <1>4, <3>1, <3>2
  <2>3. CASE op.do \notin {"workload", "collectWorkload"}
    <3>1. NamesLeft(todo, "collectWorkload") \subseteq NamesLeft(t, "collectWorkload")
          /\ Running' \subseteq Running
      BY <1>6, <1>7, <2>3
    <3> QED
      BY <1>4, <3>1
  <2> QED
    BY <2>1, <2>2, <2>3
<1> QED
  BY <1>8, <1>9 DEF Exact

LEMMA CallCycle ==
    ASSUME CycleInv, Call
    PROVE  CycleRest'
<1>1. /\ RenderInv /\ TypeOK /\ OneEach /\ TodoInv /\ KnownInv /\ ApplyInv
      /\ ctl.at = "apply" /\ ctl.todo # <<>> /\ ctl.todo \in Seq(Operation)
      /\ UNCHANGED <<component, revisions, defined, app, cache, history, steady>>
  BY RunFacts DEF CycleInv, RenderInv, Call
<1>2. PICK op, todo, t, s : op = Head(ctl.todo) /\ todo = ctl.todo /\ t = Tail(ctl.todo) /\ s = ctl.plan
  OBVIOUS
<1>q. todo \in Seq(Operation) /\ todo # <<>> /\ op = Head(todo) /\ t = Tail(todo)
  BY <1>1, <1>2
<1>3. /\ ctl'.at = ctl.at /\ ctl'.fresh = ctl.fresh /\ ctl'.plan = s
      /\ ctl'.enabled = ctl.enabled /\ ctl'.todo = t
  <2>1. ctl \in Run /\ ctl' = [ctl EXCEPT !.todo = t]
    BY <1>1, <1>2 DEF TypeOK, Call
  <2> QED
    BY <1>2, <2>1 DEF Run
<1>4. PlanInv'
  BY <1>1, CallStep DEF RenderInv
<1>5. /\ op.do = "trait" =>
            traits' = {x \in traits : RefOf(x) # RefOf(op.trait)} \cup {op.trait}
      /\ op.do = "collectTrait" => traits' = {x \in traits : RefOf(x) # op.trait}
      /\ op.do \notin {"trait", "collectTrait"} => traits' = traits
      /\ op.do = "workload" => Running' \subseteq Running \cup {op.name}
      /\ op.do # "workload" => Running' \subseteq Running
  BY <1>1, <1>2, CallEffect
<1>6. /\ NamesLeft(todo, "workload") \subseteq {s.workload}
      /\ s.workload \notin NamesLeft(todo, "collectWorkload")
      /\ \A x \in TraitsLeft(todo, "trait") : RefOf(x) \in ToSet(s.traits)
      /\ TraitsLeft(todo, "collectTrait") \cap ToSet(s.traits) = {}
      /\ (steady => ctl.fresh) /\ (ctl.fresh => cache.current)
  BY <1>1, <1>2 DEF TodoInv
<1>7. /\ NamesLeft(t, "workload") \subseteq NamesLeft(todo, "workload")
      /\ NamesLeft(t, "collectWorkload") \subseteq NamesLeft(todo, "collectWorkload")
      /\ TraitsLeft(t, "trait") \subseteq TraitsLeft(todo, "trait")
      /\ TraitsLeft(t, "collectTrait") \subseteq TraitsLeft(todo, "collectTrait")
      /\ op.do = "workload" => op.name \in NamesLeft(todo, "workload")
      /\ op.do = "trait" => op.trait \in TraitsLeft(todo, "trait")
  BY <1>q, LeftTail
<1>8. /\ \A x \in traits' : x \in traits \/ RefOf(x) \in ToSet(s.traits)
      /\ Running' \subseteq Running \cup {s.workload}
  <2>1. \A x \in traits' : x \in traits \/ RefOf(x) \in ToSet(s.traits)
    BY <1>5, <1>6, <1>7
  <2>2. Running' \subseteq Running \cup {s.workload}
    BY <1>5, <1>6, <1>7
  <2> QED
    BY <2>1, <2>2
<1>9. OneEach'
  <2> SUFFICES ASSUME NEW x \in traits', NEW y \in traits', RefOf(x) = RefOf(y)
               PROVE  x = y
    BY DEF OneEach
  <2>1. CASE op.do = "trait"
    BY <1>1, <1>5, <2>1 DEF OneEach
  <2>2. CASE op.do # "trait"
    BY <1>1, <1>5, <2>2 DEF OneEach
  <2> QED
    BY <2>1, <2>2
<1>10. TodoInv'
  <2>1. /\ NamesLeft(ctl'.todo, "workload") \subseteq {ctl'.plan.workload}
        /\ ctl'.plan.workload \notin NamesLeft(ctl'.todo, "collectWorkload")
        /\ \A x \in TraitsLeft(ctl'.todo, "trait") : RefOf(x) \in ToSet(ctl'.plan.traits)
        /\ TraitsLeft(ctl'.todo, "collectTrait") \cap ToSet(ctl'.plan.traits) = {}
    BY <1>3, <1>6, <1>7
  <2>2. (steady' => ctl'.fresh) /\ (ctl'.fresh => cache'.current)
    BY <1>1, <1>3, <1>6
  <2> QED
    BY <2>1, <2>2 DEF TodoInv
<1>11. SameSpec
  BY <1>1 DEF SameSpec
<1>12. KnownInv'
  <2> SUFFICES ASSUME "hasty" \notin history
               PROVE  /\ \A o \in traits' : RefOf(o) \in KnownTraits'
                      /\ Running' \subseteq KnownWorkloads'
                      /\ TraitRefs(cache.app.spec, cache.app.status)' \subseteq KnownTraits'
                      /\ \/ cache'.app.spec = app'.spec
                         \/ /\ Found(cache.app.spec)'
                            /\ OwnName(cache.app.spec)' \in KnownWorkloads' \cup {NoWorkload}
                      /\ ToSet(ctl'.plan.traits) \subseteq KnownTraits'
                      /\ ctl'.plan.workload \in KnownWorkloads'
    BY <1>1 DEF KnownInv
  <2>1. /\ \A o \in traits : RefOf(o) \in KnownTraits
        /\ Running \subseteq KnownWorkloads
        /\ TraitRefs(cache.app.spec, cache.app.status) \subseteq KnownTraits
        /\ \/ cache.app.spec = app.spec
           \/ /\ Found(cache.app.spec)
              /\ OwnName(cache.app.spec) \in KnownWorkloads \cup {NoWorkload}
        /\ ToSet(s.traits) \subseteq KnownTraits /\ s.workload \in KnownWorkloads
    BY <1>1, <1>2 DEF KnownInv
  <2>2. KnownTraits' = KnownTraits /\ KnownWorkloads \subseteq KnownWorkloads'
    BY <1>1, <1>11, KnownLasts
  <2>3. TraitRefs(cache.app.spec, cache.app.status)' = TraitRefs(cache.app.spec, cache.app.status)
    <3>1. TraitRefs(cache.app.spec, cache.app.status)' =
              TraitRefs(cache'.app.spec, cache'.app.status)
      BY <1>1, RefsPrimed
    <3> QED
      BY <1>1, <3>1
  <2>4. (Found(cache.app.spec)' <=> Found(cache.app.spec))
        /\ OwnName(cache.app.spec)' = OwnName(cache.app.spec)
    BY <1>1 DEF Found, OwnName, GivenName, ContentOf, RevisionEnabled
  <2>5. \A o \in traits' : RefOf(o) \in KnownTraits'
    BY <1>8, <2>1, <2>2
  <2>6. Running' \subseteq KnownWorkloads'
    BY <1>8, <2>1, <2>2
  <2>7. \/ cache'.app.spec = app'.spec
        \/ /\ Found(cache.app.spec)'
           /\ OwnName(cache.app.spec)' \in KnownWorkloads' \cup {NoWorkload}
    BY <1>1, <2>1, <2>2, <2>4
  <2>8. /\ ToSet(ctl'.plan.traits) \subseteq KnownTraits'
        /\ ctl'.plan.workload \in KnownWorkloads'
    BY <1>3, <2>1, <2>2
  <2>9. TraitRefs(cache.app.spec, cache.app.status)' \subseteq KnownTraits'
    BY <2>1, <2>2, <2>3
  <2> QED
    BY <2>5, <2>6, <2>7, <2>8, <2>9
<1>13. ApplyInv'
  <2>1. /\ ctl.fresh => Lists(s, app.spec)
        /\ steady => ctl.enabled = RevisionEnabled(app.spec, defined)
        /\ ctl.fresh /\ "hasty" \notin history =>
              /\ Exact(s, todo)
              /\ TraitRefs(app.spec, app.status) \subseteq ToSet(s.traits)
    BY <1>1, <1>2 DEF ApplyInv
  <2>2. /\ Complete(ctl.plan, ctl.todo)' <=> Complete(s, t)'
        /\ Exact(ctl.plan, ctl.todo)' <=> Exact(s, t)'
    BY <1>3, GoalsPrimed
  <2>3. steady' => Complete(ctl.plan, ctl.todo)'
    BY <1>1, <1>2, <1>4, <2>2, CallComplete
  <2>4. ctl.fresh /\ "hasty" \notin history => Exact(ctl.plan, ctl.todo)'
    <3>1. Exact(s, ctl.todo) => Exact(s, t)'
      BY <1>2, CallExact
    <3> QED
      BY <1>2, <2>1, <2>2, <3>1
  <2>5. TraitRefs(app.spec, app.status)' = TraitRefs(app.spec, app.status)
    <3>1. TraitRefs(app.spec, app.status)' = TraitRefs(app'.spec, app'.status)
      BY <1>1, RefsPrimed
    <3> QED
      BY <1>1, <3>1
  <2>6. ctl'.fresh => Lists(ctl'.plan, app'.spec)
    BY <1>1, <1>3, <2>1
  <2>7. steady' => ctl'.enabled = RevisionEnabled(app'.spec, defined')
    BY <1>1, <1>3, <2>1
  <2>8. ctl'.fresh /\ "hasty" \notin history' =>
            /\ Exact(ctl.plan, ctl.todo)'
            /\ TraitRefs(app.spec, app.status)' \subseteq ToSet(ctl'.plan.traits)
    BY <1>1, <1>3, <2>1, <2>4, <2>5
  <2> QED
    BY <2>3, <2>6, <2>7, <2>8 DEF ApplyInv
<1>14. RestInv'
  BY <1>1, <1>3 DEF RestInv, AtRest
<1> QED
  BY <1>9, <1>10, <1>12, <1>13, <1>14 DEF CycleRest

\* The history that a status lists does not matter.
LEMMA GoalsSame ==
    ASSUME NEW s, NEW r, NEW t, s.workload = r.workload, s.traits = r.traits
    PROVE  (Complete(s, t)' <=> Complete(r, t)') /\ (Exact(s, t)' <=> Exact(r, t)')
<1>1. \A i : WantedTrait(i, s)' = WantedTrait(i, r)'
  BY DEF WantedTrait, WorkloadRef, HasDefinition
<1>2. Complete(s, t)' <=> Complete(r, t)'
  BY <1>1 DEF Complete
<1>3. Exact(s, t)' <=> Exact(r, t)'
  BY DEF Exact
<1> QED
  BY <1>2, <1>3

LEMMA StaleRecordCycle ==
    ASSUME CycleInv, UpdateStatus \/ ListFails, ~ctl.fresh
    PROVE  CycleRest'
<1>1. PICK listed : RecordStatus(listed)
  BY DEF UpdateStatus, ListFails
<1>2. /\ ctl' = Idle /\ ctl.at \in {"error", "apply"}
      /\ UNCHANGED <<component, revisions, defined, app, cache, workloads, traits, history>>
  BY <1>1 DEF RecordStatus
<1>3. steady' => steady
  BY DEF UpdateStatus, ListFails
<1>4. ctl'.at = "idle"
  BY <1>2 DEF Idle
<1>5. ~steady
  BY <1>2 DEF CycleInv, TodoInv
<1>6. SameSpec /\ ~AtRest'
  BY <1>2, <1>3, <1>5 DEF SameSpec, AtRest
<1> QED
  BY <1>2, <1>4, <1>6, QuietCycle DEF CycleRest

\* What a fresh reconciliation records.
LEMMA RecordFacts ==
    ASSUME CycleInv, NEW listed, RecordStatus(listed), ctl.fresh
    PROVE  /\ ctl.at = "error" \/ (ctl.at = "apply" /\ ctl.todo = <<>>)
           /\ ctl'.at = "idle"
           /\ UNCHANGED <<component, revisions, defined, workloads, traits, history>>
           /\ app'.spec = app.spec /\ cache.app = app /\ cache'.app = app
           /\ ctl.at = "error" => app'.status = app.status /\ app'.condition = "error"
           /\ ctl.at = "apply" => /\ app'.status.workload = ctl.plan.workload
                                  /\ app'.status.traits = ctl.plan.traits
                                  /\ app'.status.rev = ctl.plan.rev
                                  /\ app'.status.history = listed
<1> DEFINE done == [ctl.plan EXCEPT !.history = listed]
           st == IF ctl.at = "error" THEN app.status ELSE done
           cond == IF ctl.at = "error" THEN "error" ELSE "success"
           new == [app EXCEPT !.status = st, !.condition = cond, !.observed = app.generation]
<1>1. /\ ctl.at = "error" \/ (ctl.at = "apply" /\ ctl.todo = <<>>)
      /\ ctl' = Idle
      /\ UNCHANGED <<component, revisions, defined, workloads, traits, history>>
  BY DEF RecordStatus
<1>2. TypeOK /\ app \in App /\ ctl.plan \in Status /\ cache \in [app : App, current : BOOLEAN]
  BY AppFacts, RunFacts DEF CycleInv, RenderInv, TypeOK
<1>3. cache.current /\ cache.app = app
  BY <1>1, <1>2 DEF CycleInv, TodoInv, TypeOK
<1>4. Written(new) \/ (new = app /\ UNCHANGED <<app, cache>>)
  <2>1. new = [app EXCEPT !.status = IF ctl.at = "error" THEN @ ELSE done,
                          !.condition = IF ctl.at = "error" THEN "error" ELSE "success",
                          !.observed = Observed(app.generation)]
    BY <1>2 DEF Observed, App
  <2> QED
    BY <2>1 DEF RecordStatus
<1>5. /\ done.workload = ctl.plan.workload /\ done.traits = ctl.plan.traits
      /\ done.rev = ctl.plan.rev /\ done.history = listed
  BY <1>2 DEF Status
<1> HIDE DEF done
<1>6. /\ ctl.at = "error" => st = app.status /\ cond = "error"
      /\ ctl.at = "apply" => st = done
  OBVIOUS
<1> HIDE DEF st, cond
<1>7. new.spec = app.spec /\ new.status = st /\ new.condition = cond
  BY <1>2 DEF App
<1> HIDE DEF new
<1>8. app' = new /\ cache'.app = cache.app
  BY <1>2, <1>4 DEF Written
<1>9. ctl'.at = "idle"
  BY <1>1 DEF Idle
<1>10. ctl.at = "error" => app'.status = app.status /\ app'.condition = "error"
  BY <1>6, <1>7, <1>8
<1>11. ctl.at = "apply" => /\ app'.status.workload = ctl.plan.workload
                           /\ app'.status.traits = ctl.plan.traits
                           /\ app'.status.rev = ctl.plan.rev
                           /\ app'.status.history = listed
  BY <1>5, <1>6, <1>7, <1>8
<1> QED
  BY <1>1, <1>3, <1>7, <1>8, <1>9, <1>10, <1>11

LEMMA FreshRecordCycle ==
    ASSUME CycleInv, UpdateStatus \/ ListFails, ctl.fresh
    PROVE  CycleRest'
<1>1. PICK listed : /\ RecordStatus(listed)
                    /\ steady' => steady /\ listed = HistoryWorkloads(ctl.plan.rev, ctl.enabled)
  BY DEF UpdateStatus, ListFails
<1>2. /\ ctl.at = "error" \/ (ctl.at = "apply" /\ ctl.todo = <<>>)
      /\ ctl'.at = "idle"
      /\ UNCHANGED <<component, revisions, defined, workloads, traits, history>>
      /\ app'.spec = app.spec /\ cache.app = app /\ cache'.app = app
      /\ ctl.at = "error" => app'.status = app.status /\ app'.condition = "error"
      /\ ctl.at = "apply" => /\ app'.status.workload = ctl.plan.workload
                             /\ app'.status.traits = ctl.plan.traits
                             /\ app'.status.rev = ctl.plan.rev
                             /\ app'.status.history = listed
  BY <1>1, RecordFacts
<1>3. OneEach /\ KnownInv /\ ApplyInv
  BY DEF CycleInv
<1>4. OneEach'
  BY <1>2, <1>3 DEF OneEach
<1>5. TodoInv' /\ ApplyInv'
  BY <1>2 DEF TodoInv, ApplyInv
<1>6. Running' = Running
  BY <1>2 DEF Running
<1>7. TraitRefs(app.spec, app.status) \subseteq KnownTraits
  BY DEF KnownTraits
<1>8. TraitRefs(cache.app.spec, cache.app.status)' = TraitRefs(app.spec, app.status)
  <2>1. TraitRefs(cache.app.spec, cache.app.status)' =
            TraitRefs(cache'.app.spec, cache'.app.status)
    BY <1>2, RefsPrimed
  <2> QED
    BY <1>2, <2>1
<1>9. KnownTraits' = ToSet(app'.status.traits) \cup TraitRefs(app'.spec, app'.status)
  BY <1>2, KnownTraitsPrimed
<1>10. ASSUME "hasty" \notin history
       PROVE  /\ \A o \in traits : RefOf(o) \in KnownTraits'
              /\ Running \subseteq KnownWorkloads'
              /\ TraitRefs(app.spec, app.status) \subseteq KnownTraits'
  <2>1. CASE ctl.at = "error"
    <3>1. KnownTraits' = KnownTraits
      BY <1>2, <1>9, <2>1 DEF KnownTraits
    <3>2. KnownWorkloads' = KnownWorkloads
      BY <1>2, <2>1 DEF KnownWorkloads, Found, OwnName, GivenName, ContentOf, RevisionEnabled
    <3> QED
      BY <1>3, <1>7, <1>10, <3>1, <3>2 DEF KnownInv
  <2>2. CASE ctl.at = "apply"
    <3>1. /\ Exact(ctl.plan, <<>>)
          /\ TraitRefs(app.spec, app.status) \subseteq ToSet(ctl.plan.traits)
      BY <1>2, <1>3, <1>10, <2>2 DEF ApplyInv
    <3>2. /\ \A o \in traits : RefOf(o) \in ToSet(ctl.plan.traits)
          /\ Running \subseteq RevisionNames \cup {ctl.plan.workload}
      BY <3>1, NothingLeft DEF Exact
    <3>3. ToSet(ctl.plan.traits) \subseteq KnownTraits'
      BY <1>2, <1>9, <2>2
    <3>4. RevisionNames \cup {ctl.plan.workload} \subseteq KnownWorkloads'
      BY <1>2, <2>2 DEF KnownWorkloads
    <3> QED
      BY <3>1, <3>2, <3>3, <3>4
  <2> QED
    BY <1>2, <2>1, <2>2
<1>11. KnownInv'
  BY <1>2, <1>6, <1>8, <1>10 DEF KnownInv
<1>12. RestInv'
  <2> SUFFICES ASSUME AtRest'
               PROVE  /\ Lists(app'.status, app'.spec) /\ Complete(app.status, <<>>)'
                      /\ RevisionEnabled(app'.spec, defined') =>
                            Running' \subseteq {app'.status.rev} \cup app'.status.history
                      /\ "hasty" \notin history' => Exact(app.status, <<>>)'
    BY DEF RestInv
  <2>1. steady' /\ app'.condition = "success"
    BY DEF AtRest
  <2>2. /\ ctl.at = "apply" /\ ctl.todo = <<>> /\ steady
        /\ listed = HistoryWorkloads(ctl.plan.rev, ctl.enabled)
    BY <1>1, <1>2, <2>1
  <2>3. /\ Lists(ctl.plan, app.spec) /\ Complete(ctl.plan, <<>>)
        /\ ctl.enabled = RevisionEnabled(app.spec, defined)
        /\ "hasty" \notin history => Exact(ctl.plan, <<>>)
    BY <1>3, <2>2 DEF ApplyInv
  <2>4. PICK s, r : s = ctl.plan /\ r = app'.status
    OBVIOUS
  <2>5. s.workload = r.workload /\ s.traits = r.traits
    BY <1>2, <2>2, <2>4
  <2>6. (Complete(s, <<>>)' <=> Complete(r, <<>>)') /\ (Exact(s, <<>>)' <=> Exact(r, <<>>)')
    BY <2>5, GoalsSame
  <2>7. /\ Exact(s, <<>>) => Exact(s, <<>>)'
        /\ Complete(s, <<>>) => Complete(s, <<>>)'
    BY <1>2, GoalsLast
  <2>8. /\ Complete(app.status, <<>>)' <=> Complete(r, <<>>)'
        /\ Exact(app.status, <<>>)' <=> Exact(r, <<>>)'
    BY <2>4, GoalsPrimed
  <2>9. Complete(s, <<>>) /\ ("hasty" \notin history => Exact(s, <<>>))
    BY <2>3, <2>4
  <2>10. Complete(app.status, <<>>)' /\ ("hasty" \notin history' => Exact(app.status, <<>>)')
    BY <1>2, <2>6, <2>7, <2>8, <2>9
  <2>11. Lists(app'.status, app'.spec)
    BY <1>2, <2>2, <2>3 DEF Lists
  <2>12. RevisionEnabled(app'.spec, defined') =>
             Running' \subseteq {app'.status.rev} \cup app'.status.history
    BY <1>2, <1>6, <2>2, <2>3 DEF HistoryWorkloads
  <2> QED
    BY <2>10, <2>11, <2>12
<1> QED
  BY <1>4, <1>5, <1>11, <1>12 DEF CycleRest

-------------------------------------------------------------------------------
(* The cycle of reconciliations *)

LEMMA InitCycle ==
    ASSUME Init
    PROVE  CycleInv
<1>1. /\ cache = [app |-> app, current |-> TRUE] /\ traits = {} /\ ctl = Idle /\ steady = FALSE
      /\ workloads = [n \in WorkloadNames |-> NoObject]
  BY DEF Init
<1>2. cache.app = app /\ Running = {} /\ ctl.at = "idle" /\ ~AtRest
  BY <1>1 DEF Running, Idle, AtRest
<1>3. OneEach /\ TodoInv /\ ApplyInv /\ RestInv
  BY <1>1, <1>2 DEF OneEach, TodoInv, ApplyInv, RestInv
<1>4. KnownInv
  BY <1>1, <1>2 DEF KnownInv, KnownTraits
<1> QED
  BY <1>3, <1>4, InitInv DEF CycleInv

LEMMA NextKeepsCycle ==
    ASSUME CycleInv, [Next]_vars
    PROVE  CycleInv'
<1>1. RenderInv'
  BY NextKeepsInv DEF CycleInv
<1> SUFFICES CycleRest'
  BY <1>1 DEF CycleInv, CycleRest
<1>2. ASSUME NEW e \in Entries, EditApp(e) PROVE CycleRest'
  BY <1>2, EditAppCycle
<1>3. ASSUME NEW c \in Contents, EditComponent(c) PROVE CycleRest'
  BY <1>3, ReferredCycle DEF EditComponent
<1>4. CASE PublishRevision
  BY <1>4, PublishRevisionCycle
<1>5. ASSUME NEW k \in TraitKinds \cup {WorkloadKind}, Redefine(k) PROVE CycleRest'
  BY <1>5, ReferredCycle DEF Redefine
<1>6. ASSUME NEW n \in WorkloadNames, RolloutDeletes(n) PROVE CycleRest'
  BY <1>6, RolloutDeletesCycle
<1>7. CASE Deliver
  BY <1>7, DeliverCycle
<1>8. CASE Render
  BY <1>8, RenderCycle, RenderErrorCycle
<1>9. CASE Call
  BY <1>9, CallCycle
<1>10. CASE UpdateStatus \/ ListFails
  BY <1>10, StaleRecordCycle, FreshRecordCycle
<1>11. CASE CallFails
  BY <1>11, CallFailsCycle
<1>12. CASE Restart
  BY <1>12, RestartCycle
<1>13. CASE UNCHANGED vars
  BY <1>13, StutterCycle
<1> QED
  BY <1>2, <1>3, <1>4, <1>5, <1>6, <1>7, <1>8, <1>9, <1>10, <1>11, <1>12, <1>13
  DEF Next, Reconcile

\* In every reachable state, whatever the contents, entries, definitions and bounds: nothing is
\* there, or will be made, that the names kept in the status and the spec do not lead to; a
\* reconciliation under way makes what the spec wants and collects the rest; and at rest that has
\* been done.  This is so whatever calls failed and whenever the controller restarted (Reconcile,
\* getTraitName, SetWorkloadInstanceName, eligible, updateStatus).
THEOREM CycleInvariant == Spec => []CycleInv
<1>1. Init => CycleInv
  BY InitCycle
<1>2. CycleInv /\ [Next]_vars => CycleInv'
  BY NextKeepsCycle
<1> QED
  BY <1>1, <1>2, PTL DEF Spec

\* The traits that are there when everything is as the status has it: one for each trait listed.
LEMMA OnePerTrait ==
    ASSUME CycleInv, AtRest, "hasty" \notin history, ~Confused(app.spec)
    PROVE  /\ \A i \in DOMAIN app.spec.traits : WantedTrait(i, app.status) \in traits
           /\ Cardinality(traits) = Len(app.spec.traits)
<1>1. PICK s, n : s = app.status /\ n = Len(app.spec.traits)
  OBVIOUS
<1>2. /\ TypeOK /\ OneEach
      /\ Lists(s, app.spec) /\ Complete(s, <<>>) /\ Exact(s, <<>>)
  BY <1>1 DEF CycleInv, RenderInv, RestInv
<1>3. app.spec \in Entry /\ s \in Status
  BY <1>1, <1>2, AppFacts
<1>4. /\ n \in Nat /\ DOMAIN app.spec.traits = 1..n /\ DOMAIN s.traits = 1..n
  BY <1>1, <1>2, <1>3, StatusFacts, EntryFacts, LenProperties DEF Lists
<1>5. \A i \in 1..n : WantedTrait(i, s) \in traits
  BY <1>2, <1>4, NothingLeft DEF Complete
<1>6. \A i \in 1..n : RefOf(WantedTrait(i, s)) = s.traits[i]
  BY <1>2, <1>3, <1>4, WantedRef
<1>7. \A o \in traits : \E i \in 1..n : o = WantedTrait(i, s)
  <2> SUFFICES ASSUME NEW o \in traits PROVE \E i \in 1..n : o = WantedTrait(i, s)
    OBVIOUS
  <2>1. RefOf(o) \in ToSet(s.traits)
    BY <1>2, NothingLeft DEF Exact
  <2>2. PICK i \in 1..n : RefOf(o) = s.traits[i]
    BY <1>4, <2>1 DEF ToSet
  <2>3. o = WantedTrait(i, s)
    BY <1>2, <1>5, <1>6, <2>2 DEF OneEach
  <2> QED
    BY <2>3
<1>8. \A i, j \in 1..n : WantedTrait(i, s) = WantedTrait(j, s) => i = j
  <2> SUFFICES ASSUME NEW i \in 1..n, NEW j \in 1..n, WantedTrait(i, s) = WantedTrait(j, s), i # j
               PROVE  FALSE
    OBVIOUS
  <2>1. app.spec.traits[i].kind # app.spec.traits[j].kind
    BY <1>4 DEF Confused
  <2> QED
    BY <2>1 DEF WantedTrait
<1> DEFINE f == [i \in 1..n |-> WantedTrait(i, s)]
<1>9. /\ f \in [1..n -> traits] /\ \A i, j \in 1..n : f[i] = f[j] => i = j
      /\ \A o \in traits : \E i \in 1..n : f[i] = o
  BY <1>5, <1>7, <1>8
<1> HIDE DEF f
<1>10. ExistsBijection(1..n, traits)
  <2>1. f \in Bijection(1..n, traits)
    BY <1>9 DEF Bijection, Injection, Surjection, IsInjective
  <2> QED
    BY <2>1 DEF ExistsBijection
<1>11. Cardinality(traits) = n
  BY <1>4, <1>10, FS_CountingElements
<1> QED
  BY <1>1, <1>4, <1>5, <1>11

\* At rest there is one object for each trait listed and no other, with its contents and its
\* reference; the workload is as the component has it, and only workloads of revisions run beside
\* it, which the history lists (getTraitName, workloadRef, eligible, updateStatus).
THEOREM RestAsWanted == Spec => []RestIsAsWanted
<1>1. ASSUME CycleInv PROVE RestIsAsWanted
  <2> SUFFICES ASSUME AtRest, "hasty" \notin history, ~Confused(app.spec)
               PROVE  /\ Cardinality(traits) = Len(app.spec.traits)
                      /\ \A t \in Traits(app.spec) : \E o \in traits :
                            /\ o.kind = t.kind /\ o.data = t.data
                            /\ t.name # NoName => o.name.given = t.name
                            /\ HasDefinition(t) => o.ref = app.status.workload
                      /\ app.status.workload \in Running =>
                            workloads[app.status.workload] =
                                [label |-> RevisionOf(app.spec), data |-> ContentOf(app.spec).data]
                      /\ Running \subseteq {app.status.workload} \cup RevisionNames
                      /\ RevisionEnabled(app.spec, defined) =>
                            Running \subseteq {app.status.rev} \cup app.status.history
    BY DEF RestIsAsWanted
  <2>1. /\ TypeOK /\ Lists(app.status, app.spec) /\ Complete(app.status, <<>>)
        /\ Exact(app.status, <<>>)
        /\ RevisionEnabled(app.spec, defined) =>
              Running \subseteq {app.status.rev} \cup app.status.history
    BY <1>1 DEF CycleInv, RenderInv, RestInv
  <2>2. /\ \A i \in DOMAIN app.spec.traits : WantedTrait(i, app.status) \in traits
        /\ Cardinality(traits) = Len(app.spec.traits)
    BY <1>1, OnePerTrait
  <2>3. ASSUME NEW t \in Traits(app.spec)
        PROVE  \E o \in traits :
                  /\ o.kind = t.kind /\ o.data = t.data
                  /\ t.name # NoName => o.name.given = t.name
                  /\ HasDefinition(t) => o.ref = app.status.workload
    <3>1. PICK i \in DOMAIN app.spec.traits : t = app.spec.traits[i]
      BY DEF Traits, ToSet
    <3>2. WantedTrait(i, app.status) \in traits
      BY <2>2, <3>1
    <3>3. PICK o \in traits : o = WantedTrait(i, app.status)
      BY <3>2
    <3>4. /\ o.kind = t.kind /\ o.data = t.data /\ o.name = app.status.traits[i].name
          /\ o.ref = WorkloadRef(t, app.status.workload)
      BY <3>1, <3>3 DEF WantedTrait
    <3>5. t.name # NoName => o.name = GivenTraitName(t)
      BY <2>1, <3>1, <3>4 DEF Lists
    <3>6. t.name # NoName => o.name.given = t.name
      BY <3>5 DEF GivenTraitName
    <3>7. HasDefinition(t) => o.ref = app.status.workload
      BY <3>4 DEF WorkloadRef
    <3> QED
      BY <3>4, <3>6, <3>7
  <2>4. app.status.workload \in Running =>
            workloads[app.status.workload] =
                [label |-> RevisionOf(app.spec), data |-> ContentOf(app.spec).data]
    BY <2>1 DEF Complete, WantedWorkload
  <2>5. Running \subseteq {app.status.workload} \cup RevisionNames
    BY <2>1, NothingLeft DEF Exact
  <2> QED
    BY <2>1, <2>2, <2>3, <2>4, <2>5
<1> QED
  BY <1>1, CycleInvariant, PTL
===============================================================================
