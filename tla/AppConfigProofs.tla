--------------------------- MODULE AppConfigProofs ---------------------------
(***************************************************************************)
(* Proofs about AppConfig and AppConfigUsers, for every value of their     *)
(* constants.                                                              *)
(***************************************************************************)
EXTENDS AppConfigUsers, TLAPS, SequenceTheorems

\* The types of the fields of an ApplicationConfiguration.
LEMMA Fields ==
    ASSUME NEW v \in AppConfiguration
    PROVE  /\ v.exists \in BOOLEAN /\ v.deleting \in BOOLEAN /\ v.finalizer \in BOOLEAN
           /\ v.rv \in Nat /\ v.generation \in Nat /\ v.observedGeneration \in Nat
           /\ v.spec \in AppSpecs /\ v.spec \in Seq(Entry)
           /\ v.status \in AppSpecs \cup {<<>>} /\ v.status \in Seq(Entry)
           /\ v.condition \in Conditions
<1>1. v.status \in AppSpecs \cup {<<>>} /\ v.spec \in AppSpecs
    BY DEF AppConfiguration
<1>2. <<>> \in Seq(Entry)
    BY EmptySeq
<1>3. v.status \in Seq(Entry) /\ v.spec \in Seq(Entry)
    BY <1>1, <1>2, AppSpecsAssumption
<1>4. QED
    BY <1>1, <1>3 DEF AppConfiguration

\* The idle reconciliation holds no scope and has no calls to make.
LEMMA IdleType ==
    /\ Idle \in Reconciliation
    /\ Idle.ac \in AppConfiguration
    /\ Idle.ac.generation = 1 /\ Idle.ac.observedGeneration = 0 /\ ~Idle.ac.finalizer
    /\ Idle.pc = "idle" /\ Idle.todo = <<>> /\ Idle.entry = 0 /\ ~Idle.read
    /\ Idle.rendered \in [Scopes -> Scope]
    /\ \A s \in Scopes : Idle.rendered[s].rv = 0 /\ Idle.rendered[s].refs = <<>>
<1> DEFINE chosen == CHOOSE s \in AppSpecs : TRUE
<1>1. chosen \in AppSpecs
    BY AppSpecsAssumption
<1> HIDE DEF chosen
<1>2. Created(chosen) \in AppConfiguration
    BY <1>1 DEF Created, AppConfiguration, Conditions
<1>3. [exists |-> FALSE, rv |-> 0, refs |-> <<>>] \in Scope
    BY EmptySeq DEF Scope
<1>4. [s \in Scopes |-> [exists |-> FALSE, rv |-> 0, refs |-> <<>>]] \in [Scopes -> Scope]
    BY <1>3
<1>5. <<>> \in Seq(Operation)
    BY EmptySeq
<1>6. Idle = [pc |-> "idle", ac |-> Created(chosen),
              rendered |-> [s \in Scopes |-> [exists |-> FALSE, rv |-> 0, refs |-> <<>>]],
              entry |-> 0, todo |-> <<>>, read |-> FALSE]
    BY DEF Idle, chosen
<1>7. Idle \in Reconciliation
    BY <1>2, <1>4, <1>5, <1>6 DEF Reconciliation
<1>8. QED
    BY <1>2, <1>4, <1>6, <1>7 DEF Created

\* The object moved on: nothing went back, and the finalizer was not removed from
\* an object that still exists.
Later ==
    /\ ac' \in AppConfiguration
    /\ ac.generation <= ac'.generation
    /\ ac'.observedGeneration <= ac'.generation
    /\ ac'.exists => ac.exists
    /\ ac'.exists /\ ac.finalizer => ac'.finalizer

\* A version of the object is still one after the object moved on.
LEMMA VersionLater ==
    ASSUME ac \in AppConfiguration, Later, NEW v \in AppConfiguration, VersionOf(v)
    PROVE  /\ v.observedGeneration <= v.generation
           /\ 1 <= v.generation /\ v.generation <= ac'.generation
           /\ ac'.exists /\ v.finalizer => ac'.finalizer
BY Fields DEF VersionOf, Later

\* A write, as the API server makes it, moves the object on if what is written does,
\* and all versions the informer has to deliver are still versions of it.
LEMMA WriteLater ==
    ASSUME ScopeInv, NEW new \in AppConfiguration, Write(new),
           ac.generation <= new.generation, new.observedGeneration <= new.generation,
           new.exists => ac.exists,
           new.exists /\ ac.finalizer => new.finalizer
    PROVE  /\ Later
           /\ events' \in Seq(AppConfiguration)
           /\ \A i \in DOMAIN events' : VersionOf(events[i])'
           /\ 1 <= ac'.generation
           /\ ac' = [new EXCEPT !.rv = ac'.rv]
<1>1. ac \in AppConfiguration /\ events \in Seq(AppConfiguration) /\ VersionOf(acCache)
    BY DEF ScopeInv, TypeOK
<1>2. ac.rv + 1 \in Nat
    BY <1>1, Fields
<1>3. [new EXCEPT !.rv = ac.rv + 1] \in AppConfiguration
    BY <1>2 DEF AppConfiguration
<1>4. /\ ac' \in AppConfiguration
      /\ ac'.generation = new.generation /\ ac'.observedGeneration = new.observedGeneration
      /\ ac'.exists = new.exists /\ ac'.finalizer = new.finalizer
      /\ ac' = [new EXCEPT !.rv = ac'.rv]
    <2>1. CASE new = ac
        BY <1>1, <2>1 DEF Write, AppConfiguration
    <2>2. CASE new # ac
        <3>1. ac' = [new EXCEPT !.rv = ac.rv + 1]
            BY <2>2 DEF Write
        <3>2. QED
            BY <1>3, <3>1 DEF AppConfiguration
    <2>3. QED
        BY <2>1, <2>2
<1>5. Later
    BY <1>4 DEF Later
<1>6. 1 <= ac'.generation
    <2>1. acCache \in AppConfiguration
        BY DEF ScopeInv, TypeOK
    <2>2. QED
        BY <1>1, <1>4, <2>1, Fields DEF VersionOf
<1>7. /\ events' \in Seq(AppConfiguration)
      /\ \A i \in DOMAIN events' : \/ events'[i] = ac'
                                   \/ i \in DOMAIN events /\ events'[i] = events[i]
    <2>1. CASE new = ac
        BY <1>1, <2>1 DEF Write
    <2>2. CASE new # ac
        <3>1. events' = Append(events, ac')
            BY <2>2 DEF Write
        <3>2. QED
            BY <1>1, <1>4, <3>1, AppendProperties
    <2>3. QED
        BY <2>1, <2>2
<1>8. ASSUME NEW i \in DOMAIN events' PROVE VersionOf(events[i])'
    <2>1. CASE events'[i] = ac'
        <3>1. /\ ac'.generation \in Nat /\ ac'.observedGeneration <= ac'.generation
              /\ ac'.generation <= ac'.generation
            BY <1>4, Fields
        <3>2. QED
            BY <1>6, <2>1, <3>1 DEF VersionOf
    <2>2. CASE i \in DOMAIN events /\ events'[i] = events[i]
        <3>1. events[i] \in AppConfiguration /\ VersionOf(events[i])
            BY <1>1, <2>2, ElementOfSeq DEF ScopeInv
        <3>2. QED
            BY <1>1, <1>5, <2>2, <3>1, VersionLater DEF VersionOf
    <2>3. QED
        BY <1>7, <1>8, <2>1, <2>2
<1>9. QED
    BY <1>4, <1>5, <1>6, <1>7, <1>8

\* A function on the indices of a sequence is a sequence.
LEMMA MapSeq ==
    ASSUME NEW S, NEW T, NEW list \in Seq(S), NEW f \in [DOMAIN list -> T]
    PROVE  f \in Seq(T) /\ Len(f) = Len(list) /\ DOMAIN f = DOMAIN list
<1>1. DOMAIN list = 1..Len(list) /\ Len(list) \in Nat
    BY LenProperties
<1>2. f \in Seq(T)
    BY <1>1, SeqDef
<1>3. DOMAIN f = 1..Len(f) /\ Len(f) \in Nat
    BY <1>2, LenProperties
<1>4. QED
    BY <1>1, <1>2, <1>3

\* The calls of a phase for an entry; only applying an entry with scopes joins any.
LEMMA PhaseCallsType ==
    ASSUME Walking, NEW e \in Entry
    PROVE  /\ PhaseCalls(e) \in Seq(Operation)
           /\ \A i \in DOMAIN PhaseCalls(e) :
                 PhaseCalls(e)[i].do = "ref" => At("apply") /\ e.scopes # <<>>
<1>1. /\ e.workload \in Workloads /\ e.traits \in Seq(Traits) /\ e.scopes \in Seq(Scopes)
    BY DEF Entry
<1> DEFINE held == <<e.workload>> \o e.traits
<1>2. held \in Seq(Workloads \cup Traits)
    <2>1. <<e.workload>> \in Seq(Workloads \cup Traits)
        BY <1>1
    <2>2. e.traits \in Seq(Workloads \cup Traits)
        BY <1>1, SeqMonotonic
    <2>3. QED
        BY <2>1, <2>2, ConcatProperties
<1> HIDE DEF held
<1>3. /\ \A i \in DOMAIN held : held[i] \in Workloads \cup Traits
      /\ \A i \in DOMAIN e.scopes : e.scopes[i] \in Scopes
    BY <1>1, <1>2, ElementOfSeq, LenProperties
<1>4. CASE At("apply")
    <2> DEFINE a == ApplyAll(held)
               r == RefAll(e.workload, e.scopes)
    <2>1. a \in [DOMAIN held -> Operation] /\ \A i \in DOMAIN a : a[i].do = "apply"
        BY <1>3 DEF ApplyAll, Operation
    <2>2. r \in [DOMAIN e.scopes -> Operation]
        BY <1>1, <1>3 DEF RefAll, Operation
    <2>3. a \in Seq(Operation) /\ r \in Seq(Operation) /\ Len(r) = Len(e.scopes)
        BY <1>1, <1>2, <2>1, <2>2, MapSeq
    <2>4. PhaseCalls(e) = a \o r
        BY <1>4 DEF PhaseCalls, ApplyEntry, held, At
    <2> HIDE DEF a, r
    <2>5. PhaseCalls(e) \in Seq(Operation)
        BY <2>3, <2>4, ConcatProperties
    <2>6. ASSUME NEW i \in DOMAIN PhaseCalls(e), e.scopes = <<>>
          PROVE  PhaseCalls(e)[i].do = "apply"
        <3>1. Len(r) = 0 /\ Len(a) \in Nat
            BY <2>3, <2>6, LenProperties
        <3>2. i \in 1..Len(a) /\ DOMAIN a = 1..Len(a)
            BY <2>3, <2>4, <2>6, <3>1, ConcatProperties, LenProperties
        <3>3. (a \o r)[i] = a[i]
            BY <2>3, <3>2, ConcatProperties, LenProperties
        <3>4. QED
            BY <2>1, <2>4, <3>2, <3>3
    <2>7. QED
        BY <1>4, <2>5, <2>6
<1>5. CASE At("dereference")
    <2>1. PhaseCalls(e) = DereferenceEntry(e)
        BY <1>5 DEF PhaseCalls, At
    <2>2. /\ DereferenceEntry(e) \in [DOMAIN e.scopes -> Operation]
          /\ \A i \in DOMAIN e.scopes : DereferenceEntry(e)[i].do # "ref"
        BY <1>1, <1>3 DEF DereferenceEntry, Operation
    <2>3. DereferenceEntry(e) \in Seq(Operation)
        BY <1>1, <2>2, MapSeq
    <2>4. QED
        BY <2>1, <2>2, <2>3
<1>6. CASE At("collect")
    <2>1. PhaseCalls(e) = CollectEntry(e)
        BY <1>6 DEF PhaseCalls, At
    <2>2. /\ CollectEntry(e) \in [DOMAIN held -> Operation]
          /\ \A i \in DOMAIN held : CollectEntry(e)[i].do # "ref"
        BY <1>1, <1>3 DEF CollectEntry, Operation, held
    <2>3. CollectEntry(e) \in Seq(Operation)
        BY <1>2, <2>2, MapSeq
    <2>4. QED
        BY <2>1, <2>2, <2>3
<1>7. CASE At("finalize")
    <2>1. PhaseCalls(e) = FinalizeEntry(e)
        BY <1>7 DEF PhaseCalls, At
    <2>2. /\ FinalizeEntry(e) \in [DOMAIN e.scopes -> Operation]
          /\ \A i \in DOMAIN e.scopes : FinalizeEntry(e)[i].do # "ref"
        BY <1>1, <1>3 DEF FinalizeEntry, Operation
    <2>3. FinalizeEntry(e) \in Seq(Operation)
        BY <1>1, <2>2, MapSeq
    <2>4. QED
        BY <2>1, <2>2, <2>3
<1>8. QED
    BY <1>4, <1>5, <1>6, <1>7 DEF Walking, At

\* Removing a reference takes out only that one (the last one takes its place).
LEMMA RemoveRefFacts ==
    ASSUME NEW S, NEW refs \in Seq(S), Unique(refs), NEW w \in ToSet(refs)
    PROVE  /\ RemoveRef(refs, FirstRef(refs, w)) \in Seq(S)
           /\ Unique(RemoveRef(refs, FirstRef(refs, w)))
           /\ ToSet(RemoveRef(refs, FirstRef(refs, w))) = ToSet(refs) \ {w}
<1> DEFINE n == Len(refs)
           k == FirstRef(refs, w)
           moved == [refs EXCEPT ![k] = refs[n]]
           left == SubSeq(moved, 1, n - 1)
<1>1. n \in Nat /\ DOMAIN refs = 1..n /\ refs \in [1..n -> S]
    BY LenProperties
<1>2. PICK j \in 1..n : refs[j] = w
    BY <1>1 DEF ToSet
<1>3. \A i \in 1..n : refs[i] = w => i = j
    BY <1>1, <1>2 DEF Unique
<1>4. j \in DOMAIN refs /\ refs[j] = w /\ \A i \in DOMAIN refs : refs[i] = w => j <= i
    BY <1>1, <1>2, <1>3
<1>5. k \in DOMAIN refs /\ refs[k] = w
    BY <1>4 DEF FirstRef
<1>6. k = j /\ n >= 1
    BY <1>1, <1>3, <1>5
<1> HIDE DEF k
<1>7. moved \in Seq(S) /\ Len(moved) = n
      /\ \A i \in 1..n : moved[i] = IF i = k THEN refs[n] ELSE refs[i]
    <2>1. refs[n] \in S /\ k \in 1..n
        BY <1>1, <1>5, <1>6
    <2>2. QED
        BY <2>1, ExceptSeq
<1>8. left \in Seq(S) /\ Len(left) = n - 1 /\ DOMAIN left = 1..(n - 1)
      /\ \A i \in 1..(n - 1) : left[i] = moved[i]
    <2> HIDE DEF moved
    <2>1. /\ left \in Seq(S)
          /\ Len(left) = IF 1 <= n - 1 THEN n - 1 ELSE 0
          /\ \A i \in 1..(n - 1) : left[i] = moved[i]
        BY <1>1, <1>6, <1>7
    <2> HIDE DEF left, n
    <2>2. Len(left) = n - 1
        BY <1>1, <1>6, <2>1
    <2>3. DOMAIN left = 1..Len(left)
        BY <2>1, LenProperties
    <2>4. QED
        BY <2>1, <2>2, <2>3
<1> HIDE DEF moved, left, n
<1>9. \A i \in 1..(n - 1) : left[i] = IF i = k THEN refs[n] ELSE refs[i]
    BY <1>1, <1>7, <1>8
<1>10. Unique(left)
    BY <1>1, <1>6, <1>8, <1>9 DEF Unique
<1>11. ToSet(left) \subseteq ToSet(refs) \ {w}
    BY <1>1, <1>3, <1>6, <1>8, <1>9 DEF ToSet
<1>12. ASSUME NEW x \in ToSet(refs) \ {w} PROVE x \in ToSet(left)
    <2>1. PICK i \in 1..n : refs[i] = x
        BY <1>1 DEF ToSet
    <2>2. i # k
        BY <1>2, <1>6, <1>12, <2>1
    <2>3. CASE i = n
        <3>1. k \in 1..(n - 1)
            BY <1>1, <1>5, <2>2, <2>3
        <3>2. left[k] = x
            BY <1>9, <2>1, <2>3, <3>1
        <3>3. QED
            BY <1>8, <3>1, <3>2 DEF ToSet
    <2>4. CASE i # n
        <3>1. i \in 1..(n - 1)
            BY <1>1, <2>1, <2>4
        <3>2. left[i] = x
            BY <1>9, <2>1, <2>2, <3>1
        <3>3. QED
            BY <1>8, <3>1, <3>2 DEF ToSet
    <2>5. QED
        BY <2>3, <2>4
<1>13. left = RemoveRef(refs, FirstRef(refs, w))
    BY DEF left, moved, n, k, RemoveRef
<1>14. QED
    BY <1>8, <1>10, <1>11, <1>12, <1>13

\* Adding a reference that is not there adds only that one.
LEMMA AppendRefFacts ==
    ASSUME NEW S, NEW refs \in Seq(S), Unique(refs), NEW w \in S, w \notin ToSet(refs)
    PROVE  /\ Append(refs, w) \in Seq(S)
           /\ Unique(Append(refs, w))
           /\ ToSet(Append(refs, w)) = ToSet(refs) \cup {w}
<1> DEFINE n == Len(refs)
           longer == Append(refs, w)
<1>1. n \in Nat /\ DOMAIN refs = 1..n
    BY LenProperties
<1>2. /\ longer \in Seq(S) /\ Len(longer) = n + 1
      /\ \A i \in 1..n : longer[i] = refs[i]
      /\ longer[n + 1] = w
    BY AppendProperties
<1> HIDE DEF n, longer
<1>3. DOMAIN longer = 1..(n + 1)
    BY <1>2, LenProperties
<1>4. \A i \in 1..n : refs[i] # w
    BY <1>1 DEF ToSet
<1>5. Unique(longer)
    <2> SUFFICES ASSUME NEW i \in 1..(n + 1), NEW j \in 1..(n + 1), longer[i] = longer[j]
                 PROVE  i = j
        BY <1>3 DEF Unique
    <2>1. CASE i \in 1..n /\ j \in 1..n
        BY <1>1, <1>2, <2>1 DEF Unique
    <2>2. CASE i = n + 1 \/ j = n + 1
        <3>1. longer[i] = w /\ longer[j] = w
            BY <1>2, <2>2
        <3>2. i \notin 1..n /\ j \notin 1..n
            BY <1>2, <1>4, <3>1
        <3>3. QED
            BY <1>1, <3>2
    <2>3. QED
        BY <1>1, <2>1, <2>2
<1>6. ToSet(longer) = ToSet(refs) \cup {w}
    <2>1. n + 1 \in DOMAIN longer /\ \A i \in 1..n : i \in DOMAIN longer
        BY <1>1, <1>3
    <2>2. \A i \in DOMAIN longer : i \in 1..n \/ i = n + 1
        BY <1>1, <1>3
    <2>3. QED
        BY <1>1, <1>2, <2>1, <2>2 DEF ToSet
<1>7. QED
    BY <1>2, <1>5, <1>6 DEF longer

\* The invariant by what each part speaks of: the object and its versions, the
\* reconciliation, the scopes, and the rest.
VersionPart ==
    /\ ac \in AppConfiguration /\ ac.observedGeneration <= ac.generation
    /\ acCache \in AppConfiguration /\ VersionOf(acCache)
    /\ events \in Seq(AppConfiguration) /\ \A i \in DOMAIN events : VersionOf(events[i])

CtlPart ==
    /\ ctl \in Reconciliation /\ VersionOf(ctl.ac) /\ JoiningInv /\ ReadInv
    /\ \A s \in Scopes : RenderedOf(s)

ScopePart == scopes \in [Scopes -> Scope] /\ RefHasFinalizer /\ NoDuplicateRefs

RestPart ==
    /\ objects \subseteq Workloads \cup Traits /\ queued \in BOOLEAN
    /\ edits \in 0..MaxEdits /\ touches \in 0..MaxTouches /\ faults \in 0..MaxFaults

LEMMA Parts == ScopeInv <=> VersionPart /\ CtlPart /\ ScopePart /\ RestPart
BY DEF ScopeInv, TypeOK, VersionPart, CtlPart, ScopePart, RestPart

\* The same after a step.
LEMMA PartsAfter ==
    ASSUME VersionPart', CtlPart', ScopePart', RestPart'
    PROVE  ScopeInv'
BY DEF ScopeInv, TypeOK, VersionPart, CtlPart, ScopePart, RestPart

\* A step that leaves the object alone.
LEMMA SameObject ==
    ASSUME ScopeInv, ac' = ac
    PROVE  Later
BY Fields DEF ScopeInv, TypeOK, Later

LEMMA SameVersions ==
    ASSUME ScopeInv, UNCHANGED <<ac, events, acCache>>
    PROVE  VersionPart'
BY DEF ScopeInv, TypeOK, VersionPart, VersionOf

\* A step that writes the object and leaves the cache alone.
LEMMA WrittenVersions ==
    ASSUME ScopeInv, Later, acCache' = acCache, events' \in Seq(AppConfiguration),
           \A i \in DOMAIN events' : VersionOf(events[i])'
    PROVE  VersionPart'
<1>1. ac \in AppConfiguration /\ acCache \in AppConfiguration /\ VersionOf(acCache)
    BY DEF ScopeInv, TypeOK
<1>2. VersionOf(acCache)'
    BY <1>1, VersionLater DEF VersionOf
<1>3. QED
    BY <1>1, <1>2 DEF VersionPart, Later

\* A step that leaves the scopes alone.
LEMMA SameScopes ==
    ASSUME ScopeInv, Later, scopes' = scopes
    PROVE  ScopePart'
BY DEF ScopeInv, TypeOK, ScopePart, Later, RefHasFinalizer, NoDuplicateRefs, OwnRefs, Refs

\* A step that leaves the reconciliation and the scopes alone.
LEMMA SameCtl ==
    ASSUME ScopeInv, Later, ctl' = ctl, scopes' = scopes
    PROVE  CtlPart'
<1>1. /\ ac \in AppConfiguration /\ ctl \in Reconciliation /\ VersionOf(ctl.ac)
      /\ ctl.ac \in AppConfiguration
    BY DEF ScopeInv, TypeOK, Reconciliation
<1>2. VersionOf(ctl.ac)'
    BY <1>1, VersionLater DEF VersionOf
<1>3. JoiningInv' /\ ReadInv'
    BY DEF ScopeInv, JoiningInv, ReadInv, Call, At, HasScope, ToSet
<1>4. \A s \in Scopes : RenderedOf(s)'
    BY DEF ScopeInv, RenderedOf
<1>5. QED
    BY <1>1, <1>2, <1>3, <1>4 DEF CtlPart

\* A step after which the reconciliation works on a version of the object and is
\* not applying: it has no scope to join.
LEMMA EndedCtl ==
    ASSUME ScopeInv, scopes' = scopes, ctl' \in Reconciliation,
           ctl'.pc # "apply", ctl'.todo = <<>>, ctl'.rendered = Idle.rendered, ~ctl'.read,
           VersionOf(ctl.ac)'
    PROVE  CtlPart'
<1>1. JoiningInv' /\ ReadInv'
    BY DEF JoiningInv, ReadInv, At
<1>2. ASSUME NEW s \in Scopes PROVE RenderedOf(s)'
    <2>1. scopes[s].rv \in Nat /\ 1 <= scopes[s].rv
        BY DEF ScopeInv, TypeOK, Scope, RenderedOf
    <2>2. ctl'.rendered[s].rv = 0 /\ ctl'.rendered[s].refs = <<>>
        BY IdleType
    <2>3. Unique(ctl'.rendered[s].refs)
        BY <2>2 DEF Unique
    <2>4. QED
        BY <2>1, <2>2, <2>3 DEF RenderedOf, Unique
<1>3. QED
    BY <1>1, <1>2 DEF CtlPart

\* The first generation is a version of the object.
LEMMA OneVersion ==
    ASSUME ScopeInv
    PROVE  ac.generation \in Nat /\ 1 <= ac.generation
BY Fields DEF ScopeInv, TypeOK, VersionOf

\* The reconciliation ends.
LEMMA IdleCtl ==
    ASSUME ScopeInv, Later, scopes' = scopes, ctl' = Idle
    PROVE  CtlPart'
<1>1. ac.generation \in Nat /\ 1 <= ac.generation /\ ac'.generation \in Nat
    BY OneVersion, Fields DEF Later
<1>2. 1 <= ac'.generation
    BY <1>1 DEF Later
<1>3. VersionOf(ctl.ac)'
    BY <1>2, IdleType DEF VersionOf
<1>4. QED
    BY <1>3, IdleType, EndedCtl

\* A reconciliation that moved to another place with its version and no calls.
LEMMA ReplacedCtl ==
    ASSUME NEW pc \in {"error", "posthook", "finalize", "finalizeError"},
           NEW v \in AppConfiguration
    PROVE  /\ AtWith(pc, v) \in Reconciliation
           /\ AtWith(pc, v).pc = pc /\ AtWith(pc, v).ac = v
           /\ AtWith(pc, v).todo = <<>> /\ AtWith(pc, v).rendered = Idle.rendered
           /\ ~AtWith(pc, v).read
BY IdleType DEF Reconciliation, AtWith

\* Users, and the registration of the finalizer, only write the object.
LEMMA UserSteps ==
    ASSUME ScopeInv,
           (\E s \in AppSpecs : EditAppConfig(s)) \/ DeleteAppConfig \/ RegisterFinalizers
    PROVE  ScopeInv'
<1>1. /\ ac \in AppConfiguration /\ ac.observedGeneration <= ac.generation
      /\ ac.generation + 1 \in Nat /\ ac.generation <= ac.generation + 1
      /\ ac.observedGeneration <= ac.generation + 1 /\ ac.generation <= ac.generation
    BY Fields DEF ScopeInv, TypeOK
<1>2. CASE \E s \in AppSpecs : EditAppConfig(s)
    <2> PICK s \in AppSpecs : EditAppConfig(s)
        BY <1>2
    <2> DEFINE new == [ac EXCEPT !.spec = s, !.generation = ac.generation + 1]
    <2>1. Write(new)
        BY DEF EditAppConfig
    <2>2. /\ new \in AppConfiguration /\ new.generation = ac.generation + 1
          /\ new.observedGeneration = ac.observedGeneration
          /\ new.exists = ac.exists /\ new.finalizer = ac.finalizer
        BY <1>1 DEF AppConfiguration
    <2> HIDE DEF new
    <2>3. /\ Later /\ events' \in Seq(AppConfiguration)
          /\ \A i \in DOMAIN events' : VersionOf(events[i])'
        BY <1>1, <2>1, <2>2, WriteLater
    <2>4. VersionPart' /\ ScopePart' /\ CtlPart'
        BY <2>3, WrittenVersions, SameScopes, SameCtl DEF EditAppConfig
    <2>5. RestPart'
        <3>1. RestPart
            BY Parts
        <3>2. edits' = edits + 1 /\ edits < MaxEdits
            BY DEF EditAppConfig, MayWrite
        <3>3. edits' \in 0..MaxEdits
            BY <3>1, <3>2, BoundsAssumption DEF RestPart
        <3>4. UNCHANGED <<objects, queued, touches, faults>>
            BY DEF EditAppConfig
        <3>5. QED
            BY <3>1, <3>3, <3>4 DEF RestPart
    <2>6. QED
        BY <2>4, <2>5, PartsAfter
<1>3. CASE DeleteAppConfig
    <2> DEFINE new == IF ac.finalizer
                      THEN [ac EXCEPT !.deleting = TRUE, !.generation = ac.generation + 1]
                      ELSE [ac EXCEPT !.exists = FALSE]
    <2>1. Write(new)
        BY <1>3 DEF DeleteAppConfig
    <2>2. /\ new \in AppConfiguration /\ ac.generation <= new.generation
          /\ new.observedGeneration <= new.generation
          /\ new.exists => ac.exists
          /\ new.finalizer = ac.finalizer
        <3>1. CASE ac.finalizer
            <4>1. new = [ac EXCEPT !.deleting = TRUE, !.generation = ac.generation + 1]
                BY <3>1
            <4> HIDE DEF new
            <4>2. /\ new \in AppConfiguration /\ new.generation = ac.generation + 1
                  /\ new.observedGeneration = ac.observedGeneration
                  /\ new.exists = ac.exists /\ new.finalizer = ac.finalizer
                BY <1>1, <4>1 DEF AppConfiguration
            <4>3. QED
                BY <1>1, <4>2
        <3>2. CASE ~ac.finalizer
            <4>1. new = [ac EXCEPT !.exists = FALSE]
                BY <3>2
            <4> HIDE DEF new
            <4>2. /\ new \in AppConfiguration /\ new.generation = ac.generation
                  /\ new.observedGeneration = ac.observedGeneration
                  /\ ~new.exists /\ new.finalizer = ac.finalizer
                BY <1>1, <4>1 DEF AppConfiguration
            <4>3. QED
                BY <1>1, <4>2
        <3>3. QED
            BY <3>1, <3>2
    <2> HIDE DEF new
    <2>3. /\ Later /\ events' \in Seq(AppConfiguration)
          /\ \A i \in DOMAIN events' : VersionOf(events[i])'
        BY <1>1, <2>1, <2>2, WriteLater
    <2>4. VersionPart' /\ ScopePart' /\ CtlPart'
        BY <1>3, <2>3, WrittenVersions, SameScopes, SameCtl DEF DeleteAppConfig
    <2>5. RestPart'
        BY <1>3, BoundsAssumption DEF ScopeInv, TypeOK, RestPart, DeleteAppConfig, MayWrite
    <2>6. QED
        BY <2>4, <2>5, PartsAfter
<1>4. CASE RegisterFinalizers
    <2>1. RestPart'
        BY <1>4 DEF ScopeInv, TypeOK, RestPart, RegisterFinalizers
    <2>2. CASE Accepted(acCache)
        <3> DEFINE new == [ac EXCEPT !.finalizer = TRUE]
        <3>1. Write(new)
            BY <1>4, <2>2 DEF RegisterFinalizers
        <3>2. /\ new \in AppConfiguration /\ new.generation = ac.generation
              /\ new.observedGeneration = ac.observedGeneration
              /\ new.exists = ac.exists /\ new.finalizer
            BY <1>1 DEF AppConfiguration
        <3> HIDE DEF new
        <3>3. /\ Later /\ events' \in Seq(AppConfiguration)
              /\ \A i \in DOMAIN events' : VersionOf(events[i])'
            BY <1>1, <3>1, <3>2, WriteLater
        <3>4. VersionPart' /\ ScopePart' /\ CtlPart'
            BY <1>4, <3>3, WrittenVersions, SameScopes, SameCtl DEF RegisterFinalizers
        <3>5. QED
            BY <2>1, <3>4, PartsAfter
    <2>3. CASE ~Accepted(acCache)
        <3>1. UNCHANGED <<ac, events, acCache, scopes, ctl>>
            BY <1>4, <2>3 DEF RegisterFinalizers
        <3>2. QED
            BY <2>1, <3>1, SameObject, SameVersions, SameScopes, SameCtl, PartsAfter
    <2>4. QED
        BY <2>2, <2>3
<1>5. QED
    BY <1>2, <1>3, <1>4

\* The informer, the garbage collector and a restart.
LEMMA InformerSteps ==
    ASSUME ScopeInv, CollectOwned \/ Deliver \/ Resync \/ BeginGone \/ Restart
    PROVE  ScopeInv'
<1>1. ac' = ac /\ scopes' = scopes
    BY DEF CollectOwned, Deliver, Resync, BeginGone, Restart
<1>2. Later /\ ScopePart'
    BY <1>1, SameObject, SameScopes
<1>3. RestPart'
    <2>1. RestPart /\ ac.exists \in BOOLEAN
        BY Parts, Fields DEF VersionPart
    <2>2. CASE CollectOwned \/ Deliver \/ Resync \/ BeginGone
        BY <2>1, <2>2 DEF RestPart, CollectOwned, Deliver, Resync, BeginGone
    <2>3. CASE Restart
        <3>1. faults' \in 0..MaxFaults
            BY <2>1, <2>3, BoundsAssumption DEF RestPart, Restart
        <3>2. QED
            BY <2>1, <2>3, <3>1 DEF RestPart, Restart
    <2>4. QED
        BY <2>2, <2>3
<1>4. CtlPart'
    BY <1>1, <1>2, SameCtl, IdleCtl DEF CollectOwned, Deliver, Resync, BeginGone, Restart
<1>5. CASE CollectOwned \/ Resync \/ BeginGone
    BY <1>2, <1>3, <1>4, <1>5, SameVersions, PartsAfter DEF CollectOwned, Resync, BeginGone
<1>6. CASE Deliver
    <2>1. /\ events \in Seq(AppConfiguration) /\ events # <<>>
          /\ \A i \in DOMAIN events : VersionOf(events[i])
        BY <1>6 DEF Deliver, ScopeInv, TypeOK
    <2>2. /\ events' \in Seq(AppConfiguration)
          /\ acCache' = events[1] /\ 1 \in DOMAIN events /\ events[1] \in AppConfiguration
          /\ \A i \in DOMAIN events' : i + 1 \in DOMAIN events /\ events'[i] = events[i + 1]
        BY <1>6, <2>1 DEF Deliver
    <2>3. VersionOf(acCache)' /\ \A i \in DOMAIN events' : VersionOf(events[i])'
        BY <1>1, <2>1, <2>2 DEF VersionOf
    <2>4. VersionPart'
        BY <1>1, <2>2, <2>3 DEF ScopeInv, TypeOK, VersionPart
    <2>5. QED
        BY <1>2, <1>3, <1>4, <2>4, PartsAfter
<1>7. CASE Restart
    <2>1. /\ ac \in AppConfiguration /\ ac.observedGeneration <= ac.generation
          /\ ac.generation <= ac.generation /\ 1 <= ac.generation
        BY OneVersion DEF ScopeInv, TypeOK
    <2>2. VersionOf(acCache)'
        BY <1>1, <1>7, <2>1 DEF Restart, VersionOf
    <2>3. events' = <<>> /\ events' \in Seq(AppConfiguration) /\ acCache' = ac
        BY <1>7, EmptySeq DEF Restart
    <2>4. VersionPart'
        BY <1>1, <2>1, <2>2, <2>3 DEF VersionPart
    <2>5. QED
        BY <1>2, <1>3, <1>4, <2>4, PartsAfter
<1>8. QED
    BY <1>5, <1>6, <1>7

\* A scope written at a new version, with a list that has no duplicates and no more
\* of this object's workloads than before unless it has the finalizer.
LEMMA ScopeWritten ==
    ASSUME ScopeInv, NEW s \in Scopes, NEW new \in Scope,
           scopes' = [scopes EXCEPT ![s] = new], ac' = ac,
           ctl'.rendered = ctl.rendered, new.rv = scopes[s].rv + 1, Unique(new.refs),
           \/ ToSet(new.refs) \cap Workloads \subseteq OwnRefs(s)
           \/ ac.exists => ac.finalizer
    PROVE  ScopePart' /\ \A r \in Scopes : RenderedOf(r)'
<1>1. scopes \in [Scopes -> Scope] /\ scopes' \in [Scopes -> Scope]
    BY DEF ScopeInv, TypeOK
<1>2. NoDuplicateRefs'
    BY <1>1 DEF ScopeInv, NoDuplicateRefs
<1>3. RefHasFinalizer'
    BY <1>1 DEF ScopeInv, RefHasFinalizer, OwnRefs, Refs
<1>4. ASSUME NEW r \in Scopes PROVE RenderedOf(r)'
    <2>1. RenderedOf(r) /\ scopes[r].rv \in Nat /\ ctl.rendered[r].rv \in Nat
        BY <1>1 DEF ScopeInv, TypeOK, Scope, Reconciliation
    <2>2. CASE r = s
        BY <1>1, <2>1, <2>2 DEF RenderedOf
    <2>3. CASE r # s
        BY <1>1, <2>1, <2>3 DEF RenderedOf
    <2>4. QED
        BY <2>2, <2>3
<1>5. QED
    BY <1>1, <1>2, <1>3, <1>4 DEF ScopePart

\* Other writers of the scopes.
LEMMA ScopeSteps ==
    ASSUME ScopeInv, NEW s \in Scopes, TouchScope(s) \/ DeleteScope(s)
    PROVE  ScopeInv'
<1>1. /\ scopes \in [Scopes -> Scope] /\ Unique(scopes[s].refs)
      /\ scopes[s].refs \in Seq(Workloads \cup {Foreign}) /\ scopes[s].rv + 1 \in Nat
      /\ scopes[s].exists \in BOOLEAN
    BY DEF ScopeInv, TypeOK, Scope, NoDuplicateRefs
<1>2. RestPart'
    BY BoundsAssumption DEF ScopeInv, TypeOK, RestPart, TouchScope, DeleteScope
<1>3. VersionPart'
    BY SameVersions DEF TouchScope, DeleteScope
<1>4. ScopePart' /\ \A r \in Scopes : RenderedOf(r)'
    <2>1. CASE TouchScope(s)
        <3> DEFINE refs == IF Foreign \in Refs(s)
                           THEN RemoveRef(scopes[s].refs, FirstRef(scopes[s].refs, Foreign))
                           ELSE Append(scopes[s].refs, Foreign)
                   new == [scopes[s] EXCEPT !.rv = scopes[s].rv + 1, !.refs = refs]
        <3>1. scopes' = [scopes EXCEPT ![s] = new]
            BY <1>1, <2>1 DEF TouchScope, Scope
        <3>2. /\ refs \in Seq(Workloads \cup {Foreign}) /\ Unique(refs)
              /\ ToSet(refs) \cap Workloads \subseteq OwnRefs(s)
            <4>1. CASE Foreign \in Refs(s)
                BY <1>1, <4>1, RemoveRefFacts DEF OwnRefs, Refs
            <4>2. CASE Foreign \notin Refs(s)
                BY <1>1, <4>2, AppendRefFacts, AppSpecsAssumption DEF OwnRefs, Refs
            <4>3. QED
                BY <4>1, <4>2
        <3> HIDE DEF refs
        <3>3. new \in Scope /\ new.rv = scopes[s].rv + 1 /\ new.refs = refs
            BY <1>1, <3>2 DEF Scope
        <3> HIDE DEF new
        <3>4. QED
            BY <2>1, <3>1, <3>2, <3>3, ScopeWritten DEF TouchScope
    <2>2. CASE DeleteScope(s)
        <3> DEFINE new == [exists |-> FALSE, rv |-> scopes[s].rv + 1, refs |-> <<>>]
        <3>1. scopes' = [scopes EXCEPT ![s] = new]
            BY <1>1, <2>2 DEF DeleteScope
        <3>2. new \in Scope
            BY <1>1, EmptySeq DEF Scope
        <3>3. Unique(new.refs) /\ ToSet(new.refs) \cap Workloads \subseteq OwnRefs(s)
            BY DEF Unique, ToSet
        <3>4. new.rv = scopes[s].rv + 1
            OBVIOUS
        <3> HIDE DEF new
        <3>5. QED
            BY <2>2, <3>1, <3>2, <3>3, <3>4, ScopeWritten DEF DeleteScope
    <2>3. QED
        BY <2>1, <2>2
<1>5. UNCHANGED <<ac, ctl>>
    BY DEF TouchScope, DeleteScope
<1>6. CtlPart'
    BY <1>4, <1>5, Parts DEF CtlPart, JoiningInv, ReadInv, Call, VersionOf, At, HasScope, ToSet
<1>7. QED
    BY <1>2, <1>3, <1>4, <1>6, PartsAfter

\* A reconciliation moves past its walk, with a version of the object.
LEMMA AtWithCtl ==
    ASSUME ScopeInv, UNCHANGED <<ac, scopes>>,
           NEW pc \in {"error", "posthook", "finalize", "finalizeError"},
           NEW v \in AppConfiguration, VersionOf(v), ctl' = AtWith(pc, v)
    PROVE  CtlPart'
<1>1. /\ ctl' \in Reconciliation /\ ctl'.pc = pc /\ ctl'.ac = v /\ ctl'.todo = <<>>
      /\ ctl'.rendered = Idle.rendered /\ ~ctl'.read
    BY ReplacedCtl
<1>2. VersionOf(ctl.ac)'
    BY <1>1 DEF VersionOf
<1>3. ctl'.pc # "apply"
    BY <1>1
<1>4. QED
    BY <1>1, <1>2, <1>3, EndedCtl

\* A version with another condition is still a version.
LEMMA ConditionVersion ==
    ASSUME NEW v \in AppConfiguration, VersionOf(v), NEW c \in Conditions
    PROVE  /\ [v EXCEPT !.condition = c] \in AppConfiguration
           /\ VersionOf([v EXCEPT !.condition = c])
BY DEF VersionOf, AppConfiguration

\* The version the reconciliation works on.
LEMMA CtlVersion ==
    ASSUME ScopeInv
    PROVE  /\ ctl \in Reconciliation /\ ctl.ac \in AppConfiguration /\ VersionOf(ctl.ac)
           /\ ctl.rendered \in [Scopes -> Scope]
           /\ ctl.entry \in Nat /\ ctl.todo \in Seq(Operation)
BY DEF ScopeInv, TypeOK, Reconciliation

\* A call fails.
LEMMA CallFailedCtl ==
    ASSUME ScopeInv, UNCHANGED <<ac, scopes>>, CallFailed
    PROVE  CtlPart'
<1>1. ASSUME NEW c \in {"error", "finalizeError"}
      PROVE  /\ [ctl.ac EXCEPT !.condition = c] \in AppConfiguration
             /\ VersionOf([ctl.ac EXCEPT !.condition = c])
    BY CtlVersion, ConditionVersion DEF Conditions
<1>2. \/ ctl' = AtWith("finalizeError", [ctl.ac EXCEPT !.condition = "finalizeError"])
      \/ ctl' = AtWith("error", [ctl.ac EXCEPT !.condition = "error"])
    BY DEF CallFailed, Failed
<1>3. QED
    BY <1>1, <1>2, AtWithCtl

\* A reconciliation starts, ends its walk or fails without writing anything.
LEMMA EndingSteps ==
    ASSUME ScopeInv, BeginFinalize \/ UpdateStatus \/ CallFault \/ UpdateFault
    PROVE  ScopeInv'
<1>1. UNCHANGED <<ac, events, acCache, scopes, objects, edits, touches>>
    BY DEF BeginFinalize, UpdateStatus, CallFault, UpdateFault
<1>2. Later /\ VersionPart' /\ ScopePart'
    BY <1>1, SameObject, SameVersions, SameScopes
<1>3. RestPart'
    <2>1. RestPart
        BY Parts
    <2>2. queued' \in BOOLEAN
        <3>1. CASE UpdateFault
            <4>1. queued' = (queued \/ Requeue(FALSE))
                BY <3>1 DEF UpdateFault
            <4>2. QED
                BY <4>1, Zenon
        <3>2. CASE BeginFinalize \/ UpdateStatus \/ CallFault
            BY <2>1, <3>2 DEF RestPart, BeginFinalize, UpdateStatus, CallFault
        <3>3. QED
            BY <3>1, <3>2
    <2>3. faults' \in 0..MaxFaults
        <3>1. faults' = faults \/ (faults < MaxFaults /\ faults' = faults + 1)
            BY DEF BeginFinalize, UpdateStatus, CallFault, UpdateFault
        <3>2. QED
            BY <2>1, <3>1, BoundsAssumption DEF RestPart
    <2>4. QED
        BY <1>1, <2>1, <2>2, <2>3 DEF RestPart
<1>4. /\ acCache \in AppConfiguration /\ VersionOf(acCache)
      /\ ctl \in Reconciliation /\ ctl.ac \in AppConfiguration /\ VersionOf(ctl.ac)
      /\ ctl.ac.spec \in AppSpecs
    BY Parts, Fields DEF VersionPart, CtlPart, Reconciliation
<1>5. CtlPart'
    <2>1. CASE UpdateFault
        BY <1>1, <1>2, <2>1, IdleCtl DEF UpdateFault
    <2>3. CASE BeginFinalize
        BY <1>1, <1>4, <2>3, AtWithCtl DEF BeginFinalize
    <2>4. CASE UpdateStatus
        <3> DEFINE v == [ctl.ac EXCEPT !.status = ctl.ac.spec, !.condition = "success"]
        <3>1. v \in AppConfiguration
            BY <1>4 DEF AppConfiguration, Conditions
        <3>2. VersionOf(v)
            BY <1>4 DEF VersionOf, AppConfiguration
        <3>3. ctl' = AtWith("posthook", v)
            BY <2>4 DEF UpdateStatus
        <3> HIDE DEF v
        <3>4. QED
            BY <1>1, <3>1, <3>2, <3>3, AtWithCtl
    <2>5. CASE CallFault
        BY <1>1, <2>5, CallFailedCtl DEF CallFault
    <2>6. QED
        BY <2>1, <2>3, <2>4, <2>5
<1>6. QED
    BY <1>2, <1>3, <1>5, PartsAfter

\* Render reads the scopes: what it holds is what is on the server, and a version
\* that joins scopes has the finalizer.
LEMMA RenderStep ==
    ASSUME ScopeInv, BeginRender
    PROVE  ScopeInv'
<1>1. UNCHANGED <<ac, events, acCache, scopes, objects, edits, touches, faults>>
    BY DEF BeginRender
<1>2. Later /\ VersionPart' /\ ScopePart'
    BY <1>1, SameObject, SameVersions, SameScopes
<1>3. RestPart'
    BY <1>1, Parts DEF RestPart, BeginRender
<1>4. acCache \in AppConfiguration /\ VersionOf(acCache)
    BY Parts DEF VersionPart
<1>5. CtlPart'
    <2> DEFINE shown == [s \in Scopes |-> IF s \in JoinedScopes(acCache) THEN scopes[s]
                                          ELSE Idle.rendered[s]]
    <2>1. CASE ctl' = Failed(acCache)
        <3>1. /\ [acCache EXCEPT !.condition = "error"] \in AppConfiguration
              /\ VersionOf([acCache EXCEPT !.condition = "error"])
            BY <1>4, ConditionVersion DEF Conditions
        <3>2. QED
            BY <1>1, <2>1, <3>1, AtWithCtl DEF Failed
    <2>2. CASE ctl' = [Idle EXCEPT !.pc = "apply", !.ac = acCache, !.rendered = shown]
        <3>1. scopes \in [Scopes -> Scope] /\ shown \in [Scopes -> Scope]
            BY Parts, IdleType DEF ScopePart
        <3>2. /\ ctl' \in Reconciliation /\ ctl'.pc = "apply" /\ ctl'.ac = acCache
              /\ ctl'.todo = <<>> /\ ctl'.rendered = shown /\ ~ctl'.read
            <4> HIDE DEF shown
            <4>1. QED
                BY <1>4, <2>2, <3>1, IdleType DEF Reconciliation
        <3>3. VersionOf(ctl.ac)'
            BY <1>1, <1>4, <3>2 DEF VersionOf
        <3>4. HasScope(acCache) => acCache.finalizer
            BY DEF BeginRender
        <3>5. JoiningInv' /\ ReadInv'
            BY <3>2, <3>4 DEF JoiningInv, ReadInv, HasScope, ToSet
        <3>6. ASSUME NEW s \in Scopes PROVE RenderedOf(s)'
            <4>1. /\ scopes[s].rv \in Nat /\ 1 <= scopes[s].rv /\ Unique(scopes[s].refs)
                BY <3>1 DEF ScopeInv, RenderedOf, NoDuplicateRefs, Scope
            <4>2. CASE s \in JoinedScopes(acCache)
                <5>1. ctl'.rendered[s] = scopes[s] /\ scopes'[s] = scopes[s]
                    BY <1>1, <3>2, <4>2
                <5>2. QED
                    BY <4>1, <5>1 DEF RenderedOf
            <4>3. CASE s \notin JoinedScopes(acCache)
                <5>1. ctl'.rendered[s].rv = 0 /\ ctl'.rendered[s].refs = <<>>
                    BY <3>2, <4>3, IdleType
                <5>2. Unique(ctl'.rendered[s].refs)
                    BY <5>1 DEF Unique
                <5>3. QED
                    BY <1>1, <4>1, <5>1, <5>2 DEF RenderedOf, Unique
            <4>4. QED
                BY <4>2, <4>3
        <3>7. QED
            BY <3>2, <3>3, <3>5, <3>6 DEF CtlPart
    <2>3. QED
        BY <2>1, <2>2 DEF BeginRender
<1>6. QED
    BY <1>2, <1>3, <1>5, PartsAfter

\* A walk goes on, with the version and the scopes it started with.
LEMMA WalkingCtl ==
    ASSUME ScopeInv, ac' = ac, ctl' \in Reconciliation,
           ctl'.ac = ctl.ac, ctl'.pc = "apply" => ctl.pc = "apply",
           \A i \in DOMAIN ctl'.todo :
               ctl'.todo[i].do = "ref" => ctl'.pc = "apply" /\ ctl.ac.finalizer,
           ReadInv', \A s \in Scopes : RenderedOf(s)'
    PROVE  CtlPart'
<1>1. VersionOf(ctl.ac)'
    BY CtlVersion DEF VersionOf
<1>2. JoiningInv'
    BY DEF ScopeInv, JoiningInv, At, HasScope, ToSet
<1>3. QED
    BY <1>1, <1>2 DEF CtlPart

\* The rendered scopes and those on the server are the same as before.
LEMMA SameRendered ==
    ASSUME ScopeInv, scopes' = scopes, ctl'.rendered = ctl.rendered
    PROVE  \A s \in Scopes : RenderedOf(s)'
BY DEF ScopeInv, RenderedOf

\* The call at hand is made and leaves the list.
LEMMA CallDoneFields ==
    ASSUME ScopeInv, ctl.todo # <<>>, CallDone
    PROVE  /\ ctl' \in Reconciliation
           /\ ctl'.pc = ctl.pc /\ ctl'.ac = ctl.ac /\ ctl'.rendered = ctl.rendered
           /\ ~ctl'.read
           /\ \A i \in DOMAIN ctl'.todo : i + 1 \in DOMAIN ctl.todo
                                          /\ ctl'.todo[i] = ctl.todo[i + 1]
<1> DEFINE rest == Tail(ctl.todo)
<1>1. /\ rest \in Seq(Operation)
      /\ \A i \in DOMAIN rest : i + 1 \in DOMAIN ctl.todo /\ rest[i] = ctl.todo[i + 1]
    BY CtlVersion
<1>2. ctl' = [ctl EXCEPT !.todo = rest, !.read = FALSE]
    BY DEF CallDone
<1> HIDE DEF rest
<1>3. /\ ctl' \in Reconciliation /\ ctl'.todo = rest /\ ~ctl'.read
      /\ ctl'.pc = ctl.pc /\ ctl'.ac = ctl.ac /\ ctl'.rendered = ctl.rendered
    BY <1>1, <1>2, CtlVersion DEF Reconciliation
<1>4. QED
    BY <1>1, <1>3

LEMMA CallDoneCtl ==
    ASSUME ScopeInv, ac' = ac, ctl.todo # <<>>, CallDone,
           \A s \in Scopes : RenderedOf(s)'
    PROVE  CtlPart'
<1>1. \A i \in DOMAIN ctl'.todo :
         ctl'.todo[i].do = "ref" => ctl'.pc = "apply" /\ ctl.ac.finalizer
    BY CallDoneFields DEF ScopeInv, JoiningInv, At
<1>2. ReadInv'
    BY CallDoneFields DEF ReadInv
<1>3. QED
    BY <1>1, <1>2, CallDoneFields, WalkingCtl

\* The steps of a walk that touch no scope.
LEMMA WalkSteps ==
    ASSUME ScopeInv, NextEntry \/ NextPhase \/ Keep \/ ApplyObject \/ DeleteObject
    PROVE  ScopeInv'
<1>1. UNCHANGED <<ac, events, acCache, scopes, queued, edits, touches, faults>>
    BY DEF NextEntry, NextPhase, Keep, ApplyObject, DeleteObject
<1>2. Later /\ VersionPart' /\ ScopePart'
    BY <1>1, SameObject, SameVersions, SameScopes
<1>3. RestPart'
    <2>1. RestPart
        BY Parts
    <2>2. objects' \subseteq Workloads \cup Traits
        <3>1. CASE ApplyObject
            <4>1. Call \in Operation /\ Call.do = "apply"
                BY <3>1, CtlVersion DEF ApplyObject, Calling, Call
            <4>2. Call.object \in Workloads \cup Traits
                BY <4>1 DEF Operation
            <4>3. QED
                BY <2>1, <3>1, <4>2 DEF ApplyObject, RestPart
        <3>2. CASE ~ApplyObject
            BY <2>1, <3>2 DEF RestPart, NextEntry, NextPhase, Keep, DeleteObject
        <3>3. QED
            BY <3>1, <3>2
    <2>3. QED
        BY <1>1, <2>1, <2>2 DEF RestPart
<1>4. CtlPart'
    <2>1. CASE Keep \/ ApplyObject \/ DeleteObject
        <3>1. ctl.todo # <<>> /\ CallDone
            BY <2>1 DEF Keep, ApplyObject, DeleteObject, Calling
        <3>2. \A s \in Scopes : RenderedOf(s)'
            BY <1>1, <3>1, CallDoneFields, SameRendered
        <3>3. QED
            BY <1>1, <3>1, <3>2, CallDoneCtl
    <2>2. CASE NextEntry
        <3> DEFINE e == PhaseList[ctl.entry + 1]
                   calls == PhaseCalls(e)
        <3>1. /\ Walking /\ ctl.entry < Len(PhaseList)
              /\ ctl' = [ctl EXCEPT !.entry = ctl.entry + 1, !.todo = calls]
            BY <2>2 DEF NextEntry
        <3>2. /\ PhaseList \in Seq(Entry)
              /\ At("apply") => PhaseList = ctl.ac.spec
            BY CtlVersion, Fields DEF PhaseList
        <3>3. ctl.entry + 1 \in 1..Len(PhaseList) /\ ctl.entry + 1 \in Nat
            BY <3>1, <3>2, CtlVersion, LenProperties
        <3>4. e \in Entry /\ ctl.entry + 1 \in DOMAIN PhaseList
            BY <3>2, <3>3, ElementOfSeq, LenProperties
        <3>5. /\ calls \in Seq(Operation)
              /\ \A i \in DOMAIN calls :
                    calls[i].do = "ref" => At("apply") /\ e.scopes # <<>>
            BY <3>1, <3>4, PhaseCallsType
        <3>6. At("apply") /\ e.scopes # <<>> => HasScope(ctl.ac)
            BY <3>2, <3>4 DEF HasScope, ToSet
        <3>7. At("apply") /\ HasScope(ctl.ac) => ctl.ac.finalizer
            BY DEF ScopeInv, JoiningInv
        <3> HIDE DEF calls, e
        <3>8. /\ ctl' \in Reconciliation /\ ctl'.todo = calls
              /\ ctl'.pc = ctl.pc /\ ctl'.ac = ctl.ac /\ ctl'.rendered = ctl.rendered
            BY <3>1, <3>3, <3>5, CtlVersion DEF Reconciliation
        <3>9. \A s \in Scopes : RenderedOf(s)'
            BY <1>1, <3>8, SameRendered
        <3>10. \A i \in DOMAIN ctl'.todo :
                  ctl'.todo[i].do = "ref" => ctl'.pc = "apply" /\ ctl.ac.finalizer
            BY <3>5, <3>6, <3>7, <3>8 DEF At
        <3>11. ReadInv'
            BY <2>2, <3>1, CtlVersion DEF ScopeInv, ReadInv, NextEntry, Reconciliation
        <3>12. QED
            BY <1>1, <3>8, <3>9, <3>10, <3>11, WalkingCtl
    <2>3. CASE NextPhase
        <3>1. PICK pc \in {"dereference", "collect"} :
                 ctl' = [ctl EXCEPT !.pc = pc, !.entry = 0] /\ ctl.todo = <<>>
            BY <2>3 DEF NextPhase, PhaseDone
        <3>2. /\ ctl' \in Reconciliation /\ ctl'.todo = <<>>
              /\ ctl'.pc = pc /\ ctl'.ac = ctl.ac /\ ctl'.rendered = ctl.rendered
            BY <3>1, CtlVersion DEF Reconciliation
        <3>3. \A s \in Scopes : RenderedOf(s)'
            BY <1>1, <3>2, SameRendered
        <3>4. ctl'.pc # "apply" /\ DOMAIN ctl'.todo = {}
            BY <3>1, <3>2
        <3>5. ReadInv'
            BY <3>1, CtlVersion DEF ScopeInv, ReadInv, Reconciliation
        <3>6. QED
            BY <1>1, <3>2, <3>3, <3>4, <3>5, WalkingCtl
    <2>4. QED
        BY <2>1, <2>2, <2>3
<1>5. QED
    BY <1>2, <1>3, <1>4, PartsAfter

\* What a call on a scope does to it: nothing, or its workload comes in or goes out, at the
\* next version of what is on the server.
ScopeCallEffect ==
    \/ scopes' = scopes /\ CallFailed
    \/ /\ scopes' = scopes /\ CallDone
       /\ Call.do = "ref" => AlreadyReferenced(Call.scope, Call.workload)
       /\ Call.do = "unref" =>
             ~scopes[Call.scope].exists \/ Call.workload \notin Refs(Call.scope)
    \/ /\ CallDone
       /\ \E s \in Scopes, w \in Workloads, new \in Scope :
             /\ s = Call.scope /\ w = Call.workload
             /\ scopes' = [scopes EXCEPT ![s] = new] /\ scopes[s].exists
             /\ new.rv = scopes[s].rv + 1 /\ Unique(new.refs) /\ new.exists = scopes[s].exists
             /\ \/ Call.do = "ref" /\ ToSet(new.refs) = Refs(s) \cup {w} /\ ctl.ac.finalizer
                \/ Call.do = "unref" /\ ToSet(new.refs) = Refs(s) \ {w}

LEMMA ScopeOperation ==
    ASSUME ScopeInv, Walking, ctl.todo # <<>>, Call.do \in {"ref", "unref"}
    PROVE  /\ Call.scope \in Scopes /\ Call.workload \in Workloads
           /\ Call.do = "ref" => ctl.ac.finalizer
<1>1. Call \in Operation /\ 1 \in DOMAIN ctl.todo /\ Call = ctl.todo[1]
    BY CtlVersion DEF Call
<1>2. Call.do = "ref" => ctl.ac.finalizer
    BY <1>1 DEF ScopeInv, JoiningInv
<1>3. QED
    BY <1>1, <1>2 DEF Operation

LEMMA ApplyScopeEffect ==
    ASSUME ScopeInv, ApplyScope
    PROVE  ScopeCallEffect
<1>1. Walking /\ ctl.todo # <<>> /\ Call.do = "ref"
    BY DEF ApplyScope, Calling, Call
<1> DEFINE s == Call.scope
           w == Call.workload
           refs == Append(ctl.rendered[s].refs, w)
           new == [scopes[s] EXCEPT !.rv = scopes[s].rv + 1, !.refs = refs]
<1>2. s \in Scopes /\ w \in Workloads /\ ctl.ac.finalizer
    BY <1>1, ScopeOperation
<1>3. /\ scopes \in [Scopes -> Scope] /\ scopes[s] \in Scope /\ ctl.rendered[s] \in Scope
      /\ RenderedOf(s)
    BY <1>2, Parts, CtlVersion DEF ScopePart, CtlPart
<1> HIDE DEF s, w
<1>4. CASE AlreadyReferenced(s, w)
    BY <1>1, <1>4 DEF ApplyScope, ScopeCallEffect, s, w
<1>5. CASE ~AlreadyReferenced(s, w) /\ ~ScopeAccepted(s)
    BY <1>5 DEF ApplyScope, ScopeCallEffect, s, w
<1>6. CASE ~AlreadyReferenced(s, w) /\ ScopeAccepted(s)
    <2>1. /\ w \notin ToSet(ctl.rendered[s].refs) /\ ctl.rendered[s].refs = scopes[s].refs
          /\ Unique(ctl.rendered[s].refs) /\ scopes[s].exists
        BY <1>3, <1>6 DEF AlreadyReferenced, ScopeAccepted, RenderedOf
    <2>2. /\ refs \in Seq(Workloads \cup {Foreign}) /\ Unique(refs)
          /\ ToSet(refs) = Refs(s) \cup {w}
        <3>1. ctl.rendered[s].refs \in Seq(Workloads \cup {Foreign})
            BY <1>3 DEF Scope
        <3>2. QED
            BY <1>2, <2>1, <3>1, AppendRefFacts DEF Refs
    <2>3. CallDone /\ scopes' = [scopes EXCEPT ![s].rv = @ + 1, ![s].refs = refs]
        BY <1>6 DEF ApplyScope, s, w
    <2> HIDE DEF refs
    <2>4. scopes' = [scopes EXCEPT ![s] = new]
        BY <1>2, <1>3, <2>3 DEF Scope
    <2>5. /\ new \in Scope /\ new.rv = scopes[s].rv + 1 /\ new.refs = refs
          /\ new.exists = scopes[s].exists
        <3>1. scopes[s].rv + 1 \in Nat
            BY <1>3 DEF Scope
        <3>2. QED
            BY <1>3, <2>2, <3>1 DEF Scope
    <2> HIDE DEF new
    <2>6. QED
        BY ZenonT(40), <1>1, <1>2, <2>1, <2>2, <2>3, <2>4, <2>5 DEF ScopeCallEffect, s, w
<1>7. QED
    BY <1>4, <1>5, <1>6

\* The call at hand has read its scope, which refers to the workload.
ScopeRead ==
    /\ Calling("unref") /\ ~ctl.read
    /\ scopes[Call.scope].exists /\ Call.workload \in Refs(Call.scope)
    /\ ctl' = [ctl EXCEPT !.rendered[Call.scope] = scopes[Call.scope], !.read = TRUE]
    /\ UNCHANGED <<ac, events, acCache, scopes, objects, queued, edits, touches, faults>>

LEMMA ReadScopeEffect ==
    ASSUME ScopeInv, ReadScope
    PROVE  \/ ScopeRead
           \/ ScopeCallEffect /\ scopes' = scopes
<1>1. Calling("unref") /\ Call.do = "unref" /\ ~ctl.read
    BY DEF ReadScope, Calling, Call
<1>2. UNCHANGED <<ac, events, acCache, scopes, objects, queued, edits, touches, faults>>
    BY DEF ReadScope
<1>3. \/ CallFailed
      \/ CallDone /\ (~scopes[Call.scope].exists \/ Call.workload \notin Refs(Call.scope))
      \/ /\ scopes[Call.scope].exists /\ Call.workload \in Refs(Call.scope)
         /\ ctl' = [ctl EXCEPT !.rendered[Call.scope] = scopes[Call.scope], !.read = TRUE]
    BY DEF ReadScope, RemovalDone
<1>4. QED
    BY <1>1, <1>2, <1>3 DEF ScopeRead, ScopeCallEffect

\* What a read changes.
LEMMA ScopeReadFields ==
    ASSUME ScopeInv, ScopeRead
    PROVE  /\ ctl' \in Reconciliation /\ ctl' = [ctl EXCEPT !.rendered = ctl'.rendered,
                                                          !.read = TRUE]
           /\ ctl'.pc = ctl.pc /\ ctl'.ac = ctl.ac /\ ctl'.entry = ctl.entry
           /\ ctl'.todo = ctl.todo /\ ctl'.read
           /\ Call.scope \in Scopes /\ ctl'.rendered[Call.scope] = scopes[Call.scope]
           /\ \A s \in Scopes : s # Call.scope => ctl'.rendered[s] = ctl.rendered[s]
<1> DEFINE s == Call.scope
           shown == [ctl.rendered EXCEPT ![s] = scopes[s]]
<1>1. s \in Scopes
    BY ScopeOperation DEF ScopeRead, Calling, Call
<1>2. shown \in [Scopes -> Scope] /\ ctl.rendered \in [Scopes -> Scope]
    BY <1>1, CtlVersion, Parts DEF ScopePart
<1>3. ctl' = [ctl EXCEPT !.rendered = shown, !.read = TRUE]
    BY CtlVersion DEF ScopeRead, Reconciliation
<1> HIDE DEF s
<1>4. shown[s] = scopes[s] /\ \A r \in Scopes : r # s => shown[r] = ctl.rendered[r]
    BY <1>1, <1>2
<1> HIDE DEF shown
<1>5. /\ ctl' \in Reconciliation /\ ctl'.rendered = shown
      /\ ctl'.pc = ctl.pc /\ ctl'.ac = ctl.ac /\ ctl'.entry = ctl.entry
      /\ ctl'.todo = ctl.todo /\ ctl'.read
    BY <1>2, <1>3, CtlVersion DEF Reconciliation
<1>6. QED
    BY <1>1, <1>3, <1>4, <1>5 DEF s

LEMMA ScopeReadStep ==
    ASSUME ScopeInv, ScopeRead
    PROVE  ScopeInv'
<1>1. UNCHANGED <<ac, events, acCache, scopes, objects, queued, edits, touches, faults>>
    BY DEF ScopeRead
<1>2. Later /\ VersionPart' /\ ScopePart'
    BY <1>1, SameObject, SameVersions, SameScopes
<1>3. RestPart'
    BY <1>1, Parts DEF RestPart
<1>4. ASSUME NEW s \in Scopes PROVE RenderedOf(s)'
    <2>1. scopes[s] \in Scope /\ RenderedOf(s) /\ Unique(scopes[s].refs)
        BY Parts DEF ScopePart, CtlPart, NoDuplicateRefs
    <2>2. ctl'.rendered[s] = scopes[s] \/ ctl'.rendered[s] = ctl.rendered[s]
        BY ScopeReadFields
    <2>3. QED
        BY <1>1, <2>1, <2>2 DEF RenderedOf, Scope
<1>5. ReadInv'
    <2>1. /\ ctl.todo # <<>> /\ Call.do = "unref" /\ Call' = Call
          /\ Call.workload \in ToSet(scopes[Call.scope].refs)
        BY ScopeReadFields DEF ScopeRead, Calling, Call, Refs
    <2>2. QED
        BY <2>1, ScopeReadFields DEF ReadInv
<1>6. \A i \in DOMAIN ctl'.todo :
         ctl'.todo[i].do = "ref" => ctl'.pc = "apply" /\ ctl.ac.finalizer
    BY ScopeReadFields DEF ScopeInv, JoiningInv, At
<1>7. CtlPart'
    BY <1>1, <1>4, <1>5, <1>6, ScopeReadFields, WalkingCtl
<1>8. QED
    BY <1>2, <1>3, <1>7, PartsAfter

LEMMA ApplyScopeRemovalEffect ==
    ASSUME ScopeInv, ApplyScopeRemoval
    PROVE  ScopeCallEffect
<1>1. Walking /\ ctl.todo # <<>> /\ Call.do = "unref" /\ ctl.read
    BY DEF ApplyScopeRemoval, Calling, Call
<1> DEFINE s == Call.scope
           w == Call.workload
           refs == RemoveRef(ctl.rendered[s].refs, FirstRef(ctl.rendered[s].refs, w))
           new == [scopes[s] EXCEPT !.rv = scopes[s].rv + 1, !.refs = refs]
<1>2. s \in Scopes /\ w \in Workloads
    BY <1>1, ScopeOperation
<1>3. /\ scopes \in [Scopes -> Scope] /\ scopes[s] \in Scope /\ RenderedOf(s)
      /\ Unique(scopes[s].refs) /\ scopes[s].refs \in Seq(Workloads \cup {Foreign})
      /\ w \in ToSet(ctl.rendered[s].refs)
    BY <1>1, <1>2, Parts DEF ScopePart, CtlPart, ReadInv, NoDuplicateRefs, Scope
<1> HIDE DEF s, w
<1>4. \/ scopes' = scopes /\ CallFailed
      \/ /\ CallDone /\ ScopeAccepted(s)
         /\ scopes' = [scopes EXCEPT ![s].rv = @ + 1, ![s].refs = refs]
    BY DEF ApplyScopeRemoval, s, w
<1>5. CASE scopes' = scopes /\ CallFailed
    BY <1>5 DEF ScopeCallEffect
<1>6. CASE /\ CallDone /\ ScopeAccepted(s)
           /\ scopes' = [scopes EXCEPT ![s].rv = @ + 1, ![s].refs = refs]
    <2>1. scopes[s].exists /\ ctl.rendered[s].refs = scopes[s].refs
        BY <1>3, <1>6 DEF ScopeAccepted, RenderedOf
    <2>2. /\ refs \in Seq(Workloads \cup {Foreign}) /\ Unique(refs)
          /\ ToSet(refs) = Refs(s) \ {w}
        BY <1>3, <2>1, RemoveRefFacts DEF Refs
    <2> HIDE DEF refs
    <2>3. scopes' = [scopes EXCEPT ![s] = new]
        BY <1>2, <1>3, <1>6 DEF Scope
    <2>4. /\ new \in Scope /\ new.rv = scopes[s].rv + 1 /\ new.refs = refs
          /\ new.exists = scopes[s].exists
        <3>1. scopes[s].rv + 1 \in Nat
            BY <1>3 DEF Scope
        <3>2. QED
            BY <1>3, <2>2, <3>1 DEF Scope
    <2> HIDE DEF new
    <2>5. QED
        BY <1>1, <1>2, <1>6, <2>1, <2>2, <2>3, <2>4 DEF ScopeCallEffect, s, w
<1>7. QED
    BY <1>4, <1>5, <1>6

\* The calls that add and remove references either read a scope or have an effect.
LEMMA ScopeCallCases ==
    ASSUME ScopeInv, ApplyScope \/ ReadScope \/ ApplyScopeRemoval
    PROVE  ScopeRead \/ ScopeCallEffect
BY ApplyScopeEffect, ReadScopeEffect, ApplyScopeRemovalEffect

LEMMA ScopeCallSteps ==
    ASSUME ScopeInv, ApplyScope \/ ReadScope \/ ApplyScopeRemoval
    PROVE  ScopeInv'
<1> SUFFICES ASSUME ScopeCallEffect PROVE ScopeInv'
    BY ScopeCallCases, ScopeReadStep
<1>1. /\ UNCHANGED <<ac, events, acCache, objects, queued, edits, touches, faults>>
      /\ ctl.todo # <<>>
    BY DEF ApplyScope, ReadScope, ApplyScopeRemoval, Calling
<1>2. Later /\ VersionPart'
    BY <1>1, SameObject, SameVersions
<1>3. RestPart'
    BY <1>1, Parts DEF RestPart
<1>4. ScopeCallEffect
    OBVIOUS
<1>5. ScopePart' /\ CtlPart'
    <2>1. CASE scopes' = scopes /\ CallDone
        <3>1. \A s \in Scopes : RenderedOf(s)'
            BY <1>1, <2>1, CallDoneFields, SameRendered
        <3>2. QED
            BY <1>1, <1>2, <2>1, <3>1, CallDoneCtl, SameScopes
    <2>2. CASE scopes' = scopes /\ CallFailed
        BY <1>1, <1>2, <2>2, CallFailedCtl, SameScopes
    <2>3. ASSUME CallDone, NEW s \in Scopes, NEW w \in Workloads, NEW new \in Scope,
                 scopes' = [scopes EXCEPT ![s] = new],
                 new.rv = scopes[s].rv + 1, Unique(new.refs),
                 \/ ToSet(new.refs) = Refs(s) \cup {w} /\ ctl.ac.finalizer
                 \/ ToSet(new.refs) = Refs(s) \ {w}
          PROVE  ScopePart' /\ CtlPart'
        <3>1. ctl.ac.finalizer => (ac.exists => ac.finalizer)
            BY CtlVersion DEF VersionOf
        <3>2. \/ ToSet(new.refs) \cap Workloads \subseteq OwnRefs(s)
              \/ ac.exists => ac.finalizer
            BY <2>3, <3>1 DEF OwnRefs
        <3>3. ctl'.rendered = ctl.rendered
            BY <1>1, <2>3, CallDoneFields
        <3>4. ScopePart' /\ \A r \in Scopes : RenderedOf(r)'
            BY <1>1, <2>3, <3>2, <3>3, ScopeWritten
        <3>5. QED
            BY <1>1, <2>3, <3>4, CallDoneCtl
    <2>4. QED
        BY <1>4, <2>1, <2>2, <2>3 DEF ScopeCallEffect
<1>6. QED
    BY <1>2, <1>3, <1>5, PartsAfter

\* A status update of a version of the object moves the object on.
LEMMA StatusLater ==
    ASSUME ScopeInv, NEW v \in AppConfiguration, v.observedGeneration <= ac.generation,
           Write(StatusOf(v)), acCache' = acCache
    PROVE  /\ Later /\ VersionPart'
           /\ ac'.exists = ac.exists /\ ac'.finalizer = ac.finalizer
           /\ ac'.generation = ac.generation
<1>1. ac \in AppConfiguration
    BY Parts DEF VersionPart
<1>2. /\ StatusOf(v) \in AppConfiguration
      /\ StatusOf(v).generation = ac.generation
      /\ StatusOf(v).observedGeneration = v.observedGeneration
      /\ StatusOf(v).exists = ac.exists /\ StatusOf(v).finalizer = ac.finalizer
    BY <1>1 DEF StatusOf, AppConfiguration
<1>3. ac.generation <= ac.generation
    BY <1>1, Fields
<1>4. /\ Later /\ events' \in Seq(AppConfiguration)
      /\ \A i \in DOMAIN events' : VersionOf(events[i])'
      /\ ac' = [StatusOf(v) EXCEPT !.rv = ac'.rv]
    BY <1>2, <1>3, WriteLater
<1>5. VersionPart'
    BY <1>4, WrittenVersions
<1>6. /\ ac'.exists = ac.exists /\ ac'.finalizer = ac.finalizer
      /\ ac'.generation = ac.generation
    BY <1>2, <1>4 DEF AppConfiguration
<1>7. QED
    BY <1>4, <1>5, <1>6

\* The updates that end a reconciliation, and the first one after an error.
LEMMA StatusSteps ==
    ASSUME ScopeInv, UpdateErrorStatus \/ PostHook \/ RemoveFinalizer \/ UpdateFinalizeError
    PROVE  ScopeInv'
<1>1. UNCHANGED <<acCache, scopes, objects, edits, touches, faults>>
    BY DEF UpdateErrorStatus, PostHook, RemoveFinalizer, UpdateFinalizeError
<1>2. /\ ac \in AppConfiguration /\ ac.observedGeneration <= ac.generation
      /\ ctl \in Reconciliation /\ ctl.ac \in AppConfiguration /\ VersionOf(ctl.ac)
      /\ ac.generation <= ac.generation
    BY Parts, CtlVersion, Fields DEF VersionPart
<1>3. ctl.ac.observedGeneration <= ac.generation
    BY <1>2, Fields DEF VersionOf
<1>4. RestPart'
    <2>1. RestPart
        BY Parts
    <2>2. CASE PostHook
        <3>1. queued' = (queued \/ Requeue(Accepted(ctl.ac)))
            BY <2>2 DEF PostHook
        <3>2. queued' \in BOOLEAN
            BY <3>1, Zenon
        <3>3. QED
            BY <1>1, <2>1, <3>2 DEF RestPart
    <2>3. CASE UpdateErrorStatus \/ RemoveFinalizer \/ UpdateFinalizeError
        BY <1>1, <2>1, <2>3
           DEF RestPart, UpdateErrorStatus, RemoveFinalizer, UpdateFinalizeError
    <2>4. QED
        BY <2>2, <2>3
<1>5. CASE UNCHANGED <<ac, events>> /\ ctl' = Idle
    BY <1>1, <1>4, <1>5, SameObject, SameVersions, SameScopes, IdleCtl, PartsAfter
<1>6. CASE UpdateErrorStatus
    <2>1. CASE ~Accepted(ctl.ac)
        <3>1. UNCHANGED <<ac, events>> /\ ctl' = [ctl EXCEPT !.pc = "posthook"] /\ At("error")
            BY <1>6, <2>1 DEF UpdateErrorStatus
        <3>2. /\ ctl' \in Reconciliation /\ ctl'.pc = "posthook" /\ ctl'.ac = ctl.ac
              /\ ctl'.rendered = ctl.rendered /\ ctl'.todo = ctl.todo /\ ctl'.read = ctl.read
            BY <1>2, <3>1 DEF Reconciliation
        <3>3. \A s \in Scopes : RenderedOf(s)'
            BY <1>1, <3>2, SameRendered
        <3>4. \A i \in DOMAIN ctl'.todo : ctl'.todo[i].do # "ref"
            BY <3>1, <3>2 DEF ScopeInv, JoiningInv, At
        <3>5. ReadInv'
            BY <3>2 DEF ScopeInv, ReadInv, Call
        <3>6. CtlPart'
            BY <3>1, <3>2, <3>3, <3>4, <3>5, WalkingCtl
        <3>7. QED
            BY <1>1, <1>4, <3>1, <3>6, SameObject, SameVersions, SameScopes, PartsAfter
    <2>2. CASE Accepted(ctl.ac)
        <3>1. /\ Write(StatusOf(ctl.ac)) /\ At("error")
              /\ ctl' = [ctl EXCEPT !.pc = "posthook", !.ac = ac']
            BY <1>6, <2>2 DEF UpdateErrorStatus
        <3>2. Later /\ VersionPart' /\ ScopePart'
            BY <1>1, <1>2, <1>3, <3>1, StatusLater, SameScopes
        <3>3. ac' \in AppConfiguration /\ ac'.observedGeneration <= ac'.generation
            BY <3>2 DEF Later
        <3>4. /\ ctl' \in Reconciliation /\ ctl'.pc = "posthook" /\ ctl'.ac = ac'
              /\ ctl'.rendered = ctl.rendered /\ ctl'.todo = ctl.todo /\ ctl'.read = ctl.read
            BY <1>2, <3>1, <3>3 DEF Reconciliation
        <3>5. \A s \in Scopes : RenderedOf(s)'
            BY <1>1, <3>4, SameRendered
        <3>6. JoiningInv' /\ ReadInv'
            BY <3>1, <3>4 DEF ScopeInv, JoiningInv, ReadInv, Call, At
        <3>7. VersionOf(ctl.ac)'
            <4>1. 1 <= ac'.generation /\ ac'.generation <= ac'.generation
                BY <3>2, <3>3, OneVersion, Fields DEF Later
            <4>2. QED
                BY <3>3, <3>4, <4>1 DEF VersionOf
        <3>8. QED
            BY <1>4, <3>2, <3>4, <3>5, <3>6, <3>7, PartsAfter DEF CtlPart
    <2>3. QED
        BY <2>1, <2>2
<1>7. CASE PostHook /\ Accepted(ctl.ac)
    <2> DEFINE new == [ctl.ac EXCEPT !.observedGeneration = ObservedGeneration(ctl.ac)]
    <2>1. new \in AppConfiguration /\ new.observedGeneration = ctl.ac.generation
        BY <1>2, Fields DEF AppConfiguration, ObservedGeneration
    <2>2. new.observedGeneration <= ac.generation
        BY <1>2, <2>1 DEF VersionOf
    <2>3. Write(StatusOf(new)) /\ ctl' = Idle
        BY <1>7 DEF PostHook
    <2> HIDE DEF new
    <2>4. Later /\ VersionPart'
        BY <1>1, <2>1, <2>2, <2>3, StatusLater
    <2>5. QED
        BY <1>1, <1>4, <2>3, <2>4, SameScopes, IdleCtl, PartsAfter
<1>8. CASE RemoveFinalizer /\ Accepted(ctl.ac)
    <2> DEFINE new == [ac EXCEPT !.finalizer = FALSE, !.exists = FALSE]
    <2>1. /\ new \in AppConfiguration /\ new.generation = ac.generation
          /\ new.observedGeneration = ac.observedGeneration /\ ~new.exists
        BY <1>2 DEF AppConfiguration
    <2>2. Write(new) /\ ctl' = Idle
        BY <1>8 DEF RemoveFinalizer
    <2> HIDE DEF new
    <2>3. /\ Later /\ events' \in Seq(AppConfiguration)
          /\ \A i \in DOMAIN events' : VersionOf(events[i])'
        BY <1>2, <2>1, <2>2, WriteLater
    <2>4. QED
        BY <1>1, <1>4, <2>2, <2>3, WrittenVersions, SameScopes, IdleCtl, PartsAfter
<1>9. CASE UpdateFinalizeError /\ Accepted(ctl.ac)
    <2>1. Write(StatusOf(ctl.ac)) /\ ctl' = Idle
        BY <1>9 DEF UpdateFinalizeError
    <2>2. Later /\ VersionPart'
        BY <1>1, <1>2, <1>3, <2>1, StatusLater
    <2>3. QED
        BY <1>1, <1>4, <2>1, <2>2, SameScopes, IdleCtl, PartsAfter
<1>10. QED
    BY <1>5, <1>6, <1>7, <1>8, <1>9 DEF PostHook, RemoveFinalizer, UpdateFinalizeError

\* The initial states.
LEMMA InitInv == Init => ScopeInv
<1> SUFFICES ASSUME Init PROVE ScopeInv
    OBVIOUS
<1>1. PICK s \in AppSpecs : ac = Created(s)
    BY DEF Init
<1>2. /\ ac \in AppConfiguration /\ ac.generation = 1 /\ ac.observedGeneration = 0
      /\ ~ac.finalizer
    BY <1>1 DEF Created, AppConfiguration, Conditions
<1>3. VersionOf(ac) /\ acCache = ac /\ events = <<ac>>
    BY <1>2 DEF VersionOf, Init
<1>4. VersionPart
    <2>1. events \in Seq(AppConfiguration) /\ \A i \in DOMAIN events : events[i] = ac
        BY <1>2, <1>3
    <2>2. QED
        BY <1>2, <1>3, <2>1 DEF VersionPart
<1>5. /\ scopes \in [Scopes -> Scope]
      /\ \A r \in Scopes : /\ scopes[r].rv = 1
                           /\ scopes[r].refs = <<>> \/ scopes[r].refs = <<Foreign>>
    <2>1. /\ <<Foreign>> \in Seq(Workloads \cup {Foreign})
          /\ <<>> \in Seq(Workloads \cup {Foreign})
        BY EmptySeq
    <2>2. /\ [exists |-> TRUE, rv |-> 1, refs |-> <<>>] \in Scope
          /\ [exists |-> TRUE, rv |-> 1, refs |-> <<Foreign>>] \in Scope
        BY <2>1 DEF Scope
    <2>3. scopes \in [Scopes -> {[exists |-> TRUE, rv |-> 1, refs |-> <<>>],
                                 [exists |-> TRUE, rv |-> 1, refs |-> <<Foreign>>]}]
        BY DEF Init
    <2>4. scopes \in [Scopes -> Scope]
        BY <2>2, <2>3
    <2>5. ASSUME NEW r \in Scopes
          PROVE  scopes[r].rv = 1 /\ (scopes[r].refs = <<>> \/ scopes[r].refs = <<Foreign>>)
        <3>1. \/ scopes[r] = [exists |-> TRUE, rv |-> 1, refs |-> <<>>]
              \/ scopes[r] = [exists |-> TRUE, rv |-> 1, refs |-> <<Foreign>>]
            BY <2>3
        <3>2. QED
            BY <3>1
    <2>6. QED
        BY <2>4, <2>5
<1>6. ASSUME NEW r \in Scopes
      PROVE  Unique(scopes[r].refs) /\ OwnRefs(r) = {}
    <2>1. CASE scopes[r].refs = <<>>
        BY <2>1 DEF Unique, OwnRefs, Refs, ToSet
    <2>2. CASE scopes[r].refs = <<Foreign>>
        BY <2>2, AppSpecsAssumption DEF Unique, OwnRefs, Refs, ToSet
    <2>3. QED
        BY <1>5, <2>1, <2>2
<1>7. ScopePart
    BY <1>5, <1>6 DEF ScopePart, RefHasFinalizer, NoDuplicateRefs
<1>8. ctl = Idle
    BY DEF Init
<1>9. CtlPart
    <2>1. VersionOf(ctl.ac)
        BY <1>2, <1>8, IdleType DEF VersionOf
    <2>2. JoiningInv
        BY <1>8, IdleType DEF JoiningInv, At
    <2>5. ReadInv
        BY <1>8, IdleType DEF ReadInv
    <2>3. \A r \in Scopes : RenderedOf(r)
        BY <1>5, <1>8, IdleType DEF RenderedOf, Unique
    <2>4. QED
        BY <1>8, <2>1, <2>2, <2>3, <2>5, IdleType DEF CtlPart
<1>10. RestPart
    <2>1. objects = {} /\ queued = FALSE /\ edits = 0 /\ touches = 0 /\ faults = 0
        BY DEF Init
    <2>2. 0 \in 0..MaxEdits /\ 0 \in 0..MaxTouches /\ 0 \in 0..MaxFaults
        BY BoundsAssumption
    <2>3. QED
        BY <2>1, <2>2 DEF RestPart
<1>11. QED
    BY <1>4, <1>7, <1>9, <1>10, Parts

\* Every step keeps the invariant.
LEMMA StepInv == ScopeInv /\ [Next]_vars => ScopeInv'
<1> SUFFICES ASSUME ScopeInv, [Next]_vars PROVE ScopeInv'
    OBVIOUS
<1>1. CASE UNCHANGED vars
    <2>1. UNCHANGED <<ac, events, acCache, scopes, ctl>> /\ RestPart'
        BY <1>1, Parts DEF vars, RestPart
    <2>2. QED
        BY <2>1, SameObject, SameVersions, SameScopes, SameCtl, PartsAfter
<1>2. CASE Next
    BY <1>2, UserSteps, InformerSteps, ScopeSteps, EndingSteps, RenderStep, WalkSteps,
       ScopeCallSteps, StatusSteps DEF Next, ReconcileStep
<1>3. QED
    BY <1>1, <1>2

\* The bookkeeping of versions, the finalizer and the scopes is consistent in every
\* reachable state, whatever the users, the other writers of the scopes and the
\* faults do, and for every set of components (the controller as a whole).
THEOREM ScopeInvariant == Spec => []ScopeInv
BY InitInv, StepInv, PTL DEF Spec

\* Every variable has its type, and no generation is observed before it is written.
THEOREM TypeCorrect == Spec => []TypeOK
<1>1. ScopeInv => TypeOK
    BY DEF ScopeInv
<1>2. QED
    BY <1>1, ScopeInvariant, PTL

\* A scope refers to a workload of an existing ApplicationConfiguration only if that
\* has the finalizer (registerFinalizers before applyScope).
THEOREM RefsGuardedByFinalizer == Spec => []RefHasFinalizer
<1>1. ScopeInv => RefHasFinalizer
    BY DEF ScopeInv
<1>2. QED
    BY <1>1, ScopeInvariant, PTL

\* No scope refers to a workload twice (applyScope, applyScopeRemoval).
THEOREM RefsUnique == Spec => []NoDuplicateRefs
<1>1. ScopeInv => NoDuplicateRefs
    BY DEF ScopeInv
<1>2. QED
    BY <1>1, ScopeInvariant, PTL

\* No step of the reconciler adds or removes another ApplicationConfiguration's
\* reference, because a scope is only written at the version it was read at.
THEOREM ForeignRefsUntouched == Spec => ForeignRefsKept
<1> DEFINE Kept == touches' = touches =>
              \A s \in Scopes : Foreign \in Refs(s) <=> Foreign \in ToSet(scopes'[s].refs)
<1>1. ASSUME ScopeInv, [Next]_vars PROVE [Kept]_vars
    <2>1. CASE scopes' = scopes
        BY <2>1 DEF Refs
    <2>2. CASE ApplyScope \/ ReadScope \/ ApplyScopeRemoval
        <3>1. scopes' = scopes \/ ScopeCallEffect
            BY <1>1, <2>2, ScopeCallCases DEF ScopeRead
        <3>2. ASSUME NEW s \in Scopes, NEW w \in Workloads, NEW new \in Scope,
                     scopes' = [scopes EXCEPT ![s] = new],
                     ToSet(new.refs) = Refs(s) \cup {w} \/ ToSet(new.refs) = Refs(s) \ {w}
              PROVE  Kept
            <4>1. scopes \in [Scopes -> Scope] /\ Foreign # w
                BY <1>1, Parts, AppSpecsAssumption DEF ScopePart
            <4>2. QED
                BY <3>2, <4>1 DEF Refs
        <3>3. QED
            BY <2>1, <3>1, <3>2 DEF ScopeCallEffect
    <2>3. CASE \E s \in Scopes : TouchScope(s) \/ DeleteScope(s)
        <3>1. touches \in Nat
            BY <1>1, Parts, BoundsAssumption DEF RestPart
        <3>2. touches' = touches + 1
            BY <2>3 DEF TouchScope, DeleteScope
        <3>3. QED
            BY <3>1, <3>2
    <2>4. QED
        BY <1>1, <2>1, <2>2, <2>3
           DEF Next, ReconcileStep, vars, EditAppConfig, DeleteAppConfig, CollectOwned,
               Deliver, Resync, BeginGone, RegisterFinalizers, BeginRender, BeginFinalize,
               NextEntry, NextPhase, Keep, ApplyObject, DeleteObject, UpdateStatus,
               UpdateErrorStatus, PostHook, RemoveFinalizer, UpdateFinalizeError,
               CallFault, UpdateFault, Restart
<1>2. QED
    BY <1>1, ScopeInvariant, PTL DEF Spec, ForeignRefsKept

-------------------------------------------------------------------------------
(* What a reported success means *)

\* The same facts of the next state, for a version or an entry that is the same before and
\* after the step.
ReadFromNext(v) ==
    /\ v.rv <= ac'.rv
    /\ v.rv = ac'.rv => v.generation = ac'.generation
    /\ v.generation = ac'.generation => v.spec = ac'.spec
    /\ v.deleting => ac'.deleting

InForceNext(e, calls) ==
    /\ \A o \in {e.workload} \cup ToSet(e.traits) :
          o \in objects' \/ [do |-> "apply", object |-> o] \in calls
    /\ \A s \in ToSet(e.scopes) \ PlainScopes :
          scopes'[s].exists =>
              \/ e.workload \in ToSet(scopes'[s].refs)
              \/ [do |-> "ref", scope |-> s, workload |-> e.workload] \in calls

\* The object is written, with a new generation if its spec changes, or stays.
Moved ==
    /\ ac' \in AppConfiguration
    /\ ac.deleting => ac'.deleting
    /\ \/ ac' = ac /\ events' = events
       \/ /\ ac'.rv = ac.rv + 1 /\ events' = Append(events, ac')
          /\ \/ ac'.generation = ac.generation /\ ac'.spec = ac.spec
             \/ ac'.generation = ac.generation + 1

\* A version the object has or had remains one.
LEMMA ReadFromLater ==
    ASSUME ac \in AppConfiguration, Moved, NEW v \in AppConfiguration, VersionOf(v), ReadFrom(v)
    PROVE  ReadFromNext(v)
<1>1. /\ ac.rv \in Nat /\ ac.generation \in Nat /\ v.rv \in Nat /\ v.generation \in Nat
      /\ ac'.rv \in Nat /\ ac'.generation \in Nat
    BY Fields DEF Moved
<1>2. v.generation <= ac.generation
    BY DEF VersionOf
<1>3. QED
    BY <1>1, <1>2 DEF Moved, ReadFrom, ReadFromNext

\* A write of the API server moves the object.
LEMMA WriteMoves ==
    ASSUME ac \in AppConfiguration, NEW new \in AppConfiguration, Write(new),
           ac.deleting => new.deleting,
           \/ new.generation = ac.generation /\ new.spec = ac.spec
           \/ new.generation = ac.generation + 1
    PROVE  Moved
<1>1. CASE new = ac
    BY <1>1 DEF Write, Moved
<1>2. CASE new # ac
    <2>1. ac' = [new EXCEPT !.rv = ac.rv + 1] /\ events' = Append(events, ac')
        BY <1>2 DEF Write
    <2>2. ac.rv + 1 \in Nat
        BY Fields
    <2>3. /\ ac' \in AppConfiguration /\ ac'.rv = ac.rv + 1 /\ ac'.generation = new.generation
          /\ ac'.spec = new.spec /\ ac'.deleting = new.deleting
        BY <2>1, <2>2 DEF AppConfiguration
    <2>4. QED
        BY <2>1, <2>3 DEF Moved
<1>3. QED
    BY <1>1, <1>2

\* The object's own version is one of its versions.
LEMMA ReadFromItself ==
    ASSUME ac' \in AppConfiguration
    PROVE  ReadFromNext(ac')
<1>1. ac'.rv <= ac'.rv
    BY Fields
<1>2. QED
    BY <1>1 DEF ReadFromNext

\* The order of versions after a step that leaves the cache alone.
LEMMA OrderWritten ==
    ASSUME SuccessInv, Moved, acCache' = acCache,
           \/ ctl'.pc = "idle"
           \/ ctl'.ac \in AppConfiguration /\ ReadFromNext(ctl'.ac)
              /\ ctl'.ac.generation <= acCache.generation
    PROVE  OrderInv'
<1>1. /\ ac \in AppConfiguration /\ acCache \in AppConfiguration /\ VersionOf(acCache)
      /\ events \in Seq(AppConfiguration) /\ \A i \in DOMAIN events : VersionOf(events[i])
    BY Parts DEF SuccessInv, VersionPart
<1>2. OrderInv
    BY DEF SuccessInv
<1>3. ReadFrom(acCache)'
    <2>1. ReadFromNext(acCache)
        BY <1>1, <1>2, ReadFromLater DEF OrderInv
    <2>2. QED
        BY <2>1 DEF ReadFrom, ReadFromNext
<1>4. ASSUME NEW i \in DOMAIN events
      PROVE  /\ events[i] \in AppConfiguration /\ ReadFromNext(events[i])
             /\ acCache.generation <= events[i].generation
             /\ events[i].generation <= ac'.generation
    <2>1. events[i] \in AppConfiguration
        BY <1>1, ElementOfSeq
    <2>2. ReadFromNext(events[i]) /\ acCache.generation <= events[i].generation
        BY <1>1, <1>2, <2>1, ReadFromLater DEF OrderInv
    <2>3. events[i].generation <= ac'.generation
        <3>1. /\ events[i].generation \in Nat /\ ac.generation \in Nat /\ ac'.generation \in Nat
              /\ events[i].generation <= ac.generation
            BY <1>1, <2>1, Fields DEF Moved, VersionOf
        <3>2. QED
            BY <3>1 DEF Moved
    <2>4. QED
        BY <2>1, <2>2, <2>3
<1>5. /\ ReadFromNext(ac') /\ ac' \in AppConfiguration
      /\ acCache.generation <= ac'.generation /\ ac'.generation <= ac'.generation
    <2>1. ac' \in AppConfiguration
        BY DEF Moved
    <2>2. acCache.generation <= ac'.generation /\ ac'.generation \in Nat
        <3>1. /\ acCache.generation \in Nat /\ ac.generation \in Nat /\ ac'.generation \in Nat
              /\ acCache.generation <= ac.generation
            BY <1>1, <2>1, Fields DEF VersionOf
        <3>2. QED
            BY <3>1 DEF Moved
    <2>3. QED
        BY <2>1, <2>2, ReadFromItself
<1>6. /\ DOMAIN events = 1..Len(events) /\ Len(events) \in Nat
      /\ \/ events' = events
         \/ /\ DOMAIN events' = 1..(Len(events) + 1)
            /\ \A i \in 1..Len(events) : events'[i] = events[i]
            /\ events'[Len(events) + 1] = ac'
    <2>1. CASE events' = Append(events, ac')
        BY <1>1, <1>5, <2>1, AppendProperties, LenProperties
    <2>2. QED
        BY <1>1, <2>1, LenProperties DEF Moved
<1>7. ASSUME NEW i \in DOMAIN events'
      PROVE  ReadFromNext(events'[i]) /\ acCache.generation <= events'[i].generation
    BY <1>4, <1>5, <1>6, <1>7
<1>8. ASSUME NEW i \in DOMAIN events', NEW j \in DOMAIN events', i <= j
      PROVE  events'[i].generation <= events'[j].generation
    <2>1. CASE events' = events
        BY <1>2, <1>8, <2>1 DEF OrderInv
    <2>2. CASE events' # events /\ j \in 1..Len(events)
        <3>1. i \in DOMAIN events /\ j \in DOMAIN events
            BY <1>6, <1>8, <2>2
        <3>2. QED
            BY <1>2, <1>6, <1>8, <2>2, <3>1 DEF OrderInv
    <2>3. CASE events' # events /\ j = Len(events) + 1
        <3>1. events'[j] = ac'
            BY <1>6, <2>3
        <3>2. events'[i] = ac' \/ (i \in DOMAIN events /\ events'[i] = events[i])
            BY <1>6, <1>8, <2>3
        <3>3. QED
            BY <1>4, <1>5, <3>1, <3>2
    <2>4. QED
        BY <1>6, <1>8, <2>1, <2>2, <2>3
<1>9. ctl'.pc # "idle" => ReadFrom(ctl.ac)' /\ ctl'.ac.generation <= acCache'.generation
    BY DEF ReadFrom, ReadFromNext
<1>10. \A i \in DOMAIN events' : ReadFrom(events[i])'
    BY <1>7 DEF ReadFrom, ReadFromNext
<1>11. QED
    BY <1>3, <1>7, <1>8, <1>9, <1>10 DEF OrderInv, At

\* What joins a scope, by the entries of a list.
LEMMA JoiningFacts ==
    ASSUME NEW list \in Seq(Entry), NEW w, NEW s
    PROVE  w \in Joining(list, s)
               <=> \E i \in DOMAIN list : list[i].workload = w /\ s \in ToSet(list[i].scopes)
<1>1. ASSUME NEW i \in DOMAIN list
      PROVE  Contains(list[i].scopes, s) <=> s \in ToSet(list[i].scopes)
    <2>1. list[i] \in Entry
        BY ElementOfSeq, LenProperties
    <2>2. list[i].scopes \in Seq(Scopes)
        BY <2>1 DEF Entry
    <2> DEFINE joins == list[i].scopes
    <2> HIDE DEF joins
    <2>3. DOMAIN joins = 1..Len(joins)
        BY <2>2, LenProperties DEF joins
    <2>4. Contains(joins, s) <=> s \in ToSet(joins)
        BY <2>3 DEF Contains, ToSet
    <2>5. QED
        BY <2>4 DEF joins
<1>2. w \in Joining(list, s)
          <=> \E i \in DOMAIN list : list[i].workload = w /\ Contains(list[i].scopes, s)
    BY DEF Joining, ToSet
<1>3. QED
    BY <1>1, <1>2

\* The objects of a list, by its entries.
LEMMA ObjectsFacts ==
    ASSUME NEW list, NEW e \in ToSet(list), NEW o \in {e.workload} \cup ToSet(e.traits)
    PROVE  o \in Objects(list)
BY DEF Objects

\* The calls of a phase take back nothing that the version under way wants.
LEMMA PhaseCallsHarmless ==
    ASSUME DistinctWorkloads, ScopeInv, Walking, NEW e \in Entry, NEW i \in DOMAIN PhaseCalls(e)
    PROVE  LET c == PhaseCalls(e)[i] IN
           /\ c.do = "delete" => c.object \notin Objects(ctl.ac.spec)
           /\ c.do = "unref" =>
                 \/ At("finalize")
                 \/ At("dereference") /\ c.workload \notin Joining(ctl.ac.spec, c.scope)
<1>1. /\ e.workload \in Workloads /\ e.traits \in Seq(Traits) /\ e.scopes \in Seq(Scopes)
    BY DEF Entry
<1>2. ctl.ac.spec \in AppSpecs /\ ctl.ac.spec \in Seq(Entry)
    BY CtlVersion, Fields
<1> DEFINE c == PhaseCalls(e)[i]
<1>3. CASE At("apply")
    <2> DEFINE held == <<e.workload>> \o e.traits
               a == ApplyAll(held)
               r == RefAll(e.workload, e.scopes)
    <2>1. held \in Seq(Workloads \cup Traits)
        <3>1. <<e.workload>> \in Seq(Workloads \cup Traits)
            BY <1>1
        <3>2. e.traits \in Seq(Workloads \cup Traits)
            BY <1>1, SeqMonotonic
        <3>3. QED
            BY <3>1, <3>2, ConcatProperties
    <2> HIDE DEF held
    <2> DEFINE Calls == [do : {"apply"}, object : Workloads \cup Traits]
                            \cup [do : {"ref"}, scope : Scopes, workload : Workloads]
    <2>2. a \in [DOMAIN held -> Calls] /\ r \in [DOMAIN e.scopes -> Calls]
        <3>1. /\ \A k \in DOMAIN held : held[k] \in Workloads \cup Traits
              /\ \A k \in DOMAIN e.scopes : e.scopes[k] \in Scopes
            BY <1>1, <2>1, ElementOfSeq, LenProperties
        <3>2. QED
            BY <1>1, <3>1 DEF ApplyAll, RefAll
    <2>3. a \in Seq(Calls) /\ r \in Seq(Calls)
        BY <1>1, <2>1, <2>2, MapSeq
    <2>4. PhaseCalls(e) = a \o r
        BY <1>3 DEF PhaseCalls, ApplyEntry, held, At
    <2> HIDE DEF a, r, Calls
    <2>5. PhaseCalls(e) \in Seq(Calls)
        BY <2>3, <2>4, ConcatProperties
    <2>6. c \in Calls
        BY <2>5, ElementOfSeq, LenProperties
    <2>7. c.do \in {"apply", "ref"}
        BY <2>6 DEF Calls
    <2>8. QED
        BY <2>7
<1>4. CASE At("dereference")
    <2> DEFINE rendered == {k \in DOMAIN ctl.ac.spec : ctl.ac.spec[k].workload = e.workload}
               joined == IF rendered = {} THEN {} ELSE ToSet(ctl.ac.spec[Max(rendered)].scopes)
    <2>1. PhaseCalls(e) = DereferenceEntry(e)
        BY <1>4 DEF PhaseCalls, At
    <2>2. /\ i \in DOMAIN e.scopes
          /\ c = [do |-> IF e.scopes[i] \in joined THEN "keep" ELSE "unref",
                  scope |-> e.scopes[i], workload |-> e.workload]
        BY <2>1 DEF DereferenceEntry
    <2>3. ASSUME e.workload \in Joining(ctl.ac.spec, e.scopes[i]) PROVE e.scopes[i] \in joined
        <3>1. PICK k \in DOMAIN ctl.ac.spec :
                  ctl.ac.spec[k].workload = e.workload /\ e.scopes[i] \in ToSet(ctl.ac.spec[k].scopes)
            BY <1>2, <2>3, JoiningFacts
        <3>2. rendered = {k} /\ k \in Int
            BY <1>2, <3>1, LenProperties DEF DistinctWorkloads
        <3>3. Max(rendered) = k
            BY <3>2 DEF Max
        <3>4. QED
            BY <3>1, <3>2, <3>3
    <2> HIDE DEF joined, c
    <2>4. c.do = "unref" => c.workload \notin Joining(ctl.ac.spec, c.scope)
        BY <2>2, <2>3
    <2>5. c.do # "delete"
        BY <2>2
    <2>6. QED
        BY <1>4, <2>4, <2>5 DEF c
<1>5. CASE At("collect")
    <2>1. PhaseCalls(e) = CollectEntry(e)
        BY <1>5 DEF PhaseCalls, At
    <2>2. c.do # "unref" /\ (c.do = "delete" => Eligible(c.object))
        BY <2>1 DEF CollectEntry
    <2>3. QED
        BY <2>2 DEF Eligible
<1>6. CASE At("finalize")
    <2>1. PhaseCalls(e) = FinalizeEntry(e)
        BY <1>6 DEF PhaseCalls, At
    <2>2. c.do # "delete"
        BY <2>1 DEF FinalizeEntry
    <2>3. QED
        BY <1>6, <2>2
<1>7. QED
    BY <1>3, <1>4, <1>5, <1>6 DEF Walking, At

\* The calls for an entry put it in force.
LEMMA ApplyEntryCovers ==
    ASSUME NEW e \in Entry
    PROVE  /\ \A o \in {e.workload} \cup ToSet(e.traits) :
                 [do |-> "apply", object |-> o] \in ToSet(ApplyEntry(e))
           /\ \A s \in ToSet(e.scopes) :
                 [do |-> "ref", scope |-> s, workload |-> e.workload] \in ToSet(ApplyEntry(e))
<1>1. /\ e.workload \in Workloads /\ e.traits \in Seq(Traits) /\ e.scopes \in Seq(Scopes)
    BY DEF Entry
<1> DEFINE held == <<e.workload>> \o e.traits
           a == ApplyAll(held)
           r == RefAll(e.workload, e.scopes)
           any == [do : {"apply"}, object : Workloads \cup Traits]
                      \cup [do : {"ref"}, scope : Scopes, workload : Workloads]
<1>2. /\ held \in Seq(Workloads \cup Traits) /\ Len(held) = 1 + Len(e.traits)
      /\ held[1] = e.workload /\ \A k \in 1..Len(e.traits) : held[k + 1] = e.traits[k]
    <2>1. <<e.workload>> \in Seq(Workloads \cup Traits) /\ Len(<<e.workload>>) = 1
        BY <1>1
    <2>2. e.traits \in Seq(Workloads \cup Traits) /\ Len(e.traits) \in Nat
        BY <1>1, SeqMonotonic, LenProperties
    <2>3. /\ held \in Seq(Workloads \cup Traits) /\ Len(held) = 1 + Len(e.traits)
          /\ \A k \in 1..(1 + Len(e.traits)) :
                held[k] = IF k <= 1 THEN <<e.workload>>[k] ELSE e.traits[k - 1]
        BY <2>1, <2>2, ConcatProperties
    <2> HIDE DEF held
    <2>4. held[1] = e.workload
        <3>1. 1 \in 1..(1 + Len(e.traits))
            BY <2>2
        <3>2. held[1] = <<e.workload>>[1]
            BY <2>3, <3>1
        <3>3. QED
            BY <3>2
    <2>5. ASSUME NEW k \in 1..Len(e.traits) PROVE held[k + 1] = e.traits[k]
        <3>1. k + 1 \in 1..(1 + Len(e.traits)) /\ ~(k + 1 <= 1) /\ (k + 1) - 1 = k
            BY <2>2
        <3>2. held[k + 1] = e.traits[(k + 1) - 1]
            BY <2>3, <3>1
        <3>3. QED
            BY <3>1, <3>2
    <2>6. QED
        BY <2>3, <2>4, <2>5
<1> HIDE DEF held
<1>3. /\ DOMAIN held = 1..Len(held) /\ Len(held) \in Nat
      /\ DOMAIN e.scopes = 1..Len(e.scopes) /\ Len(e.scopes) \in Nat
      /\ DOMAIN e.traits = 1..Len(e.traits) /\ Len(e.traits) \in Nat
    BY <1>1, <1>2, LenProperties
<1>4. a \in [DOMAIN held -> any] /\ r \in [DOMAIN e.scopes -> any]
    <2>1. /\ \A k \in DOMAIN held : held[k] \in Workloads \cup Traits
          /\ \A k \in DOMAIN e.scopes : e.scopes[k] \in Scopes
        BY <1>1, <1>2, ElementOfSeq, LenProperties
    <2>2. QED
        BY <1>1, <2>1 DEF ApplyAll, RefAll
<1>5. /\ a \in Seq(any) /\ Len(a) = Len(held)
      /\ r \in Seq(any) /\ Len(r) = Len(e.scopes)
    BY <1>1, <1>2, <1>4, MapSeq
<1>6. /\ \A k \in 1..Len(held) : a[k] = [do |-> "apply", object |-> held[k]]
      /\ \A k \in 1..Len(e.scopes) :
            r[k] = [do |-> "ref", scope |-> e.scopes[k], workload |-> e.workload]
    BY <1>3 DEF ApplyAll, RefAll
<1>7. ApplyEntry(e) = a \o r
    BY DEF ApplyEntry, held
<1> HIDE DEF a, r, any
<1>8. /\ DOMAIN ApplyEntry(e) = 1..(Len(held) + Len(e.scopes))
      /\ \A k \in 1..Len(held) : ApplyEntry(e)[k] = a[k]
      /\ \A k \in 1..Len(e.scopes) : ApplyEntry(e)[Len(held) + k] = r[k]
    <2>1. /\ a \o r \in Seq(any) /\ Len(a \o r) = Len(a) + Len(r)
          /\ \A k \in 1..(Len(a) + Len(r)) : (a \o r)[k] = IF k <= Len(a) THEN a[k] ELSE r[k - Len(a)]
        BY <1>5, ConcatProperties
    <2>2. DOMAIN (a \o r) = 1..Len(a \o r)
        BY <2>1, LenProperties
    <2>3. QED
        BY SMTT(30), <1>3, <1>5, <1>7, <2>1, <2>2
<1>9. ASSUME NEW o \in {e.workload} \cup ToSet(e.traits)
      PROVE  [do |-> "apply", object |-> o] \in ToSet(ApplyEntry(e))
    <2>1. PICK k \in 1..Len(held) : held[k] = o
        <3>1. CASE o = e.workload
            BY <1>2, <1>3, <3>1
        <3>2. CASE o \in ToSet(e.traits)
            <4>1. PICK j \in 1..Len(e.traits) : e.traits[j] = o
                BY <1>3, <3>2 DEF ToSet
            <4>2. j + 1 \in 1..Len(held) /\ held[j + 1] = o
                BY <1>2, <1>3, <4>1
            <4>3. QED
                BY <4>2
        <3>3. QED
            BY <1>9, <3>1, <3>2
    <2>2. k \in DOMAIN ApplyEntry(e) /\ ApplyEntry(e)[k] = [do |-> "apply", object |-> o]
        BY <1>3, <1>6, <1>8, <2>1
    <2>3. QED
        BY <2>2 DEF ToSet
<1>10. ASSUME NEW s \in ToSet(e.scopes)
       PROVE  [do |-> "ref", scope |-> s, workload |-> e.workload] \in ToSet(ApplyEntry(e))
    <2>1. PICK k \in 1..Len(e.scopes) : e.scopes[k] = s
        BY <1>3 DEF ToSet
    <2>2. Len(held) + k \in DOMAIN ApplyEntry(e)
        BY <1>3, <1>8, <2>1
    <2>3. ApplyEntry(e)[Len(held) + k] = [do |-> "ref", scope |-> s, workload |-> e.workload]
        BY <1>6, <1>8, <2>1
    <2>4. QED
        BY <2>2, <2>3 DEF ToSet
<1>11. QED
    BY <1>9, <1>10

\* A step keeps what it finds of an entry: it removes none of its objects, nor its workload
\* from the scopes it joins, unless the scope goes.
Keeps(e) ==
    /\ \A o \in {e.workload} \cup ToSet(e.traits) : o \in objects => o \in objects'
    /\ \A s \in ToSet(e.scopes) :
          scopes'[s].exists =>
              /\ scopes[s].exists
              /\ e.workload \in Refs(s) => e.workload \in ToSet(scopes'[s].refs)

LEMMA InForceKept ==
    ASSUME NEW e, NEW calls, InForce(e, calls), Keeps(e)
    PROVE  InForceNext(e, calls)
BY DEF InForce, InForceNext, Keeps

\* The call at hand, and the rest of the calls.
LEMMA CallFacts ==
    ASSUME ScopeInv, ctl.todo # <<>>
    PROVE  /\ Call \in Operation /\ 1 \in DOMAIN ctl.todo /\ Call = ctl.todo[1]
           /\ CallDone => /\ ctl'.entry = ctl.entry /\ ctl'.pc = ctl.pc /\ ctl'.ac = ctl.ac
                          /\ ctl'.rendered = ctl.rendered /\ ctl' \in Reconciliation
                          /\ ToSet(ctl.todo) = {Call} \cup ToSet(ctl'.todo)
<1>1. Call \in Operation /\ 1 \in DOMAIN ctl.todo /\ Call = ctl.todo[1]
    BY CtlVersion DEF Call
<1>2. ASSUME CallDone
      PROVE  /\ ctl'.entry = ctl.entry /\ ctl'.pc = ctl.pc /\ ctl'.ac = ctl.ac
             /\ ctl'.rendered = ctl.rendered /\ ctl' \in Reconciliation
    BY <1>2, CallDoneFields, CtlVersion DEF CallDone, Reconciliation
<1>3. ASSUME CallDone
      PROVE  ToSet(ctl.todo) = {Call} \cup ToSet(ctl'.todo)
    <2> DEFINE all == ctl.todo
               rest == Tail(ctl.todo)
    <2>1. all \in Seq(Operation) /\ all # <<>> /\ ctl'.todo = rest
        BY <1>3, CtlVersion DEF CallDone, Reconciliation
    <2>2. /\ rest \in Seq(Operation) /\ Len(rest) = Len(all) - 1 /\ Len(all) \in Nat
          /\ \A i \in 1..Len(rest) : rest[i] = all[i + 1]
        BY <2>1, HeadTailProperties, LenProperties
    <2>3. Len(all) >= 1
        BY <2>1, EmptySeq, LenProperties
    <2>4. DOMAIN all = 1..Len(all) /\ DOMAIN rest = 1..(Len(all) - 1)
        BY <2>1, <2>2, LenProperties
    <2>5. Call = all[1]
        BY <1>1
    <2> HIDE DEF all, rest
    <2>6. ASSUME NEW i \in DOMAIN all PROVE all[i] \in {Call} \cup ToSet(rest)
        <3>1. CASE i = 1
            BY <2>5, <3>1
        <3>2. CASE i # 1
            <4>1. i - 1 \in DOMAIN rest /\ rest[i - 1] = all[(i - 1) + 1] /\ (i - 1) + 1 = i
                BY <2>2, <2>4, <2>6, <3>2
            <4>2. QED
                BY <4>1 DEF ToSet
        <3>3. QED
            BY <3>1, <3>2
    <2>7. ASSUME NEW i \in DOMAIN rest PROVE rest[i] \in ToSet(all)
        <3>1. i + 1 \in DOMAIN all /\ rest[i] = all[i + 1]
            BY <2>2, <2>4, <2>7
        <3>2. QED
            BY <3>1 DEF ToSet
    <2>8. Call \in ToSet(all)
        BY <2>3, <2>4, <2>5 DEF ToSet
    <2>9. ToSet(all) = {Call} \cup ToSet(rest)
        BY <2>6, <2>7, <2>8 DEF ToSet
    <2>10. QED
        BY <2>1, <2>9 DEF all
<1>4. QED
    BY <1>1, <1>2, <1>3

\* Other writers of a scope keep the workloads of this object in it.
LEMMA OthersKeep ==
    ASSUME ScopeInv, NEW s \in Scopes, TouchScope(s) \/ DeleteScope(s), NEW r \in Scopes,
           scopes'[r].exists
    PROVE  scopes[r].exists /\ OwnRefs(r) = ToSet(scopes'[r].refs) \cap Workloads
<1>1. /\ scopes \in [Scopes -> Scope] /\ Unique(scopes[s].refs) /\ scopes[s] \in Scope
      /\ scopes[s].refs \in Seq(Workloads \cup {Foreign}) /\ scopes[s].exists
    BY Parts DEF ScopePart, Scope, NoDuplicateRefs, TouchScope, DeleteScope
<1>2. CASE r # s
    BY <1>1, <1>2 DEF TouchScope, DeleteScope, OwnRefs, Refs
<1>3. CASE r = s /\ DeleteScope(s)
    BY <1>1, <1>3 DEF DeleteScope
<1>4. CASE r = s /\ TouchScope(s)
    <2> DEFINE refs == IF Foreign \in Refs(s)
                       THEN RemoveRef(scopes[s].refs, FirstRef(scopes[s].refs, Foreign))
                       ELSE Append(scopes[s].refs, Foreign)
    <2>1. ToSet(refs) \cap Workloads = OwnRefs(s)
        <3>1. CASE Foreign \in Refs(s)
            BY <1>1, <3>1, RemoveRefFacts, AppSpecsAssumption DEF OwnRefs, Refs
        <3>2. CASE Foreign \notin Refs(s)
            BY <1>1, <3>2, AppendRefFacts, AppSpecsAssumption DEF OwnRefs, Refs
        <3>3. QED
            BY <3>1, <3>2
    <2>2. scopes'[s].refs = refs
        BY <1>1, <1>4 DEF TouchScope, Scope
    <2> HIDE DEF refs
    <2>3. QED
        BY <1>1, <1>4, <2>1, <2>2
<1>5. QED
    BY <1>2, <1>3, <1>4

\* Every step keeps what the version under way wants, as long as the object exists and is not
\* finalized.
LEMMA StepKeeps ==
    ASSUME SuccessInv, [Next]_vars, ac.exists, NEW e \in Entry,
           Walking => e \in ToSet(ctl.ac.spec) /\ ~At("finalize")
    PROVE  Keeps(e)
<1>1. /\ ScopeInv /\ HarmlessInv /\ ctl.ac.spec \in Seq(Entry)
      /\ scopes \in [Scopes -> Scope] /\ e.workload \in Workloads
      /\ \A s \in ToSet(e.scopes) : s \in Scopes
    <2>1. ScopeInv /\ HarmlessInv
        BY DEF SuccessInv
    <2>2. ctl.ac.spec \in Seq(Entry) /\ scopes \in [Scopes -> Scope]
        BY <2>1, Parts, CtlVersion, Fields DEF ScopePart
    <2>3. e.workload \in Workloads /\ e.scopes \in Seq(Scopes)
        BY DEF Entry
    <2>4. QED
        BY <2>1, <2>2, <2>3, ElementOfSeq, LenProperties DEF ToSet
<1>2. CASE objects' = objects /\ scopes' = scopes
    BY <1>2 DEF Keeps, Refs
<1>3. CASE ApplyObject
    BY <1>3 DEF ApplyObject, Keeps, Refs
<1>4. CASE DeleteObject
    <2>1. Walking /\ ctl.todo # <<>> /\ Call.do = "delete"
        BY <1>4 DEF DeleteObject, Calling, Call
    <2>2. Call.object \notin Objects(ctl.ac.spec)
        BY <1>1, <2>1, CallFacts DEF HarmlessInv
    <2>3. \A o \in {e.workload} \cup ToSet(e.traits) : o \in Objects(ctl.ac.spec)
        BY <2>1, ObjectsFacts
    <2>4. objects' = objects \ {Call.object} /\ scopes' = scopes
        BY <1>4 DEF DeleteObject
    <2>5. QED
        BY <2>2, <2>3, <2>4 DEF Keeps, Refs
<1>5. CASE ApplyScope \/ ReadScope \/ ApplyScopeRemoval
    <2>1. Walking /\ ctl.todo # <<>> /\ objects' = objects
        BY <1>5 DEF ApplyScope, ReadScope, ApplyScopeRemoval, Calling
    <2>2. scopes' = scopes \/ ScopeCallEffect
        BY <1>1, <1>5, ScopeCallCases DEF ScopeRead
    <2>3. ASSUME NEW s \in Scopes, NEW w \in Workloads, NEW new \in Scope,
                 s = Call.scope, w = Call.workload,
                 scopes' = [scopes EXCEPT ![s] = new], new.exists = scopes[s].exists,
                 \/ Call.do = "ref" /\ ToSet(new.refs) = Refs(s) \cup {w}
                 \/ Call.do = "unref" /\ ToSet(new.refs) = Refs(s) \ {w}
          PROVE  Keeps(e)
        <3>1. ASSUME Call.do = "unref", s \in ToSet(e.scopes) PROVE w # e.workload
            <4>1. w \notin Joining(ctl.ac.spec, s)
                BY <1>1, <2>1, <2>3, <3>1, CallFacts DEF HarmlessInv
            <4>2. PICK i \in DOMAIN ctl.ac.spec : ctl.ac.spec[i] = e
                BY <2>1 DEF ToSet
            <4>3. QED
                BY <1>1, <3>1, <4>1, <4>2, JoiningFacts
        <3>2. ASSUME NEW r \in ToSet(e.scopes), scopes'[r].exists
              PROVE  /\ scopes[r].exists
                     /\ e.workload \in Refs(r) => e.workload \in ToSet(scopes'[r].refs)
            <4>1. r \in Scopes
                BY <1>1
            <4>2. CASE r = s
                <5>1. scopes'[r] = new
                    BY <1>1, <2>3, <4>2
                <5>2. QED
                    BY <2>3, <3>1, <3>2, <4>2, <5>1
            <4>3. CASE r # s
                BY <1>1, <2>3, <3>2, <4>1, <4>3 DEF Refs
            <4>4. QED
                BY <4>2, <4>3
        <3>3. QED
            BY <2>1, <3>2 DEF Keeps
    <2>4. QED
        BY <1>2, <2>1, <2>2, <2>3 DEF ScopeCallEffect
<1>6. CASE \E s \in Scopes : TouchScope(s) \/ DeleteScope(s)
    <2>1. objects' = objects
        BY <1>6 DEF TouchScope, DeleteScope
    <2>2. ASSUME NEW r \in ToSet(e.scopes), scopes'[r].exists
          PROVE  /\ scopes[r].exists
                 /\ e.workload \in Refs(r) => e.workload \in ToSet(scopes'[r].refs)
        BY <1>1, <1>6, <2>2, OthersKeep DEF OwnRefs
    <2>3. QED
        BY <2>1, <2>2 DEF Keeps
<1>7. CASE CollectOwned
    BY <1>7 DEF CollectOwned
<1>8. QED
    BY <1>2, <1>3, <1>4, <1>5, <1>6, <1>7
       DEF Next, ReconcileStep, vars, EditAppConfig, DeleteAppConfig,
           Deliver, Resync, BeginGone, RegisterFinalizers, BeginRender, BeginFinalize,
           NextEntry, NextPhase, Keep, UpdateStatus,
           UpdateErrorStatus, PostHook, RemoveFinalizer, UpdateFinalizeError,
           CallFault, UpdateFault, Restart

\* What a write stores, but for the resource version.
LEMMA WrittenFields ==
    ASSUME ac \in AppConfiguration, NEW new \in AppConfiguration, Write(new)
    PROVE  /\ ac' \in AppConfiguration
           /\ ac'.exists = new.exists /\ ac'.deleting = new.deleting
           /\ ac'.generation = new.generation /\ ac'.spec = new.spec
           /\ ac'.condition = new.condition /\ ac'.observedGeneration = new.observedGeneration
           /\ ac'.status = new.status /\ ac'.finalizer = new.finalizer
<1>1. CASE new = ac
    BY <1>1 DEF Write
<1>2. CASE new # ac
    <2>1. ac' = [new EXCEPT !.rv = ac.rv + 1] /\ ac.rv + 1 \in Nat
        BY <1>2, Fields DEF Write
    <2>2. QED
        BY <2>1 DEF AppConfiguration
<1>3. QED
    BY <1>1, <1>2

\* The object after a step: as it was, of a new generation, gone, with a finalizer, or with the
\* status that a reconciliation of this version ends with.
StatusWritten(v) ==
    /\ Accepted(ctl.ac)
    /\ ac'.exists /\ ac'.deleting = ac.deleting
    /\ ac'.generation = ac.generation /\ ac'.spec = ac.spec
    /\ ac'.condition = ctl.ac.condition /\ ac'.observedGeneration = v

ObjectStep ==
    \/ ac' = ac
    \/ /\ ac'.exists = ac.exists /\ ac'.generation = ac.generation + 1
       /\ ac'.observedGeneration = ac.observedGeneration
    \/ ~ac'.exists
    \/ /\ ac'.exists = ac.exists /\ ac'.deleting = ac.deleting
       /\ ac'.generation = ac.generation /\ ac'.spec = ac.spec
       /\ ac'.condition = ac.condition /\ ac'.observedGeneration = ac.observedGeneration
    \/ PostHook /\ StatusWritten(ctl.ac.generation)
    \/ UpdateErrorStatus /\ StatusWritten(ctl.ac.observedGeneration)
    \/ UpdateFinalizeError /\ StatusWritten(ctl.ac.observedGeneration)

\* A status update writes the status of the version at hand and leaves the rest.
LEMMA StatusMoves ==
    ASSUME ac \in AppConfiguration, NEW v \in AppConfiguration, Write(StatusOf(v))
    PROVE  /\ Moved
           /\ ac'.exists = ac.exists /\ ac'.deleting = ac.deleting
           /\ ac'.generation = ac.generation /\ ac'.spec = ac.spec
           /\ ac'.condition = v.condition /\ ac'.observedGeneration = v.observedGeneration
           /\ ac'.status = v.status /\ ac'.finalizer = ac.finalizer
<1>1. /\ StatusOf(v) \in AppConfiguration
      /\ StatusOf(v).exists = ac.exists /\ StatusOf(v).deleting = ac.deleting
      /\ StatusOf(v).generation = ac.generation /\ StatusOf(v).spec = ac.spec
      /\ StatusOf(v).condition = v.condition
      /\ StatusOf(v).observedGeneration = v.observedGeneration
      /\ StatusOf(v).status = v.status /\ StatusOf(v).finalizer = ac.finalizer
    BY DEF StatusOf, AppConfiguration
<1>2. Moved
    BY <1>1, WriteMoves
<1>3. QED
    BY <1>1, <1>2, WrittenFields

LEMMA MovedStep ==
    ASSUME ScopeInv, Next, ~Deliver, ~Restart
    PROVE  Moved /\ ObjectStep /\ acCache' = acCache
<1>1. /\ ac \in AppConfiguration /\ ctl.ac \in AppConfiguration
      /\ ac.generation + 1 \in Nat
    BY Parts, CtlVersion, Fields DEF VersionPart
<1>2. CASE UNCHANGED <<ac, events, acCache>>
    BY <1>1, <1>2 DEF Moved, ObjectStep
<1>3. CASE \E s \in AppSpecs : EditAppConfig(s)
    <2> PICK s \in AppSpecs : EditAppConfig(s)
        BY <1>3
    <2> DEFINE new == [ac EXCEPT !.spec = s, !.generation = ac.generation + 1]
    <2>1. Write(new) /\ acCache' = acCache
        BY DEF EditAppConfig
    <2>2. /\ new \in AppConfiguration /\ new.generation = ac.generation + 1
          /\ new.observedGeneration = ac.observedGeneration /\ new.deleting = ac.deleting
          /\ new.exists = ac.exists
        BY <1>1 DEF AppConfiguration
    <2> HIDE DEF new
    <2>3. QED
        BY <1>1, <2>1, <2>2, WriteMoves, WrittenFields DEF ObjectStep
<1>4. CASE DeleteAppConfig /\ ac.finalizer
    <2> DEFINE new == [ac EXCEPT !.deleting = TRUE, !.generation = ac.generation + 1]
    <2>1. Write(new) /\ acCache' = acCache
        BY <1>4 DEF DeleteAppConfig
    <2>2. /\ new \in AppConfiguration /\ new.generation = ac.generation + 1
          /\ new.observedGeneration = ac.observedGeneration /\ new.deleting
          /\ new.exists = ac.exists
        BY <1>1 DEF AppConfiguration
    <2> HIDE DEF new
    <2>3. QED
        BY <1>1, <2>1, <2>2, WriteMoves, WrittenFields DEF ObjectStep
<1>5. CASE DeleteAppConfig /\ ~ac.finalizer
    <2> DEFINE new == [ac EXCEPT !.exists = FALSE]
    <2>1. Write(new) /\ acCache' = acCache
        BY <1>5 DEF DeleteAppConfig
    <2>2. /\ new \in AppConfiguration /\ new.generation = ac.generation
          /\ new.spec = ac.spec /\ new.deleting = ac.deleting /\ ~new.exists
        BY <1>1 DEF AppConfiguration
    <2> HIDE DEF new
    <2>3. QED
        BY <1>1, <2>1, <2>2, WriteMoves, WrittenFields DEF ObjectStep
<1>6. CASE RegisterFinalizers /\ Accepted(acCache)
    <2> DEFINE new == [ac EXCEPT !.finalizer = TRUE]
    <2>1. Write(new) /\ acCache' = acCache
        BY <1>6 DEF RegisterFinalizers
    <2>2. /\ new \in AppConfiguration /\ new.generation = ac.generation
          /\ new.spec = ac.spec /\ new.deleting = ac.deleting /\ new.exists = ac.exists
          /\ new.condition = ac.condition /\ new.observedGeneration = ac.observedGeneration
        BY <1>1 DEF AppConfiguration
    <2> HIDE DEF new
    <2>3. QED
        BY <1>1, <2>1, <2>2, WriteMoves, WrittenFields DEF ObjectStep
<1>7. CASE RemoveFinalizer /\ Accepted(ctl.ac)
    <2> DEFINE new == [ac EXCEPT !.finalizer = FALSE, !.exists = FALSE]
    <2>1. Write(new) /\ acCache' = acCache
        BY <1>7 DEF RemoveFinalizer
    <2>2. /\ new \in AppConfiguration /\ new.generation = ac.generation
          /\ new.spec = ac.spec /\ new.deleting = ac.deleting /\ ~new.exists
        BY <1>1 DEF AppConfiguration
    <2> HIDE DEF new
    <2>3. QED
        BY <1>1, <2>1, <2>2, WriteMoves, WrittenFields DEF ObjectStep
<1>8. CASE (UpdateErrorStatus \/ UpdateFinalizeError) /\ Accepted(ctl.ac)
    <2>1. Write(StatusOf(ctl.ac)) /\ acCache' = acCache /\ ac.exists
        BY <1>8 DEF UpdateErrorStatus, UpdateFinalizeError, Accepted
    <2>2. Moved /\ StatusWritten(ctl.ac.observedGeneration)
        BY <1>1, <1>8, <2>1, StatusMoves DEF StatusWritten
    <2>3. QED
        BY <1>8, <2>1, <2>2 DEF ObjectStep
<1>9. CASE PostHook /\ Accepted(ctl.ac)
    <2> DEFINE new == [ctl.ac EXCEPT !.observedGeneration = ObservedGeneration(ctl.ac)]
    <2>1. /\ new \in AppConfiguration /\ new.observedGeneration = ctl.ac.generation
          /\ new.condition = ctl.ac.condition
        BY <1>1, Fields DEF AppConfiguration, ObservedGeneration
    <2>2. Write(StatusOf(new)) /\ acCache' = acCache /\ ac.exists
        BY <1>9 DEF PostHook, Accepted
    <2> HIDE DEF new
    <2>3. Moved /\ StatusWritten(ctl.ac.generation)
        BY <1>1, <1>9, <2>1, <2>2, StatusMoves DEF StatusWritten
    <2>4. QED
        BY <1>9, <2>2, <2>3 DEF ObjectStep
<1>10. QED
    BY <1>2, <1>3, <1>4, <1>5, <1>6, <1>7, <1>8, <1>9
       DEF Next, ReconcileStep, CollectOwned, TouchScope, DeleteScope, DeleteAppConfig,
           Resync, BeginGone, RegisterFinalizers, BeginRender, BeginFinalize,
           NextEntry, NextPhase, Keep, ApplyObject, DeleteObject, ApplyScope, ReadScope, ApplyScopeRemoval,
           UpdateStatus, UpdateErrorStatus, PostHook, RemoveFinalizer, UpdateFinalizeError,
           CallFault, UpdateFault

\* Two versions that differ in nothing but the status.
SameVersion(v, w) ==
    /\ v.rv = w.rv /\ v.generation = w.generation /\ v.spec = w.spec
    /\ v.deleting = w.deleting /\ v.finalizer = w.finalizer

\* A reconciliation is where it was; it may have read a scope.
SameWalk ==
    ctl'.pc = ctl.pc /\ ctl'.ac = ctl.ac /\ ctl'.entry = ctl.entry /\ ctl'.todo = ctl.todo

\* The version a reconciliation works on after a step.
VersionStep ==
    \/ ctl'.pc = "idle"
    \/ ctl.pc # "idle" /\ SameVersion(ctl'.ac, ctl.ac)
    \/ ctl.pc = "idle" /\ SameVersion(ctl'.ac, acCache) /\ ac' = ac /\ acCache' = acCache
    \/ /\ UpdateErrorStatus /\ Accepted(ctl.ac) /\ ctl.pc # "idle"
       /\ ctl'.ac = ac' /\ ac'.generation = ac.generation

LEMMA AtWithFields ==
    ASSUME NEW pc, NEW v
    PROVE  AtWith(pc, v).pc = pc /\ AtWith(pc, v).ac = v /\ AtWith(pc, v).todo = <<>>
BY IdleType DEF AtWith, Idle

LEMMA CallFailedFields ==
    ASSUME ScopeInv, CallFailed
    PROVE  /\ \/ ctl'.pc = "finalizeError" /\ ctl'.ac.condition = "finalizeError"
              \/ ctl'.pc = "error" /\ ctl'.ac.condition = "error"
           /\ ctl'.todo = <<>> /\ SameVersion(ctl'.ac, ctl.ac) /\ ctl'.ac \in AppConfiguration
           /\ ctl'.ac.status = ctl.ac.status
<1>1. PICK c \in {"error", "finalizeError"} :
          ctl' = AtWith(c, [ctl.ac EXCEPT !.condition = c])
    BY DEF CallFailed, Failed
<1> DEFINE v == [ctl.ac EXCEPT !.condition = c]
<1>2. ctl.ac \in AppConfiguration
    BY CtlVersion
<1>3. /\ v \in AppConfiguration /\ v.condition = c /\ v.status = ctl.ac.status
      /\ SameVersion(v, ctl.ac)
    BY <1>2 DEF AppConfiguration, Conditions, SameVersion
<1> HIDE DEF v
<1>4. ctl'.pc = c /\ ctl'.ac = v /\ ctl'.todo = <<>>
    BY <1>1, AtWithFields DEF v
<1>5. QED
    BY <1>3, <1>4

LEMMA VersionStepped ==
    ASSUME ScopeInv, [Next]_vars
    PROVE  VersionStep
<1>1. ctl \in Reconciliation /\ ctl.ac \in AppConfiguration /\ acCache \in AppConfiguration
    BY CtlVersion, Parts DEF VersionPart
<1>2. CASE ctl' = ctl
    BY <1>2 DEF VersionStep, SameVersion
<1>3. CASE ctl' = Idle
    BY <1>3, IdleType DEF VersionStep
<1>4. CASE Keep \/ ApplyObject \/ DeleteObject
    <2>1. ctl.todo # <<>> /\ CallDone /\ ctl.pc # "idle"
        BY <1>4 DEF Keep, ApplyObject, DeleteObject, Calling, Walking
    <2>2. QED
        BY <2>1, CallFacts DEF VersionStep, SameVersion
<1>5. CASE ApplyScope \/ ReadScope \/ ApplyScopeRemoval \/ CallFault
    <2>1. ctl.pc # "idle"
        BY <1>5 DEF ApplyScope, ReadScope, ApplyScopeRemoval, CallFault, Calling, Walking
    <2>2. CallFailed \/ (CallDone /\ ctl.todo # <<>>) \/ ctl'.ac = ctl.ac
        BY <1>5, ScopeCallCases, ScopeReadFields
           DEF ScopeCallEffect, ApplyScope, ReadScope, ApplyScopeRemoval, CallFault, Calling
    <2>3. QED
        BY <2>1, <2>2, CallFacts, CallFailedFields DEF VersionStep, SameVersion
<1>6. CASE NextEntry \/ NextPhase
    <2>1. ctl.pc # "idle" /\ ctl'.ac = ctl.ac
        BY <1>1, <1>6 DEF NextEntry, NextPhase, PhaseDone, Walking, At, Reconciliation
    <2>2. QED
        BY <2>1 DEF VersionStep, SameVersion
<1>7. CASE UpdateStatus
    <2> DEFINE v == [ctl.ac EXCEPT !.status = ctl.ac.spec, !.condition = "success"]
    <2>1. SameVersion(v, ctl.ac)
        BY <1>1 DEF AppConfiguration, SameVersion
    <2>2. ctl' = AtWith("posthook", v) /\ ctl.pc # "idle"
        BY <1>7 DEF UpdateStatus, PhaseDone, At
    <2> HIDE DEF v
    <2>3. ctl'.ac = v
        BY <2>2, AtWithFields
    <2>4. QED
        BY <2>1, <2>2, <2>3 DEF VersionStep
<1>8. CASE UpdateErrorStatus
    <2>1. CASE Accepted(ctl.ac)
        <3>1. Write(StatusOf(ctl.ac)) /\ ctl.pc # "idle" /\ ctl'.ac = ac'
            BY <1>1, <1>8, <2>1 DEF UpdateErrorStatus, At, Reconciliation
        <3>2. ac'.generation = ac.generation
            BY <1>1, <3>1, StatusMoves, Parts DEF VersionPart
        <3>3. QED
            BY <1>8, <2>1, <3>1, <3>2 DEF VersionStep
    <2>2. CASE ~Accepted(ctl.ac)
        <3>1. ctl.pc # "idle" /\ ctl'.ac = ctl.ac
            BY <1>1, <1>8, <2>2 DEF UpdateErrorStatus, At, Reconciliation
        <3>2. QED
            BY <3>1 DEF VersionStep, SameVersion
    <2>3. QED
        BY <2>1, <2>2
<1>9. CASE BeginRender \/ BeginFinalize
    <2>1. ctl.pc = "idle" /\ ac' = ac /\ acCache' = acCache
        BY <1>9 DEF BeginRender, BeginFinalize, Begin, At
    <2>2. SameVersion([acCache EXCEPT !.condition = "error"], acCache)
        BY <1>1 DEF AppConfiguration, SameVersion
    <2>3. ctl'.ac = acCache \/ ctl'.ac = [acCache EXCEPT !.condition = "error"]
        <3>1. CASE BeginFinalize \/ ctl' = Failed(acCache)
            BY <3>1, AtWithFields DEF BeginFinalize, Failed
        <3>2. CASE BeginRender /\ ctl' # Failed(acCache)
            BY <3>2, IdleType DEF BeginRender, Reconciliation
        <3>3. QED
            BY <1>9, <3>1, <3>2
    <2>4. QED
        BY <2>1, <2>2, <2>3 DEF VersionStep, SameVersion
<1>10. QED
    BY <1>2, <1>3, <1>4, <1>5, <1>6, <1>7, <1>8, <1>9
       DEF Next, ReconcileStep, vars, EditAppConfig, DeleteAppConfig, CollectOwned,
           TouchScope, DeleteScope, Deliver, Resync, BeginGone, RegisterFinalizers,
           PostHook, RemoveFinalizer, UpdateFinalizeError, UpdateFault, Restart

\* Versions keep their order.
LEMMA OrderStep ==
    ASSUME SuccessInv, [Next]_vars
    PROVE  OrderInv'
<1>1. ScopeInv /\ OrderInv /\ VersionStep
    BY VersionStepped DEF SuccessInv
<1>2. /\ ac \in AppConfiguration /\ acCache \in AppConfiguration /\ VersionOf(acCache)
      /\ events \in Seq(AppConfiguration) /\ \A i \in DOMAIN events : VersionOf(events[i])
      /\ ctl.ac \in AppConfiguration /\ VersionOf(ctl.ac)
    BY <1>1, Parts, CtlVersion DEF VersionPart
<1>3. CASE Deliver
    <2>1. events # <<>> /\ ac' = ac /\ ctl' = ctl
        BY <1>3 DEF Deliver
    <2>2. /\ acCache' = events[1] /\ 1 \in DOMAIN events /\ events[1] \in AppConfiguration
          /\ \A i \in DOMAIN events' : i + 1 \in DOMAIN events /\ events'[i] = events[i + 1]
          /\ DOMAIN events' \subseteq Nat
        BY <1>2, <1>3, <2>1 DEF Deliver
    <2>3. ReadFrom(acCache)' /\ \A i \in DOMAIN events' : ReadFrom(events[i])'
        BY <1>1, <2>1, <2>2 DEF OrderInv, ReadFrom
    <2>4. \A i \in DOMAIN events' : acCache'.generation <= events'[i].generation
        <3>1. ASSUME NEW i \in DOMAIN events' PROVE 1 <= i + 1
            BY <2>2
        <3>2. QED
            BY <1>1, <2>2, <3>1 DEF OrderInv
    <2>5. ASSUME NEW i \in DOMAIN events', NEW j \in DOMAIN events', i <= j
          PROVE  events'[i].generation <= events'[j].generation
        <3>1. i + 1 <= j + 1
            BY <2>2, <2>5
        <3>2. QED
            BY <1>1, <2>2, <3>1 DEF OrderInv
    <2>6. ctl.pc # "idle" => ReadFrom(ctl.ac)' /\ ctl'.ac.generation <= acCache'.generation
        <3>1. ASSUME ctl.pc # "idle"
              PROVE  ctl.ac.generation <= acCache.generation
                     /\ acCache.generation <= events[1].generation
            BY <1>1, <2>2, <3>1 DEF OrderInv, At
        <3>2. /\ ctl.ac.generation \in Nat /\ acCache.generation \in Nat
              /\ events[1].generation \in Nat
            BY <1>2, <2>2, Fields
        <3>3. ctl.pc # "idle" => ctl.ac.generation <= events[1].generation
            BY <3>1, <3>2
        <3>4. ctl.pc # "idle" => ReadFrom(ctl.ac)'
            BY <1>1, <2>1 DEF OrderInv, ReadFrom, At
        <3>5. QED
            BY <2>1, <2>2, <3>3, <3>4
    <2>7. QED
        BY <2>1, <2>3, <2>4, <2>5, <2>6 DEF OrderInv, At
<1>4. CASE Restart
    <2>1. ac' = ac /\ acCache' = ac /\ events' = <<>> /\ ctl'.pc = "idle"
        BY <1>4, IdleType DEF Restart
    <2>2. ac.rv <= ac.rv
        BY <1>2, Fields
    <2>3. ReadFrom(acCache)'
        BY <2>1, <2>2 DEF ReadFrom
    <2>4. DOMAIN events' = {}
        BY <2>1
    <2>5. QED
        BY <2>1, <2>3, <2>4 DEF OrderInv, At
<1>5. CASE ~Deliver /\ ~Restart
    <2>1. Moved /\ acCache' = acCache
        <3>1. CASE Next
            BY <1>1, <1>5, <3>1, MovedStep
        <3>2. CASE UNCHANGED vars
            BY <1>2, <3>2 DEF Moved, vars
        <3>3. QED
            BY <3>1, <3>2
    <2>2. ctl'.ac \in AppConfiguration
        BY <1>1, StepInv DEF ScopeInv, TypeOK, Reconciliation
    <2>3. ASSUME NEW v \in AppConfiguration, VersionOf(v), ReadFrom(v), SameVersion(ctl'.ac, v),
                 v.generation <= acCache.generation
          PROVE  ReadFromNext(ctl'.ac) /\ ctl'.ac.generation <= acCache.generation
        <3>1. ReadFromNext(v)
            BY <1>2, <2>1, <2>3, ReadFromLater
        <3>2. QED
            BY <2>3, <3>1 DEF ReadFromNext, SameVersion
    <2>4. acCache.generation <= acCache.generation
        BY <1>2, Fields
    <2>5. CASE UpdateErrorStatus /\ Accepted(ctl.ac) /\ ctl.pc # "idle" /\ ctl'.ac = ac'
               /\ ac'.generation = ac.generation
        <3>1. ctl.ac.generation = ac.generation /\ ctl.ac.generation <= acCache.generation
            BY <1>1, <2>5 DEF OrderInv, ReadFrom, Accepted, At
        <3>2. ReadFromNext(ac')
            BY <2>2, <2>5, ReadFromItself
        <3>3. QED
            BY <2>1, <2>2, <2>5, <3>1, <3>2, OrderWritten
    <2>6. CASE ctl.pc # "idle" /\ SameVersion(ctl'.ac, ctl.ac)
        <3>1. ReadFrom(ctl.ac) /\ ctl.ac.generation <= acCache.generation
            BY <1>1, <2>6 DEF OrderInv, At
        <3>2. QED
            BY <1>2, <2>1, <2>2, <2>3, <2>6, <3>1, OrderWritten
    <2>7. CASE SameVersion(ctl'.ac, acCache)
        <3>1. ReadFrom(acCache)
            BY <1>1 DEF OrderInv
        <3>2. QED
            BY <1>2, <2>1, <2>2, <2>3, <2>4, <2>7, <3>1, OrderWritten
    <2>8. CASE ctl'.pc = "idle"
        BY <2>1, <2>8, OrderWritten
    <2>9. QED
        BY <1>1, <2>5, <2>6, <2>7, <2>8 DEF VersionStep
<1>6. QED
    BY <1>3, <1>4, <1>5

\* A reconciliation has no harmful call after a step.
LEMMA HarmlessStep ==
    ASSUME DistinctWorkloads, SuccessInv, [Next]_vars
    PROVE  HarmlessInv'
<1>1. ScopeInv /\ HarmlessInv /\ ctl \in Reconciliation /\ ctl.ac \in AppConfiguration
    BY CtlVersion DEF SuccessInv
<1>2. CASE ctl' = ctl \/ ScopeRead
    BY <1>1, <1>2, ScopeReadFields DEF HarmlessInv, At
<1>3. CASE ctl'.pc # "finalize" /\ ctl'.todo = <<>>
    BY <1>3 DEF HarmlessInv, At
<1>4. CASE CallDone /\ ctl.todo # <<>>
    BY <1>1, <1>4, CallDoneFields DEF HarmlessInv, At
<1>5. CASE NextEntry
    <2> DEFINE e == PhaseList[ctl.entry + 1]
               calls == PhaseCalls(e)
    <2>1. /\ Walking /\ ctl.entry < Len(PhaseList)
          /\ ctl' = [ctl EXCEPT !.entry = ctl.entry + 1, !.todo = calls]
        BY <1>5 DEF NextEntry
    <2>2. PhaseList \in Seq(Entry)
        BY <1>1, Fields DEF PhaseList
    <2>3. ctl.entry + 1 \in 1..Len(PhaseList)
        BY <1>1, <2>1, <2>2, CtlVersion, LenProperties
    <2>4. e \in Entry
        BY <2>2, <2>3, ElementOfSeq
    <2>5. \A i \in DOMAIN calls :
             /\ calls[i].do = "delete" => calls[i].object \notin Objects(ctl.ac.spec)
             /\ calls[i].do = "unref" =>
                   \/ At("finalize")
                   \/ /\ At("dereference")
                      /\ calls[i].workload \notin Joining(ctl.ac.spec, calls[i].scope)
        <3> HIDE DEF e
        <3>1. QED
            BY <1>1, <2>1, <2>4, PhaseCallsHarmless
    <2> HIDE DEF calls, e
    <2>6. ctl'.pc = ctl.pc /\ ctl'.ac = ctl.ac /\ ctl'.todo = calls
        BY <1>1, <2>1 DEF Reconciliation
    <2>7. QED
        BY <1>1, <2>5, <2>6 DEF HarmlessInv, At
<1>6. CASE BeginFinalize
    <2>1. ctl'.ac = acCache /\ ctl'.todo = <<>> /\ acCache.deleting
        BY <1>6, AtWithFields DEF BeginFinalize
    <2>2. QED
        BY <2>1 DEF HarmlessInv, At
<1>7. CASE UpdateErrorStatus
    <2>1. ctl.pc = "error" /\ ctl'.pc = "posthook" /\ ctl'.todo = ctl.todo
        BY <1>1, <1>7 DEF UpdateErrorStatus, At, Reconciliation
    <2>2. ctl'.ac.spec = ctl.ac.spec
        <3>1. CASE Accepted(ctl.ac)
            <4>1. ctl'.ac = ac' /\ Write(StatusOf(ctl.ac))
                BY <1>1, <1>7, <3>1 DEF UpdateErrorStatus, Reconciliation
            <4>2. ac'.spec = ac.spec
                BY <1>1, <4>1, StatusMoves, Parts DEF VersionPart
            <4>3. ctl.ac.spec = ac.spec
                BY <2>1, <3>1 DEF SuccessInv, OrderInv, ReadFrom, Accepted, At
            <4>4. QED
                BY <4>1, <4>2, <4>3
        <3>2. CASE ~Accepted(ctl.ac)
            BY <1>1, <1>7, <3>2 DEF UpdateErrorStatus, Reconciliation
        <3>3. QED
            BY <3>1, <3>2
    <2>3. QED
        BY <1>1, <2>1, <2>2 DEF HarmlessInv, At
<1>8. CASE CallFailed
    BY <1>1, <1>3, <1>8, CallFailedFields
<1>9. CASE ctl' = Idle
    BY <1>3, <1>9, IdleType
<1>10. CASE NextPhase
    BY <1>1, <1>3, <1>10 DEF NextPhase, PhaseDone, Reconciliation
<1>11. CASE UpdateStatus
    BY <1>3, <1>11, AtWithFields DEF UpdateStatus
<1>12. CASE BeginRender
    <2>1. CASE ctl' = Failed(acCache)
        BY <1>3, <2>1, AtWithFields DEF Failed
    <2>2. CASE ctl' # Failed(acCache)
        <3>1. ctl'.pc = "apply" /\ ctl'.todo = <<>>
            BY <1>12, <2>2, IdleType DEF BeginRender, Reconciliation
        <3>2. QED
            BY <1>3, <3>1
    <2>3. QED
        BY <2>1, <2>2
<1>13. CASE ApplyScope \/ ReadScope \/ ApplyScopeRemoval
    BY <1>1, <1>2, <1>4, <1>8, <1>13, ScopeCallCases
       DEF ScopeCallEffect, ApplyScope, ReadScope, ApplyScopeRemoval, Calling
<1>14. QED
    BY <1>2, <1>4, <1>5, <1>6, <1>7, <1>8, <1>9, <1>10, <1>11, <1>12, <1>13
       DEF Next, ReconcileStep, vars, EditAppConfig, DeleteAppConfig, CollectOwned,
           TouchScope, DeleteScope, Deliver, Resync, BeginGone, RegisterFinalizers,
           Keep, ApplyObject, DeleteObject, Calling,
           PostHook, RemoveFinalizer, UpdateFinalizeError, CallFault, UpdateFault, Restart


\* An object that is gone does not come back.
LEMMA ExistsBefore ==
    ASSUME ScopeInv, [Next]_vars, ac'.exists
    PROVE  ac.exists
<1>1. CASE ac' = ac
    BY <1>1
<1>2. CASE Deliver \/ Restart
    BY <1>2 DEF Deliver, Restart
<1>3. CASE Next /\ ~Deliver /\ ~Restart
    <2>1. ObjectStep
        BY <1>3, MovedStep
    <2>2. QED
        BY <2>1 DEF ObjectStep, StatusWritten, Accepted
<1>4. QED
    BY <1>1, <1>2, <1>3 DEF vars

\* While entries are applied, no scope loses a workload of this object.
LEMMA RefsKept ==
    ASSUME SuccessInv, [Next]_vars, At("apply"), NEW s \in Scopes, scopes'[s].exists
    PROVE  scopes[s].exists /\ OwnRefs(s) \subseteq ToSet(scopes'[s].refs)
<1>1. ScopeInv /\ HarmlessInv /\ scopes \in [Scopes -> Scope]
    BY Parts DEF SuccessInv, ScopePart
<1>2. CASE scopes' = scopes
    BY <1>2 DEF OwnRefs, Refs
<1>3. CASE \E r \in Scopes : TouchScope(r) \/ DeleteScope(r)
    BY <1>1, <1>3, OthersKeep
<1>4. CASE ApplyScope \/ ReadScope \/ ApplyScopeRemoval
    <2>1. ctl.todo # <<>> /\ (scopes' = scopes \/ ScopeCallEffect)
        BY <1>1, <1>4, ScopeCallCases
           DEF ScopeRead, ApplyScope, ReadScope, ApplyScopeRemoval, Calling
    <2>2. Call.do # "unref"
        BY <1>1, <2>1, CallFacts DEF HarmlessInv, At
    <2>3. ASSUME NEW r \in Scopes, NEW w \in Workloads, NEW new \in Scope,
                 scopes' = [scopes EXCEPT ![r] = new], new.exists = scopes[r].exists,
                 ToSet(new.refs) = Refs(r) \cup {w}
          PROVE  scopes[s].exists /\ OwnRefs(s) \subseteq ToSet(scopes'[s].refs)
        <3>1. CASE s = r
            <4>1. scopes'[s] = new
                BY <1>1, <2>3, <3>1
            <4>2. QED
                BY <2>3, <3>1, <4>1 DEF OwnRefs
        <3>2. CASE s # r
            BY <1>1, <2>3, <3>2 DEF OwnRefs, Refs
        <3>3. QED
            BY <3>1, <3>2
    <2>4. QED
        BY <1>2, <2>1, <2>2, <2>3 DEF ScopeCallEffect
<1>5. QED
    BY <1>2, <1>3, <1>4
       DEF Next, ReconcileStep, vars, EditAppConfig, DeleteAppConfig, CollectOwned,
           Deliver, Resync, BeginGone, RegisterFinalizers, BeginRender, BeginFinalize,
           NextEntry, NextPhase, Keep, ApplyObject, DeleteObject, UpdateStatus,
           UpdateErrorStatus, PostHook, RemoveFinalizer, UpdateFinalizeError,
           CallFault, UpdateFault, Restart

\* What WalkInv says of the next state.
WalkNext ==
    /\ ctl'.pc = "apply" => \A s \in Scopes :
          scopes'[s].exists =>
              ToSet(ctl'.rendered[s].refs) \cap Workloads \subseteq ToSet(scopes'[s].refs)
    /\ ctl'.pc = "apply" /\ ac'.exists => \A i \in DOMAIN ctl'.ac.spec :
          i <= ctl'.entry => InForceNext(ctl'.ac.spec[i], ToSet(ctl'.todo))
    /\ ctl'.pc = "error" => ctl'.ac.condition = "error"
    /\ ctl'.pc = "finalizeError" => ctl'.ac.condition = "finalizeError"
    /\ /\ \/ ctl'.pc \in {"dereference", "collect"}
          \/ ctl'.pc = "posthook" /\ ctl'.ac.condition = "success"
       /\ ac'.exists
       => \A e \in ToSet(ctl'.ac.spec) : InForceNext(e, {})

LEMMA WalkAfter ==
    ASSUME WalkNext
    PROVE  WalkInv'
<1>1. \A i \in DOMAIN ctl'.ac.spec :
          InForceNext(ctl'.ac.spec[i], ToSet(ctl'.todo)) <=> InForce(ctl.ac.spec[i], ToSet(ctl.todo))'
    BY DEF InForce, InForceNext, Refs
<1>2. (\A e \in ToSet(ctl'.ac.spec) : InForceNext(e, {}))
          <=> (\A e \in ToSet(ctl.ac.spec) : InForce(e, {}))'
    BY DEF InForce, InForceNext, Refs
<1>3. QED
    BY <1>1, <1>2 DEF WalkNext, WalkInv, PastApply, At, Refs

\* The calls of the apply phase take effect.
LEMMA CallMade ==
    ASSUME SuccessInv,
           \/ Keep \/ ApplyObject \/ DeleteObject
           \/ ApplyScope \/ ReadScope \/ ApplyScopeRemoval,
           CallDone, At("apply"), NEW e \in Entry, InForceNext(e, ToSet(ctl.todo))
    PROVE  InForceNext(e, ToSet(ctl'.todo))
<1>1. ScopeInv /\ WalkInv /\ ctl.todo # <<>> /\ scopes \in [Scopes -> Scope]
    BY Parts DEF SuccessInv, Keep, ApplyObject, DeleteObject, ApplyScope, ReadScope,
                 ApplyScopeRemoval, Calling, ScopePart
<1>2. ToSet(ctl.todo) = {Call} \cup ToSet(ctl'.todo)
    BY <1>1, CallFacts
<1>3. ASSUME NEW o, Call = [do |-> "apply", object |-> o]
      PROVE  o \in objects'
    <2>1. Call.do = "apply" /\ Call.object = o
        BY <1>3
    <2>2. ApplyObject
        BY <2>1 DEF Keep, DeleteObject, ApplyScope, ReadScope, ApplyScopeRemoval, Calling, Call
    <2>3. QED
        BY <2>1, <2>2 DEF ApplyObject
<1>4. ASSUME NEW s \in Scopes \ PlainScopes, NEW w \in Workloads,
             Call = [do |-> "ref", scope |-> s, workload |-> w], scopes'[s].exists
      PROVE  w \in ToSet(scopes'[s].refs)
    <2>1. Call.do = "ref" /\ Call.scope = s /\ Call.workload = w
        BY <1>4
    <2>2. ApplyScope
        BY <2>1 DEF Keep, ApplyObject, DeleteObject, ReadScope, ApplyScopeRemoval, Calling, Call
    <2>3. CASE AlreadyReferenced(s, w)
        <3>1. scopes' = scopes
            BY <2>1, <2>2, <2>3 DEF ApplyScope
        <3>2. w \in ToSet(ctl.rendered[s].refs)
            BY <2>3 DEF AlreadyReferenced
        <3>3. QED
            BY <1>1, <1>4, <3>1, <3>2 DEF WalkInv, Refs
    <2>4. CASE ~AlreadyReferenced(s, w) /\ ScopeAccepted(s)
        <3>1. scopes' = [scopes EXCEPT ![s].rv = @ + 1,
                                       ![s].refs = Append(ctl.rendered[s].refs, w)]
            BY <2>1, <2>2, <2>4 DEF ApplyScope
        <3>2. ctl.rendered[s].refs \in Seq(Workloads \cup {Foreign}) /\ scopes[s] \in Scope
            BY <1>1, CtlVersion DEF Scope
        <3>3. scopes'[s].refs = Append(ctl.rendered[s].refs, w)
            BY <1>1, <3>1, <3>2 DEF Scope
        <3>4. w \in ToSet(Append(ctl.rendered[s].refs, w))
            <4>1. Unique(ctl.rendered[s].refs) /\ w \notin ToSet(ctl.rendered[s].refs)
                BY <1>1, <2>4, Parts DEF AlreadyReferenced, CtlPart, RenderedOf
            <4>2. QED
                BY <3>2, <4>1, AppendRefFacts
        <3>5. QED
            BY <3>3, <3>4
    <2>5. CASE ~AlreadyReferenced(s, w) /\ ~ScopeAccepted(s)
        <3>1. CallFailed
            BY <2>1, <2>2, <2>5 DEF ApplyScope
        <3>2. ctl'.pc # "apply" /\ ctl'.pc = ctl.pc
            BY <1>1, <3>1, CallFailedFields, CallFacts
        <3>3. QED
            BY <3>2 DEF At
    <2>6. QED
        BY <2>3, <2>4, <2>5
<1>5. e.workload \in Workloads /\ \A s \in ToSet(e.scopes) : s \in Scopes
    <2>1. e.workload \in Workloads /\ e.scopes \in Seq(Scopes)
        BY DEF Entry
    <2>2. QED
        BY <2>1, ElementOfSeq, LenProperties DEF ToSet
<1>6. QED
    BY <1>2, <1>3, <1>4, <1>5 DEF InForceNext

\* A reconciliation has put in force what it has come to.
LEMMA WalkStep ==
    ASSUME SuccessInv, [Next]_vars
    PROVE  WalkNext
<1>1. /\ ScopeInv /\ WalkInv /\ ctl \in Reconciliation /\ ctl.ac \in AppConfiguration
      /\ ctl.ac.spec \in Seq(Entry) /\ ctl.entry \in Nat /\ scopes \in [Scopes -> Scope]
    BY CtlVersion, Fields, Parts DEF SuccessInv, ScopePart
<1>2. \A i \in DOMAIN ctl.ac.spec : ctl.ac.spec[i] \in Entry /\ i \in Nat
    BY <1>1, ElementOfSeq, LenProperties
<1>3. \A e \in ToSet(ctl.ac.spec) : e \in Entry
    BY <1>2 DEF ToSet
<1>4. ASSUME ac'.exists, ~At("finalize"), NEW e \in ToSet(ctl.ac.spec), NEW calls,
             InForce(e, calls)
      PROVE  InForceNext(e, calls)
    BY <1>1, <1>3, <1>4, ExistsBefore, StepKeeps, InForceKept
<1>5. ASSUME At("apply"), ctl'.rendered = ctl.rendered, NEW s \in Scopes, scopes'[s].exists
      PROVE  ToSet(ctl'.rendered[s].refs) \cap Workloads \subseteq ToSet(scopes'[s].refs)
    <2>1. scopes[s].exists /\ OwnRefs(s) \subseteq ToSet(scopes'[s].refs)
        BY <1>5, RefsKept
    <2>2. ToSet(ctl.rendered[s].refs) \cap Workloads \subseteq Refs(s)
        BY <1>1, <1>5, <2>1 DEF WalkInv
    <2>3. QED
        BY <1>5, <2>1, <2>2 DEF OwnRefs
<1>6. ASSUME At("apply"), ac'.exists, NEW i \in DOMAIN ctl.ac.spec, i <= ctl.entry
      PROVE  InForceNext(ctl.ac.spec[i], ToSet(ctl.todo))
    <2>1. InForce(ctl.ac.spec[i], ToSet(ctl.todo))
        BY <1>1, <1>6, ExistsBefore DEF WalkInv
    <2>2. ctl.ac.spec[i] \in ToSet(ctl.ac.spec)
        BY DEF ToSet
    <2>3. QED
        BY <1>4, <1>6, <2>1, <2>2 DEF At
<1>7. ASSUME PastApply, ac'.exists, NEW e \in ToSet(ctl.ac.spec)
      PROVE  InForceNext(e, {})
    <2>1. InForce(e, {})
        BY <1>1, <1>7, ExistsBefore DEF WalkInv
    <2>2. QED
        BY <1>4, <1>7, <2>1 DEF PastApply, At
<1>8. CASE ctl' = ctl
    BY <1>1, <1>5, <1>6, <1>7, <1>8 DEF WalkNext, WalkInv, PastApply, At
<1>9. CASE ctl'.pc \in {"idle", "finalize"}
    BY <1>9 DEF WalkNext
<1>10. CASE CallFailed
    BY <1>1, <1>10, CallFailedFields DEF WalkNext
<1>11. CASE /\ \/ Keep \/ ApplyObject \/ DeleteObject
               \/ ApplyScope \/ ReadScope \/ ApplyScopeRemoval
            /\ CallDone
    <2>1. /\ ctl.todo # <<>> /\ Walking
          /\ ctl'.entry = ctl.entry /\ ctl'.pc = ctl.pc /\ ctl'.ac = ctl.ac
          /\ ctl'.rendered = ctl.rendered
        <3>1. ctl.todo # <<>> /\ Walking
            BY <1>11 DEF Keep, ApplyObject, DeleteObject, ApplyScope, ReadScope,
                         ApplyScopeRemoval, Calling
        <3>2. QED
            BY <1>1, <1>11, <3>1, CallFacts
    <2>2. ASSUME At("apply"), ac'.exists, NEW i \in DOMAIN ctl.ac.spec, i <= ctl.entry
          PROVE  InForceNext(ctl.ac.spec[i], ToSet(ctl'.todo))
        BY <1>2, <1>6, <1>11, <2>2, CallMade
    <2>3. QED
        BY <1>5, <1>7, <2>1, <2>2 DEF WalkNext, PastApply, At, Walking
<1>12. CASE NextEntry
    <2> DEFINE calls == PhaseCalls(PhaseList[ctl.entry + 1])
    <2>1. /\ ctl.todo = <<>> /\ ctl.entry < Len(PhaseList) /\ Walking
          /\ ctl' = [ctl EXCEPT !.entry = ctl.entry + 1, !.todo = calls]
        BY <1>12 DEF NextEntry
    <2> HIDE DEF calls
    <2>2. /\ ctl'.entry = ctl.entry + 1 /\ ctl'.pc = ctl.pc /\ ctl'.ac = ctl.ac
          /\ ctl'.rendered = ctl.rendered /\ ctl'.todo = calls
        BY <1>1, <2>1 DEF Reconciliation
    <2>3. ASSUME At("apply"), ac'.exists, NEW i \in DOMAIN ctl.ac.spec, i <= ctl.entry + 1
          PROVE  InForceNext(ctl.ac.spec[i], ToSet(calls))
        <3>1. CASE i <= ctl.entry
            <4>1. ToSet(ctl.todo) = {}
                BY <2>1 DEF ToSet
            <4>2. InForceNext(ctl.ac.spec[i], {})
                BY <1>6, <2>3, <3>1, <4>1
            <4>3. QED
                BY <4>2 DEF InForceNext
        <3>2. CASE i = ctl.entry + 1
            <4>1. calls = ApplyEntry(ctl.ac.spec[i])
                BY <2>3, <3>2 DEF calls, PhaseCalls, PhaseList, At
            <4>2. QED
                BY <1>2, <4>1, ApplyEntryCovers DEF InForceNext
        <3>3. QED
            BY <1>1, <1>2, <2>3, <3>1, <3>2
    <2>4. QED
        BY <1>5, <1>7, <2>1, <2>2, <2>3 DEF WalkNext, PastApply, At, Walking
<1>13. CASE NextPhase
    <2>1. /\ ctl'.ac = ctl.ac /\ ctl'.pc \in {"dereference", "collect"}
          /\ \/ PhaseDone("apply") \/ PhaseDone("dereference")
        BY <1>1, <1>13 DEF NextPhase, Reconciliation
    <2>2. ASSUME PhaseDone("apply"), ac'.exists, NEW e \in ToSet(ctl.ac.spec)
          PROVE  InForceNext(e, {})
        <3>1. At("apply") /\ ToSet(ctl.todo) = {} /\ ctl.entry = Len(ctl.ac.spec)
            BY <2>2 DEF PhaseDone, PhaseList, At, ToSet
        <3>2. PICK i \in DOMAIN ctl.ac.spec : ctl.ac.spec[i] = e
            BY <2>2 DEF ToSet
        <3>3. i <= ctl.entry
            BY <1>1, <3>1, <3>2, LenProperties
        <3>4. QED
            BY <1>6, <2>2, <3>1, <3>2, <3>3
    <2>3. QED
        BY <1>7, <2>1, <2>2 DEF WalkNext, PastApply, PhaseDone
<1>14. CASE UpdateStatus
    <2> DEFINE v == [ctl.ac EXCEPT !.status = ctl.ac.spec, !.condition = "success"]
    <2>1. v.spec = ctl.ac.spec
        BY <1>1 DEF AppConfiguration
    <2>2. ctl' = AtWith("posthook", v) /\ PastApply
        BY <1>14 DEF UpdateStatus, PhaseDone, PastApply
    <2> HIDE DEF v
    <2>3. ctl'.ac = v /\ ctl'.pc = "posthook"
        BY <2>2, AtWithFields
    <2>4. QED
        BY <1>7, <2>1, <2>2, <2>3 DEF WalkNext
<1>15. CASE UpdateErrorStatus
    <2>1. ctl.ac.condition = "error" /\ ctl'.pc = "posthook"
        BY <1>1, <1>15 DEF UpdateErrorStatus, WalkInv, Reconciliation
    <2>2. ctl'.ac.condition = "error"
        <3>1. CASE Accepted(ctl.ac)
            <4>1. ctl'.ac = ac' /\ Write(StatusOf(ctl.ac))
                BY <1>1, <1>15, <3>1 DEF UpdateErrorStatus, Reconciliation
            <4>2. ac'.condition = ctl.ac.condition
                BY <1>1, <4>1, StatusMoves, Parts DEF VersionPart
            <4>3. QED
                BY <2>1, <4>1, <4>2
        <3>2. CASE ~Accepted(ctl.ac)
            BY <1>1, <1>15, <2>1, <3>2 DEF UpdateErrorStatus, Reconciliation
        <3>3. QED
            BY <3>1, <3>2
    <2>3. QED
        BY <2>1, <2>2 DEF WalkNext
<1>16. CASE BeginRender
    <2>1. CASE ctl' = Failed(acCache)
        <3>1. acCache \in AppConfiguration
            BY <1>1, Parts DEF VersionPart
        <3>2. [acCache EXCEPT !.condition = "error"].condition = "error"
            BY <3>1 DEF AppConfiguration
        <3>3. ctl'.pc = "error" /\ ctl'.ac.condition = "error"
            BY <2>1, <3>2, AtWithFields DEF Failed
        <3>4. QED
            BY <3>3 DEF WalkNext
    <2>2. CASE ctl' # Failed(acCache)
        <3> DEFINE seen == [s \in Scopes |-> IF s \in JoinedScopes(acCache) THEN scopes[s]
                                             ELSE Idle.rendered[s]]
        <3>1. /\ ctl' = [Idle EXCEPT !.pc = "apply", !.ac = acCache, !.rendered = seen]
              /\ scopes' = scopes
            BY <1>16, <2>2 DEF BeginRender
        <3>2. \A s \in Scopes : seen[s] = scopes[s] \/ seen[s].refs = <<>>
            BY IdleType
        <3> HIDE DEF seen
        <3>3. ctl'.pc = "apply" /\ ctl'.rendered = seen /\ ctl'.entry = 0 /\ ctl'.ac = acCache
            BY <3>1, IdleType DEF Reconciliation
        <3>4. \A s \in Scopes : ToSet(ctl'.rendered[s].refs) \cap Workloads \subseteq Refs(s)
            BY <3>2, <3>3 DEF ToSet, Refs
        <3>5. \A i \in DOMAIN acCache.spec : ~(i <= 0)
            <4>1. acCache.spec \in Seq(Entry)
                BY <1>1, Parts, Fields DEF VersionPart
            <4>2. QED
                BY <4>1, LenProperties
        <3>6. QED
            BY <3>1, <3>3, <3>4, <3>5 DEF WalkNext, Refs
    <2>3. QED
        BY <2>1, <2>2
<1>17. CASE ScopeRead
    <2>1. Walking /\ ~At("apply")
        BY <1>1, <1>17, CallFacts DEF ScopeRead, Calling, Call, SuccessInv, HarmlessInv, At
    <2>2. SameWalk
        BY <1>1, <1>17, ScopeReadFields DEF SameWalk
    <2>3. QED
        BY <1>7, <2>1, <2>2 DEF WalkNext, SameWalk, PastApply, At, Walking
<1>18. CASE ApplyScope \/ ReadScope \/ ApplyScopeRemoval
    BY <1>1, <1>10, <1>11, <1>17, <1>18, ScopeCallCases DEF ScopeCallEffect
<1>19. QED
    <2>1. CASE ctl' = Idle \/ BeginFinalize
        BY <1>9, <2>1, IdleType, AtWithFields DEF BeginFinalize
    <2>2. QED
        BY <1>8, <1>10, <1>11, <1>12, <1>13, <1>14, <1>15, <1>16, <1>18, <2>1
           DEF Next, ReconcileStep, vars, EditAppConfig, DeleteAppConfig, CollectOwned,
               TouchScope, DeleteScope, Deliver, Resync, BeginGone, RegisterFinalizers,
               Keep, ApplyObject, DeleteObject,
               PostHook, RemoveFinalizer, UpdateFinalizeError, CallFault, UpdateFault, Restart

\* A success that is reported after a step was reported before for the same generation, or
\* ends a reconciliation of that generation.
LEMMA SuccessBefore ==
    ASSUME SuccessInv, [Next]_vars, ac'.exists, ~ac'.deleting, Reconciled'
    PROVE  /\ ac'.generation = ac.generation /\ ac'.spec = ac.spec
           /\ ac.exists /\ ~ac.deleting
           /\ Reconciled \/ (PostHook /\ Accepted(ctl.ac) /\ ctl.ac.condition = "success")
<1>1. ScopeInv /\ WalkInv
    BY DEF SuccessInv
<1>2. ac.observedGeneration <= ac.generation /\ ac.generation \in Nat /\ ac.observedGeneration \in Nat
    BY <1>1, Parts, Fields DEF VersionPart
<1>3. CASE ac' = ac
    BY <1>3 DEF Reconciled
<1>4. CASE Next /\ ~Deliver /\ ~Restart
    <2>1. ObjectStep
        BY <1>1, <1>4, MovedStep
    <2>2. ac'.condition = "success" /\ ac'.observedGeneration = ac'.generation
        BY DEF Reconciled
    <2>3. CASE /\ ac'.generation = ac.generation + 1
               /\ ac'.observedGeneration = ac.observedGeneration
        BY <1>2, <2>2, <2>3
    <2>4. CASE /\ ac'.exists = ac.exists /\ ac'.deleting = ac.deleting
               /\ ac'.generation = ac.generation /\ ac'.spec = ac.spec
               /\ ac'.condition = ac.condition /\ ac'.observedGeneration = ac.observedGeneration
        BY <2>2, <2>4 DEF Reconciled
    <2>5. CASE PostHook /\ StatusWritten(ctl.ac.generation)
        BY <2>2, <2>5 DEF StatusWritten, Accepted
    <2>6. CASE /\ UpdateErrorStatus \/ UpdateFinalizeError
               /\ StatusWritten(ctl.ac.observedGeneration)
        BY <1>1, <2>2, <2>6 DEF StatusWritten, UpdateErrorStatus, UpdateFinalizeError, WalkInv
    <2>7. QED
        BY <1>3, <2>1, <2>3, <2>4, <2>5, <2>6 DEF ObjectStep
<1>5. QED
    BY <1>3, <1>4 DEF vars, Deliver, Restart

\* A reconciliation whose success is accepted worked on the generation that the object has and
\* the cache holds.
LEMMA AcceptedIsLatest ==
    ASSUME SuccessInv, ~At("idle"), Accepted(ctl.ac)
    PROVE  /\ ctl.ac.generation = ac.generation /\ acCache.generation = ac.generation
           /\ ctl.ac.spec = ac.spec
<1>1. ctl.ac.generation = ac.generation /\ ctl.ac.spec = ac.spec
    BY DEF SuccessInv, OrderInv, ReadFrom, Accepted
<1>2. ctl.ac.generation <= acCache.generation /\ acCache.generation <= ac.generation
    BY Parts DEF SuccessInv, OrderInv, VersionPart, VersionOf
<1>3. acCache.generation \in Nat /\ ac.generation \in Nat
    BY Parts, Fields DEF SuccessInv, VersionPart
<1>4. QED
    BY <1>1, <1>2, <1>3

\* A generation that is in effect is the only one that reaches the reconciler.
LEMMA LatestStep ==
    ASSUME SuccessInv, [Next]_vars
    PROVE  LatestInv'
<1> SUFFICES ASSUME ac'.exists, ~ac'.deleting, Reconciled'
             PROVE  /\ acCache'.generation = ac'.generation
                    /\ ctl'.pc # "idle" => ctl'.ac.generation = ac'.generation
    BY DEF LatestInv, At
<1>1. ScopeInv /\ OrderInv /\ LatestInv /\ VersionStep
    BY VersionStepped DEF SuccessInv
<1>2. /\ ac'.generation = ac.generation /\ ac.exists /\ ~ac.deleting
      /\ Reconciled \/ (PostHook /\ Accepted(ctl.ac) /\ ctl.ac.condition = "success")
    BY SuccessBefore
<1>3. CASE PostHook /\ Accepted(ctl.ac)
    <2>1. ~At("idle") /\ ctl'.pc = "idle" /\ acCache' = acCache
        BY <1>3, IdleType DEF PostHook, At
    <2>2. QED
        BY <1>2, <1>3, <2>1, AcceptedIsLatest
<1>4. CASE Reconciled
    <2>1. /\ acCache.generation = ac.generation
          /\ ctl.pc # "idle" => ctl.ac.generation = ac.generation
        BY <1>1, <1>2, <1>4 DEF LatestInv, At
    <2>2. acCache'.generation = ac.generation
        <3>1. CASE Deliver
            <4>1. /\ events # <<>> /\ events \in Seq(AppConfiguration)
                  /\ \A i \in DOMAIN events : VersionOf(events[i])
                BY <1>1, <3>1, Parts DEF Deliver, VersionPart
            <4>2. acCache' = events[1] /\ 1 \in DOMAIN events /\ events[1] \in AppConfiguration
                BY <3>1, <4>1 DEF Deliver
            <4>3. acCache.generation <= events[1].generation /\ events[1].generation <= ac.generation
                BY <1>1, <4>1, <4>2 DEF OrderInv, VersionOf
            <4>4. events[1].generation \in Nat /\ ac.generation \in Nat
                BY <1>1, <4>2, Parts, Fields DEF VersionPart
            <4>5. QED
                BY <2>1, <4>2, <4>3, <4>4
        <3>2. CASE Restart
            BY <3>2 DEF Restart
        <3>3. CASE acCache' = acCache
            BY <2>1, <3>3
        <3>4. QED
            BY <1>1, <3>1, <3>2, <3>3, MovedStep DEF vars
    <2>3. ctl'.pc # "idle" => ctl'.ac.generation = ac.generation
        BY <1>1, <2>1 DEF VersionStep, SameVersion
    <2>4. QED
        BY <1>2, <2>2, <2>3
<1>5. QED
    BY <1>2, <1>3, <1>4

\* A success is true when it is reported, and stays true.
LEMMA SuccessStep ==
    ASSUME SuccessInv, [Next]_vars
    PROVE  SuccessMeansApplied'
<1>1. ScopeInv /\ OrderInv /\ HarmlessInv /\ WalkInv /\ LatestInv /\ SuccessMeansApplied
    BY DEF SuccessInv
<1>2. SUFFICES ASSUME ac'.exists, ~ac'.deleting, Reconciled', NEW e \in ToSet(ac'.spec)
               PROVE  InForceNext(e, {})
    BY DEF SuccessMeansApplied, InForce, InForceNext, Refs
<1>3. /\ ac'.spec = ac.spec /\ ac.exists /\ ~ac.deleting
      /\ Reconciled \/ (PostHook /\ Accepted(ctl.ac) /\ ctl.ac.condition = "success")
    BY <1>2, SuccessBefore
<1>4. e \in ToSet(ac.spec) /\ e \in Entry
    <2>1. ac.spec \in Seq(Entry)
        BY <1>1, Parts, Fields DEF VersionPart
    <2>2. QED
        BY <1>2, <1>3, <2>1, ElementOfSeq, LenProperties DEF ToSet
<1>5. CASE PostHook /\ Accepted(ctl.ac) /\ ctl.ac.condition = "success"
    <2>1. PastApply /\ ~At("idle") /\ objects' = objects /\ scopes' = scopes
        BY <1>5 DEF PostHook, PastApply, At
    <2>2. InForce(e, {})
        BY <1>1, <1>3, <1>4, <1>5, <2>1, AcceptedIsLatest DEF WalkInv
    <2>3. QED
        BY <2>1, <2>2 DEF InForce, InForceNext, Refs
<1>6. CASE Reconciled
    <2>1. InForce(e, {})
        BY <1>1, <1>3, <1>4, <1>6 DEF SuccessMeansApplied
    <2>2. Walking => e \in ToSet(ctl.ac.spec) /\ ~At("finalize")
        <3> SUFFICES ASSUME Walking PROVE ctl.ac.spec = ac.spec /\ ~At("finalize")
            BY <1>4
        <3>1. ~At("idle")
            BY DEF Walking, At
        <3>2. ctl.ac.generation = ac.generation
            BY <1>1, <1>3, <1>6, <3>1 DEF LatestInv
        <3>3. ReadFrom(ctl.ac)
            BY <1>1, <3>1 DEF OrderInv
        <3>4. ctl.ac.spec = ac.spec /\ ~ctl.ac.deleting
            BY <1>3, <3>2, <3>3 DEF ReadFrom
        <3>5. QED
            BY <1>1, <3>4 DEF HarmlessInv
    <2>3. Keeps(e)
        BY <1>3, <1>4, <2>2, StepKeeps
    <2>4. QED
        BY <2>1, <2>3, InForceKept
<1>7. QED
    BY <1>3, <1>5, <1>6

\* The invariant holds at the start: nothing is reported yet.
LEMMA InitSuccess == Init => SuccessInv
<1> SUFFICES ASSUME Init PROVE SuccessInv
    OBVIOUS
<1>1. ScopeInv
    BY InitInv
<1>2. /\ ctl.pc = "idle" /\ ctl.todo = <<>> /\ acCache = ac /\ events = <<ac>>
      /\ ac.condition = "none"
    BY IdleType DEF Init, Created
<1>3. ac.rv <= ac.rv /\ ac.generation <= ac.generation
    BY <1>1, Parts, Fields DEF VersionPart
<1>4. OrderInv
    <2>1. ReadFrom(ac)
        BY <1>3 DEF ReadFrom
    <2>2. \A i \in DOMAIN events : events[i] = ac
        BY <1>2
    <2>3. QED
        BY <1>2, <1>3, <2>1, <2>2 DEF OrderInv, At
<1>5. HarmlessInv /\ WalkInv
    BY <1>2 DEF HarmlessInv, WalkInv, PastApply, At
<1>6. LatestInv /\ SuccessMeansApplied
    BY <1>2 DEF LatestInv, SuccessMeansApplied, Reconciled
<1>7. QED
    BY <1>1, <1>4, <1>5, <1>6 DEF SuccessInv

\* Every step keeps it.
LEMMA StepSuccess ==
    ASSUME DistinctWorkloads
    PROVE  SuccessInv /\ [Next]_vars => SuccessInv'
<1> SUFFICES ASSUME SuccessInv, [Next]_vars PROVE SuccessInv'
    OBVIOUS
<1>1. ScopeInv'
    BY StepInv DEF SuccessInv
<1>2. WalkInv'
    BY WalkStep, WalkAfter
<1>3. QED
    BY <1>1, <1>2, OrderStep, HarmlessStep, LatestStep, SuccessStep DEF SuccessInv

\* The order in which versions reach the reconciler, and what the walk over the entries has put
\* in force, in every reachable state and for every set of specs whose entries render to
\* different workloads (Reconcile, Apply, dereferenceScope, eligible, Status().Update).
THEOREM SuccessInvariant ==
    ASSUME DistinctWorkloads
    PROVE  Spec => []SuccessInv
BY InitSuccess, StepSuccess, PTL DEF Spec

\* A status that reports success for the current generation is true, and stays true under
\* stale versions, edits of others, failed calls and restarts (Apply, updateStatus).
THEOREM SuccessIsTrue ==
    ASSUME DistinctWorkloads
    PROVE  Spec => []SuccessMeansApplied
<1>1. SuccessInv => SuccessMeansApplied
    BY DEF SuccessInv
<1>2. QED
    BY <1>1, SuccessInvariant, PTL

-------------------------------------------------------------------------------
(* What users find that wait for one edit to be reconciled before the next *)

\* How a step moves the object and the record in its status: an edit or a deletion by a user, the
\* end of an object without a finalizer, its registration, the end of a finalization, or the
\* status that a reconciliation of this version ends with.
Edited ==
    /\ ac.exists /\ ~ac.deleting /\ edits' # edits
    /\ ac'.exists /\ ac'.generation = ac.generation + 1 /\ ac'.status = ac.status
    /\ ac'.observedGeneration = ac.observedGeneration
    /\ ac'.deleting => ac'.spec = ac.spec

SameRecord ==
    /\ ac'.generation = ac.generation /\ ac'.spec = ac.spec /\ ac'.deleting = ac.deleting
    /\ ac'.status = ac.status /\ ac'.condition = ac.condition
    /\ ac'.observedGeneration = ac.observedGeneration

Removed == SameRecord /\ ac.exists /\ ~ac'.exists /\ ~ac'.finalizer

Recorded ==
    /\ PostHook \/ UpdateErrorStatus \/ UpdateFinalizeError
    /\ Accepted(ctl.ac)
    /\ ac'.exists /\ ac'.generation = ac.generation /\ ac'.spec = ac.spec
    /\ ac'.deleting = ac.deleting
    /\ ac'.status = ctl.ac.status /\ ac'.condition = ctl.ac.condition

RecordStep ==
    \/ ac' = ac
    \/ Edited
    \/ SameRecord /\ ac'.exists /\ ac.exists
    \/ Removed /\ ~ac.finalizer
    \/ Removed /\ RemoveFinalizer /\ Accepted(ctl.ac)
    \/ Recorded

LEMMA RecordStepped ==
    ASSUME ScopeInv, [Next]_vars
    PROVE  RecordStep
<1>1. /\ ac \in AppConfiguration /\ ctl.ac \in AppConfiguration
      /\ ac.generation + 1 \in Nat
    BY Parts, CtlVersion, Fields DEF VersionPart
<1>e. edits \in Nat
    BY Parts, BoundsAssumption DEF RestPart
<1>2. CASE ac' = ac
    BY <1>2 DEF RecordStep
<1>3. CASE \E s \in AppSpecs : EditAppConfig(s)
    <2> PICK s \in AppSpecs : EditAppConfig(s)
        BY <1>3
    <2> DEFINE new == [ac EXCEPT !.spec = s, !.generation = ac.generation + 1]
    <2>1. Write(new) /\ edits' # edits /\ ac.exists /\ ~ac.deleting
        BY <1>e DEF EditAppConfig, MayWrite
    <2>2. /\ new \in AppConfiguration /\ new.generation = ac.generation + 1
          /\ new.observedGeneration = ac.observedGeneration /\ new.deleting = ac.deleting
          /\ new.exists = ac.exists /\ new.status = ac.status
        BY <1>1 DEF AppConfiguration
    <2> HIDE DEF new
    <2>3. QED
        BY <1>1, <2>1, <2>2, WrittenFields DEF RecordStep, Edited
<1>4. CASE DeleteAppConfig /\ ac.finalizer
    <2> DEFINE new == [ac EXCEPT !.deleting = TRUE, !.generation = ac.generation + 1]
    <2>1. Write(new) /\ edits' # edits /\ ac.exists /\ ~ac.deleting
        BY <1>4, <1>e DEF DeleteAppConfig, MayWrite
    <2>2. /\ new \in AppConfiguration /\ new.generation = ac.generation + 1
          /\ new.observedGeneration = ac.observedGeneration /\ new.spec = ac.spec
          /\ new.exists = ac.exists /\ new.status = ac.status
        BY <1>1 DEF AppConfiguration
    <2> HIDE DEF new
    <2>3. QED
        BY <1>1, <2>1, <2>2, WrittenFields DEF RecordStep, Edited
<1>5. CASE DeleteAppConfig /\ ~ac.finalizer
    <2> DEFINE new == [ac EXCEPT !.exists = FALSE]
    <2>1. Write(new) /\ ac.exists
        BY <1>5 DEF DeleteAppConfig, MayWrite
    <2>2. /\ new \in AppConfiguration /\ new.generation = ac.generation
          /\ new.spec = ac.spec /\ new.deleting = ac.deleting /\ ~new.exists
          /\ new.status = ac.status /\ new.finalizer = ac.finalizer
          /\ new.condition = ac.condition /\ new.observedGeneration = ac.observedGeneration
        BY <1>1 DEF AppConfiguration
    <2> HIDE DEF new
    <2>3. QED
        BY <1>1, <1>5, <2>1, <2>2, WrittenFields DEF RecordStep, Removed, SameRecord
<1>6. CASE RegisterFinalizers /\ Accepted(acCache)
    <2> DEFINE new == [ac EXCEPT !.finalizer = TRUE]
    <2>1. Write(new) /\ ac.exists
        BY <1>6 DEF RegisterFinalizers, Accepted
    <2>2. /\ new \in AppConfiguration /\ new.generation = ac.generation
          /\ new.spec = ac.spec /\ new.deleting = ac.deleting /\ new.exists = ac.exists
          /\ new.condition = ac.condition /\ new.observedGeneration = ac.observedGeneration
          /\ new.status = ac.status
        BY <1>1 DEF AppConfiguration
    <2> HIDE DEF new
    <2>3. QED
        BY <1>1, <2>1, <2>2, WrittenFields DEF RecordStep, SameRecord
<1>7. CASE RemoveFinalizer /\ Accepted(ctl.ac)
    <2> DEFINE new == [ac EXCEPT !.finalizer = FALSE, !.exists = FALSE]
    <2>1. Write(new) /\ ac.exists
        BY <1>7 DEF RemoveFinalizer, Accepted
    <2>2. /\ new \in AppConfiguration /\ new.generation = ac.generation
          /\ new.spec = ac.spec /\ new.deleting = ac.deleting /\ ~new.exists
          /\ new.status = ac.status /\ ~new.finalizer
          /\ new.condition = ac.condition /\ new.observedGeneration = ac.observedGeneration
        BY <1>1 DEF AppConfiguration
    <2> HIDE DEF new
    <2>3. QED
        BY <1>1, <1>7, <2>1, <2>2, WrittenFields DEF RecordStep, Removed, SameRecord
<1>8. CASE (UpdateErrorStatus \/ UpdateFinalizeError) /\ Accepted(ctl.ac)
    <2>1. Write(StatusOf(ctl.ac)) /\ ac.exists
        BY <1>8 DEF UpdateErrorStatus, UpdateFinalizeError, Accepted
    <2>2. QED
        BY <1>1, <1>8, <2>1, StatusMoves DEF RecordStep, Recorded
<1>9. CASE PostHook /\ Accepted(ctl.ac)
    <2> DEFINE new == [ctl.ac EXCEPT !.observedGeneration = ObservedGeneration(ctl.ac)]
    <2>1. /\ new \in AppConfiguration /\ new.status = ctl.ac.status
          /\ new.condition = ctl.ac.condition
        BY <1>1, Fields DEF AppConfiguration, ObservedGeneration
    <2>2. Write(StatusOf(new)) /\ ac.exists
        BY <1>9 DEF PostHook, Accepted
    <2> HIDE DEF new
    <2>3. QED
        BY <1>1, <1>9, <2>1, <2>2, StatusMoves DEF RecordStep, Recorded
<1>10. QED
    BY <1>2, <1>3, <1>4, <1>5, <1>6, <1>7, <1>8, <1>9
       DEF Next, ReconcileStep, vars, CollectOwned, TouchScope, DeleteScope, DeleteAppConfig,
           Deliver, Resync, BeginGone, RegisterFinalizers, BeginRender, BeginFinalize,
           NextEntry, NextPhase, Keep, ApplyObject, DeleteObject, ApplyScope, ReadScope, ApplyScopeRemoval,
           UpdateStatus, UpdateErrorStatus, PostHook, RemoveFinalizer, UpdateFinalizeError,
           CallFault, UpdateFault, Restart

\* The versions on their way to the reconciler: those that were, and the object if written.
LEMMA VersionsStepped ==
    ASSUME ScopeInv, [Next]_vars
    PROVE  /\ {acCache'} \cup ToSet(events') \subseteq {ac'} \cup {acCache} \cup ToSet(events)
           /\ ac' = ac \/ ac'.rv = ac.rv + 1
<1>1. ac \in AppConfiguration /\ events \in Seq(AppConfiguration)
    BY Parts DEF VersionPart
<1>2. CASE Deliver
    <2>1. events # <<>> /\ ac' = ac
        BY <1>2 DEF Deliver
    <2>2. /\ acCache' = events[1] /\ 1 \in DOMAIN events
          /\ \A i \in DOMAIN events' : i + 1 \in DOMAIN events /\ events'[i] = events[i + 1]
        BY <1>1, <1>2, <2>1 DEF Deliver
    <2>3. QED
        BY <2>1, <2>2 DEF ToSet
<1>3. CASE Restart
    BY <1>3 DEF Restart, ToSet
<1>4. CASE UNCHANGED vars
    BY <1>4 DEF vars
<1>5. CASE Next /\ ~Deliver /\ ~Restart
    <2>1. Moved /\ acCache' = acCache
        BY <1>5, MovedStep
    <2>2. ToSet(events') \subseteq {ac'} \cup ToSet(events)
        <3>1. CASE events' = events
            BY <3>1
        <3>2. CASE events' = Append(events, ac')
            <4>1. ac' \in AppConfiguration
                BY <2>1 DEF Moved
            <4>2. /\ Len(events) \in Nat /\ DOMAIN events = 1..Len(events)
                  /\ DOMAIN events' = 1..(Len(events) + 1)
                  /\ \A i \in 1..Len(events) : events'[i] = events[i]
                  /\ events'[Len(events) + 1] = ac'
                BY <1>1, <3>2, <4>1, AppendProperties, LenProperties
            <4>3. QED
                BY <4>2 DEF ToSet
        <3>3. QED
            BY <2>1, <3>1, <3>2 DEF Moved
    <2>3. QED
        BY <2>1, <2>2 DEF Moved
<1>6. QED
    BY <1>2, <1>3, <1>4, <1>5

LEMMA InPlayStepped ==
    ASSUME ScopeInv, [Next]_vars, NEW v \in InPlay'
    PROVE  v = ac' \/ \E w \in InPlay : SameVersion(v, w)
<1>1. VersionStep
    BY VersionStepped
<1>2. CASE v \in {acCache'} \cup ToSet(events')
    <2>1. v = ac' \/ v \in {acCache} \cup ToSet(events)
        BY <1>2, VersionsStepped
    <2>2. QED
        BY <2>1 DEF InPlay, SameVersion
<1>3. CASE ctl'.pc # "idle" /\ v = ctl'.ac
    BY <1>1, <1>3 DEF VersionStep, InPlay, At
<1>4. QED
    BY <1>2, <1>3 DEF InPlay, At

\* What is known of each version.
LEMMA InPlayFacts ==
    ASSUME SuccessInv, NEW v \in InPlay
    PROVE  v \in AppConfiguration /\ VersionOf(v) /\ ReadFrom(v)
<1>1. /\ ScopeInv /\ OrderInv
    BY DEF SuccessInv
<1>2. /\ acCache \in AppConfiguration /\ VersionOf(acCache) /\ ReadFrom(acCache)
      /\ events \in Seq(AppConfiguration)
      /\ \A i \in DOMAIN events : VersionOf(events[i]) /\ ReadFrom(events[i])
      /\ ctl.ac \in AppConfiguration /\ VersionOf(ctl.ac) /\ (~At("idle") => ReadFrom(ctl.ac))
    BY <1>1, Parts, CtlVersion DEF VersionPart, OrderInv
<1>3. \A i \in DOMAIN events : events[i] \in AppConfiguration
    BY <1>2, ElementOfSeq, LenProperties
<1>4. QED
    BY <1>2, <1>3 DEF InPlay, ToSet

\* A version of the object's generation is of its spec, one of its resource version has it.
LEMMA Newest ==
    ASSUME SuccessInv, NEW v \in InPlay
    PROVE  /\ v.rv \in Nat /\ ac.rv \in Nat /\ v.rv <= ac.rv
           /\ v.generation \in Nat /\ ac.generation \in Nat /\ v.generation <= ac.generation
           /\ v.generation = ac.generation => v.spec = ac.spec
           /\ v.rv = ac.rv => v.generation = ac.generation
<1>1. v \in AppConfiguration /\ VersionOf(v) /\ ReadFrom(v) /\ ac \in AppConfiguration
    BY InPlayFacts, Parts DEF SuccessInv, VersionPart
<1>2. QED
    BY <1>1, Fields DEF VersionOf, ReadFrom

\* What a step does to the reconciliation: nothing, while others at most take away; it ends its
\* walk, it starts one, it makes a call, or it goes on to the next entry or phase.
Shrinks ==
    /\ objects' \subseteq objects
    /\ \A s \in Scopes : ToSet(scopes'[s].refs) \cap Workloads \subseteq OwnRefs(s)

Calls == Keep \/ ApplyObject \/ DeleteObject \/ ApplyScope \/ ReadScope \/ ApplyScopeRemoval

Ends ==
    /\ ctl'.pc \in {"idle", "error", "posthook", "finalizeError"}
    /\ ctl'.todo = <<>> \/ (ctl'.todo = ctl.todo /\ ctl'.ac.spec = ctl.ac.spec /\ At("error"))
    /\ UNCHANGED <<scopes, objects>>
    /\ ctl'.pc = "posthook" /\ ctl'.ac.condition = "success" => UpdateStatus

Starts ==
    /\ At("idle") /\ ctl'.pc \in {"apply", "finalize"}
    /\ ctl'.ac = acCache /\ ctl'.todo = <<>> /\ ctl'.entry = 0
    /\ ctl'.pc = "apply" => ~acCache.deleting
    /\ UNCHANGED <<ac, scopes, objects>>

CtlStep ==
    \/ SameWalk /\ Shrinks
    \/ Ends
    \/ Starts
    \/ CallDone /\ ctl.todo # <<>> /\ Walking /\ Calls
    \/ NextEntry
    \/ NextPhase

\* A call is made or fails, or only reads.
LEMMA CallOutcome ==
    ASSUME ScopeInv, Calls
    PROVE  /\ ctl.todo # <<>> /\ Walking
           /\ \/ CallDone
              \/ CallFailed /\ UNCHANGED <<scopes, objects>>
              \/ SameWalk /\ UNCHANGED <<scopes, objects>>
<1>1. CASE ScopeRead
    BY <1>1, ScopeReadFields DEF SameWalk, ScopeRead, Calling
<1>2. CASE ReadScope /\ ~ScopeRead
    BY <1>2 DEF ReadScope, ScopeRead, Calling, RemovalDone
<1>3. CASE Keep \/ ApplyObject \/ DeleteObject \/ ApplyScope \/ ApplyScopeRemoval
    BY <1>3 DEF Keep, ApplyObject, DeleteObject, ApplyScope, ApplyScopeRemoval, Calling
<1>4. QED
    BY <1>1, <1>2, <1>3 DEF Calls

LEMMA CtlStepped ==
    ASSUME SuccessInv, [Next]_vars
    PROVE  CtlStep
<1>1. /\ ScopeInv /\ WalkInv /\ ctl \in Reconciliation /\ ctl.ac \in AppConfiguration
      /\ acCache \in AppConfiguration /\ ac \in AppConfiguration
    BY CtlVersion, Parts DEF SuccessInv, VersionPart
<1>2. UNCHANGED <<scopes, objects>> => Shrinks
    BY DEF Shrinks, OwnRefs, Refs
<1>3. CASE ctl' = ctl /\ UNCHANGED <<scopes, objects>>
    BY <1>2, <1>3 DEF CtlStep, SameWalk
<1>4. CASE CollectOwned
    <2>1. objects' = {} /\ scopes' = scopes /\ ctl' = ctl
        BY <1>4 DEF CollectOwned
    <2>2. QED
        BY <2>1 DEF CtlStep, SameWalk, Shrinks, OwnRefs, Refs
<1>5. ASSUME NEW s \in Scopes, TouchScope(s) \/ DeleteScope(s)
      PROVE  CtlStep
    <2>1. objects' = objects /\ ctl' = ctl
        BY <1>5 DEF TouchScope, DeleteScope
    <2>2. ASSUME NEW r \in Scopes
          PROVE  ToSet(scopes'[r].refs) \cap Workloads \subseteq OwnRefs(r)
        <3>1. CASE scopes'[r].exists
            BY <1>1, <1>5, <3>1, OthersKeep
        <3>2. CASE ~scopes'[r].exists /\ scopes'[r] = scopes[r]
            BY <3>2 DEF OwnRefs, Refs
        <3>3. CASE ~scopes'[r].exists /\ scopes'[r] # scopes[r]
            <4>1. scopes \in [Scopes -> Scope] /\ scopes[s] \in Scope
                BY <1>1, Parts DEF ScopePart
            <4>2. r = s
                BY <1>5, <3>3, <4>1 DEF TouchScope, DeleteScope
            <4>3. TouchScope(s) => scopes'[s].exists
                BY <4>1 DEF TouchScope, Scope
            <4>4. DeleteScope(s) => scopes'[s].refs = <<>>
                BY <4>1 DEF DeleteScope
            <4>5. ToSet(<<>>) = {}
                BY DEF ToSet
            <4>6. QED
                BY <1>5, <3>3, <4>2, <4>3, <4>4, <4>5
        <3>4. QED
            BY <3>1, <3>2, <3>3
    <2>3. QED
        BY <2>1, <2>2 DEF CtlStep, SameWalk, Shrinks
<1>6. CASE ctl' = Idle /\ UNCHANGED <<scopes, objects>>
    BY <1>6, IdleType DEF CtlStep, Ends
<1>7. CASE CallFailed /\ UNCHANGED <<scopes, objects>>
    <2>1. ctl'.pc \in {"error", "finalizeError"} /\ ctl'.todo = <<>>
        BY <1>1, <1>7, CallFailedFields
    <2>2. QED
        BY <1>7, <2>1 DEF CtlStep, Ends
<1>8. CASE Calls
    <2>1. /\ ctl.todo # <<>> /\ Walking
          /\ \/ CallDone
             \/ CallFailed /\ UNCHANGED <<scopes, objects>>
             \/ SameWalk /\ UNCHANGED <<scopes, objects>>
        BY <1>1, <1>8, CallOutcome
    <2>2. QED
        BY <1>2, <1>7, <1>8, <2>1 DEF CtlStep
<1>9. CASE UpdateStatus
    <2>1. ctl'.pc = "posthook" /\ ctl'.todo = <<>> /\ UNCHANGED <<scopes, objects>>
        BY <1>9, AtWithFields DEF UpdateStatus
    <2>2. QED
        BY <1>9, <2>1 DEF CtlStep, Ends
<1>10. CASE UpdateErrorStatus
    <2>1. /\ ctl.pc = "error" /\ ctl'.pc = "posthook" /\ ctl'.todo = ctl.todo
          /\ UNCHANGED <<scopes, objects>> /\ ctl.ac.condition = "error"
        BY <1>1, <1>10 DEF UpdateErrorStatus, At, Reconciliation, WalkInv
    <2>2. ctl'.ac.spec = ctl.ac.spec /\ ctl'.ac.condition = "error"
        <3>1. CASE Accepted(ctl.ac)
            <4>1. ctl'.ac = ac' /\ Write(StatusOf(ctl.ac))
                BY <1>1, <1>10, <3>1 DEF UpdateErrorStatus, Reconciliation
            <4>2. ac'.spec = ac.spec /\ ac'.condition = "error"
                BY <1>1, <2>1, <4>1, StatusMoves
            <4>3. ctl.ac.spec = ac.spec
                BY <2>1, <3>1, AcceptedIsLatest DEF At
            <4>4. QED
                BY <4>1, <4>2, <4>3
        <3>2. CASE ~Accepted(ctl.ac)
            BY <1>1, <1>10, <2>1, <3>2 DEF UpdateErrorStatus, Reconciliation
        <3>3. QED
            BY <3>1, <3>2
    <2>3. QED
        BY <2>1, <2>2 DEF CtlStep, Ends, At
<1>11. CASE BeginFinalize
    <2>1. /\ ctl'.pc = "finalize" /\ ctl'.ac = acCache /\ ctl'.todo = <<>>
          /\ At("idle") /\ UNCHANGED <<ac, scopes, objects>>
        BY <1>11, AtWithFields DEF BeginFinalize, Begin
    <2>2. ctl'.entry = 0
        BY <1>11, IdleType DEF BeginFinalize, AtWith, Reconciliation
    <2>3. QED
        BY <2>1, <2>2 DEF CtlStep, Starts
<1>12. CASE BeginRender
    <2>1. At("idle") /\ UNCHANGED <<ac, scopes, objects>> /\ ~acCache.deleting
        BY <1>12 DEF BeginRender, Begin
    <2>2. CASE ctl' = Failed(acCache)
        BY <2>1, <2>2, AtWithFields DEF Failed, CtlStep, Ends
    <2>3. CASE ctl' # Failed(acCache)
        <3>1. ctl'.pc = "apply" /\ ctl'.ac = acCache /\ ctl'.todo = <<>> /\ ctl'.entry = 0
            BY <1>12, <2>3, IdleType DEF BeginRender, Reconciliation
        <3>2. QED
            BY <2>1, <3>1 DEF CtlStep, Starts
    <2>4. QED
        BY <2>2, <2>3
<1>13. CASE NextEntry \/ NextPhase
    BY <1>13 DEF CtlStep
<1>14. QED
    BY <1>3, <1>4, <1>5, <1>6, <1>7, <1>8, <1>9, <1>10, <1>11, <1>12, <1>13
       DEF Next, ReconcileStep, vars, EditAppConfig, DeleteAppConfig, Calls,
           Deliver, Resync, BeginGone, RegisterFinalizers,
           PostHook, RemoveFinalizer, UpdateFinalizeError, CallFault, UpdateFault, Restart

\* The next entry, and the next phase.
LEMMA NextEntryFields ==
    ASSUME ScopeInv, NextEntry
    PROVE  /\ Walking /\ ctl.todo = <<>> /\ ctl'.pc = ctl.pc /\ ctl'.ac = ctl.ac
           /\ ctl'.entry = ctl.entry + 1 /\ ctl.entry + 1 \in DOMAIN PhaseList
           /\ PhaseList[ctl.entry + 1] \in Entry
           /\ ctl'.todo = PhaseCalls(PhaseList[ctl.entry + 1])
           /\ UNCHANGED <<ac, scopes, objects>>
<1>1. ctl \in Reconciliation /\ ctl.ac \in AppConfiguration /\ ctl.entry \in Nat
    BY CtlVersion
<1> DEFINE calls == PhaseCalls(PhaseList[ctl.entry + 1])
<1>2. /\ Walking /\ ctl.entry < Len(PhaseList) /\ ctl.todo = <<>>
      /\ ctl' = [ctl EXCEPT !.entry = ctl.entry + 1, !.todo = calls]
      /\ UNCHANGED <<ac, scopes, objects>>
    BY DEF NextEntry
<1>3. PhaseList \in Seq(Entry)
    BY <1>1, Fields DEF PhaseList
<1>4. ctl.entry + 1 \in 1..Len(PhaseList)
    BY <1>1, <1>2, <1>3, LenProperties
<1>5. ctl.entry + 1 \in DOMAIN PhaseList /\ PhaseList[ctl.entry + 1] \in Entry
    BY <1>3, <1>4, ElementOfSeq, LenProperties
<1> HIDE DEF calls
<1>6. /\ ctl'.pc = ctl.pc /\ ctl'.ac = ctl.ac /\ ctl'.entry = ctl.entry + 1
      /\ ctl'.todo = calls
    BY <1>1, <1>2 DEF Reconciliation
<1>7. QED
    BY <1>2, <1>5, <1>6 DEF calls

LEMMA NextPhaseFields ==
    ASSUME ScopeInv, NextPhase
    PROVE  /\ \/ PhaseDone("apply") /\ ctl'.pc = "dereference"
              \/ PhaseDone("dereference") /\ ctl'.pc = "collect"
           /\ ctl.todo = <<>> /\ ctl'.todo = <<>> /\ ctl'.ac = ctl.ac /\ ctl'.entry = 0
           /\ UNCHANGED <<ac, scopes, objects>>
BY CtlVersion DEF NextPhase, PhaseDone, Reconciliation

\* Where the version of a reconciliation that has not succeeded has its status from.
LEMMA CtlRecord ==
    ASSUME SuccessInv, [Next]_vars, ctl'.pc # "idle",
           ~(ctl'.pc = "posthook" /\ ctl'.ac.condition = "success")
    PROVE  \/ ctl'.ac = ac'
           \/ ctl.pc # "idle" /\ ~Succeeding /\ ctl'.ac.status = ctl.ac.status
              /\ ctl'.ac.rv = ctl.ac.rv
           \/ ctl'.ac.status = acCache.status /\ ctl'.ac.rv = acCache.rv
<1>1. /\ ScopeInv /\ WalkInv /\ ctl \in Reconciliation /\ ctl.ac \in AppConfiguration
      /\ acCache \in AppConfiguration
    BY CtlVersion, Parts DEF SuccessInv, VersionPart
<1>2. CASE ctl' = ctl \/ SameWalk
    BY <1>2 DEF SameWalk, Succeeding, At
<1>3. Walking => ctl.pc # "idle" /\ ~Succeeding
    BY DEF Walking, Succeeding, At
<1>4. CASE CallFailed /\ Walking
    BY <1>1, <1>3, <1>4, CallFailedFields DEF SameVersion
<1>5. CASE Calls
    <2>1. Walking /\ ctl.todo # <<>> /\ (CallDone \/ CallFailed \/ SameWalk)
        BY <1>1, <1>5, CallOutcome
    <2>2. QED
        BY <1>1, <1>2, <1>3, <1>4, <2>1, CallFacts
<1>6. CASE NextEntry
    BY <1>1, <1>3, <1>6, NextEntryFields
<1>7. CASE NextPhase
    <2>1. Walking
        BY <1>7 DEF NextPhase, PhaseDone, Walking, At
    <2>2. QED
        BY <1>1, <1>3, <1>7, <2>1, NextPhaseFields
<1>8. CASE UpdateStatus
    <2> DEFINE v == [ctl.ac EXCEPT !.status = ctl.ac.spec, !.condition = "success"]
    <2>1. v.condition = "success"
        BY <1>1 DEF AppConfiguration
    <2>2. ctl' = AtWith("posthook", v)
        BY <1>8 DEF UpdateStatus
    <2> HIDE DEF v
    <2>3. QED
        BY <2>1, <2>2, AtWithFields
<1>9. CASE UpdateErrorStatus
    <2>1. CASE Accepted(ctl.ac)
        BY <1>1, <1>9, <2>1 DEF UpdateErrorStatus, Reconciliation
    <2>2. CASE ~Accepted(ctl.ac)
        BY <1>1, <1>9, <2>2 DEF UpdateErrorStatus, Reconciliation, Succeeding, At
    <2>3. QED
        BY <2>1, <2>2
<1>10. CASE BeginRender \/ BeginFinalize
    <2> DEFINE v == [acCache EXCEPT !.condition = "error"]
    <2>1. v.status = acCache.status /\ v.rv = acCache.rv
        BY <1>1 DEF AppConfiguration
    <2>2. ctl'.ac = acCache \/ ctl'.ac = v
        <3>1. CASE BeginFinalize \/ ctl' = Failed(acCache)
            BY <3>1, AtWithFields DEF BeginFinalize, Failed
        <3>2. CASE BeginRender /\ ctl' # Failed(acCache)
            BY <3>2, IdleType DEF BeginRender, Reconciliation
        <3>3. QED
            BY <1>10, <3>1, <3>2
    <2> HIDE DEF v
    <2>3. QED
        BY <2>1, <2>2
<1>11. CASE ctl' = Idle
    BY <1>11, IdleType
<1>12. QED
    BY <1>2, <1>4, <1>5, <1>6, <1>7, <1>8, <1>9, <1>10, <1>11
       DEF Next, ReconcileStep, vars, EditAppConfig, DeleteAppConfig, Calls, CollectOwned,
           TouchScope, DeleteScope, Deliver, Resync, BeginGone, RegisterFinalizers,
           PostHook, RemoveFinalizer, UpdateFinalizeError, CallFault, UpdateFault, Restart

\* A reconciliation that succeeds records the spec of its version.
LEMMA SucceedingStep ==
    ASSUME SuccessInv, [Next]_vars, ctl'.pc = "posthook", ctl'.ac.condition = "success"
    PROVE  \/ SameWalk /\ Succeeding /\ Shrinks
           \/ /\ UpdateStatus /\ UNCHANGED <<ac, scopes, objects>>
              /\ ctl'.ac.status = ctl.ac.spec /\ ctl'.ac.spec = ctl.ac.spec
              /\ ctl'.ac.rv = ctl.ac.rv
<1>1. /\ ScopeInv /\ ctl \in Reconciliation /\ ctl.ac \in AppConfiguration
      /\ acCache \in AppConfiguration /\ CtlStep
    BY CtlVersion, Parts, CtlStepped DEF SuccessInv, VersionPart
<1>2. CASE SameWalk /\ Shrinks
    BY <1>2 DEF SameWalk, Succeeding, At
<1>3. CASE UpdateStatus
    <2> DEFINE v == [ctl.ac EXCEPT !.status = ctl.ac.spec, !.condition = "success"]
    <2>1. v.status = ctl.ac.spec /\ v.spec = ctl.ac.spec /\ v.rv = ctl.ac.rv
        BY <1>1 DEF AppConfiguration
    <2>2. ctl' = AtWith("posthook", v) /\ UNCHANGED <<ac, scopes, objects>>
        BY <1>3 DEF UpdateStatus
    <2> HIDE DEF v
    <2>3. QED
        BY <1>3, <2>1, <2>2, AtWithFields
<1>4. CASE Ends
    BY <1>3, <1>4 DEF Ends
<1>5. CASE CallDone /\ ctl.todo # <<>> /\ Walking
    BY <1>1, <1>5, CallFacts DEF Walking
<1>6. CASE NextEntry
    BY <1>1, <1>6, NextEntryFields DEF Walking
<1>7. CASE NextPhase
    BY <1>1, <1>7, NextPhaseFields
<1>8. QED
    BY <1>1, <1>2, <1>4, <1>5, <1>6, <1>7 DEF CtlStep, Starts

\* A scope that is gone refers to nothing.
LEMMA GoneScopes ==
    ASSUME SuccessInv, RecordInv, [Next]_vars, NEW s \in Scopes, ~scopes'[s].exists
    PROVE  ToSet(scopes'[s].refs) = {}
<1>1. ScopeInv /\ scopes \in [Scopes -> Scope]
    BY Parts DEF SuccessInv, ScopePart
<1>2. CASE scopes'[s] = scopes[s]
    BY <1>2 DEF RecordInv, Refs
<1>3. ASSUME NEW r \in Scopes, TouchScope(r), scopes'[s] # scopes[s]
      PROVE  FALSE
    BY <1>1, <1>3 DEF TouchScope, Scope
<1>4. ASSUME NEW r \in Scopes, DeleteScope(r), scopes'[s] # scopes[s]
      PROVE  ToSet(scopes'[s].refs) = {}
    <2>1. scopes'[s].refs = <<>>
        BY <1>1, <1>4 DEF DeleteScope, Scope
    <2>2. QED
        BY <2>1 DEF ToSet
<1>5. CASE (ApplyScope \/ ReadScope \/ ApplyScopeRemoval) /\ scopes'[s] # scopes[s]
    <2>1. ScopeCallEffect
        BY <1>1, <1>5, ScopeCallCases DEF ScopeRead
    <2>2. PICK r \in Scopes, new \in Scope :
              scopes' = [scopes EXCEPT ![r] = new] /\ new.exists = scopes[r].exists /\ scopes[r].exists
        BY <1>5, <2>1 DEF ScopeCallEffect
    <2>3. QED
        BY <1>1, <1>5, <2>2
<1>6. QED
    BY <1>2, <1>3, <1>4, <1>5
       DEF Next, ReconcileStep, vars, EditAppConfig, DeleteAppConfig, CollectOwned,
           Deliver, Resync, BeginGone, RegisterFinalizers, BeginRender, BeginFinalize,
           NextEntry, NextPhase, Keep, ApplyObject, DeleteObject,
           UpdateStatus, UpdateErrorStatus, PostHook, RemoveFinalizer, UpdateFinalizeError,
           CallFault, UpdateFault, Restart

\* Versions at the object's resource version have its status.
LEMMA RecordInvStep ==
    ASSUME SuccessInv, RecordInv, [Next]_vars
    PROVE  RecordInv'
<1>1. ScopeInv /\ CtlStep /\ RecordStep
    BY CtlStepped, RecordStepped DEF SuccessInv
<1>2. /\ {acCache'} \cup ToSet(events') \subseteq {ac'} \cup {acCache} \cup ToSet(events)
      /\ ac' = ac \/ ac'.rv = ac.rv + 1
    BY <1>1, VersionsStepped
<1>3. \A v \in InPlay : v.rv \in Nat /\ ac.rv \in Nat /\ v.rv <= ac.rv
    BY Newest
<1>4. ASSUME NEW v \in {acCache'} \cup ToSet(events'), v.rv = ac'.rv
      PROVE  v.status = ac'.status
    <2>1. CASE v = ac'
        BY <2>1
    <2>2. CASE v \in {acCache} \cup ToSet(events)
        <3>1. v \in InPlay
            BY <2>2 DEF InPlay
        <3>2. ac' = ac
            BY <1>2, <1>3, <1>4, <3>1
        <3>3. QED
            BY <1>4, <2>2, <3>2 DEF RecordInv
    <2>3. QED
        BY <1>2, <2>1, <2>2
<1>5. ASSUME ctl'.pc # "idle", ~(ctl'.pc = "posthook" /\ ctl'.ac.condition = "success"),
             ctl'.ac.rv = ac'.rv
      PROVE  ctl'.ac.status = ac'.status
    <2>1. CASE ctl'.ac = ac'
        BY <2>1
    <2>2. CASE ctl.pc # "idle" /\ ~Succeeding /\ ctl'.ac.status = ctl.ac.status
               /\ ctl'.ac.rv = ctl.ac.rv
        <3>1. ctl.ac \in InPlay
            BY <2>2 DEF InPlay, At
        <3>2. ac' = ac
            BY <1>2, <1>3, <1>5, <2>2, <3>1
        <3>3. QED
            BY <1>5, <2>2, <3>2 DEF RecordInv, At
    <2>3. CASE ctl'.ac.status = acCache.status /\ ctl'.ac.rv = acCache.rv
        <3>1. acCache \in InPlay
            BY DEF InPlay
        <3>2. ac' = ac
            BY <1>2, <1>3, <1>5, <2>3, <3>1
        <3>3. QED
            BY <1>5, <2>3, <3>2 DEF RecordInv
    <2>4. QED
        BY <1>5, <2>1, <2>2, <2>3, CtlRecord
<1>6. ASSUME ctl'.pc = "posthook", ctl'.ac.condition = "success"
      PROVE  ctl'.ac.status = ctl'.ac.spec
    BY <1>6, SucceedingStep DEF SameWalk, RecordInv
<1>7. ASSUME NEW v \in InPlay', v.generation = ac'.generation
      PROVE  v.deleting = ac'.deleting
    <2>1. CASE v = ac'
        BY <2>1
    <2>2. ASSUME NEW w \in InPlay, SameVersion(v, w)
          PROVE  v.deleting = ac'.deleting
        <3>1. /\ w.generation \in Nat /\ ac.generation \in Nat /\ w.generation <= ac.generation
              /\ w.generation = ac'.generation /\ w.deleting = v.deleting
            BY <1>7, <2>2, Newest DEF SameVersion
        <3>2. ~Edited
            BY <3>1 DEF Edited
        <3>3. ac'.generation = ac.generation /\ ac'.deleting = ac.deleting
            BY <1>1, <3>2 DEF RecordStep, SameRecord, Removed, Recorded
        <3>4. QED
            BY <3>1, <3>3 DEF RecordInv
    <2>3. QED
        BY <1>1, <2>1, <2>2, InPlayStepped
<1>8. ASSUME ctl'.pc = "apply"
      PROVE  ~ctl'.ac.deleting
    <2>1. CASE SameWalk
        BY <1>8, <2>1 DEF SameWalk, RecordInv, At
    <2>2. CASE Starts
        BY <1>8, <2>2 DEF Starts
    <2>3. CASE CallDone /\ ctl.todo # <<>>
        BY <1>1, <1>8, <2>3, CallFacts DEF RecordInv, At
    <2>4. CASE NextEntry
        BY <1>1, <1>8, <2>4, NextEntryFields DEF RecordInv, At
    <2>5. CASE NextPhase
        BY <1>1, <1>8, <2>5, NextPhaseFields
    <2>6. QED
        BY <1>1, <1>8, <2>1, <2>2, <2>3, <2>4, <2>5 DEF CtlStep, Ends
<1>9. \A s \in Scopes : ~scopes'[s].exists => ToSet(scopes'[s].refs) = {}
    BY GoneScopes
<1>10. QED
    BY <1>4, <1>5, <1>6, <1>7, <1>8, <1>9 DEF RecordInv, Succeeding, At, Refs

\* The objects of an entry.
LEMMA HeldFacts ==
    ASSUME NEW e \in Entry
    PROVE  /\ <<e.workload>> \o e.traits \in Seq(Workloads \cup Traits)
           /\ \A k \in DOMAIN (<<e.workload>> \o e.traits) :
                 (<<e.workload>> \o e.traits)[k] \in {e.workload} \cup ToSet(e.traits)
           /\ \A o \in {e.workload} \cup ToSet(e.traits) :
                 \E k \in DOMAIN (<<e.workload>> \o e.traits) :
                     (<<e.workload>> \o e.traits)[k] = o
<1>1. /\ e.workload \in Workloads /\ e.traits \in Seq(Traits)
    BY DEF Entry
<1> DEFINE held == <<e.workload>> \o e.traits
           n == Len(e.traits)
<1>2. <<e.workload>> \in Seq(Workloads \cup Traits) /\ Len(<<e.workload>>) = 1
      /\ <<e.workload>>[1] = e.workload
    BY <1>1
<1>3. e.traits \in Seq(Workloads \cup Traits) /\ n \in Nat /\ DOMAIN e.traits = 1..n
    BY <1>1, SeqMonotonic, LenProperties
<1>4. /\ held \in Seq(Workloads \cup Traits) /\ Len(held) = 1 + n
      /\ \A k \in 1..(1 + n) : held[k] = IF k <= 1 THEN <<e.workload>>[k] ELSE e.traits[k - 1]
    BY <1>2, <1>3, ConcatProperties
<1> HIDE DEF held
<1>5. DOMAIN held = 1..(1 + n)
    BY <1>4, LenProperties
<1> HIDE DEF n
<1>6. held[1] = e.workload /\ 1 \in DOMAIN held
    <2>1. 1 \in 1..(1 + n)
        BY <1>3
    <2>2. held[1] = <<e.workload>>[1]
        BY <1>4, <2>1
    <2>3. QED
        BY <1>2, <1>5, <2>1, <2>2
<1>7. ASSUME NEW j \in DOMAIN e.traits PROVE j + 1 \in DOMAIN held /\ held[j + 1] = e.traits[j]
    <2>1. j + 1 \in 1..(1 + n) /\ ~(j + 1 <= 1) /\ (j + 1) - 1 = j
        BY <1>3
    <2>2. held[j + 1] = e.traits[(j + 1) - 1]
        BY <1>4, <2>1
    <2>3. QED
        BY <1>5, <2>1, <2>2
<1>8. ASSUME NEW k \in DOMAIN held
      PROVE  held[k] = e.workload \/ \E j \in DOMAIN e.traits : held[k] = e.traits[j]
    <2>1. k \in 1..(1 + n)
        BY <1>5
    <2>2. CASE k = 1
        BY <1>6, <2>2
    <2>3. CASE k # 1
        <3>1. k - 1 \in 1..n /\ ~(k <= 1)
            BY <1>3, <2>1, <2>3
        <3>2. held[k] = e.traits[k - 1]
            BY <1>4, <2>1, <3>1
        <3>3. QED
            BY <1>3, <3>1, <3>2
    <2>4. QED
        BY <2>2, <2>3
<1>9. \A o : o \in ToSet(e.traits) <=> \E j \in DOMAIN e.traits : o = e.traits[j]
    BY DEF ToSet
<1>10. /\ \A k \in DOMAIN held : held[k] \in {e.workload} \cup ToSet(e.traits)
       /\ \A o \in {e.workload} \cup ToSet(e.traits) : \E k \in DOMAIN held : held[k] = o
    BY <1>6, <1>7, <1>8, <1>9
<1>11. QED
    BY <1>4, <1>10 DEF held

\* The calls of a phase add nothing that the version under way does not list.
LEMMA PhaseCallsWanted ==
    ASSUME ScopeInv, Walking, NEW e \in Entry, At("apply") => e \in ToSet(ctl.ac.spec),
           NEW i \in DOMAIN PhaseCalls(e)
    PROVE  LET c == PhaseCalls(e)[i] IN
           /\ c.do = "apply" => c.object \in Objects(ctl.ac.spec)
           /\ c.do = "ref" => c.workload \in Joining(ctl.ac.spec, c.scope)
<1>1. /\ e.workload \in Workloads /\ e.traits \in Seq(Traits) /\ e.scopes \in Seq(Scopes)
    BY DEF Entry
<1>2. ctl.ac.spec \in Seq(Entry)
    BY CtlVersion, Fields
<1> DEFINE c == PhaseCalls(e)[i]
<1>3. CASE At("apply")
    <2> DEFINE held == <<e.workload>> \o e.traits
               a == ApplyAll(held)
               r == RefAll(e.workload, e.scopes)
               Adds == [do : {"apply"}, object : Objects(ctl.ac.spec)]
                           \cup {[do |-> "ref", scope |-> s, workload |-> e.workload] :
                                    s \in ToSet(e.scopes)}
    <2>1. /\ held \in Seq(Workloads \cup Traits)
          /\ \A k \in DOMAIN held : held[k] \in {e.workload} \cup ToSet(e.traits)
        BY HeldFacts
    <2> HIDE DEF held
    <2>2. \A k \in DOMAIN held : held[k] \in Objects(ctl.ac.spec)
        BY <1>3, <2>1, ObjectsFacts
    <2>3. a \in [DOMAIN held -> Adds] /\ r \in [DOMAIN e.scopes -> Adds]
        <3>1. \A k \in DOMAIN e.scopes : e.scopes[k] \in ToSet(e.scopes)
            BY DEF ToSet
        <3>2. QED
            BY <2>2, <3>1 DEF ApplyAll, RefAll
    <2>4. PhaseCalls(e) = a \o r
        BY <1>3 DEF PhaseCalls, ApplyEntry, held, At
    <2> HIDE DEF a, r, Adds
    <2>5. a \in Seq(Adds) /\ r \in Seq(Adds)
        BY <1>1, <2>1, <2>3, MapSeq
    <2>6. PhaseCalls(e) \in Seq(Adds)
        BY <2>4, <2>5, ConcatProperties
    <2>7. c \in Adds
        BY <2>6, ElementOfSeq, LenProperties
    <2>8. \A s \in ToSet(e.scopes) : e.workload \in Joining(ctl.ac.spec, s)
        <3>1. PICK k \in DOMAIN ctl.ac.spec : ctl.ac.spec[k] = e
            BY <1>3 DEF ToSet
        <3>2. QED
            BY <1>2, <3>1, JoiningFacts
    <2>9. \/ c.do = "apply" /\ c.object \in Objects(ctl.ac.spec)
          \/ c.do = "ref" /\ c.scope \in ToSet(e.scopes) /\ c.workload = e.workload
        BY <2>7 DEF Adds
    <2>10. QED
        BY <2>8, <2>9
<1>4. CASE At("dereference")
    <2>1. c.do \in {"keep", "unref"}
        BY <1>4 DEF PhaseCalls, At, DereferenceEntry
    <2>2. QED
        BY <2>1
<1>5. CASE At("collect")
    <2>1. c.do \in {"keep", "delete"}
        BY <1>5 DEF PhaseCalls, At, CollectEntry
    <2>2. QED
        BY <2>1
<1>6. CASE At("finalize")
    <2>1. c.do = "unref"
        BY <1>6 DEF PhaseCalls, At, FinalizeEntry
    <2>2. QED
        BY <2>1
<1>7. QED
    BY <1>3, <1>4, <1>5, <1>6 DEF Walking, At

\* What is applied is what the version under way lists.
LEMMA WantedStep ==
    ASSUME SuccessInv, WantedInv, [Next]_vars
    PROVE  WantedInv'
<1>1. ScopeInv /\ CtlStep
    BY CtlStepped DEF SuccessInv
<1>2. CASE SameWalk
    BY <1>2 DEF SameWalk, WantedInv
<1>3. CASE ctl'.todo = <<>>
    BY <1>3 DEF WantedInv
<1>4. CASE ctl'.todo = ctl.todo /\ ctl'.ac.spec = ctl.ac.spec
    BY <1>4 DEF WantedInv
<1>5. CASE CallDone /\ ctl.todo # <<>>
    BY <1>1, <1>5, CallDoneFields DEF WantedInv
<1>6. CASE NextEntry
    <2> DEFINE e == PhaseList[ctl.entry + 1]
               calls == PhaseCalls(e)
    <2>1. /\ Walking /\ ctl'.ac = ctl.ac /\ ctl'.todo = calls
          /\ e \in Entry /\ ctl.entry + 1 \in DOMAIN PhaseList
        BY <1>1, <1>6, NextEntryFields
    <2>2. At("apply") => e \in ToSet(ctl.ac.spec)
        BY <2>1 DEF PhaseList, ToSet
    <2>3. \A i \in DOMAIN calls :
             /\ calls[i].do = "apply" => calls[i].object \in Objects(ctl.ac.spec)
             /\ calls[i].do = "ref" => calls[i].workload \in Joining(ctl.ac.spec, calls[i].scope)
        <3> HIDE DEF e
        <3>1. QED
            BY <1>1, <2>1, <2>2, PhaseCallsWanted
    <2> HIDE DEF calls, e
    <2>4. QED
        BY <2>1, <2>3 DEF WantedInv
<1>7. CASE NextPhase
    BY <1>1, <1>3, <1>7, NextPhaseFields
<1>8. QED
    BY <1>1, <1>2, <1>3, <1>4, <1>5, <1>6, <1>7 DEF CtlStep, Ends, Starts

\* Only a reconciliation adds to the server and to the scopes, and no more than its version lists.
LEMMA Effects ==
    ASSUME SuccessInv, WantedInv, [Next]_vars
    PROVE  \/ Shrinks
           \/ /\ Walking /\ UNCHANGED <<ac, ctl.pc, ctl.ac>>
              /\ objects' \subseteq objects \cup Objects(ctl.ac.spec) /\ scopes' = scopes
           \/ /\ At("apply") /\ ctl.ac.finalizer /\ UNCHANGED <<ac, objects, ctl.pc, ctl.ac>>
              /\ \A s \in Scopes : ToSet(scopes'[s].refs) \cap Workloads
                                       \subseteq OwnRefs(s) \cup Joining(ctl.ac.spec, s)
<1>1. ScopeInv /\ CtlStep /\ scopes \in [Scopes -> Scope] /\ JoiningInv
    BY CtlStepped, Parts DEF SuccessInv, ScopePart, CtlPart
<1>2. UNCHANGED <<scopes, objects>> => Shrinks
    BY DEF Shrinks, OwnRefs, Refs
<1>3. CASE CallDone /\ ctl.todo # <<>> /\ Walking /\ Calls
    <2>1. /\ ctl'.pc = ctl.pc /\ ctl'.ac = ctl.ac /\ 1 \in DOMAIN ctl.todo /\ Call = ctl.todo[1]
        BY <1>1, <1>3, CallFacts
    <2>2. CASE Keep
        BY <1>2, <2>2 DEF Keep
    <2>3. CASE ApplyObject
        <3>1. /\ Call.do = "apply" /\ objects' = objects \cup {Call.object}
              /\ UNCHANGED <<ac, scopes>>
            BY <2>3 DEF ApplyObject, Calling, Call
        <3>2. Call.object \in Objects(ctl.ac.spec)
            BY <2>1, <3>1 DEF WantedInv
        <3>3. QED
            BY <1>3, <2>1, <3>1, <3>2
    <2>4. CASE DeleteObject
        BY <2>4 DEF DeleteObject, Shrinks, OwnRefs, Refs
    <2>5. CASE ApplyScope \/ ReadScope \/ ApplyScopeRemoval
        <3>1. /\ scopes' = scopes \/ ScopeCallEffect
              /\ objects' = objects /\ ac' = ac
            BY <1>1, <2>5, ScopeCallCases DEF ScopeRead, ApplyScope, ReadScope, ApplyScopeRemoval
        <3>2. CASE scopes' = scopes
            BY <1>2, <3>1, <3>2
        <3>3. ASSUME NEW s \in Scopes, NEW w \in Workloads, NEW new \in Scope,
                     s = Call.scope, w = Call.workload, scopes' = [scopes EXCEPT ![s] = new],
                     Call.do = "unref", ToSet(new.refs) = Refs(s) \ {w}
              PROVE  Shrinks
            <4>1. \A r \in Scopes : ToSet(scopes'[r].refs) \subseteq Refs(r)
                BY <1>1, <3>3 DEF Refs
            <4>2. QED
                BY <3>1, <4>1 DEF Shrinks, OwnRefs
        <3>4. ASSUME NEW s \in Scopes, NEW w \in Workloads, NEW new \in Scope,
                     s = Call.scope, w = Call.workload, scopes' = [scopes EXCEPT ![s] = new],
                     Call.do = "ref", ToSet(new.refs) = Refs(s) \cup {w}
              PROVE  /\ At("apply") /\ ctl.ac.finalizer
                     /\ \A r \in Scopes : ToSet(scopes'[r].refs) \cap Workloads
                                       \subseteq OwnRefs(r) \cup Joining(ctl.ac.spec, r)
            <4>1. At("apply") /\ ctl.ac.finalizer
                BY <1>1, <2>1, <3>4 DEF JoiningInv
            <4>2. w \in Joining(ctl.ac.spec, s)
                BY <2>1, <3>4 DEF WantedInv
            <4>3. \A r \in Scopes : r # s => scopes'[r] = scopes[r]
                BY <1>1, <3>4
            <4>4. scopes'[s] = new
                BY <1>1, <3>4
            <4>5. QED
                BY <3>4, <4>1, <4>2, <4>3, <4>4 DEF OwnRefs, Refs
        <3>5. QED
            BY <2>1, <3>1, <3>2, <3>3, <3>4 DEF ScopeCallEffect
    <2>6. QED
        BY <1>3, <2>2, <2>3, <2>4, <2>5 DEF Calls
<1>4. CASE NextEntry
    BY <1>1, <1>2, <1>4, NextEntryFields
<1>5. CASE NextPhase
    BY <1>1, <1>2, <1>5, NextPhaseFields
<1>6. QED
    BY <1>1, <1>2, <1>3, <1>4, <1>5 DEF CtlStep, Ends, Starts

\* The walks over the record, after a step.
LeftNext(e, s, calls) ==
    \/ e.workload \notin ToSet(scopes'[s].refs)
    \/ [do |-> "unref", scope |-> s, workload |-> e.workload] \in calls
DroppedNext(o, calls) ==
    \/ o \notin objects'
    \/ o \in Objects(ctl'.ac.spec) \cup RevisionNamed
    \/ [do |-> "delete", object |-> o] \in calls

LeavingNext ==
    \A i \in DOMAIN ctl'.ac.status :
        LET e == ctl'.ac.status[i] IN
        /\ ctl'.pc = "finalize" /\ i <= ctl'.entry =>
              \A s \in ToSet(e.scopes) : LeftNext(e, s, ToSet(ctl'.todo))
        /\ ctl'.pc = "collect" \/ (ctl'.pc = "dereference" /\ i <= ctl'.entry) =>
              \A s \in ToSet(e.scopes) :
                  e.workload \in Joining(ctl'.ac.spec, s) \/ LeftNext(e, s, ToSet(ctl'.todo))
        /\ ctl'.pc = "collect" /\ i <= ctl'.entry =>
              \A o \in {e.workload} \cup ToSet(e.traits) : DroppedNext(o, ToSet(ctl'.todo))

LEMMA LeavingAfter ==
    ASSUME LeavingNext
    PROVE  LeavingInv'
BY DEF LeavingInv, LeavingNext, Left, LeftNext, Dropped, DroppedNext, At, Refs

\* The entries of the record.
LEMMA StatusEntry ==
    ASSUME ScopeInv, NEW i \in DOMAIN ctl.ac.status
    PROVE  /\ ctl.ac.status[i] \in Entry /\ i \in Nat /\ 1 <= i /\ i <= Len(ctl.ac.status)
           /\ \A s \in ToSet(ctl.ac.status[i].scopes) : s \in Scopes
<1>1. ctl.ac.status \in Seq(Entry)
    BY CtlVersion, Fields
<1>2. ctl.ac.status[i] \in Entry /\ i \in Nat /\ 1 <= i /\ i <= Len(ctl.ac.status)
    BY <1>1, ElementOfSeq, LenProperties
<1>3. ctl.ac.status[i].scopes \in Seq(Scopes)
    BY <1>2 DEF Entry
<1>4. QED
    BY <1>2, <1>3, ElementOfSeq, LenProperties DEF ToSet

\* The calls of a phase cover its entry: the scopes a workload leaves, and the objects dropped.
LEMMA PhaseCallsCover ==
    ASSUME DistinctWorkloads, ScopeInv, NEW e \in Entry
    PROVE  /\ At("finalize") =>
                 \A s \in ToSet(e.scopes) :
                     [do |-> "unref", scope |-> s, workload |-> e.workload] \in ToSet(PhaseCalls(e))
           /\ At("dereference") =>
                 \A s \in ToSet(e.scopes) :
                     \/ e.workload \in Joining(ctl.ac.spec, s)
                     \/ [do |-> "unref", scope |-> s, workload |-> e.workload]
                            \in ToSet(PhaseCalls(e))
           /\ At("collect") =>
                 \A o \in {e.workload} \cup ToSet(e.traits) :
                     \/ o \in Objects(ctl.ac.spec) \cup RevisionNamed
                     \/ [do |-> "delete", object |-> o] \in ToSet(PhaseCalls(e))
<1>1. e.scopes \in Seq(Scopes)
    BY DEF Entry
<1>2. ctl.ac.spec \in AppSpecs /\ ctl.ac.spec \in Seq(Entry)
    BY CtlVersion, Fields
<1>3. ASSUME At("finalize"), NEW s \in ToSet(e.scopes)
      PROVE  [do |-> "unref", scope |-> s, workload |-> e.workload] \in ToSet(PhaseCalls(e))
    <2>1. PICK k \in DOMAIN e.scopes : e.scopes[k] = s
        BY DEF ToSet
    <2>2. PhaseCalls(e) = FinalizeEntry(e)
        BY <1>3 DEF PhaseCalls, At
    <2>3. /\ k \in DOMAIN PhaseCalls(e)
          /\ PhaseCalls(e)[k] = [do |-> "unref", scope |-> s, workload |-> e.workload]
        BY <2>1, <2>2 DEF FinalizeEntry
    <2>4. QED
        BY <2>3 DEF ToSet
<1>4. ASSUME At("dereference"), NEW s \in ToSet(e.scopes),
             e.workload \notin Joining(ctl.ac.spec, s)
      PROVE  [do |-> "unref", scope |-> s, workload |-> e.workload] \in ToSet(PhaseCalls(e))
    <2> DEFINE rendered == {k \in DOMAIN ctl.ac.spec : ctl.ac.spec[k].workload = e.workload}
               joined == IF rendered = {} THEN {} ELSE ToSet(ctl.ac.spec[Max(rendered)].scopes)
    <2>1. PICK k \in DOMAIN e.scopes : e.scopes[k] = s
        BY DEF ToSet
    <2>2. PhaseCalls(e) = DereferenceEntry(e)
        BY <1>4 DEF PhaseCalls, At
    <2>3. /\ k \in DOMAIN PhaseCalls(e)
          /\ PhaseCalls(e)[k] = [do |-> IF s \in joined THEN "keep" ELSE "unref",
                                 scope |-> s, workload |-> e.workload]
        BY <2>1, <2>2 DEF DereferenceEntry
    <2>4. s \notin joined
        <3>1. CASE rendered = {}
            BY <3>1
        <3>2. CASE rendered # {}
            <4>1. PICK n \in DOMAIN ctl.ac.spec : ctl.ac.spec[n].workload = e.workload
                BY <3>2
            <4>2. rendered = {n} /\ n \in Int
                BY <1>2, <4>1, LenProperties DEF DistinctWorkloads
            <4>3. Max(rendered) = n
                BY <4>2 DEF Max
            <4>4. s \notin ToSet(ctl.ac.spec[n].scopes)
                BY <1>2, <1>4, <4>1, JoiningFacts
            <4>5. QED
                BY <4>2, <4>3, <4>4
        <3>3. QED
            BY <3>1, <3>2
    <2> HIDE DEF joined
    <2>5. QED
        BY <2>3, <2>4 DEF ToSet
<1>5. ASSUME At("collect"), NEW o \in {e.workload} \cup ToSet(e.traits),
             o \notin Objects(ctl.ac.spec) \cup RevisionNamed
      PROVE  [do |-> "delete", object |-> o] \in ToSet(PhaseCalls(e))
    <2> DEFINE held == <<e.workload>> \o e.traits
    <2>1. PICK k \in DOMAIN held : held[k] = o
        BY HeldFacts
    <2>2. PhaseCalls(e) = CollectEntry(e)
        BY <1>5 DEF PhaseCalls, At
    <2> HIDE DEF held
    <2>3. CollectEntry(e) = [j \in DOMAIN held |->
              [do |-> IF Eligible(held[j]) THEN "delete" ELSE "keep", object |-> held[j]]]
        BY DEF CollectEntry, held
    <2>4. Eligible(o)
        BY <1>5 DEF Eligible
    <2>5. k \in DOMAIN PhaseCalls(e) /\ PhaseCalls(e)[k] = [do |-> "delete", object |-> o]
        BY <2>1, <2>2, <2>3, <2>4
    <2>6. QED
        BY <2>5 DEF ToSet
<1>6. QED
    BY <1>3, <1>4, <1>5

\* A call that is made has had its effect.
LEMMA LeavingCall ==
    ASSUME SuccessInv, RecordInv, WantedInv, CallDone, ctl.todo # <<>>, Calls
    PROVE  /\ \A e \in Entry : \A s \in ToSet(e.scopes) :
                 ~At("apply") /\ Left(e, s, ToSet(ctl.todo)) => LeftNext(e, s, ToSet(ctl'.todo))
           /\ \A o : Dropped(o, ToSet(ctl.todo)) => DroppedNext(o, ToSet(ctl'.todo))
<1>1. ScopeInv /\ scopes \in [Scopes -> Scope] /\ JoiningInv
    BY Parts DEF SuccessInv, ScopePart, CtlPart
<1>2. /\ ToSet(ctl.todo) = {Call} \cup ToSet(ctl'.todo) /\ ctl'.ac = ctl.ac /\ ctl'.pc = ctl.pc
      /\ 1 \in DOMAIN ctl.todo /\ Call = ctl.todo[1]
    BY <1>1, CallFacts
<1>3. ~CallFailed
    BY <1>1, <1>2, CallOutcome, CallFailedFields DEF Walking
<1>4. ASSUME NEW e \in Entry, NEW s \in ToSet(e.scopes), ~At("apply"),
             Left(e, s, ToSet(ctl.todo))
      PROVE  LeftNext(e, s, ToSet(ctl'.todo))
    <2>1. s \in Scopes /\ e.workload \in Workloads
        <3>1. e.scopes \in Seq(Scopes) /\ e.workload \in Workloads
            BY DEF Entry
        <3>2. QED
            BY <3>1, ElementOfSeq, LenProperties DEF ToSet
    <2>2. ToSet(scopes'[s].refs) \subseteq Refs(s)
        <3>1. CASE scopes' = scopes
            BY <3>1 DEF Refs
        <3>2. CASE scopes' # scopes
            <4>1. ApplyScope \/ ReadScope \/ ApplyScopeRemoval
                BY <3>2 DEF Calls, Keep, ApplyObject, DeleteObject
            <4>2. ScopeCallEffect
                BY <1>1, <3>2, <4>1, ScopeCallCases DEF ScopeRead
            <4>3. Call.do # "ref"
                BY <1>1, <1>2, <1>4 DEF JoiningInv
            <4>4. PICK r \in Scopes, new \in Scope :
                      scopes' = [scopes EXCEPT ![r] = new] /\ ToSet(new.refs) \subseteq Refs(r)
                BY <3>2, <4>2, <4>3 DEF ScopeCallEffect
            <4>5. QED
                BY <1>1, <2>1, <4>4 DEF Refs
        <3>3. QED
            BY <3>1, <3>2
    <2>3. CASE e.workload \notin Refs(s)
        BY <2>2, <2>3 DEF LeftNext
    <2>4. CASE Call = [do |-> "unref", scope |-> s, workload |-> e.workload]
        <3>1. Call.do = "unref" /\ Call.scope = s /\ Call.workload = e.workload
            BY <2>4
        <3>2. ~ScopeRead
            BY <1>1, ScopeReadFields, CallDoneFields
        <3>3. ScopeCallEffect
            BY <1>1, <3>1, <3>2, ScopeCallCases
               DEF Calls, Keep, ApplyObject, DeleteObject, Calling, Call
        <3>4. CASE scopes' = scopes /\ (~scopes[s].exists \/ e.workload \notin Refs(s))
            <4>1. e.workload \notin Refs(s)
                BY <2>1, <3>4 DEF RecordInv
            <4>2. QED
                BY <2>3, <4>1
        <3>5. ASSUME NEW new \in Scope, scopes' = [scopes EXCEPT ![s] = new],
                     ToSet(new.refs) = Refs(s) \ {e.workload}
              PROVE  e.workload \notin ToSet(scopes'[s].refs)
            BY <1>1, <2>1, <3>5
        <3>6. QED
            BY <1>3, <3>1, <3>3, <3>4, <3>5 DEF ScopeCallEffect, LeftNext
    <2>5. QED
        BY <1>2, <1>4, <2>3, <2>4 DEF Left, LeftNext
<1>5. ASSUME NEW o, Dropped(o, ToSet(ctl.todo))
      PROVE  DroppedNext(o, ToSet(ctl'.todo))
    <2>1. CASE o \in Objects(ctl.ac.spec) \cup RevisionNamed
        BY <1>2, <2>1 DEF DroppedNext
    <2>2. CASE o \notin objects /\ o \notin Objects(ctl.ac.spec)
        <3>1. ApplyObject => Call.object \in Objects(ctl.ac.spec)
            BY <1>2 DEF WantedInv, ApplyObject, Calling, Call
        <3>2. o \notin objects'
            BY <2>2, <3>1
               DEF Calls, Keep, ApplyObject, DeleteObject, ApplyScope, ReadScope, ApplyScopeRemoval
        <3>3. QED
            BY <3>2 DEF DroppedNext
    <2>3. CASE Call = [do |-> "delete", object |-> o]
        <3>1. Call.do = "delete" /\ Call.object = o
            BY <2>3
        <3>2. DeleteObject
            BY <3>1 DEF Calls, Keep, ApplyObject, ApplyScope, ReadScope, ApplyScopeRemoval,
                        Calling, Call
        <3>3. QED
            BY <3>1, <3>2 DEF DeleteObject, DroppedNext
    <2>4. QED
        BY <1>2, <1>5, <2>1, <2>2, <2>3 DEF Dropped, DroppedNext
<1>6. QED
    BY <1>4, <1>5

\* What the walks over the record have come to is left and dropped.
LEMMA LeavingStep ==
    ASSUME DistinctWorkloads, SuccessInv, RecordInv, WantedInv, LeavingInv, [Next]_vars
    PROVE  LeavingInv'
<1>1. ScopeInv /\ CtlStep /\ ctl.entry \in Nat
    BY CtlStepped, CtlVersion DEF SuccessInv
<1> SUFFICES LeavingNext
    BY LeavingAfter
<1>2. CASE SameWalk /\ Shrinks
    <2> SUFFICES ASSUME NEW i \in DOMAIN ctl.ac.status
                 PROVE  LET e == ctl.ac.status[i] IN
                        /\ At("finalize") /\ i <= ctl.entry =>
                              \A s \in ToSet(e.scopes) : LeftNext(e, s, ToSet(ctl.todo))
                        /\ At("collect") \/ (At("dereference") /\ i <= ctl.entry) =>
                              \A s \in ToSet(e.scopes) :
                                  \/ e.workload \in Joining(ctl.ac.spec, s)
                                  \/ LeftNext(e, s, ToSet(ctl.todo))
                        /\ At("collect") /\ i <= ctl.entry =>
                              \A o \in {e.workload} \cup ToSet(e.traits) :
                                  DroppedNext(o, ToSet(ctl.todo))
        BY <1>2 DEF SameWalk, LeavingNext, At
    <2> DEFINE e == ctl.ac.status[i]
    <2>1. e.workload \in Workloads /\ \A s \in ToSet(e.scopes) : s \in Scopes
        BY <1>1, StatusEntry DEF Entry
    <2>2. \A s \in ToSet(e.scopes) :
             Left(e, s, ToSet(ctl.todo)) => LeftNext(e, s, ToSet(ctl.todo))
        BY <1>2, <2>1 DEF Left, LeftNext, Shrinks, OwnRefs
    <2>3. \A o : Dropped(o, ToSet(ctl.todo)) => DroppedNext(o, ToSet(ctl.todo))
        BY <1>2 DEF SameWalk, Dropped, DroppedNext, Shrinks
    <2>4. QED
        BY <2>2, <2>3 DEF LeavingInv
<1>3. CASE Ends
    BY <1>3 DEF Ends, LeavingNext
<1>4. CASE Starts
    <2> SUFFICES ASSUME NEW i \in DOMAIN acCache.status, i <= 0
                 PROVE  FALSE
        BY <1>4 DEF Starts, LeavingNext
    <2>1. acCache.status \in Seq(Entry)
        BY <1>1, Parts, Fields DEF VersionPart
    <2>2. QED
        BY <2>1, LenProperties
<1>5. CASE CallDone /\ ctl.todo # <<>> /\ Calls
    <2>1. ctl'.pc = ctl.pc /\ ctl'.ac = ctl.ac /\ ctl'.entry = ctl.entry
        BY <1>1, <1>5, CallFacts
    <2> SUFFICES ASSUME NEW i \in DOMAIN ctl.ac.status
                 PROVE  LET e == ctl.ac.status[i] IN
                        /\ At("finalize") /\ i <= ctl.entry =>
                              \A s \in ToSet(e.scopes) : LeftNext(e, s, ToSet(ctl'.todo))
                        /\ At("collect") \/ (At("dereference") /\ i <= ctl.entry) =>
                              \A s \in ToSet(e.scopes) :
                                  \/ e.workload \in Joining(ctl.ac.spec, s)
                                  \/ LeftNext(e, s, ToSet(ctl'.todo))
                        /\ At("collect") /\ i <= ctl.entry =>
                              \A o \in {e.workload} \cup ToSet(e.traits) :
                                  DroppedNext(o, ToSet(ctl'.todo))
        BY <2>1 DEF LeavingNext, At
    <2> DEFINE e == ctl.ac.status[i]
    <2>2. e \in Entry
        BY <1>1, StatusEntry
    <2>3. /\ \A s \in ToSet(e.scopes) :
                ~At("apply") /\ Left(e, s, ToSet(ctl.todo)) => LeftNext(e, s, ToSet(ctl'.todo))
          /\ \A o : Dropped(o, ToSet(ctl.todo)) => DroppedNext(o, ToSet(ctl'.todo))
        BY <1>5, <2>2, LeavingCall
    <2>4. QED
        BY <2>3 DEF LeavingInv, At
<1>6. CASE NextEntry
    <2>1. /\ Walking /\ ctl.todo = <<>> /\ ctl'.pc = ctl.pc /\ ctl'.ac = ctl.ac
          /\ ctl'.entry = ctl.entry + 1 /\ UNCHANGED <<scopes, objects>>
          /\ ctl'.todo = PhaseCalls(PhaseList[ctl.entry + 1])
        BY <1>1, <1>6, NextEntryFields
    <2> SUFFICES ASSUME NEW i \in DOMAIN ctl.ac.status
                 PROVE  LET e == ctl.ac.status[i] IN
                        /\ At("finalize") /\ i <= ctl.entry + 1 =>
                              \A s \in ToSet(e.scopes) : LeftNext(e, s, ToSet(ctl'.todo))
                        /\ At("collect") \/ (At("dereference") /\ i <= ctl.entry + 1) =>
                              \A s \in ToSet(e.scopes) :
                                  \/ e.workload \in Joining(ctl.ac.spec, s)
                                  \/ LeftNext(e, s, ToSet(ctl'.todo))
                        /\ At("collect") /\ i <= ctl.entry + 1 =>
                              \A o \in {e.workload} \cup ToSet(e.traits) :
                                  DroppedNext(o, ToSet(ctl'.todo))
        BY <2>1 DEF LeavingNext, At
    <2> DEFINE e == ctl.ac.status[i]
    <2>2. e \in Entry /\ i \in Nat
        BY <1>1, StatusEntry
    <2>3. ToSet(ctl.todo) = {}
        BY <2>1 DEF ToSet
    <2>4. /\ \A s \in ToSet(e.scopes) :
                Left(e, s, ToSet(ctl.todo)) => LeftNext(e, s, ToSet(ctl'.todo))
          /\ \A o : Dropped(o, ToSet(ctl.todo)) => DroppedNext(o, ToSet(ctl'.todo))
        BY <2>1, <2>3 DEF Left, LeftNext, Dropped, DroppedNext, Refs
    <2>5. CASE i <= ctl.entry
        BY <2>4, <2>5 DEF LeavingInv
    <2>6. CASE ~(i <= ctl.entry) /\ ~(i <= ctl.entry + 1)
        BY <2>4, <2>6 DEF LeavingInv
    <2>7. CASE i = ctl.entry + 1
        <3>1. ~At("apply") => ctl'.todo = PhaseCalls(e)
            BY <2>1, <2>7 DEF PhaseList
        <3> HIDE DEF e
        <3>2. /\ At("finalize") =>
                    \A s \in ToSet(e.scopes) : LeftNext(e, s, ToSet(ctl'.todo))
              /\ At("dereference") =>
                    \A s \in ToSet(e.scopes) :
                        e.workload \in Joining(ctl.ac.spec, s) \/ LeftNext(e, s, ToSet(ctl'.todo))
              /\ At("collect") =>
                    \A o \in {e.workload} \cup ToSet(e.traits) : DroppedNext(o, ToSet(ctl'.todo))
            BY <1>1, <2>1, <2>2, <3>1, PhaseCallsCover DEF LeftNext, DroppedNext, At
        <3>3. At("collect") =>
                  \A s \in ToSet(e.scopes) :
                      e.workload \in Joining(ctl.ac.spec, s) \/ LeftNext(e, s, ToSet(ctl'.todo))
            BY <2>4 DEF LeavingInv, e
        <3>4. QED
            BY <3>2, <3>3 DEF e
    <2>8. QED
        BY <1>1, <2>2, <2>5, <2>6, <2>7
<1>7. CASE NextPhase
    <2>1. /\ \/ PhaseDone("apply") /\ ctl'.pc = "dereference"
             \/ PhaseDone("dereference") /\ ctl'.pc = "collect"
          /\ ctl.todo = <<>> /\ ctl'.todo = <<>> /\ ctl'.ac = ctl.ac /\ ctl'.entry = 0
          /\ UNCHANGED <<scopes, objects>>
        BY <1>1, <1>7, NextPhaseFields
    <2>2. \A i \in DOMAIN ctl.ac.status : ~(i <= 0) /\ i <= Len(ctl.ac.status)
        BY <1>1, StatusEntry
    <2>3. CASE ctl'.pc = "dereference"
        BY <2>1, <2>2, <2>3 DEF LeavingNext
    <2>4. CASE PhaseDone("dereference") /\ ctl'.pc = "collect"
        <3>1. At("dereference") /\ ctl.entry = Len(ctl.ac.status)
            BY <2>4 DEF PhaseDone, PhaseList, At
        <3>2. \A i \in DOMAIN ctl.ac.status : \A s \in ToSet(ctl.ac.status[i].scopes) :
                 \/ ctl.ac.status[i].workload \in Joining(ctl.ac.spec, s)
                 \/ Left(ctl.ac.status[i], s, ToSet(ctl.todo))
            BY <2>2, <3>1 DEF LeavingInv
        <3>3. \A i \in DOMAIN ctl.ac.status : \A s \in ToSet(ctl.ac.status[i].scopes) :
                 Left(ctl.ac.status[i], s, ToSet(ctl.todo))
                    => LeftNext(ctl.ac.status[i], s, ToSet(ctl'.todo))
            BY <2>1 DEF Left, LeftNext, Refs
        <3>4. QED
            BY <2>1, <2>2, <2>4, <3>2, <3>3 DEF LeavingNext
    <2>5. QED
        BY <2>1, <2>3, <2>4
<1>8. QED
    BY <1>1, <1>2, <1>3, <1>4, <1>5, <1>6, <1>7 DEF CtlStep

\* Once the cache has the generation of the object, all versions have it.
LEMMA AllLatest ==
    ASSUME SuccessInv, acCache.generation = ac.generation,
           ~At("idle") => ctl.ac.generation = ac.generation, NEW v \in InPlay
    PROVE  v.generation = ac.generation
<1>1. CASE v \in {acCache} \/ (~At("idle") /\ v = ctl.ac)
    BY <1>1
<1>2. CASE v \in ToSet(events)
    <2>1. PICK i \in DOMAIN events : v = events[i]
        BY <1>2 DEF ToSet
    <2>2. acCache.generation <= v.generation
        BY <2>1 DEF SuccessInv, OrderInv
    <2>3. v.generation <= ac.generation /\ v.generation \in Nat /\ ac.generation \in Nat
        BY Newest
    <2>4. QED
        BY <2>2, <2>3
<1>3. QED
    BY <1>1, <1>2 DEF InPlay

\* What is on the server and in the scopes after a step.
WithinNext(lists) ==
    /\ \A o \in objects' \ RevisionNamed : \E list \in lists : o \in Objects(list)
    /\ \A s \in Scopes : \A w \in ToSet(scopes'[s].refs) \cap Workloads :
          \E list \in lists : w \in Joining(list, s)

LEMMA WithinShrinks ==
    ASSUME NEW lists, Within(lists), Shrinks
    PROVE  WithinNext(lists)
BY DEF Within, WithinNext, Shrinks

LEMMA WithinMore ==
    ASSUME NEW lists, NEW more, lists \subseteq more, WithinNext(lists)
    PROVE  WithinNext(more)
BY DEF WithinNext

\* A version of an older generation is of the recorded spec, so nothing else is added.
LEMMA WithinStep ==
    ASSUME SuccessInv, WantedInv, ac.exists, LinkInv, [Next]_vars
    PROVE  /\ WithinNext({ac.spec, ac.status})
           /\ ac' = ac \/ Shrinks
<1>1. Within({ac.spec, ac.status})
    BY DEF LinkInv
<1>2. CASE Shrinks
    BY <1>1, <1>2, WithinShrinks
<1>3. CASE ~Shrinks
    <2>1. Walking /\ ac' = ac
        BY <1>3, Effects DEF Walking, At
    <2>2. ctl.ac \in InPlay
        BY <2>1 DEF InPlay, Walking, At
    <2> DEFINE lists == {ac.spec, ac.status}
               under == ctl.ac.spec
    <2>3. under \in lists
        BY <2>2, Newest DEF LinkInv
    <2> HIDE DEF lists, under
    <2>4. Within(lists)
        BY <1>1 DEF lists
    <2>5. CASE objects' \subseteq objects \cup Objects(ctl.ac.spec) /\ scopes' = scopes
        <3>1. objects' \subseteq objects \cup Objects(under)
            BY <2>5 DEF under
        <3>2. \A s \in Scopes : OwnRefs(s) = ToSet(scopes'[s].refs) \cap Workloads
            BY <2>5 DEF OwnRefs, Refs
        <3>3. WithinNext(lists)
            BY <2>3, <2>4, <3>1, <3>2 DEF Within, WithinNext
        <3>4. QED
            BY <2>1, <3>3 DEF lists
    <2>6. CASE /\ objects' = objects
               /\ \A s \in Scopes : ToSet(scopes'[s].refs) \cap Workloads
                                        \subseteq OwnRefs(s) \cup Joining(ctl.ac.spec, s)
        <3>1. \A s \in Scopes : ToSet(scopes'[s].refs) \cap Workloads
                                   \subseteq OwnRefs(s) \cup Joining(under, s)
            BY <2>6 DEF under
        <3>2. WithinNext(lists)
            BY <2>3, <2>4, <2>6, <3>1 DEF Within, WithinNext
        <3>3. QED
            BY <2>1, <3>2 DEF lists
    <2>7. QED
        BY <1>3, <2>1, <2>5, <2>6, Effects
<1>4. QED
    BY <1>2, <1>3

\* A reconciliation of the current version that has gone through the record has left nothing.
LEMMA CollectedWithin ==
    ASSUME SuccessInv, RecordInv, LeavingInv, ac.exists, LinkInv,
           UpdateStatus, ctl.ac.rv = ac.rv
    PROVE  Within({ac.spec})
<1>1. /\ At("collect") /\ ctl.todo = <<>> /\ ctl.entry = Len(ctl.ac.status) /\ ScopeInv
    BY DEF UpdateStatus, PhaseDone, PhaseList, At, SuccessInv
<1>2. ctl.ac \in InPlay /\ ~Succeeding
    BY <1>1 DEF InPlay, Succeeding, At
<1>3. ctl.ac.spec = ac.spec /\ ctl.ac.status = ac.status
    BY <1>1, <1>2, Newest DEF RecordInv, At
<1>4. ToSet(ctl.todo) = {}
    BY <1>1 DEF ToSet
<1>5. ac.status \in Seq(Entry) /\ ac.spec \in Seq(Entry)
    BY <1>1, Parts, Fields DEF VersionPart
<1>6. \A i \in DOMAIN ac.status : i <= ctl.entry
    BY <1>1, <1>3, StatusEntry
<1>7. ASSUME NEW o \in objects
      PROVE  o \in Objects(ac.spec) \cup RevisionNamed
    <2>1. CASE o \in Objects(ac.status)
        <3>1. PICK e \in ToSet(ac.status) : o \in {e.workload} \cup ToSet(e.traits)
            BY <2>1 DEF Objects
        <3>2. PICK i \in DOMAIN ac.status : e = ac.status[i]
            BY DEF ToSet
        <3>3. Dropped(o, {})
            BY <1>1, <1>3, <1>4, <1>6, <3>1, <3>2 DEF LeavingInv
        <3>4. QED
            BY <1>3, <3>3 DEF Dropped
    <2>2. QED
        BY <2>1 DEF LinkInv, Within
<1>8. ASSUME NEW s \in Scopes, NEW w \in OwnRefs(s)
      PROVE  w \in Joining(ac.spec, s)
    <2>1. CASE w \in Joining(ac.status, s)
        <3>1. PICK i \in DOMAIN ac.status :
                  ac.status[i].workload = w /\ s \in ToSet(ac.status[i].scopes)
            BY <1>5, <2>1, JoiningFacts
        <3>2. w \in Joining(ac.spec, s) \/ Left(ac.status[i], s, {})
            BY <1>1, <1>3, <1>4, <3>1 DEF LeavingInv
        <3>3. QED
            BY <3>1, <3>2 DEF Left, OwnRefs
    <2>2. QED
        BY <2>1 DEF LinkInv, Within
<1>9. QED
    BY <1>7, <1>8 DEF Within

\* What LinkInv says of the next state.
LinkNext ==
    /\ \A v \in InPlay' : v.generation = ac'.generation \/ v.spec = ac'.status
    /\ Reconciled' \/ ac'.deleting => ac'.status = ac'.spec
    /\ WithinNext({ac'.spec, ac'.status})
    /\ ctl'.pc = "posthook" /\ ctl'.ac.condition = "success" /\ ctl'.ac.rv = ac'.rv
          => WithinNext({ac'.spec})

LEMMA LinkAfter ==
    ASSUME ac'.exists => LinkNext
    PROVE  LinkInv'
BY DEF LinkInv, LinkNext, Within, WithinNext, Succeeding, At, OwnRefs, Refs

\* A step that leaves the spec and the record as they are.
LEMMA LinkKept ==
    ASSUME SuccessInv, RecordInv, WantedInv, LeavingInv, ac.exists, LinkInv, [Next]_vars,
           ac'.generation = ac.generation, ac'.spec = ac.spec, ac'.status = ac.status
    PROVE  /\ \A v \in InPlay' : v.generation = ac'.generation \/ v.spec = ac'.status
           /\ WithinNext({ac'.spec, ac'.status})
           /\ ctl'.pc = "posthook" /\ ctl'.ac.condition = "success" /\ ctl'.ac.rv = ac'.rv
                 => WithinNext({ac'.spec})
<1>1. ScopeInv
    BY DEF SuccessInv
<1>2. \A v \in InPlay' : v.generation = ac'.generation \/ v.spec = ac'.status
    BY <1>1, InPlayStepped DEF LinkInv, SameVersion
<1>3. WithinNext({ac'.spec, ac'.status})
    BY WithinStep
<1>4. ASSUME ctl'.pc = "posthook", ctl'.ac.condition = "success", ctl'.ac.rv = ac'.rv
      PROVE  WithinNext({ac'.spec})
    <2>1. CASE SameWalk /\ Succeeding /\ Shrinks
        <3>1. ctl.ac \in InPlay
            BY <2>1 DEF InPlay, Succeeding, At
        <3>2. ctl.ac.rv <= ac.rv /\ ac.rv \in Nat /\ (ac' = ac \/ ac'.rv = ac.rv + 1)
            BY <1>1, <3>1, Newest, VersionsStepped
        <3>3. ctl.ac.rv = ac.rv
            BY <1>4, <2>1, <3>2 DEF SameWalk
        <3>4. Within({ac.spec})
            BY <2>1, <3>3 DEF LinkInv
        <3>5. QED
            BY <2>1, <3>4, WithinShrinks
    <2>2. CASE UpdateStatus /\ UNCHANGED <<ac, scopes, objects>> /\ ctl'.ac.rv = ctl.ac.rv
        <3>1. Within({ac.spec})
            BY <1>4, <2>2, CollectedWithin
        <3>2. Shrinks
            BY <2>2 DEF Shrinks, OwnRefs, Refs
        <3>3. QED
            BY <3>1, <3>2, WithinShrinks
    <2>3. QED
        BY <1>4, <2>1, <2>2, SucceedingStep
<1>5. QED
    BY <1>2, <1>3, <1>4

\* The status links the specs of patient users.
LEMMA LinkStep ==
    ASSUME SuccessInv, RecordInv, WantedInv, LeavingInv, LinkInv, [Next]_vars,
           edits' = edits \/ Reconciled
    PROVE  LinkInv'
<1> SUFFICES ASSUME ac'.exists
             PROVE  LinkNext
    BY LinkAfter
<1>1. ScopeInv /\ RecordStep /\ WalkInv
    BY RecordStepped DEF SuccessInv
<1>2. ac.exists
    BY <1>1, ExistsBefore
<1>3. CASE ac' = ac \/ (SameRecord /\ ac'.exists)
    <2>1. /\ ac'.generation = ac.generation /\ ac'.spec = ac.spec /\ ac'.status = ac.status
          /\ ac'.deleting = ac.deleting /\ (Reconciled' => Reconciled)
        BY <1>3 DEF SameRecord, Reconciled
    <2>2. Reconciled' \/ ac'.deleting => ac'.status = ac'.spec
        BY <1>2, <2>1 DEF LinkInv
    <2>3. QED
        BY <1>2, <2>1, <2>2, LinkKept DEF LinkNext
<1>4. CASE Edited
    <2>1. /\ ~ac.deleting /\ Reconciled /\ ac'.generation = ac.generation + 1
          /\ ac'.status = ac.status /\ ac'.observedGeneration = ac.observedGeneration
          /\ ac'.deleting => ac'.spec = ac.spec
        BY <1>4 DEF Edited
    <2>2. ac.status = ac.spec /\ ac'.status = ac.spec
        BY <1>2, <2>1 DEF LinkInv
    <2>3. /\ ac.observedGeneration <= ac.generation
          /\ ac.generation \in Nat /\ ac.observedGeneration \in Nat
        BY <1>1, Parts, Fields DEF VersionPart
    <2>4. /\ acCache.generation = ac.generation
          /\ ~At("idle") => ctl.ac.generation = ac.generation
        BY <1>2, <2>1 DEF SuccessInv, LatestInv
    <2>5. \A w \in InPlay : w.spec = ac.spec
        BY <2>4, AllLatest, Newest
    <2>6. \A v \in InPlay' : v.generation = ac'.generation \/ v.spec = ac'.status
        BY <1>1, <2>2, <2>5, InPlayStepped DEF SameVersion
    <2>7. Reconciled' \/ ac'.deleting => ac'.status = ac'.spec
        BY <2>1, <2>2, <2>3 DEF Reconciled
    <2>8. WithinNext({ac'.spec, ac'.status})
        <3>1. ac' # ac
            BY <2>1, <2>3
        <3>2. {ac.spec, ac.status} \subseteq {ac'.spec, ac'.status}
            BY <2>2
        <3>3. QED
            BY <1>2, <3>2, WithinStep, WithinMore
    <2>9. ASSUME ctl'.pc = "posthook", ctl'.ac.condition = "success", ctl'.ac.rv = ac'.rv
          PROVE  FALSE
        <3>1. ctl.pc # "idle" /\ ctl'.ac.rv = ctl.ac.rv
            BY <2>9, SucceedingStep DEF SameWalk, Succeeding, UpdateStatus, PhaseDone, At
        <3>2. ctl.ac \in InPlay
            BY <3>1 DEF InPlay, At
        <3>3. ctl.ac.rv <= ac.rv /\ ac.rv \in Nat /\ (ac' = ac \/ ac'.rv = ac.rv + 1)
            BY <1>1, <3>2, Newest, VersionsStepped
        <3>4. QED
            BY <2>1, <2>3, <2>9, <3>1, <3>3
    <2>10. QED
        BY <2>6, <2>7, <2>8, <2>9 DEF LinkNext
<1>5. CASE Recorded
    <2>1. /\ Accepted(ctl.ac) /\ ac'.generation = ac.generation /\ ac'.spec = ac.spec
          /\ ac'.deleting = ac.deleting /\ ac'.status = ctl.ac.status
          /\ ac'.condition = ctl.ac.condition /\ ctl.ac.rv = ac.rv /\ ~At("idle")
        BY <1>5 DEF Recorded, Accepted, PostHook, UpdateErrorStatus, UpdateFinalizeError, At
    <2>2. ctl.ac.spec = ac.spec /\ ctl.ac.generation = ac.generation
          /\ acCache.generation = ac.generation
        BY <2>1, AcceptedIsLatest
    <2>3. CASE ~Succeeding
        <3>1. ac'.status = ac.status
            BY <2>1, <2>3 DEF RecordInv
        <3>2. ctl.ac.condition # "success"
            BY <1>1, <1>5, <2>3
               DEF Recorded, PostHook, UpdateErrorStatus, UpdateFinalizeError, WalkInv, Succeeding
        <3>3. Reconciled' \/ ac'.deleting => ac'.status = ac'.spec
            BY <1>2, <2>1, <3>1, <3>2 DEF LinkInv, Reconciled
        <3>4. QED
            BY <1>2, <2>1, <3>1, <3>3, LinkKept DEF LinkNext
    <2>4. CASE Succeeding
        <3>1. ac'.status = ac.spec /\ ac'.status = ac'.spec
            BY <2>1, <2>2, <2>4 DEF RecordInv
        <3>2. PostHook /\ ctl'.pc = "idle"
            BY <1>5, <2>4, IdleType
               DEF Recorded, PostHook, UpdateErrorStatus, UpdateFinalizeError, Succeeding, At
        <3>3. \A v \in InPlay' : v.generation = ac'.generation
            BY <1>1, <2>1, <2>2, AllLatest, InPlayStepped DEF SameVersion
        <3>4. WithinNext({ac'.spec, ac'.status})
            <4>1. Within({ac.spec})
                BY <1>2, <2>1, <2>4 DEF LinkInv
            <4>2. Shrinks
                BY <3>2 DEF PostHook, Shrinks, OwnRefs, Refs
            <4>3. WithinNext({ac.spec}) /\ {ac.spec} \subseteq {ac'.spec, ac'.status}
                BY <2>1, <4>1, <4>2, WithinShrinks
            <4>4. QED
                BY <4>3, WithinMore
        <3>5. QED
            BY <3>1, <3>2, <3>3, <3>4 DEF LinkNext
    <2>5. QED
        BY <2>3, <2>4
<1>6. QED
    BY <1>1, <1>3, <1>4, <1>5 DEF RecordStep, Removed

\* An object that is gone has left its scopes.
LEMMA GoneStep ==
    ASSUME SuccessInv, RecordInv, WantedInv, LeavingInv, LinkInv, GoneInv, [Next]_vars
    PROVE  GoneInv'
<1> SUFFICES ASSUME ~ac'.exists
             PROVE  /\ \A s \in Scopes : ToSet(scopes'[s].refs) \cap Workloads = {}
                    /\ ~ac'.finalizer
                    /\ \A v \in InPlay' : v.finalizer => v.deleting
    BY DEF GoneInv, OwnRefs, Refs
<1>1. ScopeInv /\ RecordStep
    BY RecordStepped DEF SuccessInv
<1>2. \A s \in Scopes : ToSet(scopes'[s].refs) \cap Workloads \subseteq OwnRefs(s)
    <2>1. CASE At("apply") /\ ctl.ac.finalizer /\ ac' = ac
        <3>1. ctl.ac \in InPlay
            BY <2>1 DEF InPlay, At
        <3>2. ctl.ac.deleting
            BY <2>1, <3>1 DEF GoneInv
        <3>3. QED
            BY <2>1, <3>2 DEF RecordInv
    <2>2. QED
        BY <2>1, Effects DEF Shrinks, OwnRefs, Refs
<1>3. CASE ~ac.exists
    <2>1. ac' = ac
        BY <1>1, <1>3 DEF RecordStep, Edited, Removed, Recorded, Accepted
    <2>2. \A v \in InPlay' : v.finalizer => v.deleting
        BY <1>1, <1>3, <2>1, InPlayStepped DEF GoneInv, SameVersion
    <2>3. QED
        BY <1>2, <1>3, <2>1, <2>2 DEF GoneInv
<1>4. CASE ac.exists
    <2>1. Removed /\ (~ac.finalizer \/ (RemoveFinalizer /\ Accepted(ctl.ac)))
        BY <1>1, <1>4 DEF RecordStep, Edited, Recorded
    <2>2. ~ac'.finalizer
        BY <2>1 DEF Removed
    <2>3. CASE ~ac.finalizer
        <3>1. \A s \in Scopes : OwnRefs(s) = {}
            BY <1>1, <1>4, <2>3 DEF ScopeInv, RefHasFinalizer
        <3>2. \A v \in InPlay' : ~v.finalizer
            BY <1>1, <1>4, <2>2, <2>3, InPlayStepped, InPlayFacts DEF VersionOf, SameVersion
        <3>3. QED
            BY <1>2, <2>2, <3>1, <3>2
    <2>4. CASE RemoveFinalizer /\ Accepted(ctl.ac)
        <3>1. /\ At("finalize") /\ ctl.todo = <<>> /\ ctl.entry = Len(ctl.ac.status)
              /\ ctl.ac.rv = ac.rv /\ ~At("idle") /\ ~Succeeding
            BY <2>4 DEF RemoveFinalizer, PhaseDone, PhaseList, Accepted, At, Succeeding
        <3>2. ctl.ac.status = ac.status
            BY <3>1 DEF RecordInv
        <3>3. ctl.ac.deleting /\ ac.deleting
            BY <3>1 DEF SuccessInv, HarmlessInv, OrderInv, ReadFrom
        <3>4. ac.status = ac.spec
            BY <1>4, <3>3 DEF LinkInv
        <3>5. ac.status \in Seq(Entry)
            BY <1>1, Parts, Fields DEF VersionPart
        <3>6. \A i \in DOMAIN ac.status : i <= ctl.entry
            BY <1>1, <3>1, <3>2, StatusEntry
        <3>7. ASSUME NEW s \in Scopes, NEW w \in OwnRefs(s) PROVE FALSE
            <4>1. w \in Joining(ac.status, s)
                BY <1>4, <3>4 DEF LinkInv, Within
            <4>2. PICK i \in DOMAIN ac.status :
                      ac.status[i].workload = w /\ s \in ToSet(ac.status[i].scopes)
                BY <3>5, <4>1, JoiningFacts
            <4>3. Left(ac.status[i], s, ToSet(ctl.todo))
                BY <3>1, <3>2, <3>6, <4>2 DEF LeavingInv
            <4>4. ToSet(ctl.todo) = {}
                BY <3>1 DEF ToSet
            <4>5. QED
                BY <4>2, <4>3, <4>4 DEF Left, OwnRefs
        <3>8. \A w \in InPlay : w.deleting
            <4>1. ctl.ac.generation = ac.generation /\ acCache.generation = ac.generation
                BY <2>4, <3>1, AcceptedIsLatest
            <4>2. \A w \in InPlay : w.deleting = ac.deleting
                BY <4>1, AllLatest DEF RecordInv
            <4>3. QED
                BY <3>3, <4>2
        <3>9. \A v \in InPlay' : v.finalizer => v.deleting
            BY <1>1, <2>2, <3>8, InPlayStepped DEF SameVersion
        <3>10. \A s \in Scopes : OwnRefs(s) = {}
            BY <3>7
        <3>11. QED
            BY <1>2, <2>2, <3>9, <3>10
    <2>5. QED
        BY <2>1, <2>3, <2>4
<1>5. QED
    BY <1>3, <1>4

LEMMA InitPatient == UsersInit => PatientInv
<1> SUFFICES ASSUME UsersInit PROVE PatientInv
    OBVIOUS
<1>1. Init /\ hasty = FALSE /\ SuccessInv
    BY InitSuccess DEF UsersInit
<1>2. /\ events = <<ac>> /\ acCache = ac /\ objects = {} /\ ctl = Idle /\ ac.exists
      /\ ~ac.deleting /\ ac.condition = "none" /\ ac.status = <<>>
    BY <1>1 DEF Init, Created
<1>3. ctl.pc = "idle" /\ ctl.todo = <<>>
    BY <1>2, IdleType
<1>4. InPlay = {ac}
    BY <1>2, <1>3 DEF InPlay, At, ToSet
<1>5. \A s \in Scopes : scopes[s].exists /\ OwnRefs(s) = {}
    <2> TAKE s \in Scopes
    <2>1. scopes[s] \in {[exists |-> TRUE, rv |-> 1, refs |-> <<>>],
                         [exists |-> TRUE, rv |-> 1, refs |-> <<Foreign>>]}
        BY <1>1 DEF Init
    <2>2. scopes[s].exists /\ scopes[s].refs \in {<<>>, <<Foreign>>}
        BY <2>1
    <2>3. ToSet(<<>>) = {} /\ ToSet(<<Foreign>>) = {Foreign}
        BY DEF ToSet
    <2>4. QED
        BY <2>2, <2>3, AppSpecsAssumption DEF OwnRefs, Refs
<1>6. RecordInv
    BY <1>2, <1>3, <1>4, <1>5 DEF RecordInv, InPlay, Succeeding, At
<1>7. WantedInv
    BY <1>3 DEF WantedInv
<1>8. LeavingInv
    BY <1>3 DEF LeavingInv, At
<1>9. LinkInv
    BY <1>2, <1>3, <1>4, <1>5 DEF LinkInv, Within, Succeeding, At, Reconciled
<1>10. GoneInv
    BY <1>2 DEF GoneInv
<1>11. QED
    BY <1>1, <1>6, <1>7, <1>8, <1>9, <1>10 DEF PatientInv

LEMMA StepPatient ==
    ASSUME DistinctWorkloads
    PROVE  PatientInv /\ [UsersNext]_<<vars, hasty>> => PatientInv'
<1> SUFFICES ASSUME PatientInv, [UsersNext]_<<vars, hasty>>
             PROVE  PatientInv'
    OBVIOUS
<1>1. /\ SuccessInv /\ RecordInv /\ WantedInv /\ LeavingInv /\ [Next]_vars
      /\ hasty \/ (LinkInv /\ GoneInv)
    BY DEF PatientInv, UsersNext
<1>2. SuccessInv' /\ RecordInv' /\ WantedInv' /\ LeavingInv'
    BY <1>1, StepSuccess, RecordInvStep, WantedStep, LeavingStep
<1>3. hasty' \/ (~hasty /\ (edits' = edits \/ Reconciled))
    <2>1. CASE UsersNext
        BY <2>1, Zenon DEF UsersNext
    <2>2. CASE UNCHANGED <<vars, hasty>>
        BY <2>2 DEF vars
    <2>3. QED
        BY <2>1, <2>2
<1>4. hasty' \/ (LinkInv' /\ GoneInv')
    BY <1>1, <1>3, LinkStep, GoneStep
<1>5. QED
    BY <1>2, <1>4 DEF PatientInv

\* The inductive invariant behind the promises to patient users: as long as each edit waits for
\* the last one to be reconciled, the status records everything that is on the server and in the
\* scopes, through stale versions, crashes and lost answers (updateStatus, eligible,
\* findDereferencedScopes, Finalize).
THEOREM PatientInvariant ==
    ASSUME DistinctWorkloads
    PROVE  UsersSpec => []PatientInv
BY InitPatient, StepPatient, PTL DEF UsersSpec

\* A success reported to patient users says also that nothing is left of what earlier specs
\* listed: no workload or trait but old revisions, and no reference in a scope that a workload no
\* longer joins (eligible, dereferenceScope).
THEOREM NothingIsLeftBehind ==
    ASSUME DistinctWorkloads
    PROVE  UsersSpec => []NothingLeftBehindPatient
<1>1. PatientInv => NothingLeftBehindPatient
    <2> SUFFICES ASSUME PatientInv, ~hasty, ac.exists, ~ac.deleting, Reconciled
                 PROVE  /\ objects \subseteq Objects(ac.spec) \cup RevisionNamed
                        /\ \A s \in Scopes : OwnRefs(s) \subseteq Joining(ac.spec, s)
        BY DEF NothingLeftBehindPatient, NothingLeftBehind
    <2>1. Within({ac.spec, ac.status}) /\ ac.status = ac.spec
        BY DEF PatientInv, LinkInv
    <2>2. QED
        BY <2>1 DEF Within
<1>2. QED
    BY <1>1, PatientInvariant, PTL

\* The ApplicationConfiguration of patient users is not gone before its workloads have left
\* every scope, whatever errors and restarts its finalization met (dereferenceAllScopes).
THEOREM NoRefDangles ==
    ASSUME DistinctWorkloads
    PROVE  UsersSpec => []NoDanglingRefPatient
<1>1. PatientInv => NoDanglingRefPatient
    BY DEF PatientInv, GoneInv, NoDanglingRefPatient, NoDanglingRef
<1>2. QED
    BY <1>1, PatientInvariant, PTL
===============================================================================
