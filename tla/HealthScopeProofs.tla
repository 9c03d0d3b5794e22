---------------------------- MODULE HealthScopeProofs ----------------------------
(***************************************************************************)
(* For any objects, kinds, children, labels and numbers of changes: the    *)
(* status of a HealthScope is of the references it has when it is stored,  *)
(* its summary agrees with the conditions, a workload is found healthy     *)
(* only if each of its parts was well at some time no earlier than the     *)
(* cache's copy, and one that stays as it is, in the cache as well, is     *)
(* found to be what it is, unless a read fails.                            *)
(***************************************************************************)
EXTENDS HealthScope, TLAPS, FiniteSetTheorems, SequenceTheorems

-------------------------------------------------------------------------------
(* Counting conditions *)

\* Every condition is counted once.
LEMMA CountsAddUp ==
    ASSUME NEW cs \in Seq(WorkloadHealthCondition)
    PROVE  /\ \A s \in HealthStatus : CountOf(cs, s) \in Nat
           /\ CountOf(cs, "Healthy") + CountOf(cs, "Unhealthy") + CountOf(cs, "Unknown") = Len(cs)
<1> DEFINE H == {i \in DOMAIN cs : cs[i].healthStatus = "Healthy"}
           U == {i \in DOMAIN cs : cs[i].healthStatus = "Unhealthy"}
           K == {i \in DOMAIN cs : cs[i].healthStatus = "Unknown"}
<1>1. DOMAIN cs = 1..Len(cs) /\ Len(cs) \in Nat
  BY LenProperties
<1>2. IsFiniteSet(DOMAIN cs) /\ Cardinality(DOMAIN cs) = Len(cs)
  BY <1>1, FS_Interval
<1>3. /\ IsFiniteSet(H) /\ Cardinality(H) \in Nat
      /\ IsFiniteSet(U) /\ Cardinality(U) \in Nat
      /\ IsFiniteSet(K) /\ Cardinality(K) \in Nat
  BY <1>2, FS_Subset, FS_CardinalityType
<1>4. \A i \in DOMAIN cs : cs[i].healthStatus \in HealthStatus
  <2>1. \A i \in DOMAIN cs : cs[i] \in WorkloadHealthCondition
    BY <1>1, ElementOfSeq
  <2> QED
    BY <2>1 DEF WorkloadHealthCondition
<1>5. (H \cup U) \cup K = DOMAIN cs /\ H \cap U = {} /\ (H \cup U) \cap K = {}
  BY <1>4 DEF HealthStatus
<1>6. /\ CountOf(cs, "Healthy") = Cardinality(H) /\ CountOf(cs, "Unhealthy") = Cardinality(U)
      /\ CountOf(cs, "Unknown") = Cardinality(K)
  BY DEF CountOf
<1>e. Cardinality(H \cap U) = 0 /\ Cardinality((H \cup U) \cap K) = 0
  <2> HIDE DEF H, U, K
  <2> QED
    BY <1>5, FS_EmptySet
<1> HIDE DEF H, U, K
<1>7. IsFiniteSet(H \cup U) /\ Cardinality(H \cup U) = Cardinality(H) + Cardinality(U)
  <2>1. /\ IsFiniteSet(H \cup U)
        /\ Cardinality(H \cup U) = Cardinality(H) + Cardinality(U) - Cardinality(H \cap U)
    BY <1>3, FS_Union
  <2> QED
    BY <1>3, <1>e, <2>1
<1>8. Cardinality((H \cup U) \cup K) = Cardinality(H \cup U) + Cardinality(K)
  <2>1. Cardinality((H \cup U) \cup K)
            = Cardinality(H \cup U) + Cardinality(K) - Cardinality((H \cup U) \cap K)
    BY <1>3, <1>7, FS_Union
  <2> QED
    BY <1>3, <1>7, <1>e, <2>1
<1> QED
  BY <1>2, <1>3, <1>5, <1>6, <1>7, <1>8 DEF HealthStatus

\* As many conditions as references, if each reference has one.
LEMMA OnePerReference ==
    ASSUME NEW cs \in Seq(WorkloadHealthCondition), NEW refs,
           refs = {cs[i].targetWorkload : i \in DOMAIN cs},
           \A i, j \in DOMAIN cs : cs[i].targetWorkload = cs[j].targetWorkload => i = j
    PROVE  Cardinality(refs) = Len(cs)
<1> DEFINE target == [i \in DOMAIN cs |-> cs[i].targetWorkload]
<1>1. DOMAIN cs = 1..Len(cs) /\ Len(cs) \in Nat
  BY LenProperties
<1>2. IsFiniteSet(DOMAIN cs) /\ Cardinality(DOMAIN cs) = Len(cs)
  BY <1>1, FS_Interval
<1>3. target \in Bijection(DOMAIN cs, refs)
  BY DEF Bijection, Injection, Surjection, IsInjective
<1> QED
  BY <1>2, <1>3, FS_Bijection DEF ExistsBijection

\* What GetScopeHealthStatus returns when every goroutine has sent its condition.
LEMMA SummaryFacts ==
    ASSUME NEW cs \in Seq(WorkloadHealthCondition), NEW refs,
           refs = {cs[i].targetWorkload : i \in DOMAIN cs},
           \A i, j \in DOMAIN cs : cs[i].targetWorkload = cs[j].targetWorkload => i = j
    PROVE  /\ Summary(cs, refs) \in ScopeHealthCondition
           /\ LET s == Summary(cs, refs) IN
              /\ s.healthyWorkloads + s.unhealthyWorkloads + s.unknownWorkloads = s.total
              /\ s.total = Len(cs)
              /\ Cardinality({cs[i].targetWorkload : i \in DOMAIN cs}) = Len(cs)
              /\ s.healthStatus = "Healthy" <=> s.healthyWorkloads = s.total
<1>1. /\ CountOf(cs, "Healthy") \in Nat /\ CountOf(cs, "Unhealthy") \in Nat
      /\ CountOf(cs, "Unknown") \in Nat
      /\ CountOf(cs, "Healthy") + CountOf(cs, "Unhealthy") + CountOf(cs, "Unknown") = Len(cs)
  BY CountsAddUp DEF HealthStatus
<1>2. Cardinality(refs) = Len(cs) /\ Len(cs) \in Nat
  BY OnePerReference, LenProperties
<1>3. Summary(cs, refs) \in ScopeHealthCondition
  BY <1>1, <1>2 DEF Summary, ScopeHealthCondition, HealthStatus
<1> QED
  BY <1>1, <1>2, <1>3 DEF Summary

-------------------------------------------------------------------------------
(* The walk of a goroutine *)

\* What holds of c when its target has been judged and only peers are left.
OnlyPeersLeft(r, c) ==
    /\ c.peers \subseteq {p \in Objects \ {r} : Kind[p] = Kind[r]}
    /\ Kind[c.target] = Kind[r]
    /\ c.status = "Healthy" =>
          /\ Kind[r] \in WithChildren \cup WithReplicas
          /\ Sound(r)
          /\ \A p \in PeersThroughout(r) : p \in c.peers \/ Sound(p)

\* The next peer, or the end.
LEMMA NextPeerKeeps ==
    ASSUME NEW r \in Objects, NEW c \in Check, OnlyPeersLeft(r, c)
    PROVE  /\ NextPeer(c) \in Check
           /\ WalkInv(r, NextPeer(c)) /\ HealthyInv(r, NextPeer(c))
<1> DEFINE n == NextPeer(c)
<1>1. CASE c.peers = {}
  <2>1. n = [c EXCEPT !.at = "done", !.left = <<>>]
    BY <1>1 DEF NextPeer
  <2>2. <<>> \in Seq(Objects)
    BY EmptySeq
  <2>3. /\ n \in Check /\ n.at = "done" /\ n.target = c.target /\ n.peers = c.peers
        /\ n.status = c.status
    BY <2>1, <2>2 DEF Check
  <2> HIDE DEF n
  <2> QED
    BY <1>1, <2>3 DEF OnlyPeersLeft, WalkInv, HealthyInv, n
<1>2. CASE c.peers # {}
  <2> DEFINE q == CHOOSE q \in c.peers : TRUE
  <2>1. q \in c.peers
    BY <1>2
  <2>2. n = [c EXCEPT !.at = "get", !.target = q, !.peers = @ \ {q}, !.left = <<>>]
    BY <1>2 DEF NextPeer
  <2>3. <<>> \in Seq(Objects)
    BY EmptySeq
  <2> HIDE DEF q
  <2>4. /\ n \in Check /\ n.at = "get" /\ n.target = q /\ n.peers = c.peers \ {q}
        /\ n.status = c.status
    <3>1. q \in Objects /\ c.peers \ {q} \in SUBSET Objects
      BY <2>1 DEF Check
    <3>2. n = [c EXCEPT !.at = "get", !.target = q, !.peers = c.peers \ {q}, !.left = <<>>]
      BY <2>2
    <3> HIDE DEF n
    <3> QED
      BY <2>3, <3>1, <3>2 DEF Check
  <2> HIDE DEF n
  <2>5. q # r /\ Kind[q] = Kind[r]
    BY <2>1 DEF OnlyPeersLeft
  <2>6. WalkInv(r, n)
    BY <2>4, <2>5 DEF OnlyPeersLeft, WalkInv
  <2>7. HealthyInv(r, n)
    BY <2>1, <2>4, <2>5 DEF OnlyPeersLeft, HealthyInv
  <2> QED
    BY <2>4, <2>6, <2>7 DEF n
<1> QED
  BY <1>1, <1>2

\* What holds of c when its target is about to be judged.
TargetDone(r, c) ==
    /\ c.peers \subseteq {p \in Objects \ {r} : Kind[p] = Kind[r]}
    /\ Kind[c.target] = Kind[r]
    /\ c.status = "Healthy" =>
          /\ Kind[r] \in WithChildren \cup WithReplicas
          /\ Sound(c.target)
          /\ c.target # r => /\ Sound(r)
                             /\ \A p \in PeersThroughout(r) : p \in c.peers \cup {c.target} \/ Sound(p)

\* On to the labels of the workload, or to the next peer.
LEMMA JudgedKeeps ==
    ASSUME NEW r \in Objects, NEW c \in Check, TargetDone(r, c)
    PROVE  /\ Judged(r, c) \in Check
           /\ WalkInv(r, Judged(r, c)) /\ HealthyInv(r, Judged(r, c))
<1> DEFINE n == Judged(r, c)
<1>1. CASE c.target = r
  <2>1. n = [c EXCEPT !.at = "labels", !.left = <<>>]
    BY <1>1 DEF Judged
  <2>2. <<>> \in Seq(Objects)
    BY EmptySeq
  <2>3. /\ n \in Check /\ n.at = "labels" /\ n.target = c.target /\ n.peers = c.peers
        /\ n.status = c.status
    BY <2>1, <2>2 DEF Check
  <2> HIDE DEF n
  <2> QED
    BY <1>1, <2>3 DEF TargetDone, WalkInv, HealthyInv, n
<1>2. CASE c.target # r
  <2>1. OnlyPeersLeft(r, c)
    BY <1>2 DEF TargetDone, OnlyPeersLeft
  <2> QED
    BY <1>2, <2>1, NextPeerKeeps DEF Judged
<1> QED
  BY <1>1, <1>2

\* The status after a judgement of the target: it stays healthy only if the target was not
\* found unhealthy, and is known at all.
LEMMA WithStatusKeeps ==
    ASSUME NEW r \in Objects, NEW c \in Check, NEW s \in HealthStatus
    PROVE  LET n == WithStatus(r, c, s) IN
           /\ n \in Check /\ n.at = c.at /\ n.target = c.target /\ n.peers = c.peers
           /\ n.left = c.left
           /\ n.status = "Healthy" =>
                 IF c.target = r THEN s = "Healthy" ELSE s # "Unhealthy" /\ c.status = "Healthy"
<1> DEFINE new == IF c.target = r THEN s ELSE Merge(c.status, s)
<1>1. /\ new \in HealthStatus
      /\ new = "Healthy" =>
            IF c.target = r THEN s = "Healthy" ELSE s # "Unhealthy" /\ c.status = "Healthy"
  BY DEF Check, Merge, Worse, HealthStatus
<1>2. WithStatus(r, c, s) = [c EXCEPT !.status = new]
  BY DEF WithStatus, Check
<1> HIDE DEF new
<1>3. LET n == WithStatus(r, c, s) IN
      /\ n \in Check /\ n.at = c.at /\ n.target = c.target /\ n.peers = c.peers
      /\ n.left = c.left /\ n.status = new
  BY <1>1, <1>2 DEF Check
<1> QED
  BY <1>1, <1>3

-------------------------------------------------------------------------------
(* What was judged stays so while objects change *)

\* Windows only grow.
Growing == \A o \in Objects : window[o] \subseteq window'[o]

LEMMA PartsAreObjects ==
    ASSUME NEW o \in Objects
    PROVE  Parts(o) \subseteq Objects
<1>1. Children[o] \in Seq(Objects)
  BY ObjectsAssumption
<1>2. ToSet(Children[o]) \subseteq Objects
  BY <1>1, ElementOfSeq, LenProperties DEF ToSet
<1> QED
  BY <1>2 DEF Parts

LEMMA SoundLasts ==
    ASSUME Growing
    PROVE  /\ \A p \in Objects : WasWell(p) => WasWell(p)'
           /\ \A o \in Objects : Sound(o) => Sound(o)'
           /\ \A r : PeersThroughout(r)' \subseteq PeersThroughout(r)
<1>1. \A p \in Objects : WasWell(p) => WasWell(p)'
  BY DEF Growing, WasWell, Ails
<1>2. \A o \in Objects : Sound(o) => Sound(o)'
  BY <1>1, PartsAreObjects DEF Sound, Parts
<1>3. \A r : PeersThroughout(r)' \subseteq PeersThroughout(r)
  BY DEF PeersThroughout, Growing
<1> QED
  BY <1>1, <1>2, <1>3

LEMMA HealthyLasts ==
    ASSUME Growing, NEW r \in Objects, NEW c \in Check, HealthyInv(r, c)
    PROVE  HealthyInv(r, c)'
<1> SUFFICES ASSUME c.status = "Healthy"
             PROVE  /\ Kind[r] \in WithChildren \cup WithReplicas
                    /\ c.at \notin {"get", "child"} \/ c.target # r => Sound(r)'
                    /\ c.at = "child" =>
                          /\ WasWell(c.target)'
                          /\ \A p \in Parts(c.target) : p \in ToSet(c.left) \/ WasWell(p)'
                    /\ c.at \in {"get", "child"} /\ c.target # r =>
                          \A p \in PeersThroughout(r)' : p \in c.peers \cup {c.target} \/ Sound(p)'
                    /\ c.at = "done" => \A p \in PeersThroughout(r)' : Sound(p)'
  BY DEF HealthyInv, Parts
<1> USE SoundLasts
<1>0. c.target \in Objects /\ Parts(c.target) \subseteq Objects /\ PeersThroughout(r) \subseteq Objects
  BY PartsAreObjects DEF Check, PeersThroughout
<1>1. /\ Kind[r] \in WithChildren \cup WithReplicas
      /\ c.at \notin {"get", "child"} \/ c.target # r => Sound(r)'
  BY DEF HealthyInv
<1>2. c.at = "child" =>
        /\ WasWell(c.target)'
        /\ \A p \in Parts(c.target) : p \in ToSet(c.left) \/ WasWell(p)'
  BY <1>0 DEF HealthyInv
<1>3. c.at \in {"get", "child"} /\ c.target # r =>
        \A p \in PeersThroughout(r)' : p \in c.peers \cup {c.target} \/ Sound(p)'
  BY <1>0 DEF HealthyInv
<1>4. c.at = "done" => \A p \in PeersThroughout(r)' : Sound(p)'
  BY <1>0 DEF HealthyInv
<1> QED
  BY <1>1, <1>2, <1>3, <1>4

LEMMA SentHealthyLasts ==
    ASSUME Growing, SentInv, probe.refs \subseteq Objects, SentHealthyInv, UNCHANGED conditions
    PROVE  SentHealthyInv'
<1>1. \A i \in DOMAIN conditions : conditions[i].targetWorkload \in Objects
  BY DEF SentInv
<1>2. \A r : PeersThroughout(r) \subseteq Objects
  BY DEF PeersThroughout
<1>3. ASSUME NEW i \in DOMAIN conditions, conditions[i].healthStatus = "Healthy",
             NEW r \in Objects, r = conditions[i].targetWorkload
      PROVE  \A o \in {r} \cup PeersThroughout(r)' : Sound(o)'
  BY <1>2, <1>3, SoundLasts DEF SentHealthyInv
<1> QED
  BY <1>1, <1>3 DEF SentHealthyInv, PeersThroughout

-------------------------------------------------------------------------------
(* What the reads of a goroutine find *)

LEMMA ReadFacts ==
    ASSUME TypeOK, NEW there \in BOOLEAN, NEW found \in BOOLEAN, Read(there, found)
    PROVE  /\ found => there
           /\ probe' \in [at : {"idle", "check"}, refs : RefSets \cup {{}},
                          current : BOOLEAN, failed : BOOLEAN]
           /\ probe'.at = probe.at /\ probe'.refs = probe.refs /\ probe'.current = probe.current
           /\ faults' \in 0..MaxFaults
<1>1. found => there
  BY DEF Read
<1>2. faults' \in 0..MaxFaults
  BY BoundsAssumption DEF Read, TypeOK
<1>3. probe' = probe \/ probe' = [probe EXCEPT !.failed = TRUE]
  BY DEF Read
<1> QED
  BY <1>1, <1>2, <1>3 DEF TypeOK

\* What a checker is given of an object speaks for it once and for all.
LEMMA CopyFacts ==
    ASSUME HealthInv, probe.at = "check", NEW o \in Objects
    PROVE  /\ object[o] \in window[o] /\ Copy(o) \in window[o]
           /\ ~Ails(o, Copy(o)) => WasWell(o)
  BY DEF HealthInv, WindowInv, WasWell

\* A workload without children, or one that was not found, is judged at once.
LEMMA StatusReadFacts ==
    ASSUME HealthInv, probe.at = "check",
           NEW o \in Objects, NEW found \in BOOLEAN,
           Kind[o] \notin WithChildren \/ ~found
    PROVE  /\ StatusRead(o, found) \in HealthStatus
           /\ StatusRead(o, found) = "Healthy" => Kind[o] \in WithChildren \cup WithReplicas
           /\ /\ Kind[o] \in WithChildren \cup WithReplicas
              /\ StatusRead(o, found) # "Unhealthy"
              => Sound(o)
<1>1. CASE Kind[o] \in WithChildren
  BY <1>1 DEF StatusRead, HealthStatus
<1>2. CASE Kind[o] \in WithReplicas
  <2>1. Kind[o] \notin WithChildren /\ Kind[o] \notin {"Service", "Other"}
    BY <1>2 DEF WithReplicas, WithChildren
  <2>2. Parts(o) = {o}
    BY <2>1 DEF Parts
  <2>3. /\ StatusRead(o, found) \in {"Healthy", "Unhealthy"}
        /\ StatusRead(o, found) # "Unhealthy" => Copy(o) = "ready"
    BY <1>2, <2>1 DEF StatusRead
  <2>4. Copy(o) = "ready" => WasWell(o)
    BY <2>1, CopyFacts DEF Ails
  <2> QED
    BY <1>2, <2>2, <2>3, <2>4 DEF Sound, HealthStatus
<1>3. CASE Kind[o] \notin WithChildren \cup WithReplicas
  BY <1>3 DEF StatusRead, HealthStatus
<1> QED
  BY <1>1, <1>2, <1>3

-------------------------------------------------------------------------------
(* The steps of a goroutine *)

\* Its record, while it goes on.
LEMMA CheckFacts ==
    ASSUME HealthInv, NEW r \in DOMAIN checks
    PROVE  /\ r \in probe.refs /\ r \in Objects
           /\ checks[r] \in Check /\ WalkInv(r, checks[r]) /\ HealthyInv(r, checks[r])
<1>1. checks \in [probe.refs -> Check] /\ probe.refs \in RefSets \cup {{}}
  BY DEF HealthInv, TypeOK
<1>2. probe.refs \subseteq Objects
  BY <1>1, ObjectsAssumption
<1> QED
  BY <1>1, <1>2 DEF HealthInv

LEMMA CheckWorkloadKeeps ==
    ASSUME HealthInv, NEW r \in DOMAIN checks, CheckWorkload(r)
    PROVE  \E n \in Check : Continue(r, n) /\ WalkInv(r, n) /\ HealthyInv(r, n)
<1> DEFINE c == checks[r]
           o == c.target
<1>0. /\ r \in Objects /\ c \in Check /\ WalkInv(r, c) /\ HealthyInv(r, c)
      /\ TypeOK /\ probe.at = "check" /\ c.at = "get" /\ o \in Objects
  BY CheckFacts DEF CheckWorkload, HealthInv, Check
<1>1. PICK found \in BOOLEAN :
          /\ Read(Copy(o) # "absent", found)
          /\ IF Kind[o] \notin WithChildren \/ ~found
             THEN Continue(r, Judged(r, WithStatus(r, c, StatusRead(o, found))))
             ELSE IF Len(ChildRefs(o)) # 2
             THEN Continue(r, Judged(r, WithStatus(r, c, "Unhealthy")))
             ELSE Continue(r, [WithStatus(r, c, "Healthy") EXCEPT
                                 !.at = "child", !.left = ChildRefs(o)])
  BY DEF CheckWorkload
<1>2. found => Copy(o) # "absent"
  BY <1>0, <1>1, ReadFacts
<1>3. ASSUME NEW s \in HealthStatus,
             s = "Healthy" => Kind[o] \in WithChildren \cup WithReplicas,
             Kind[o] \in WithChildren \cup WithReplicas /\ s # "Unhealthy" => Sound(o)
      PROVE  TargetDone(r, WithStatus(r, c, s)) /\ WithStatus(r, c, s) \in Check
  <2> DEFINE n == WithStatus(r, c, s)
  <2>1. /\ n \in Check /\ n.target = o /\ n.peers = c.peers
        /\ n.status = "Healthy" =>
              IF o = r THEN s = "Healthy" ELSE s # "Unhealthy" /\ c.status = "Healthy"
    BY <1>0, <1>3, WithStatusKeeps
  <2> HIDE DEF n
  <2>2. c.peers \subseteq {p \in Objects \ {r} : Kind[p] = Kind[r]} /\ Kind[o] = Kind[r]
    BY <1>0 DEF WalkInv
  <2>3. CASE o = r
    BY <1>3, <2>1, <2>2, <2>3 DEF TargetDone, n
  <2>4. CASE o # r
    <3>1. c.status = "Healthy" =>
              /\ Kind[r] \in WithChildren \cup WithReplicas
              /\ Sound(r) /\ \A p \in PeersThroughout(r) : p \in c.peers \cup {o} \/ Sound(p)
      BY <1>0, <2>4 DEF HealthyInv
    <3> QED
      BY <1>3, <2>1, <2>2, <2>4, <3>1 DEF TargetDone, n
  <2> QED
    BY <2>3, <2>4
<1>4. CASE Kind[o] \notin WithChildren \/ ~found
  <2> DEFINE s == StatusRead(o, found)
  <2>1. /\ s \in HealthStatus
        /\ s = "Healthy" => Kind[o] \in WithChildren \cup WithReplicas
        /\ Kind[o] \in WithChildren \cup WithReplicas /\ s # "Unhealthy" => Sound(o)
    BY <1>0, <1>4, StatusReadFacts
  <2> HIDE DEF s
  <2>2. TargetDone(r, WithStatus(r, c, s)) /\ WithStatus(r, c, s) \in Check
    BY <1>3, <2>1
  <2>3. Continue(r, Judged(r, WithStatus(r, c, s)))
    BY <1>1, <1>4 DEF s
  <2> QED
    BY <1>0, <2>2, <2>3, JudgedKeeps
<1>5. CASE ~(Kind[o] \notin WithChildren \/ ~found) /\ Len(ChildRefs(o)) # 2
  <2>1. "Unhealthy" \in HealthStatus
    BY DEF HealthStatus
  <2>2. TargetDone(r, WithStatus(r, c, "Unhealthy")) /\ WithStatus(r, c, "Unhealthy") \in Check
    BY <1>3, <2>1
  <2> QED
    BY <1>0, <1>1, <1>5, <2>2, JudgedKeeps
<1>6. CASE ~(Kind[o] \notin WithChildren \/ ~found) /\ Len(ChildRefs(o)) = 2
  <2> DEFINE m == WithStatus(r, c, "Healthy")
             n == [m EXCEPT !.at = "child", !.left = ChildRefs(o)]
  <2>1. Continue(r, n)
    BY <1>1, <1>6
  <2>2. "Healthy" \in HealthStatus
    BY DEF HealthStatus
  <2>3. /\ m \in Check /\ m.target = o /\ m.peers = c.peers
        /\ m.status = "Healthy" => o = r \/ c.status = "Healthy"
    BY <1>0, <2>2, WithStatusKeeps
  <2>4. ChildRefs(o) \in Seq(Objects) /\ ChildRefs(o) # <<>> /\ ChildRefs(o) = Children[o]
    <3> HIDE DEF o
    <3>1. Children[o] \in Seq(Objects) /\ <<>> \in Seq(Objects)
      BY <1>0, ObjectsAssumption, EmptySeq
    <3>a. ChildRefs(o) \in Seq(Objects)
      BY <3>1 DEF ChildRefs
    <3>2. ChildRefs(o) # <<>>
      BY <1>6, <3>a, SMT
    <3>3. ChildRefs(o) = Children[o]
      BY <3>2 DEF ChildRefs
    <3> QED
      BY <3>1, <3>2, <3>3
  <2> HIDE DEF m
  <2>5. /\ n \in Check /\ n.at = "child" /\ n.target = o /\ n.peers = c.peers
        /\ n.left = ChildRefs(o) /\ n.status = m.status
    BY <2>3, <2>4 DEF Check
  <2> HIDE DEF n
  <2>6. WalkInv(r, n)
    BY <1>0, <1>6, <2>4, <2>5 DEF WalkInv
  <2>7. HealthyInv(r, n)
    <3>1. Copy(o) = "ready"
      <4>1. Len(<<>>) = 0
        BY EmptySeq
      <4> QED
        BY <1>6, <4>1 DEF ChildRefs
    <3>a. WasWell(o)
      <4>1. ~Ails(o, Copy(o))
        BY <1>6, <3>1 DEF Ails, WithChildren
      <4> QED
        BY <1>0, <4>1, CopyFacts
    <3>2. \A p \in Parts(o) : p \in ToSet(ChildRefs(o)) \/ WasWell(p)
      <4>2. \A p \in Parts(o) : p = o \/ p \in ToSet(Children[o])
        BY DEF Parts
      <4> HIDE DEF o
      <4>3. ToSet(ChildRefs(o)) = ToSet(Children[o])
        BY <2>4
      <4> QED
        BY <3>a, <4>2, <4>3
    <3>3. Kind[r] \in WithChildren
      BY <1>0, <1>6 DEF WalkInv
    <3>4. o # r /\ c.status = "Healthy" =>
              Sound(r) /\ \A p \in PeersThroughout(r) : p \in c.peers \cup {o} \/ Sound(p)
      BY <1>0 DEF HealthyInv
    <3> QED
      BY <2>3, <2>5, <3>a, <3>2, <3>3, <3>4 DEF HealthyInv
  <2> QED
    BY <2>1, <2>5, <2>6, <2>7
<1> QED
  BY <1>4, <1>5, <1>6

LEMMA ShorterByOne ==
    ASSUME NEW s \in Seq(Objects), Len(s) > 1,
           NEW t \in Seq(Objects), Len(t) = Len(s) - 1
    PROVE  t # <<>>
  BY LenProperties, SMT

LEMMA CheckChildKeeps ==
    ASSUME HealthInv, NEW r \in DOMAIN checks, CheckChild(r)
    PROVE  \E n \in Check : Continue(r, n) /\ WalkInv(r, n) /\ HealthyInv(r, n)
<1> DEFINE c == checks[r]
           o == Head(c.left)
           rest(found) == [c EXCEPT !.left = Tail(@), !.status = Worse(@, ChildHealthy(o, found))]
<1>0. /\ r \in Objects /\ c \in Check /\ WalkInv(r, c) /\ HealthyInv(r, c)
      /\ TypeOK /\ probe.at = "check" /\ c.at = "child"
  BY CheckFacts DEF CheckChild, HealthInv
<1>1. /\ c.left \in Seq(Objects) /\ c.left # <<>> /\ Kind[c.target] \in WithChildren
      /\ c.target \in Objects /\ c.status \in HealthStatus
  BY <1>0 DEF WalkInv, Check
<1>2. /\ o \in Objects /\ Tail(c.left) \in Seq(Objects) /\ Len(Tail(c.left)) = Len(c.left) - 1
      /\ \A p \in ToSet(c.left) : p = o \/ p \in ToSet(Tail(c.left))
  <2>1. /\ o \in Objects /\ Tail(c.left) \in Seq(Objects) /\ Len(Tail(c.left)) = Len(c.left) - 1
        /\ \A i \in 1..Len(Tail(c.left)) : Tail(c.left)[i] = c.left[i + 1]
    BY <1>1, HeadTailProperties
  <2>2. o = c.left[1] /\ Len(c.left) \in Nat /\ DOMAIN c.left = 1..Len(c.left)
        /\ DOMAIN Tail(c.left) = 1..Len(Tail(c.left))
    BY <1>1, <2>1, LenProperties
  <2>3. ASSUME NEW i \in DOMAIN c.left, i # 1
        PROVE  c.left[i] \in ToSet(Tail(c.left))
    <3>1. i - 1 \in 1..Len(Tail(c.left)) /\ c.left[(i - 1) + 1] = c.left[i]
      BY <2>1, <2>2, <2>3
    <3>2. Tail(c.left)[i - 1] = c.left[i]
      BY <2>1, <3>1
    <3> QED
      BY <2>2, <3>1, <3>2 DEF ToSet
  <2> QED
    BY <2>1, <2>2, <2>3 DEF ToSet
<1>3. PICK found \in BOOLEAN :
          /\ Read(Copy(o) # "absent", found)
          /\ Continue(r, IF Len(c.left) > 1 THEN rest(found) ELSE Judged(r, rest(found)))
  BY DEF CheckChild
<1> DEFINE n == rest(found)
<1>4. found => Copy(o) # "absent"
  BY <1>0, <1>2, <1>3, ReadFacts
<1>5. /\ n \in Check /\ n.at = "child" /\ n.target = c.target /\ n.peers = c.peers
      /\ n.left = Tail(c.left) /\ n.status = Worse(c.status, ChildHealthy(o, found))
  BY <1>0, <1>1, <1>2 DEF Check, Worse, HealthStatus
<1>6. n.status = "Healthy" =>
          /\ c.status = "Healthy"
          /\ Kind[o] \in {"Deployment", "Service"} => WasWell(o)
  <2>1. n.status = "Healthy" => c.status = "Healthy" /\ ChildHealthy(o, found)
    BY <1>5 DEF Worse
  <2>2. Kind[o] \in {"Deployment", "Service"} /\ ChildHealthy(o, found) => ~Ails(o, Copy(o))
    BY <1>4 DEF ChildHealthy, Ails
  <2> QED
    BY <1>0, <1>2, <2>1, <2>2, CopyFacts
<1> HIDE DEF n, c, o
<1>7. n.status = "Healthy" =>
          /\ Kind[r] \in WithChildren \cup WithReplicas
          /\ c.target # r => /\ Sound(r)
                             /\ \A p \in PeersThroughout(r) : p \in c.peers \cup {c.target} \/ Sound(p)
          /\ WasWell(c.target)
          /\ \A p \in Parts(c.target) : p \in ToSet(c.left) \/ WasWell(p)
  BY <1>0, <1>6 DEF HealthyInv
<1>8. ASSUME n.status = "Healthy", NEW p \in Parts(c.target)
      PROVE  p \in ToSet(Tail(c.left)) \/ WasWell(p)
  <2>1. CASE p \in ToSet(c.left) /\ p # o
    BY <1>2, <2>1
  <2>2. CASE p = o /\ Kind[o] \in {"Deployment", "Service"}
    BY <1>6, <1>8, <2>2
  <2>3. CASE p = c.target
    BY <1>7, <1>8, <2>3
  <2>4. p = c.target \/ (p \in ToSet(Children[c.target]) /\ Kind[p] \in {"Deployment", "Service"})
    BY <1>8 DEF Parts
  <2>5. p \in ToSet(c.left) \/ WasWell(p)
    BY <1>7, <1>8
  <2> QED
    BY <2>1, <2>2, <2>3, <2>4, <2>5
<1>9. CASE Len(c.left) > 1
  <2>1. Tail(c.left) # <<>>
    BY <1>1, <1>2, <1>9, ShorterByOne, Zenon
  <2>2. WalkInv(r, n)
    BY <1>0, <1>1, <1>5, <2>1 DEF WalkInv
  <2>3. HealthyInv(r, n)
    BY <1>5, <1>7, <1>8 DEF HealthyInv
  <2> QED
    BY <1>3, <1>5, <1>9, <2>2, <2>3 DEF n, c, o
<1>10. CASE ~(Len(c.left) > 1)
  <2>1. ToSet(Tail(c.left)) = {}
    <3>1. Len(Tail(c.left)) <= 0 /\ DOMAIN Tail(c.left) = 1..Len(Tail(c.left))
          /\ Len(Tail(c.left)) \in Nat
      BY <1>1, <1>2, <1>10, LenProperties
    <3> QED
      BY <3>1 DEF ToSet
  <2>2. n.status = "Healthy" => Sound(c.target)
    BY <1>8, <2>1 DEF Sound
  <2>3. TargetDone(r, n)
    BY <1>0, <1>5, <1>7, <2>2 DEF TargetDone, WalkInv
  <2>4. Continue(r, Judged(r, n))
    BY <1>3, <1>10 DEF n, c, o
  <2> QED
    BY <1>0, <1>5, <2>3, <2>4, JudgedKeeps
<1> QED
  BY <1>9, <1>10

LEMMA GetLabelsKeeps ==
    ASSUME HealthInv, NEW r \in DOMAIN checks, GetLabels(r)
    PROVE  \E n \in Check : Continue(r, n) /\ WalkInv(r, n) /\ HealthyInv(r, n)
<1> DEFINE c == checks[r]
<1>0. /\ r \in Objects /\ c \in Check /\ WalkInv(r, c) /\ HealthyInv(r, c)
      /\ TypeOK /\ c.at = "labels" /\ c.target = r
  <2>1. /\ r \in Objects /\ c \in Check /\ WalkInv(r, c) /\ HealthyInv(r, c)
        /\ TypeOK /\ c.at = "labels"
    BY CheckFacts DEF GetLabels, HealthInv
  <2> QED
    BY <2>1 DEF WalkInv
<1>1. PICK found \in BOOLEAN :
          /\ Read(Exists(r), found)
          /\ Continue(r, IF ~found THEN [c EXCEPT !.at = "done", !.status = "Unhealthy"]
                         ELSE IF Component[r] = NoLabels THEN NextPeer(c)
                         ELSE [c EXCEPT !.at = "list"])
  BY DEF GetLabels
<1> HIDE DEF c
<1>2. CASE ~found
  <2> DEFINE n == [c EXCEPT !.at = "done", !.status = "Unhealthy"]
  <2>1. n \in Check /\ n.at = "done" /\ n.target = c.target /\ n.peers = c.peers /\ n.status = "Unhealthy"
    BY <1>0 DEF Check, HealthStatus
  <2>2. Continue(r, n)
    BY <1>1, <1>2
  <2> HIDE DEF n
  <2>3. WalkInv(r, n) /\ HealthyInv(r, n)
    BY <1>0, <2>1 DEF WalkInv, HealthyInv
  <2> QED
    BY <2>1, <2>2, <2>3
<1>3. CASE found /\ Component[r] = NoLabels
  <2>1. PeersThroughout(r) = {}
    BY <1>3 DEF PeersThroughout
  <2>2. OnlyPeersLeft(r, c)
    BY <1>0, <2>1 DEF OnlyPeersLeft, WalkInv, HealthyInv
  <2>3. Continue(r, NextPeer(c))
    BY <1>1, <1>3
  <2> QED
    BY <1>0, <2>2, <2>3, NextPeerKeeps
<1>4. CASE found /\ Component[r] # NoLabels
  <2> DEFINE n == [c EXCEPT !.at = "list"]
  <2>1. n \in Check /\ n.at = "list" /\ n.target = c.target /\ n.peers = c.peers /\ n.status = c.status
    BY <1>0 DEF Check
  <2>2. Continue(r, n)
    BY <1>1, <1>4
  <2> HIDE DEF n
  <2>3. WalkInv(r, n) /\ HealthyInv(r, n)
    BY <1>0, <2>1 DEF WalkInv, HealthyInv
  <2> QED
    BY <2>1, <2>2, <2>3
<1> QED
  BY <1>2, <1>3, <1>4

LEMMA ListPeersKeeps ==
    ASSUME HealthInv, NEW r \in DOMAIN checks, ListPeers(r)
    PROVE  \E n \in Check : Continue(r, n) /\ WalkInv(r, n) /\ HealthyInv(r, n)
<1> DEFINE c == checks[r]
<1>0. /\ r \in Objects /\ c \in Check /\ WalkInv(r, c) /\ HealthyInv(r, c)
      /\ probe.at = "check" /\ c.at = "list" /\ c.target = r
  <2>1. /\ r \in Objects /\ c \in Check /\ WalkInv(r, c) /\ HealthyInv(r, c)
        /\ probe.at = "check" /\ c.at = "list"
    BY CheckFacts DEF ListPeers
  <2> QED
    BY <2>1 DEF WalkInv
<1>1. \/ Continue(r, NextPeer([c EXCEPT !.peers = PeersListed(r)]))
      \/ Continue(r, [c EXCEPT !.at = "done", !.status = "Unhealthy"])
  BY DEF ListPeers
<1> HIDE DEF c
<1>2. CASE Continue(r, NextPeer([c EXCEPT !.peers = PeersListed(r)]))
  <2> DEFINE m == [c EXCEPT !.peers = PeersListed(r)]
  <2>1. /\ PeersListed(r) \subseteq {p \in Objects \ {r} : Kind[p] = Kind[r]}
        /\ PeersThroughout(r) \subseteq PeersListed(r)
    BY <1>0, CopyFacts DEF PeersListed, PeersThroughout, Exists
  <2>2. PeersListed(r) \in SUBSET Objects
    BY <2>1
  <2>3. m \in Check /\ m.target = r /\ m.peers = PeersListed(r) /\ m.status = c.status
    BY <1>0, <2>2 DEF Check
  <2> HIDE DEF m
  <2>4. c.status = "Healthy" => Kind[r] \in WithChildren \cup WithReplicas /\ Sound(r)
    BY <1>0 DEF HealthyInv
  <2>5. OnlyPeersLeft(r, m)
    BY <2>1, <2>3, <2>4 DEF OnlyPeersLeft
  <2> QED
    BY <1>0, <1>2, <2>3, <2>5, NextPeerKeeps DEF m
<1>3. CASE Continue(r, [c EXCEPT !.at = "done", !.status = "Unhealthy"])
  <2> DEFINE n == [c EXCEPT !.at = "done", !.status = "Unhealthy"]
  <2>1. n \in Check /\ n.at = "done" /\ n.target = c.target /\ n.peers = c.peers /\ n.status = "Unhealthy"
    BY <1>0 DEF Check, HealthStatus
  <2>2. Continue(r, n)
    BY <1>3
  <2> HIDE DEF n
  <2>3. WalkInv(r, n) /\ HealthyInv(r, n)
    BY <1>0, <2>1 DEF WalkInv, HealthyInv
  <2> QED
    BY <2>1, <2>2, <2>3
<1> QED
  BY <1>1, <1>2, <1>3
\* What a step of the goroutine of r leaves alone, but for a failed read.
GoroutineFrame ==
    /\ UNCHANGED <<object, view, watch, changes, scope, cached, queued, timer, window, late, edits>>
    /\ probe' \in [at : {"idle", "check"}, refs : RefSets \cup {{}},
                    current : BOOLEAN, failed : BOOLEAN]
    /\ probe'.at = probe.at /\ probe'.refs = probe.refs /\ probe'.current = probe.current
    /\ faults' \in 0..MaxFaults

LEMMA FinishedFacts ==
    ASSUME NEW r \in Objects
    PROVE  /\ Finished(r) \in Check /\ Finished(r).at = "done" /\ Finished(r).status = "Unknown"
           /\ WalkInv(r, Finished(r))
<1>1. <<>> \in Seq(Objects)
  BY EmptySeq
<1>2. /\ Finished(r) \in Check /\ Finished(r).at = "done" /\ Finished(r).status = "Unknown"
      /\ Finished(r).target = r /\ Finished(r).peers = {}
  BY <1>1 DEF Finished, Started, Check, HealthStatus
<1> HIDE DEF Finished
<1> QED
  BY <1>2 DEF WalkInv

\* A goroutine goes on, or sends its condition and is done.
LEMMA GoroutineStep ==
    ASSUME HealthInv, NEW r \in DOMAIN checks, checks[r].at # "done", GoroutineFrame,
           NEW n \in Check, Continue(r, n), WalkInv(r, n), HealthyInv(r, n)
    PROVE  HealthInv'
<1> DEFINE sent == [targetWorkload |-> r, healthStatus |-> n.status]
           m == IF n.at = "done" THEN Finished(r) ELSE n
<1>1. /\ TypeOK /\ r \in probe.refs /\ r \in Objects
      /\ checks \in [probe.refs -> Check] /\ conditions \in Seq(WorkloadHealthCondition)
  BY CheckFacts DEF HealthInv, TypeOK
<1>2. sent \in WorkloadHealthCondition /\ sent.targetWorkload = r /\ sent.healthStatus = n.status
  BY <1>1 DEF WorkloadHealthCondition, Check
<1>3. m \in Check /\ WalkInv(r, m) /\ (m.at = "done" <=> n.at = "done")
  BY <1>1, FinishedFacts
<1>m. m.status = "Healthy" => m = n
  BY <1>1, FinishedFacts
<1>4. checks' = [checks EXCEPT ![r] = m]
  BY DEF Continue
<1>5. conditions' = IF n.at # "done" THEN conditions ELSE Append(conditions, sent)
  BY DEF Continue
<1> HIDE DEF m, sent
<1>6. /\ checks' \in [probe'.refs -> Check] /\ checks'[r] = m
      /\ \A q \in probe.refs : q # r => checks'[q] = checks[q]
  BY <1>1, <1>3, <1>4 DEF GoroutineFrame
<1>7. /\ Len(conditions) \in Nat /\ DOMAIN conditions = 1..Len(conditions)
      /\ conditions' \in Seq(WorkloadHealthCondition)
  BY <1>1, <1>2, <1>5, LenProperties, AppendProperties
<1>8. ASSUME n.at = "done" PROVE SentInv' /\ SentHealthyInv'
  <2>1. /\ Len(conditions') = Len(conditions) + 1 /\ conditions'[Len(conditions) + 1] = sent
        /\ \A i \in DOMAIN conditions : conditions'[i] = conditions[i]
    BY <1>1, <1>2, <1>5, <1>7, <1>8, AppendProperties
  <2>2. DOMAIN conditions' = 1..(Len(conditions) + 1)
    BY <1>7, <2>1, LenProperties
  <2>3. DOMAIN conditions' = DOMAIN conditions \cup {Len(conditions) + 1}
    BY <1>7, <2>2
  <2> DEFINE k == Len(conditions) + 1
  <2>4. k \notin DOMAIN conditions
    BY <1>7
  <2>5. /\ DOMAIN conditions' = DOMAIN conditions \cup {k} /\ k \notin DOMAIN conditions
        /\ conditions'[k].targetWorkload = r /\ conditions'[k].healthStatus = n.status
        /\ \A i \in DOMAIN conditions : conditions'[i] = conditions[i]
    BY <1>2, <2>1, <2>3, <2>4
  <2> HIDE DEF k
  <2>6. \A i \in DOMAIN conditions : conditions[i].targetWorkload # r
    BY <1>1 DEF HealthInv, SentInv
  <2>7. SentInv'
    <3>1. ASSUME NEW q \in probe.refs
          PROVE  checks'[q].at = "done"
                    <=> \E i \in DOMAIN conditions' : conditions'[i].targetWorkload = q
      <4>1. CASE q = r
        BY <1>3, <1>6, <1>8, <2>5, <4>1
      <4>2. CASE q # r
        BY <1>6, <2>5, <3>1, <4>2 DEF HealthInv, SentInv
      <4> QED
        BY <4>1, <4>2
    <3>2. \A i \in DOMAIN conditions' : conditions'[i].targetWorkload \in probe.refs
      BY <1>1, <2>5 DEF HealthInv, SentInv
    <3>3. \A i, j \in DOMAIN conditions' :
              conditions'[i].targetWorkload = conditions'[j].targetWorkload => i = j
      BY <2>5, <2>6 DEF HealthInv, SentInv
    <3> QED
      BY <3>1, <3>2, <3>3 DEF HealthInv, SentInv, GoroutineFrame
  <2>8. SentHealthyInv'
    <3>1. n.status = "Healthy" => \A o \in {r} \cup PeersThroughout(r) : Sound(o)
      BY <1>8 DEF HealthyInv
    <3>2. ASSUME NEW i \in DOMAIN conditions', conditions'[i].healthStatus = "Healthy"
          PROVE  \A o \in {conditions'[i].targetWorkload}
                          \cup PeersThroughout(conditions'[i].targetWorkload) : Sound(o)
      <4>1. CASE i = k
        BY <2>5, <3>1, <3>2, <4>1
      <4>2. CASE i \in DOMAIN conditions
        BY <2>5, <3>2, <4>2 DEF HealthInv, SentHealthyInv
      <4> QED
        BY <2>5, <4>1, <4>2
    <3> QED
      BY <3>2 DEF SentHealthyInv, PeersThroughout, Sound, WasWell, GoroutineFrame
  <2> QED
    BY <2>7, <2>8
<1>9. ASSUME n.at # "done" PROVE SentInv' /\ SentHealthyInv'
  <2>1. conditions' = conditions
    BY <1>5, <1>9
  <2>2. \A q \in probe.refs : checks'[q].at = "done" <=> checks[q].at = "done"
    BY <1>3, <1>6, <1>9
  <2>3. SentInv'
    BY <2>1, <2>2 DEF HealthInv, SentInv, GoroutineFrame
  <2> QED
    BY <1>1, <2>1, <2>3, ObjectsAssumption, SentHealthyLasts
       DEF HealthInv, TypeOK, Growing, GoroutineFrame
<1>10. ASSUME NEW q \in probe.refs
       PROVE  WalkInv(q, checks'[q]) /\ HealthyInv(q, checks'[q])
  <2>1. CASE q = r
    <3>1. HealthyInv(r, m)
      BY <1>m DEF HealthyInv
    <3> QED
      BY <1>3, <1>6, <2>1, <3>1
  <2>2. CASE q # r
    BY <1>6, <1>10, <2>2 DEF HealthInv
  <2> QED
    BY <2>1, <2>2
<1>11. \A q \in probe'.refs : (WalkInv(q, checks[q]) /\ HealthyInv(q, checks[q]))'
  BY <1>10 DEF WalkInv, HealthyInv, PeersThroughout, Sound, WasWell, GoroutineFrame
<1>12. TypeOK'
  BY <1>1, <1>6, <1>7 DEF TypeOK, GoroutineFrame
<1>13. VersionInv' /\ WindowInv' /\ SummaryAgrees'
  BY DEF HealthInv, VersionInv, WindowInv, Copy, SummaryAgrees, GoroutineFrame
<1> QED
  BY <1>8, <1>9, <1>11, <1>12, <1>13 DEF HealthInv

-------------------------------------------------------------------------------
(* The steps *)

LEMMA CheckWorkloadStep ==
    ASSUME HealthInv, NEW r \in DOMAIN checks, CheckWorkload(r)
    PROVE  HealthInv'
<1>1. PICK found \in BOOLEAN : Read(Copy(checks[r].target) # "absent", found)
  BY DEF CheckWorkload
<1>2. checks[r] \in Check /\ checks[r].target \in Objects /\ checks[r].at = "get" /\ TypeOK
  BY CheckFacts DEF Check, CheckWorkload, HealthInv
<1>3. GoroutineFrame
  BY <1>1, <1>2, ReadFacts DEF GoroutineFrame, CheckWorkload, world, queue
<1> QED
  BY <1>2, <1>3, CheckWorkloadKeeps, GoroutineStep

LEMMA CheckChildStep ==
    ASSUME HealthInv, NEW r \in DOMAIN checks, CheckChild(r)
    PROVE  HealthInv'
<1>1. PICK found \in BOOLEAN : Read(Copy(Head(checks[r].left)) # "absent", found)
  BY DEF CheckChild
<1>2. /\ checks[r] \in Check /\ checks[r].at = "child" /\ TypeOK
      /\ checks[r].left \in Seq(Objects) /\ checks[r].left # <<>>
  BY CheckFacts DEF Check, CheckChild, HealthInv, WalkInv
<1>3. Head(checks[r].left) \in Objects
  BY <1>2, HeadTailProperties
<1>4. GoroutineFrame
  BY <1>1, <1>2, <1>3, ReadFacts DEF GoroutineFrame, CheckChild, world, queue
<1> QED
  BY <1>2, <1>4, CheckChildKeeps, GoroutineStep

LEMMA GetLabelsStep ==
    ASSUME HealthInv, NEW r \in DOMAIN checks, GetLabels(r)
    PROVE  HealthInv'
<1>1. PICK found \in BOOLEAN : Read(Exists(r), found)
  BY DEF GetLabels
<1>2. r \in Objects /\ checks[r].at = "labels" /\ TypeOK
  BY CheckFacts DEF GetLabels, HealthInv
<1>e. Exists(r) \in BOOLEAN
  BY DEF Exists
<1>3. GoroutineFrame
  BY <1>1, <1>2, <1>e, ReadFacts DEF GoroutineFrame, GetLabels, world, queue
<1> QED
  BY <1>2, <1>3, GetLabelsKeeps, GoroutineStep

LEMMA ListPeersStep ==
    ASSUME HealthInv, NEW r \in DOMAIN checks, ListPeers(r)
    PROVE  HealthInv'
<1>1. checks[r].at = "list" /\ TypeOK
  BY DEF ListPeers, HealthInv
<1>2. UNCHANGED <<object, view, watch, changes, scope, cached, queued, timer, window, late, edits>>
  BY DEF ListPeers, world, queue
<1>3. /\ probe' = probe \/ probe' = [probe EXCEPT !.failed = TRUE]
      /\ faults' = faults \/ (faults < MaxFaults /\ faults' = faults + 1)
  BY DEF ListPeers
<1>4. faults' \in 0..MaxFaults
  BY <1>1, <1>3, BoundsAssumption DEF TypeOK
<1>5. GoroutineFrame
  BY <1>1, <1>2, <1>3, <1>4 DEF GoroutineFrame, TypeOK
<1> QED
  BY <1>1, <1>5, ListPeersKeeps, GoroutineStep

\* Objects change, or the cache is told of it; the windows grow.
LEMMA WindowsGrow ==
    ASSUME HealthInv, Growing, TypeOK', WindowInv',
           UNCHANGED <<scope, cached, probe, checks, conditions>>
    PROVE  HealthInv'
<1>1. VersionInv' /\ SentInv' /\ SummaryAgrees'
  BY DEF HealthInv, VersionInv, SentInv, SummaryAgrees
<1>2. probe.refs \subseteq Objects /\ checks \in [probe.refs -> Check]
  BY ObjectsAssumption DEF HealthInv, TypeOK
<1>3. SentHealthyInv'
  BY <1>2, SentHealthyLasts DEF HealthInv
<1>4. ASSUME NEW q \in probe.refs
      PROVE  (WalkInv(q, checks[q]) /\ HealthyInv(q, checks[q]))'
  <2>1. PICK k \in Check : k = checks[q]
    BY <1>2, <1>4
  <2>2. WalkInv(q, k) /\ HealthyInv(q, k)
    BY <1>4, <2>1 DEF HealthInv
  <2>3. HealthyInv(q, k)' /\ WalkInv(q, k)'
    BY <1>2, <1>4, <2>2, HealthyLasts DEF WalkInv
  <2>4. checks'[q] = k
    BY <2>1
  <2> QED
    BY <2>3, <2>4 DEF HealthyInv, WalkInv
<1> QED
  BY <1>1, <1>3, <1>4 DEF HealthInv

\* What becomes of the watch.
LEMMA WatchFacts ==
    ASSUME NEW w \in Seq(State), NEW s \in State
    PROVE  /\ Append(w, s) \in Seq(State) /\ ToSet(Append(w, s)) = ToSet(w) \cup {s}
           /\ w # <<>> => /\ Head(w) \in ToSet(w) /\ Head(w) \in State
                          /\ Tail(w) \in Seq(State) /\ ToSet(Tail(w)) \subseteq ToSet(w)
<1>1. DOMAIN w = 1..Len(w) /\ Len(w) \in Nat
  BY LenProperties
<1>2. Append(w, s) \in Seq(State) /\ ToSet(Append(w, s)) = ToSet(w) \cup {s}
  <2>1. /\ Append(w, s) \in Seq(State) /\ Len(Append(w, s)) = Len(w) + 1
        /\ \A i \in 1..Len(w) : Append(w, s)[i] = w[i]
        /\ Append(w, s)[Len(w) + 1] = s
    BY AppendProperties
  <2>2. DOMAIN Append(w, s) = DOMAIN w \cup {Len(w) + 1}
    BY <1>1, <2>1, LenProperties
  <2> QED
    BY <1>1, <2>1, <2>2 DEF ToSet
<1>3. ASSUME w # <<>>
      PROVE  /\ Head(w) \in ToSet(w) /\ Head(w) \in State
             /\ Tail(w) \in Seq(State) /\ ToSet(Tail(w)) \subseteq ToSet(w)
  <2>1. /\ Head(w) \in State /\ Tail(w) \in Seq(State) /\ Len(Tail(w)) = Len(w) - 1
        /\ \A i \in 1..Len(Tail(w)) : Tail(w)[i] = w[i + 1]
    BY <1>3, HeadTailProperties
  <2>2. DOMAIN Tail(w) = 1..(Len(w) - 1)
    BY <2>1, LenProperties
  <2>3. Head(w) = w[1] /\ 1 \in DOMAIN w
    BY <1>1, <1>3, EmptySeq
  <2>4. ASSUME NEW i \in DOMAIN Tail(w) PROVE Tail(w)[i] \in ToSet(w)
    <3>1. i + 1 \in DOMAIN w /\ Tail(w)[i] = w[i + 1]
      BY <1>1, <2>1, <2>2, <2>4
    <3> QED
      BY <3>1 DEF ToSet
  <2> QED
    BY <2>1, <2>3, <2>4 DEF ToSet
<1> QED
  BY <1>2, <1>3

LEMMA ObjectChangesStep ==
    ASSUME HealthInv, NEW o \in Objects, ObjectChanges(o)
    PROVE  HealthInv'
<1>0. /\ TypeOK /\ WindowInv
      /\ object \in [Objects -> State] /\ watch \in [Objects -> Seq(State)]
      /\ window \in [Objects -> SUBSET State]
  BY DEF HealthInv, TypeOK
<1>1. PICK s \in State \ {object[o]} :
          /\ object' = [object EXCEPT ![o] = s]
          /\ watch' = IF Kind[o] \in ReadLive THEN watch
                      ELSE [watch EXCEPT ![o] = Append(@, s)]
          /\ window' = IF probe.at = "check" THEN [window EXCEPT ![o] = @ \cup {s}] ELSE window
  BY DEF ObjectChanges
<1>2. UNCHANGED <<view, scope, cached, queued, timer, probe, checks, conditions, late, edits, faults>>
  BY DEF ObjectChanges, queue
<1>3. /\ watch[o] \in Seq(State) /\ Append(watch[o], s) \in Seq(State)
      /\ ToSet(Append(watch[o], s)) = ToSet(watch[o]) \cup {s}
  BY <1>0, WatchFacts
<1>4. /\ object' \in [Objects -> State] /\ object'[o] = s
      /\ watch' \in [Objects -> Seq(State)] /\ ToSet(watch'[o]) \subseteq ToSet(watch[o]) \cup {s}
      /\ window' \in [Objects -> SUBSET State]
      /\ probe.at = "check" => window'[o] = window[o] \cup {s}
  BY <1>0, <1>1, <1>3
<1>5. \A p \in Objects : p # o => /\ object'[p] = object[p] /\ watch'[p] = watch[p]
                                   /\ window'[p] = window[p]
  BY <1>0, <1>1
<1>6. TypeOK'
  <2>1. changes' \in 0..MaxChanges
    BY <1>0, BoundsAssumption DEF ObjectChanges, TypeOK
  <2> QED
    BY <1>0, <1>2, <1>4, <2>1 DEF TypeOK
<1>7. WindowInv'
  <2>1. ASSUME NEW p \in Objects, probe.at = "check"
        PROVE  {object'[p], Copy(p)'} \cup ToSet(watch'[p]) \subseteq window'[p]
    <3>1. {object[p], Copy(p)} \cup ToSet(watch[p]) \subseteq window[p]
      BY <1>0, <2>1 DEF WindowInv
    <3>2. CASE p = o
      BY <1>2, <1>4, <2>1, <3>1, <3>2 DEF Copy
    <3>3. CASE p # o
      BY <1>2, <1>5, <3>1, <3>3 DEF Copy
    <3> QED
      BY <3>2, <3>3
  <2> QED
    BY <1>2, <2>1 DEF WindowInv, Copy
<1>8. Growing
  BY <1>1, <1>0, <1>5 DEF Growing
<1> QED
  BY <1>2, <1>6, <1>7, <1>8, WindowsGrow

LEMMA ObjectSyncStep ==
    ASSUME HealthInv, NEW o \in Objects, ObjectSync(o)
    PROVE  HealthInv'
<1>0. /\ TypeOK /\ WindowInv
      /\ view \in [Objects -> State] /\ watch \in [Objects -> Seq(State)]
  BY DEF HealthInv, TypeOK
<1>1. /\ watch[o] # <<>>
      /\ view' = [view EXCEPT ![o] = Head(watch[o])]
      /\ watch' = [watch EXCEPT ![o] = Tail(watch[o])]
  BY DEF ObjectSync
<1>2. UNCHANGED <<object, changes, scope, cached, queued, timer, probe, checks, conditions,
                  window, late, edits, faults>>
  BY DEF ObjectSync, queue, run
<1>3. /\ Head(watch[o]) \in ToSet(watch[o]) /\ Head(watch[o]) \in State
      /\ Tail(watch[o]) \in Seq(State) /\ ToSet(Tail(watch[o])) \subseteq ToSet(watch[o])
  BY <1>0, <1>1, WatchFacts
<1>4. /\ view' \in [Objects -> State] /\ view'[o] = Head(watch[o])
      /\ watch' \in [Objects -> Seq(State)] /\ watch'[o] = Tail(watch[o])
      /\ \A p \in Objects : p # o => view'[p] = view[p] /\ watch'[p] = watch[p]
  BY <1>0, <1>1, <1>3
<1>5. TypeOK'
  BY <1>0, <1>2, <1>4 DEF TypeOK
<1>6. WindowInv'
  <2>1. ASSUME NEW p \in Objects, probe.at = "check"
        PROVE  {object[p], Copy(p)'} \cup ToSet(watch'[p]) \subseteq window[p]
    <3>1. {object[p], Copy(p)} \cup ToSet(watch[p]) \subseteq window[p]
      BY <1>0, <2>1 DEF WindowInv
    <3>2. CASE p = o
      BY <1>2, <1>3, <1>4, <3>1, <3>2 DEF Copy
    <3>3. CASE p # o
      BY <1>2, <1>4, <3>1, <3>3 DEF Copy
    <3> QED
      BY <3>2, <3>3
  <2> QED
    BY <1>2, <2>1 DEF WindowInv, Copy
<1>7. Growing
  BY <1>2 DEF Growing
<1> QED
  BY <1>2, <1>5, <1>6, <1>7, WindowsGrow

\* The goroutines and what they have sent do not depend on the rest.
GoroutinesOK ==
    /\ SentInv /\ WindowInv
    /\ \A r \in probe.refs : WalkInv(r, checks[r]) /\ HealthyInv(r, checks[r])
    /\ SentHealthyInv

LEMMA GoroutinesUnchanged ==
    ASSUME HealthInv, UNCHANGED <<object, view, watch, checks, conditions, window>>,
           probe'.at = probe.at, probe'.refs = probe.refs
    PROVE  GoroutinesOK'
  BY DEF HealthInv, GoroutinesOK, SentInv, WindowInv, Copy, WalkInv, HealthyInv, SentHealthyInv,
         PeersThroughout, Sound, WasWell

LEMMA EditScopeStep ==
    ASSUME HealthInv, EditScope
    PROVE  HealthInv'
<1>1. TypeOK /\ VersionInv /\ SummaryAgrees
  BY DEF HealthInv
<1>2. UNCHANGED <<object, view, watch, changes, queued, timer, checks, conditions, window, late,
                  faults>>
  BY DEF EditScope, world, queue
<1>3. /\ probe' = [probe EXCEPT !.current = FALSE]
      /\ cached' = [cached EXCEPT !.current = FALSE]
  BY DEF EditScope, Written
<1>4. /\ probe' \in [at : {"idle", "check"}, refs : RefSets \cup {{}},
                      current : BOOLEAN, failed : BOOLEAN]
      /\ probe'.at = probe.at /\ probe'.refs = probe.refs /\ ~probe'.current
      /\ cached' \in [exists : BOOLEAN, refs : RefSets, current : BOOLEAN] /\ ~cached'.current
  BY <1>1, <1>3 DEF TypeOK
<1>5. \/ \E refs \in RefSets : scope' = [scope EXCEPT !.refs = refs]
      \/ scope' = [scope EXCEPT !.exists = FALSE]
  BY DEF EditScope, Written
<1>6. /\ scope' \in Scope /\ scope'.scopeHealthCondition = scope.scopeHealthCondition
      /\ scope'.workloadHealthConditions = scope.workloadHealthConditions
  BY ZenonT(40), <1>1, <1>5 DEF TypeOK, Scope
<1>7. edits' \in 0..MaxEdits
  BY <1>1, BoundsAssumption DEF EditScope, TypeOK
<1>8. TypeOK'
  BY <1>1, <1>2, <1>4, <1>6, <1>7 DEF TypeOK
<1>9. VersionInv' /\ SummaryAgrees'
  BY <1>1, <1>4, <1>6 DEF VersionInv, SummaryAgrees
<1>10. GoroutinesOK'
  BY <1>2, <1>4, GoroutinesUnchanged
<1> QED
  BY <1>8, <1>9, <1>10 DEF HealthInv, GoroutinesOK

\* The watch and the timers leave the goroutines alone.
LEMMA QueueSteps ==
    ASSUME HealthInv, CacheSync \/ IntervalElapses \/ Resync
    PROVE  HealthInv'
<1>1. UNCHANGED <<object, view, watch, changes, scope, probe, checks, conditions, window, late,
                  edits, faults>>
  BY DEF CacheSync, IntervalElapses, Resync, world, run
<1>2. /\ cached' \in [exists : BOOLEAN, refs : RefSets, current : BOOLEAN]
      /\ cached'.current => cached'.refs = scope.refs
  <2>1. /\ cached \in [exists : BOOLEAN, refs : RefSets, current : BOOLEAN]
        /\ cached.current => cached.refs = scope.refs
        /\ scope.exists \in BOOLEAN /\ scope.refs \in RefSets
    BY DEF HealthInv, TypeOK, VersionInv, Scope
  <2>2. \/ cached' = cached
        \/ cached' = [exists |-> scope.exists, refs |-> scope.refs, current |-> TRUE]
    BY DEF CacheSync, IntervalElapses, Resync
  <2>3. CASE cached' = cached
    BY <2>1, <2>3
  <2>4. CASE cached' = [exists |-> scope.exists, refs |-> scope.refs, current |-> TRUE]
    BY <2>1, <2>4
  <2> QED
    BY <2>2, <2>3, <2>4
<1>3. queued' \in BOOLEAN /\ timer' \in BOOLEAN
  BY DEF CacheSync, IntervalElapses, Resync, HealthInv, TypeOK
<1>4. TypeOK'
  BY <1>1, <1>2, <1>3 DEF HealthInv, TypeOK
<1>5. VersionInv' /\ SummaryAgrees'
  BY <1>1, <1>2 DEF HealthInv, VersionInv, SummaryAgrees
<1>6. GoroutinesOK'
  BY <1>1, GoroutinesUnchanged
<1> QED
  BY <1>4, <1>5, <1>6 DEF HealthInv, GoroutinesOK

\* A goroutine that has just started has judged nothing.
LEMMA StartedFacts ==
    ASSUME NEW o \in Objects
    PROVE  /\ Started(o) \in Check /\ Started(o).at = "get" /\ Started(o).status = "Unknown"
           /\ WalkInv(o, Started(o)) /\ HealthyInv(o, Started(o))
<1>1. <<>> \in Seq(Objects)
  BY EmptySeq
<1>2. /\ Started(o) \in Check /\ Started(o).at = "get" /\ Started(o).status = "Unknown"
      /\ Started(o).target = o /\ Started(o).peers = {}
  BY <1>1 DEF Started, Check, HealthStatus
<1> HIDE DEF Started
<1> QED
  BY <1>2 DEF WalkInv, HealthyInv

LEMMA ReconcileStep ==
    ASSUME HealthInv, Reconcile
    PROVE  HealthInv'
<1>1. /\ UNCHANGED <<object, view, watch, changes, scope, cached, timer, late, edits, faults>>
      /\ queued' = FALSE
  BY DEF Reconcile, world
<1>2. CASE ~cached.exists
  <2>1. UNCHANGED <<probe, checks, conditions, window>>
    BY <1>2 DEF Reconcile, run
  <2>2. GoroutinesOK'
    BY <1>1, <2>1, GoroutinesUnchanged
  <2>3. TypeOK'
    BY <1>1, <2>1 DEF HealthInv, TypeOK
  <2>4. VersionInv' /\ SummaryAgrees'
    BY <1>1, <2>1 DEF HealthInv, VersionInv, SummaryAgrees
  <2> QED
    BY <2>2, <2>3, <2>4 DEF HealthInv, GoroutinesOK
<1>3. CASE cached.exists
  <2>1. /\ probe' = [at |-> "check", refs |-> cached.refs,
                     current |-> cached.current, failed |-> FALSE]
        /\ checks' = [o \in cached.refs |-> Started(o)]
        /\ conditions' = <<>>
        /\ window' = [o \in Objects |-> {object[o], Copy(o)} \cup ToSet(watch[o])]
    BY <1>3 DEF Reconcile
  <2>w. window' \in [Objects -> SUBSET State] /\ WindowInv'
    <3>1. ASSUME NEW o \in Objects
          PROVE  {object[o], Copy(o)} \cup ToSet(watch[o]) \in SUBSET State
      <4>1. object[o] \in State /\ Copy(o) \in State /\ watch[o] \in Seq(State)
        BY <3>1 DEF HealthInv, TypeOK, Copy
      <4>2. ToSet(watch[o]) \subseteq State
        BY <4>1, ElementOfSeq, LenProperties DEF ToSet
      <4> QED
        BY <4>1, <4>2
    <3>2. \A o \in Objects : Copy(o)' = Copy(o)
      BY <1>1 DEF Copy
    <3> QED
      BY <1>1, <2>1, <3>1, <3>2 DEF WindowInv
  <2>2. /\ cached.refs \in RefSets /\ cached.refs \subseteq Objects /\ cached.current \in BOOLEAN
    BY ObjectsAssumption DEF HealthInv, TypeOK
  <2>3. /\ probe' \in [at : {"idle", "check"}, refs : RefSets \cup {{}},
                        current : BOOLEAN, failed : BOOLEAN]
        /\ probe'.at = "check" /\ probe'.refs = cached.refs /\ probe'.current = cached.current
    BY <2>1, <2>2
  <2>4. /\ checks' \in [probe'.refs -> Check]
        /\ \A q \in cached.refs : q \in Objects /\ checks'[q] = Started(q)
    BY <2>1, <2>2, <2>3, StartedFacts
  <2>5. conditions' \in Seq(WorkloadHealthCondition) /\ DOMAIN conditions' = {}
    <3>1. conditions' \in Seq(WorkloadHealthCondition) /\ Len(conditions') = 0
      BY <2>1, EmptySeq
    <3>2. DOMAIN conditions' = 1..0
      BY <3>1, LenProperties
    <3> QED
      BY <3>1, <3>2
  <2>6. TypeOK'
    BY <1>1, <2>w, <2>1, <2>3, <2>4, <2>5 DEF HealthInv, TypeOK
  <2>7. VersionInv' /\ SummaryAgrees'
    BY <1>1, <2>3 DEF HealthInv, VersionInv, SummaryAgrees
  <2>8. SentInv' /\ SentHealthyInv'
    BY <2>3, <2>4, <2>5, StartedFacts DEF SentInv, SentHealthyInv
  <2>9. ASSUME NEW q \in cached.refs
        PROVE  (WalkInv(q, checks[q]) /\ HealthyInv(q, checks[q]))'
    <3>1. checks'[q].status # "Healthy" /\ WalkInv(q, checks'[q])
      BY <2>4, <2>9, StartedFacts
    <3> QED
      BY <3>1 DEF WalkInv, HealthyInv
  <2> QED
    BY <2>w, <2>3, <2>6, <2>7, <2>8, <2>9 DEF HealthInv
<1> QED
  BY <1>2, <1>3

LEMMA UpdateStatusStep ==
    ASSUME HealthInv, UpdateStatus
    PROVE  HealthInv'
<1>1. UNCHANGED <<object, view, watch, changes, edits>>
  BY DEF UpdateStatus, world
<1>2. probe' = Idle /\ checks' = <<>> /\ conditions' = <<>> /\ window' = NoWindow
  BY DEF UpdateStatus
<1>3. /\ probe' \in [at : {"idle", "check"}, refs : RefSets \cup {{}},
                      current : BOOLEAN, failed : BOOLEAN]
      /\ probe'.at = "idle" /\ probe'.refs = {} /\ ~probe'.current
  BY <1>2 DEF Idle
<1>4. conditions' \in Seq(WorkloadHealthCondition) /\ DOMAIN conditions' = {}
  <2>1. conditions' \in Seq(WorkloadHealthCondition) /\ Len(conditions') = 0
    BY <1>2, EmptySeq
  <2>2. DOMAIN conditions' = 1..0
    BY <2>1, LenProperties
  <2> QED
    BY <2>1, <2>2
<1>5. checks' \in [probe'.refs -> Check]
  BY <1>2, <1>3
<1>6. queued' \in BOOLEAN /\ timer' \in BOOLEAN /\ late' \in BOOLEAN /\ faults' \in 0..MaxFaults
  <2>1. /\ queued \in BOOLEAN /\ timer \in BOOLEAN /\ late \in BOOLEAN /\ faults \in 0..MaxFaults
    BY DEF HealthInv, TypeOK
  <2>2. queued' = queued \/ queued' = TRUE
    BY DEF UpdateStatus
  <2>3. late' = late \/ late' = TRUE
    BY DEF UpdateStatus
  <2>4. timer' = timer \/ timer' = (timer \/ TRUE) \/ timer' = (timer \/ FALSE)
    BY DEF UpdateStatus, Requeue
  <2>5. faults' = faults \/ (faults < MaxFaults /\ faults' = faults + 1)
    BY DEF UpdateStatus
  <2>6. faults' \in 0..MaxFaults
    BY <2>1, <2>5, BoundsAssumption
  <2>7. queued' \in BOOLEAN /\ timer' \in BOOLEAN /\ late' \in BOOLEAN
    BY <2>1, <2>2, <2>3, <2>4
  <2> QED
    BY <2>6, <2>7
<1> DEFINE sum == Summary(conditions, probe.refs)
           new == [scope EXCEPT !.scopeHealthCondition = sum,
                                !.workloadHealthConditions = conditions]
<1>7. \/ scope' = scope /\ cached' = cached
      \/ /\ Accepted /\ scope' = new
         /\ cached' = [cached EXCEPT !.current = FALSE]
  BY DEF UpdateStatus, Written
<1>8. ASSUME TRUE
      PROVE  /\ probe.refs = {conditions[i].targetWorkload : i \in DOMAIN conditions}
             /\ \A i, j \in DOMAIN conditions :
                   conditions[i].targetWorkload = conditions[j].targetWorkload => i = j
             /\ conditions \in Seq(WorkloadHealthCondition)
  <2>1. \A r \in probe.refs : checks[r].at = "done"
    BY DEF UpdateStatus, Checked, HealthInv, TypeOK
  <2> QED
    BY <2>1 DEF HealthInv, SentInv, TypeOK
<1>9. /\ sum \in ScopeHealthCondition
      /\ sum.healthyWorkloads + sum.unhealthyWorkloads + sum.unknownWorkloads = sum.total
      /\ sum.total = Len(conditions)
      /\ Cardinality({conditions[i].targetWorkload : i \in DOMAIN conditions}) = Len(conditions)
      /\ sum.healthStatus = "Healthy" <=> sum.healthyWorkloads = sum.total
  BY <1>8, SummaryFacts
<1> HIDE DEF sum
<1>10. /\ new \in Scope /\ new.scopeHealthCondition = sum
       /\ new.workloadHealthConditions = conditions /\ new.refs = scope.refs
  BY <1>8, <1>9 DEF HealthInv, TypeOK, Scope
<1> HIDE DEF new
<1>11. scope' \in Scope /\ scope'.refs = scope.refs
  BY <1>7, <1>10 DEF HealthInv, TypeOK
<1>12. /\ cached' \in [exists : BOOLEAN, refs : RefSets, current : BOOLEAN]
       /\ cached'.current => cached'.refs = scope.refs
  BY <1>7 DEF HealthInv, TypeOK, VersionInv
<1>13. SummaryAgrees'
  <2>1. CASE scope' = scope
    BY <2>1 DEF HealthInv, SummaryAgrees
  <2>2. CASE scope' = new
    BY <1>9, <1>10, <2>2 DEF SummaryAgrees
  <2> QED
    BY <1>7, <2>1, <2>2
<1>w. window' \in [Objects -> SUBSET State]
  BY <1>2 DEF NoWindow
<1>14. TypeOK'
  BY <1>1, <1>w, <1>2, <1>3, <1>4, <1>5, <1>6, <1>11, <1>12 DEF HealthInv, TypeOK
<1>15. VersionInv' /\ SentInv' /\ WindowInv' /\ SentHealthyInv'
  BY <1>3, <1>4, <1>11, <1>12 DEF VersionInv, SentInv, WindowInv, SentHealthyInv
<1> QED
  BY <1>3, <1>13, <1>14, <1>15 DEF HealthInv

LEMMA InitInv ==
    ASSUME Init
    PROVE  HealthInv
<1>1. <<>> \in Seq(WorkloadHealthCondition) /\ Len(<<>>) = 0
  BY EmptySeq
<1>2. PICK refs \in RefSets :
          scope = [exists |-> TRUE, refs |-> refs, scopeHealthCondition |-> NoCondition,
                   workloadHealthConditions |-> <<>>]
  BY DEF Init
<1>3. NoCondition \in ScopeHealthCondition
  BY DEF NoCondition, ScopeHealthCondition, HealthStatus
<1>4. scope \in Scope /\ scope.refs = refs /\ scope.scopeHealthCondition = NoCondition
  <2> HIDE DEF NoCondition
  <2> QED
    BY <1>1, <1>2, <1>3 DEF Scope
<1>5. /\ cached \in [exists : BOOLEAN, refs : RefSets, current : BOOLEAN]
      /\ cached.refs = scope.refs
  BY <1>2, <1>4 DEF Init
<1>6. /\ probe \in [at : {"idle", "check"}, refs : RefSets \cup {{}},
                     current : BOOLEAN, failed : BOOLEAN]
      /\ probe.at = "idle" /\ probe.refs = {} /\ ~probe.current
  BY DEF Init, Idle
<1>7. checks \in [probe.refs -> Check]
  BY <1>6 DEF Init
<1>8. conditions \in Seq(WorkloadHealthCondition) /\ DOMAIN conditions = {}
  <2>1. conditions \in Seq(WorkloadHealthCondition) /\ Len(conditions) = 0
    BY <1>1 DEF Init
  <2>2. DOMAIN conditions = 1..0
    BY <2>1, LenProperties
  <2> QED
    BY <2>1, <2>2
<1>9. object \in [Objects -> State] /\ view = object
  BY ObjectsAssumption DEF Init
<1>w. watch \in [Objects -> Seq(State)] /\ window \in [Objects -> SUBSET State]
  <2>1. <<>> \in Seq(State)
    BY EmptySeq
  <2> QED
    BY <2>1 DEF Init, NoWindow
<1>b. queued \in BOOLEAN /\ timer \in BOOLEAN /\ late \in BOOLEAN
  BY Zenon DEF Init
<1>t. /\ changes \in 0..MaxChanges /\ edits \in 0..MaxEdits /\ faults \in 0..MaxFaults
  BY BoundsAssumption DEF Init
<1>10. TypeOK
  BY <1>b, <1>t, <1>w, <1>4, <1>5, <1>6, <1>7, <1>8, <1>9 DEF TypeOK
<1>11. VersionInv /\ SentInv /\ WindowInv /\ SentHealthyInv /\ SummaryAgrees
  BY <1>4, <1>5, <1>6, <1>8 DEF VersionInv, SentInv, WindowInv, SentHealthyInv, SummaryAgrees
<1> QED
  BY <1>6, <1>10, <1>11 DEF HealthInv

LEMMA NextKeepsInv ==
    ASSUME HealthInv, [Next]_vars
    PROVE  HealthInv'
<1>1. CASE \E o \in Objects : ObjectChanges(o) \/ ObjectSync(o)
  BY <1>1, ObjectChangesStep, ObjectSyncStep
<1>2. CASE EditScope
  BY <1>2, EditScopeStep
<1>3. CASE CacheSync \/ IntervalElapses \/ Resync
  BY <1>3, QueueSteps
<1>4. CASE Reconcile
  BY <1>4, ReconcileStep
<1>5. CASE UpdateStatus
  BY <1>5, UpdateStatusStep
<1>6. CASE \E r \in DOMAIN checks :
              CheckWorkload(r) \/ CheckChild(r) \/ GetLabels(r) \/ ListPeers(r)
  BY <1>6, CheckWorkloadStep, CheckChildStep, GetLabelsStep, ListPeersStep
<1>7. CASE UNCHANGED vars
  <2>1. GoroutinesOK'
    BY <1>7, GoroutinesUnchanged DEF vars
  <2>2. TypeOK'
    BY <1>7 DEF HealthInv, TypeOK, vars
  <2>3. VersionInv' /\ SummaryAgrees'
    BY <1>7 DEF HealthInv, VersionInv, SummaryAgrees, vars
  <2> QED
    BY <2>1, <2>2, <2>3 DEF HealthInv, GoroutinesOK
<1> QED
  BY <1>1, <1>2, <1>3, <1>4, <1>5, <1>6, <1>7 DEF Next, Step

-------------------------------------------------------------------------------
(* Theorems *)

\* The inductive invariant: types, resource versions, the walk of every goroutine over children
\* and peers, and what the statuses rest on while the objects change under the reads.
THEOREM HealthInvariant == Spec => []HealthInv
<1>1. Init => HealthInv
  BY InitInv
<1>2. HealthInv /\ [Next]_vars => HealthInv'
  BY NextKeepsInv
<1> QED
  BY <1>1, <1>2, PTL DEF Spec

\* CheckXxxHealth and MergePeerWorkloadsConditions: a workload is reported healthy only if each
\* part of it, and of every peer that was there throughout, was well at some time no earlier
\* than the copy in the informers' cache at the start of the probe.
THEOREM HealthyWasHealthy == Spec => []HealthyAtSomeTime
<1>1. HealthInv => HealthyAtSomeTime
  BY DEF HealthInv, SentHealthyInv, HealthyAtSomeTime
<1> QED
  BY <1>1, HealthInvariant, PTL

\* GetScopeHealthStatus: the summary in the status agrees with the conditions beside it.
THEOREM SummaryAlwaysAgrees == Spec => []SummaryAgrees
<1>1. HealthInv => SummaryAgrees
  BY DEF HealthInv
<1> QED
  BY <1>1, HealthInvariant, PTL

\* Reconcile with its UpdateStatus: a status that is stored has one condition for each of the
\* references the scope has at that moment.
THEOREM StatusOfTheseRefs == Spec => StatusIsOfTheseRefs
<1> DEFINE Of(s) == {s.workloadHealthConditions[i].targetWorkload :
                        i \in DOMAIN s.workloadHealthConditions}
<1>1. ASSUME HealthInv, [Next]_vars,
             scope'.workloadHealthConditions # scope.workloadHealthConditions
      PROVE  Of(scope') = scope'.refs
  <2>1. scope \in Scope
    BY <1>1 DEF HealthInv, TypeOK
  <2>2. scope' # scope
    BY <1>1
  <2>3. EditScope \/ UpdateStatus
    BY <1>1, <2>2 DEF Next, Step, vars, ObjectChanges, ObjectSync, CacheSync, IntervalElapses, Resync,
                      Reconcile, CheckWorkload, CheckChild, GetLabels, ListPeers
  <2>4. ~EditScope
    <3> SUFFICES ASSUME EditScope PROVE FALSE
      OBVIOUS
    <3>1. \/ \E refs \in RefSets : scope' = [scope EXCEPT !.refs = refs]
          \/ scope' = [scope EXCEPT !.exists = FALSE]
      BY DEF EditScope, Written
    <3> QED
      BY <1>1, <2>1, <3>1 DEF Scope
  <2>5. /\ Checked /\ Accepted
        /\ scope' = [scope EXCEPT !.scopeHealthCondition = Summary(conditions, probe.refs),
                                  !.workloadHealthConditions = conditions]
    BY <2>2, <2>3, <2>4 DEF UpdateStatus, Written
  <2>6. scope'.workloadHealthConditions = conditions /\ scope'.refs = scope.refs
    <3> DEFINE sum == Summary(conditions, probe.refs)
    <3>1. scope' = [scope EXCEPT !.scopeHealthCondition = sum,
                                 !.workloadHealthConditions = conditions]
      BY <2>5
    <3> HIDE DEF sum
    <3> QED
      BY <2>1, <3>1 DEF Scope
  <2>7. probe.refs = scope.refs
    BY <1>1, <2>5 DEF HealthInv, VersionInv, Accepted
  <2>8. \A r \in probe.refs : checks[r].at = "done"
    BY <1>1, <2>5 DEF Checked, HealthInv, TypeOK
  <2>9. {conditions[i].targetWorkload : i \in DOMAIN conditions} = probe.refs
    BY <1>1, <2>8 DEF HealthInv, SentInv
  <2>10. Of(scope') = {conditions[i].targetWorkload : i \in DOMAIN conditions}
    BY <2>6
  <2> QED
    BY <2>6, <2>7, <2>9, <2>10
<1>2. HealthInv /\ [Next]_vars =>
        [scope'.workloadHealthConditions # scope.workloadHealthConditions =>
            Of(scope') = scope'.refs]_vars
  BY <1>1
<1> QED
  BY <1>2, HealthInvariant, PTL DEF Spec, StatusIsOfTheseRefs

-------------------------------------------------------------------------------
(* What stays as it is is found to be that *)

\* What a goroutine goes on with, or sends, in the same terms.
Exact(r, n) == Unmoved(r) => IF n.at = "done" THEN n.status = Truth(r) ELSE TruthSoFar(r, n)

\* The judgement of one workload, by the state of its parts.
LEMMA AloneFacts ==
    ASSUME TypeOK, NEW o \in Objects
    PROVE  /\ Alone(o) \in HealthStatus
           /\ ~Exists(o) => Alone(o) = "Unhealthy"
           /\ Kind[o] \in WithChildren =>
                 /\ Alone(o) \in {"Healthy", "Unhealthy"}
                 /\ Alone(o) = "Healthy" <=>
                       /\ object[o] = "ready" /\ Len(Children[o]) = 2
                       /\ \A p \in Parts(o) : ~Ailing(p)
<1>1. /\ Kind[o] \in Kinds /\ object[o] \in {"absent", "unready", "ready"}
  BY ObjectsAssumption DEF TypeOK, State
<1>2. CASE Kind[o] \in WithChildren
  <2>1. Kind[o] \notin {"Service", "Other"} /\ Kind[o] \notin WithReplicas
    BY <1>2 DEF WithChildren, WithReplicas
  <2>2. Alone(o) = IF object[o] = "ready" /\ Len(Children[o]) = 2
                         /\ \A c \in ToSet(Children[o]) :
                               Kind[c] \in {"Deployment", "Service"} => ~Ailing(c)
                   THEN "Healthy" ELSE "Unhealthy"
    BY <1>2, <2>1 DEF Alone
  <2>3. object[o] = "ready" => ~Ailing(o)
    BY <2>1 DEF Ailing, Ails
  <2>4. object[o] = "ready" =>
            ((\A c \in ToSet(Children[o]) : Kind[c] \in {"Deployment", "Service"} => ~Ailing(c))
                <=> \A p \in Parts(o) : ~Ailing(p))
    BY <1>2, <2>3 DEF Parts
  <2> QED
    BY <2>2, <2>4 DEF HealthStatus, Exists
<1>3. CASE Kind[o] \in WithReplicas
  <2>1. Kind[o] \notin WithChildren /\ Kind[o] \notin {"Service", "Other"}
    BY <1>3 DEF WithReplicas, WithChildren
  <2>2. Alone(o) = IF Ailing(o) THEN "Unhealthy" ELSE "Healthy"
    BY <1>3, <2>1 DEF Alone
  <2> QED
    BY <2>1, <2>2 DEF HealthStatus, Ailing, Ails, Exists
<1>4. CASE Kind[o] \in {"Service", "Other"}
  <2>1. Kind[o] \notin WithChildren /\ Kind[o] \notin WithReplicas
    BY <1>4 DEF WithReplicas, WithChildren
  <2>2. Alone(o) = IF Ailing(o) THEN "Unhealthy" ELSE "Unknown"
    BY <2>1 DEF Alone
  <2> QED
    BY <1>4, <2>1, <2>2 DEF HealthStatus, Ailing, Ails, Exists
<1> QED
  BY <1>1, <1>2, <1>3, <1>4 DEF Kinds

\* One read judges a workload without children, or one that is not there.
LEMMA ReadIsTrue ==
    ASSUME TypeOK, NEW o \in Objects, Copy(o) = object[o],
           Kind[o] \notin WithChildren \/ ~Exists(o)
    PROVE  LET s == StatusRead(o, Exists(o)) IN
           /\ s \in HealthStatus
           /\ s = "Unhealthy" => Alone(o) = "Unhealthy"
           /\ s # "Unhealthy" /\ Exists(o) => s = Alone(o)
<1>1. Kind[o] \in Kinds
  BY ObjectsAssumption
<1>2. CASE Kind[o] \in WithChildren
  <2>1. StatusRead(o, Exists(o)) = "Unhealthy"
    BY <1>2 DEF StatusRead
  <2> QED
    BY <1>2, <2>1, AloneFacts DEF HealthStatus
<1>3. CASE Kind[o] \in WithReplicas
  <2>1. Kind[o] \notin WithChildren /\ Kind[o] \notin {"Service", "Other"}
    BY <1>3 DEF WithReplicas, WithChildren
  <2>2. Alone(o) = IF object[o] # "ready" THEN "Unhealthy" ELSE "Healthy"
    BY <1>3, <2>1 DEF Alone, Ailing, Ails
  <2>3. StatusRead(o, Exists(o)) = IF object[o] = "ready" THEN "Healthy" ELSE "Unhealthy"
    BY <1>3, <2>1 DEF StatusRead, Exists
  <2> QED
    BY <2>2, <2>3 DEF HealthStatus
<1>4. CASE Kind[o] \in {"Service", "Other"}
  <2>1. Kind[o] \notin WithChildren /\ Kind[o] \notin WithReplicas
    BY <1>4 DEF WithReplicas, WithChildren
  <2>2. Exists(o) => Alone(o) = "Unknown"
    BY <1>4, <2>1 DEF Alone, Ailing, Ails, Exists
  <2>3. StatusRead(o, Exists(o)) = "Unknown"
    BY <2>1 DEF StatusRead
  <2> QED
    BY <2>2, <2>3 DEF HealthStatus
<1> QED
  BY <1>1, <1>2, <1>3, <1>4 DEF Kinds

\* The truth about r, by what there is to judge.
LEMMA TruthFacts ==
    ASSUME NEW r
    PROVE  /\ \A o \in {r} \cup PeersNow(r) : Alone(o) = "Unhealthy" => Truth(r) = "Unhealthy"
           /\ (\A o \in {r} \cup PeersNow(r) : Alone(o) # "Unhealthy") => Truth(r) = Alone(r)
  BY DEF Truth

\* Only peers are left.
PeersLeftExact(r, c) ==
    /\ c.peers \subseteq PeersNow(r)
    /\ c.status = "Unhealthy" => Truth(r) = "Unhealthy"
    /\ c.status # "Unhealthy" =>
          c.status = Alone(r) /\ \A p \in PeersNow(r) \ c.peers : Alone(p) # "Unhealthy"

LEMMA NextPeerExact ==
    ASSUME NEW r \in Objects, NEW c \in Check, Unmoved(r) => PeersLeftExact(r, c)
    PROVE  NextPeer(c) \in Check /\ Exact(r, NextPeer(c))
<1> DEFINE n == NextPeer(c)
<1>0. r \notin PeersNow(r) /\ PeersNow(r) \subseteq Objects
  BY DEF PeersNow
<1>1. CASE c.peers = {}
  <2>1. n = [c EXCEPT !.at = "done", !.left = <<>>]
    BY <1>1 DEF NextPeer
  <2>2. <<>> \in Seq(Objects)
    BY EmptySeq
  <2>3. n \in Check /\ n.at = "done" /\ n.status = c.status
    BY <2>1, <2>2 DEF Check
  <2> HIDE DEF n
  <2>4. Unmoved(r) => c.status = Truth(r)
    BY <1>1, TruthFacts DEF PeersLeftExact
  <2> QED
    BY <2>3, <2>4 DEF Exact, n
<1>2. CASE c.peers # {}
  <2> DEFINE q == CHOOSE q \in c.peers : TRUE
  <2>1. q \in c.peers
    BY <1>2
  <2>2. n = [c EXCEPT !.at = "get", !.target = q, !.peers = @ \ {q}, !.left = <<>>]
    BY <1>2 DEF NextPeer
  <2>3. <<>> \in Seq(Objects)
    BY EmptySeq
  <2> HIDE DEF q
  <2>4. /\ n \in Check /\ n.at = "get" /\ n.target = q /\ n.peers = c.peers \ {q}
        /\ n.status = c.status
    <3>1. q \in Objects /\ c.peers \ {q} \in SUBSET Objects
      BY <2>1 DEF Check
    <3>2. n = [c EXCEPT !.at = "get", !.target = q, !.peers = c.peers \ {q}, !.left = <<>>]
      BY <2>2
    <3> HIDE DEF n
    <3> QED
      BY <2>3, <3>1, <3>2 DEF Check
  <2> HIDE DEF n
  <2>5. Unmoved(r) => q # r /\ q \in PeersNow(r)
    BY <1>0, <2>1 DEF PeersLeftExact
  <2>6. Unmoved(r) => TruthSoFar(r, n)
    BY <1>0, <2>1, <2>4, <2>5 DEF PeersLeftExact, TruthSoFar
  <2> QED
    BY <2>4, <2>6 DEF Exact, n
<1> QED
  BY <1>1, <1>2

\* The workload itself, or a peer, has just been judged.
TargetExact(r, c) ==
    IF c.target = r
    THEN /\ c.peers \subseteq PeersNow(r)
         /\ c.status = "Unhealthy" => Truth(r) = "Unhealthy"
         /\ c.status # "Unhealthy" /\ Exists(r) => c.status = Alone(r)
    ELSE PeersLeftExact(r, c)

LEMMA JudgedExact ==
    ASSUME NEW r \in Objects, NEW c \in Check, Unmoved(r) => TargetExact(r, c)
    PROVE  Judged(r, c) \in Check /\ Exact(r, Judged(r, c))
<1> DEFINE n == Judged(r, c)
<1>0. r \notin PeersNow(r)
  BY DEF PeersNow
<1>1. CASE c.target = r
  <2>1. n = [c EXCEPT !.at = "labels", !.left = <<>>]
    BY <1>1 DEF Judged
  <2>2. <<>> \in Seq(Objects)
    BY EmptySeq
  <2>3. /\ n \in Check /\ n.at = "labels" /\ n.target = c.target /\ n.peers = c.peers
        /\ n.status = c.status
    BY <2>1, <2>2 DEF Check
  <2> HIDE DEF n
  <2>4. Unmoved(r) => TruthSoFar(r, n)
    BY <1>0, <1>1, <2>3 DEF TargetExact, TruthSoFar
  <2> QED
    BY <2>3, <2>4 DEF Exact, n
<1>2. CASE c.target # r
  <2>1. n = NextPeer(c) /\ (Unmoved(r) => PeersLeftExact(r, c))
    BY <1>2 DEF Judged, TargetExact
  <2> QED
    BY <2>1, NextPeerExact
<1> QED
  BY <1>1, <1>2

\* A read that has not failed finds what is there, and no read before it failed.
LEMMA ReadIsRight ==
    ASSUME TypeOK, NEW there \in BOOLEAN, NEW found \in BOOLEAN, Read(there, found), ~probe'.failed
    PROVE  found = there /\ ~probe.failed
<1>1. probe' # [probe EXCEPT !.failed = TRUE]
  BY DEF TypeOK
<1> QED
  BY <1>1 DEF Read

\* The copy of an object that is steady is the object.
LEMMA SteadyCopy ==
    ASSUME HealthInv, probe.at = "check", NEW o \in Objects, o \in steady
    PROVE  Copy(o) = object[o]
  BY CopyFacts DEF steady

\* Where something moves, nothing is claimed.
LEMMA MovedExact ==
    ASSUME NEW r, ~Unmoved(r), \E n \in Check : Continue(r, n)
    PROVE  \E n \in Check : Continue(r, n) /\ Exact(r, n)
  BY DEF Exact

\* The record of a goroutine that goes on.
LEMMA ExactFacts ==
    ASSUME ProbeInv, NEW r \in DOMAIN checks, checks[r].at # "done", ~probe.failed
    PROVE  /\ HealthInv /\ TypeOK /\ r \in Objects /\ checks[r] \in Check
           /\ WalkInv(r, checks[r]) /\ checks[r].target \in Objects
           /\ Unmoved(r) => TruthSoFar(r, checks[r])
<1>1. HealthInv /\ r \in probe.refs
  BY CheckFacts DEF ProbeInv
<1>2. TypeOK /\ r \in Objects /\ checks[r] \in Check /\ WalkInv(r, checks[r])
  BY <1>1, CheckFacts DEF HealthInv
<1>3. TruthInv(r, checks[r])
  BY <1>1 DEF ProbeInv
<1> QED
  BY <1>1, <1>2, <1>3 DEF TruthInv, Check

LEMMA CheckWorkloadExact ==
    ASSUME ProbeInv, NEW r \in DOMAIN checks, CheckWorkload(r), ~probe'.failed
    PROVE  ~probe.failed /\ \E n \in Check : Continue(r, n) /\ Exact(r, n)
<1> DEFINE c == checks[r]
           o == c.target
<1>1. PICK found \in BOOLEAN :
          /\ Read(Copy(o) # "absent", found)
          /\ IF Kind[o] \notin WithChildren \/ ~found
             THEN Continue(r, Judged(r, WithStatus(r, c, StatusRead(o, found))))
             ELSE IF Len(ChildRefs(o)) # 2
             THEN Continue(r, Judged(r, WithStatus(r, c, "Unhealthy")))
             ELSE Continue(r, [WithStatus(r, c, "Healthy") EXCEPT
                                 !.at = "child", !.left = ChildRefs(o)])
  BY DEF CheckWorkload
<1>2. TypeOK /\ c.at = "get" /\ r \in Objects /\ o \in Objects
  BY CheckFacts DEF CheckWorkload, ProbeInv, HealthInv, Check
<1>f. found = (Copy(o) # "absent") /\ ~probe.failed
  BY <1>1, <1>2, ReadIsRight
<1>4. HealthInv /\ c \in Check /\ WalkInv(r, c) /\ (Unmoved(r) => TruthSoFar(r, c))
  BY <1>2, <1>f, ExactFacts
<1>m. CASE ~Unmoved(r)
  BY <1>f, <1>m, <1>4, CheckWorkloadKeeps, MovedExact
<1> SUFFICES ASSUME Unmoved(r)
             PROVE  ~probe.failed /\ \E n \in Check : Continue(r, n) /\ Exact(r, n)
  BY <1>m
<1>s. Copy(o) = object[o]
  <2>1. o \in {r} \cup PeersNow(r)
    BY <1>4 DEF TruthSoFar
  <2>2. o \in steady
    BY <2>1 DEF Unmoved, Parts
  <2> QED
    BY <1>2, <1>4, <2>2, SteadyCopy DEF CheckWorkload
<1>3. found = Exists(o) /\ ~probe.failed
  BY <1>f, <1>s DEF Exists
<1>5. r \notin PeersNow(r) /\ (\A p \in PeersNow(r) : Exists(p))
  BY DEF PeersNow, Exists
<1> HIDE DEF c, o
<1>o. o = c.target
  BY DEF o
<1>6. ASSUME NEW s \in HealthStatus,
             s = "Unhealthy" => Alone(o) = "Unhealthy",
             s # "Unhealthy" /\ Exists(o) => s = Alone(o)
      PROVE  /\ WithStatus(r, c, s) \in Check
             /\ Unmoved(r) => TargetExact(r, WithStatus(r, c, s))
  <2> DEFINE n == WithStatus(r, c, s)
  <2>1. /\ n \in Check /\ n.target = o /\ n.peers = c.peers
    BY <1>2, <1>4, <1>6, <1>o, WithStatusKeeps
  <2>2. n.status = IF o = r THEN s ELSE IF s = "Unhealthy" THEN "Unhealthy" ELSE c.status
    BY <1>4, <1>o DEF WithStatus, Merge, Worse, Check
  <2> HIDE DEF n
  <2>3. CASE o = r
    BY <1>2, <1>4, <1>5, <1>6, <1>o, <2>1, <2>2, <2>3, TruthFacts DEF TruthSoFar, TargetExact, n
  <2>4. CASE o # r
    <3> SUFFICES ASSUME Unmoved(r) PROVE PeersLeftExact(r, n)
      BY <2>1, <2>4 DEF TargetExact, n
    <3>1. o \in PeersNow(r) /\ c.peers \subseteq PeersNow(r)
      BY <1>4, <1>o, <2>4 DEF TruthSoFar
    <3>2. c.status # "Unhealthy" =>
              /\ c.status = Alone(r)
              /\ \A p \in PeersNow(r) \ (c.peers \cup {o}) : Alone(p) # "Unhealthy"
      BY <1>4, <1>o, <2>4 DEF TruthSoFar
    <3>3. c.status = "Unhealthy" => Truth(r) = "Unhealthy"
      BY <1>4 DEF TruthSoFar
    <3>4. s = "Unhealthy" => Truth(r) = "Unhealthy"
      BY <1>6, <3>1, TruthFacts
    <3>5. s # "Unhealthy" => Alone(o) # "Unhealthy"
      BY <1>5, <1>6, <3>1
    <3> QED
      BY <2>1, <2>2, <2>4, <3>1, <3>2, <3>3, <3>4, <3>5 DEF PeersLeftExact
  <2> QED
    BY <2>1, <2>3, <2>4 DEF n
<1>7. CASE Kind[o] \notin WithChildren \/ ~found
  <2> DEFINE s == StatusRead(o, found)
  <2>1. /\ s \in HealthStatus
        /\ s = "Unhealthy" => Alone(o) = "Unhealthy"
        /\ s # "Unhealthy" /\ Exists(o) => s = Alone(o)
    BY <1>2, <1>s, <1>3, <1>7, ReadIsTrue
  <2>2. Continue(r, Judged(r, WithStatus(r, c, s)))
    BY <1>1, <1>7 DEF c, o
  <2> HIDE DEF s
  <2> QED
    BY <1>2, <1>3, <1>6, <2>1, <2>2, JudgedExact
<1>8. CASE ~(Kind[o] \notin WithChildren \/ ~found) /\ Len(ChildRefs(o)) # 2
  <2>1. "Unhealthy" \in HealthStatus
    BY DEF HealthStatus
  <2>2. Alone(o) = "Unhealthy"
    BY <1>2, <1>s, <1>8, AloneFacts DEF ChildRefs
  <2>3. Continue(r, Judged(r, WithStatus(r, c, "Unhealthy")))
    BY <1>1, <1>8 DEF c, o
  <2> QED
    BY <1>2, <1>3, <1>6, <2>1, <2>2, <2>3, JudgedExact
<1>9. CASE ~(Kind[o] \notin WithChildren \/ ~found) /\ Len(ChildRefs(o)) = 2
  <2> DEFINE m == WithStatus(r, c, "Healthy")
             n == [m EXCEPT !.at = "child", !.left = ChildRefs(o)]
  <2>1. Continue(r, n)
    BY <1>1, <1>9 DEF c, o
  <2>2. "Healthy" \in HealthStatus
    BY DEF HealthStatus
  <2>3. m \in Check /\ m.target = o /\ m.peers = c.peers
    BY <1>2, <1>4, <1>o, <2>2, WithStatusKeeps
  <2>4. m.status = IF o = r THEN "Healthy" ELSE c.status
    BY <1>4, <1>o DEF WithStatus, Merge, Worse, Check
  <2>5. object[o] = "ready" /\ ChildRefs(o) = Children[o]
    <3>1. Len(<<>>) = 0
      BY EmptySeq
    <3> QED
      BY <1>s, <1>9, <3>1 DEF ChildRefs
  <2>6. Children[o] \in Seq(Objects) /\ Len(Children[o]) = 2
    BY <1>2, <1>9, <2>5, ObjectsAssumption
  <2> HIDE DEF m
  <2>7. /\ n \in Check /\ n.at = "child" /\ n.target = o /\ n.peers = c.peers
        /\ n.left = Children[o] /\ n.status = m.status
    BY <2>3, <2>5, <2>6 DEF Check
  <2> HIDE DEF n
  <2>8. \A p \in Parts(o) : p \in ToSet(Children[o]) \/ ~Ailing(p)
    <3>1. ~Ailing(o)
      BY <1>9, <2>5 DEF Ailing, Ails, WithChildren
    <3> QED
      BY <3>1 DEF Parts
  <2>9. Unmoved(r) => TruthSoFar(r, n)
    <3> SUFFICES ASSUME Unmoved(r) PROVE TruthSoFar(r, n)
      OBVIOUS
    <3>1. /\ c.peers \cup {o} \subseteq {r} \cup PeersNow(r) /\ r \notin c.peers
          /\ c.status = "Unhealthy" => Truth(r) = "Unhealthy"
          /\ o # r /\ c.status # "Unhealthy" =>
                /\ c.status = Alone(r)
                /\ \A p \in PeersNow(r) \ (c.peers \cup {o}) : Alone(p) # "Unhealthy"
      BY <1>4, <1>o DEF TruthSoFar
    <3> QED
      BY <2>4, <2>5, <2>6, <2>7, <2>8, <3>1 DEF TruthSoFar
  <2> QED
    BY <1>3, <2>1, <2>7, <2>9 DEF Exact
<1> QED
  BY <1>7, <1>8, <1>9

LEMMA CheckChildExact ==
    ASSUME ProbeInv, NEW r \in DOMAIN checks, CheckChild(r), ~probe'.failed
    PROVE  ~probe.failed /\ \E n \in Check : Continue(r, n) /\ Exact(r, n)
<1> DEFINE c == checks[r]
           o == Head(c.left)
           rest(found) == [c EXCEPT !.left = Tail(@), !.status = Worse(@, ChildHealthy(o, found))]
<1>1. PICK found \in BOOLEAN :
          /\ Read(Copy(o) # "absent", found)
          /\ Continue(r, IF Len(c.left) > 1 THEN rest(found) ELSE Judged(r, rest(found)))
  BY DEF CheckChild
<1>2. /\ TypeOK /\ r \in Objects /\ c \in Check /\ WalkInv(r, c) /\ c.at = "child"
      /\ c.left \in Seq(Objects) /\ c.left # <<>> /\ Kind[c.target] \in WithChildren
      /\ c.target \in Objects /\ c.status \in HealthStatus
  BY CheckFacts DEF ProbeInv, HealthInv, CheckChild, WalkInv, Check
<1>3. /\ o \in Objects /\ Tail(c.left) \in Seq(Objects) /\ Len(Tail(c.left)) = Len(c.left) - 1
      /\ ToSet(c.left) = {o} \cup ToSet(Tail(c.left))
  <2>1. /\ o \in Objects /\ Tail(c.left) \in Seq(Objects) /\ Len(Tail(c.left)) = Len(c.left) - 1
        /\ \A i \in 1..Len(Tail(c.left)) : Tail(c.left)[i] = c.left[i + 1]
    BY <1>2, HeadTailProperties
  <2>2. o = c.left[1] /\ Len(c.left) \in Nat /\ DOMAIN c.left = 1..Len(c.left)
        /\ DOMAIN Tail(c.left) = 1..Len(Tail(c.left))
    BY <1>2, <2>1, LenProperties
  <2>3. Len(c.left) >= 1
    BY <1>2, <2>2, EmptySeq
  <2> DEFINE all == c.left
             tl == Tail(c.left)
  <2> HIDE DEF all, tl
  <2>4. /\ DOMAIN all = 1..Len(all) /\ Len(all) \in Nat /\ Len(all) >= 1 /\ o = all[1]
        /\ DOMAIN tl = 1..(Len(all) - 1) /\ \A i \in 1..(Len(all) - 1) : tl[i] = all[i + 1]
    BY <2>1, <2>2, <2>3 DEF all, tl
  <2>5. ASSUME NEW i \in DOMAIN all PROVE all[i] \in {o} \cup ToSet(tl)
    <3>1. CASE i = 1
      BY <2>4, <3>1
    <3>2. CASE i # 1
      <4>1. i - 1 \in DOMAIN tl /\ tl[i - 1] = all[(i - 1) + 1] /\ (i - 1) + 1 = i
        BY <2>4, <2>5, <3>2
      <4> QED
        BY <4>1 DEF ToSet
    <3> QED
      BY <3>1, <3>2
  <2>6. ASSUME NEW i \in DOMAIN tl PROVE tl[i] \in ToSet(all)
    <3>1. i + 1 \in DOMAIN all /\ tl[i] = all[i + 1]
      BY <2>4, <2>6
    <3> QED
      BY <3>1 DEF ToSet
  <2>7. o \in ToSet(all)
    BY <2>4 DEF ToSet
  <2>8. ToSet(all) = {o} \cup ToSet(tl)
    BY <2>5, <2>6, <2>7 DEF ToSet
  <2> QED
    BY <2>1, <2>8 DEF all, tl
<1>4. found = (Copy(o) # "absent") /\ ~probe.failed
  BY <1>1, <1>2, <1>3, ReadIsRight
<1>5. HealthInv /\ (Unmoved(r) => TruthSoFar(r, c))
  BY <1>2, <1>4, ExactFacts
<1>m. CASE ~Unmoved(r)
  BY <1>4, <1>5, <1>m, CheckChildKeeps, MovedExact
<1> SUFFICES ASSUME Unmoved(r)
             PROVE  ~probe.failed /\ \E n \in Check : Continue(r, n) /\ Exact(r, n)
  BY <1>m
<1>s. Kind[o] \in {"Deployment", "Service"} => Copy(o) = object[o]
  <2>1. c.target \in {r} \cup PeersNow(r) /\ ToSet(c.left) \subseteq ToSet(Children[c.target])
    BY <1>2, <1>5 DEF TruthSoFar
  <2>2. ASSUME Kind[o] \in {"Deployment", "Service"} PROVE o \in steady
    <3>1. o \in ToSet(Children[c.target])
      BY <1>3, <2>1
    <3>2. o \in Parts(c.target)
      BY <1>2, <2>2, <3>1 DEF Parts
    <3> QED
      BY <2>1, <3>2 DEF Unmoved
  <2> QED
    BY <1>2, <1>3, <1>5, <2>2, SteadyCopy DEF CheckChild
<1> DEFINE n == rest(found)
           h == ChildHealthy(o, found)
<1>6. /\ n \in Check /\ n.at = "child" /\ n.target = c.target /\ n.peers = c.peers
      /\ n.left = Tail(c.left) /\ n.status = IF h THEN c.status ELSE "Unhealthy"
  BY <1>2, <1>3 DEF Check, Worse, HealthStatus
<1>7. /\ h => (Kind[o] \in {"Deployment", "Service"} => ~Ailing(o))
      /\ ~h => Kind[o] \in {"Deployment", "Service"} /\ Ailing(o)
  BY <1>s, <1>4 DEF ChildHealthy, Ailing, Ails
<1>8. Continue(r, IF Len(c.left) > 1 THEN n ELSE Judged(r, n))
  BY <1>1
<1> DEFINE left == c.left
           tail == Tail(c.left)
<1>9. /\ left = c.left /\ tail = Tail(c.left) /\ n.left = tail /\ ToSet(left) = {o} \cup ToSet(tail)
  BY <1>3, <1>6
<1> HIDE DEF n, c, o, h, left, tail
<1>10. ASSUME Unmoved(r)
       PROVE  /\ c.peers \cup {c.target} \subseteq {r} \cup PeersNow(r) /\ r \notin c.peers
              /\ object[c.target] = "ready" /\ Len(Children[c.target]) = 2
              /\ ToSet(left) \subseteq ToSet(Children[c.target])
              /\ c.status = "Unhealthy" => Truth(r) = "Unhealthy"
              /\ c.status # "Unhealthy" =>
                    /\ c.target = r => c.status = "Healthy"
                    /\ c.target # r => c.status = Alone(r)
                    /\ \A p \in Parts(c.target) : p \in ToSet(left) \/ ~Ailing(p)
                    /\ c.target # r => \A p \in PeersNow(r) \ (c.peers \cup {c.target}) :
                                          Alone(p) # "Unhealthy"
  BY <1>2, <1>5, <1>9, <1>10 DEF TruthSoFar
<1>11. ASSUME Unmoved(r), n.status = "Unhealthy" PROVE Truth(r) = "Unhealthy"
  <2>1. CASE c.status = "Unhealthy"
    BY <1>10, <1>11, <2>1
  <2>2. CASE ~h
    <3>1. o \in Parts(c.target) /\ Ailing(o)
      BY <1>2, <1>7, <1>9, <1>10, <1>11, <2>2 DEF Parts
    <3>2. Alone(c.target) = "Unhealthy"
      BY <1>2, <3>1, AloneFacts
    <3> QED
      BY <1>10, <1>11, <3>2, TruthFacts
  <2> QED
    BY <1>6, <1>11, <2>1, <2>2
<1>12. ASSUME Unmoved(r), n.status # "Unhealthy"
       PROVE  /\ c.status # "Unhealthy" /\ n.status = c.status
              /\ \A p \in Parts(c.target) : p \in ToSet(tail) \/ ~Ailing(p)
  <2>1. c.status # "Unhealthy" /\ n.status = c.status /\ h
    BY <1>6, <1>12
  <2>2. ASSUME NEW p \in Parts(c.target), p = o PROVE ~Ailing(p)
    <3>1. p = c.target \/ Kind[p] \in {"Deployment", "Service"}
      BY <2>2 DEF Parts
    <3>2. ~Ailing(c.target)
      BY <1>2, <1>10, <1>12 DEF Ailing, Ails, WithChildren
    <3> QED
      BY <1>7, <2>1, <2>2, <3>1, <3>2
  <2> QED
    BY <1>9, <1>10, <1>12, <2>1, <2>2
<1>13. CASE Len(c.left) > 1
  <2>1. Unmoved(r) => TruthSoFar(r, n)
    <3> SUFFICES ASSUME Unmoved(r) PROVE TruthSoFar(r, n)
      OBVIOUS
    <3>1. ToSet(tail) \subseteq ToSet(Children[c.target])
      BY <1>9, <1>10
    <3> QED
      BY <1>6, <1>9, <1>10, <1>11, <1>12, <3>1 DEF TruthSoFar
  <2> QED
    BY <1>4, <1>6, <1>8, <1>13, <2>1 DEF Exact
<1>14. CASE ~(Len(c.left) > 1)
  <2>1. ToSet(tail) = {}
    <3>1. Len(Tail(c.left)) <= 0 /\ DOMAIN Tail(c.left) = 1..Len(Tail(c.left))
          /\ Len(Tail(c.left)) \in Nat
      BY <1>2, <1>3, <1>14, LenProperties
    <3> QED
      BY <1>9, <3>1 DEF ToSet
  <2>2. ASSUME Unmoved(r), n.status # "Unhealthy" PROVE Alone(c.target) = "Healthy"
    BY <1>2, <1>10, <1>12, <2>1, <2>2, AloneFacts
  <2>3. Unmoved(r) => TargetExact(r, n)
    <3> SUFFICES ASSUME Unmoved(r) PROVE TargetExact(r, n)
      OBVIOUS
    <3>1. CASE c.target = r
      BY <1>6, <1>10, <1>11, <1>12, <2>2, <3>1 DEF TargetExact
    <3>2. CASE c.target # r
      BY <1>6, <1>10, <1>11, <1>12, <2>2, <3>2 DEF TargetExact, PeersLeftExact
    <3> QED
      BY <3>1, <3>2
  <2> QED
    BY <1>2, <1>4, <1>6, <1>8, <1>14, <2>3, JudgedExact
<1> QED
  BY <1>13, <1>14

LEMMA GetLabelsExact ==
    ASSUME ProbeInv, NEW r \in DOMAIN checks, GetLabels(r), ~probe'.failed
    PROVE  ~probe.failed /\ \E n \in Check : Continue(r, n) /\ Exact(r, n)
<1> DEFINE c == checks[r]
<1>1. PICK found \in BOOLEAN :
          /\ Read(Exists(r), found)
          /\ Continue(r, IF ~found THEN [c EXCEPT !.at = "done", !.status = "Unhealthy"]
                         ELSE IF Component[r] = NoLabels THEN NextPeer(c)
                         ELSE [c EXCEPT !.at = "list"])
  BY DEF GetLabels
<1>2. TypeOK /\ c.at = "labels" /\ r \in Objects
  BY CheckFacts DEF GetLabels, ProbeInv, HealthInv
<1>3. found = Exists(r) /\ ~probe.failed
  <2>1. Exists(r) \in BOOLEAN
    BY DEF Exists
  <2> QED
    BY <1>1, <1>2, <2>1, ReadIsRight
<1>4. c \in Check /\ WalkInv(r, c) /\ (Unmoved(r) => TruthSoFar(r, c))
  BY <1>2, <1>3, ExactFacts
<1>5. c.target = r
  BY <1>2, <1>4 DEF WalkInv
<1> HIDE DEF c
<1>6. Unmoved(r) =>
          /\ c.peers \subseteq PeersNow(r)
          /\ c.status = "Unhealthy" => Truth(r) = "Unhealthy"
          /\ c.status # "Unhealthy" /\ Exists(r) => c.status = Alone(r)
  BY <1>2, <1>4 DEF TruthSoFar
<1>7. CASE ~found
  <2> DEFINE n == [c EXCEPT !.at = "done", !.status = "Unhealthy"]
  <2>1. n \in Check /\ n.at = "done" /\ n.status = "Unhealthy"
    BY <1>4 DEF Check, HealthStatus
  <2>2. Continue(r, n)
    BY <1>1, <1>7 DEF c
  <2> HIDE DEF n
  <2>3. Truth(r) = "Unhealthy"
    BY <1>2, <1>3, <1>7, AloneFacts, TruthFacts
  <2> QED
    BY <1>3, <2>1, <2>2, <2>3 DEF Exact
<1>8. CASE found /\ Component[r] = NoLabels
  <2>1. PeersNow(r) = {}
    BY <1>8 DEF PeersNow
  <2>2. Unmoved(r) => PeersLeftExact(r, c)
    BY <1>3, <1>6, <1>8, <2>1 DEF PeersLeftExact
  <2>3. Continue(r, NextPeer(c))
    BY <1>1, <1>8 DEF c
  <2> QED
    BY <1>2, <1>3, <1>4, <2>2, <2>3, NextPeerExact
<1>9. CASE found /\ Component[r] # NoLabels
  <2> DEFINE n == [c EXCEPT !.at = "list"]
  <2>1. n \in Check /\ n.at = "list" /\ n.target = c.target /\ n.peers = c.peers /\ n.status = c.status
    BY <1>4 DEF Check
  <2>2. Continue(r, n)
    BY <1>1, <1>9 DEF c
  <2> HIDE DEF n
  <2>3. Unmoved(r) => TruthSoFar(r, n)
    <3>1. r \notin PeersNow(r)
      BY DEF PeersNow
    <3> QED
      BY <1>3, <1>5, <1>6, <1>9, <2>1, <3>1 DEF TruthSoFar
  <2> QED
    BY <1>3, <2>1, <2>2, <2>3 DEF Exact
<1> QED
  BY <1>7, <1>8, <1>9

LEMMA ListPeersExact ==
    ASSUME ProbeInv, NEW r \in DOMAIN checks, ListPeers(r), ~probe'.failed
    PROVE  ~probe.failed /\ \E n \in Check : Continue(r, n) /\ Exact(r, n)
<1> DEFINE c == checks[r]
           m == [c EXCEPT !.peers = PeersListed(r)]
<1>1. TypeOK /\ c.at = "list"
  BY DEF ListPeers, ProbeInv, HealthInv
<1>2. probe' # [probe EXCEPT !.failed = TRUE]
  BY <1>1 DEF TypeOK
<1>3. Continue(r, NextPeer(m)) /\ probe' = probe
  BY <1>2 DEF ListPeers
<1>4. r \in Objects /\ c \in Check /\ (Unmoved(r) => TruthSoFar(r, c))
  BY <1>1, <1>3, ExactFacts
<1>5. PeersListed(r) \in SUBSET Objects
  BY DEF PeersListed
<1> HIDE DEF c
<1>6. m \in Check /\ m.peers = PeersListed(r) /\ m.status = c.status
  BY <1>4, <1>5 DEF Check
<1>7. Unmoved(r) => PeersLeftExact(r, m)
  <2> SUFFICES ASSUME Unmoved(r) PROVE PeersLeftExact(r, m)
    OBVIOUS
  <2>1. /\ Component[r] # NoLabels
        /\ c.status = "Unhealthy" => Truth(r) = "Unhealthy"
        /\ c.status # "Unhealthy" => c.status = Alone(r)
    BY <1>1, <1>4 DEF TruthSoFar, c
  <2>2. PeersListed(r) = PeersNow(r)
    BY <2>1 DEF PeersListed, PeersNow, Exists
  <2> HIDE DEF m
  <2> QED
    BY <1>6, <2>1, <2>2 DEF PeersLeftExact
<1> HIDE DEF m
<1> QED
  BY <1>3, <1>4, <1>6, <1>7, NextPeerExact

\* An object that is steady after a step has not changed in it.
Lasting == \A o \in steady' : o \in steady /\ object'[o] = object[o]

\* What changes during a probe is no longer steady.
LEMMA ChangesLast ==
    ASSUME HealthInv, probe.at = "check", NEW o \in Objects, ObjectChanges(o)
    PROVE  Lasting
<1>1. PICK s \in State \ {object[o]} :
          /\ object' = [object EXCEPT ![o] = s]
          /\ window' = [window EXCEPT ![o] = @ \cup {s}]
  BY DEF ObjectChanges
<1>2. object \in [Objects -> State] /\ window \in [Objects -> SUBSET State]
  BY DEF HealthInv, TypeOK
<1>3. object[o] \in window'[o] /\ object'[o] = s /\ s # object[o]
  BY <1>1, <1>2, CopyFacts
<1>4. o \notin steady'
  BY <1>3 DEF steady
<1>5. \A p \in Objects : p # o => object'[p] = object[p] /\ window'[p] = window[p]
  BY <1>1, <1>2
<1> QED
  BY <1>4, <1>5 DEF Lasting, steady

\* What is true stays true while what decides it does not move.
LEMMA TruthLasts ==
    ASSUME TypeOK, Lasting, NEW r \in Objects, Unmoved(r)'
    PROVE  /\ Unmoved(r) /\ PeersNow(r)' = PeersNow(r)
           /\ \A o \in {r} \cup PeersNow(r) :
                 /\ object'[o] = object[o] /\ Alone(o)' = Alone(o)
                 /\ \A p \in Parts(o) : Ailing(p)' <=> Ailing(p)
           /\ Truth(r)' = Truth(r)
<1>1. PeersNow(r)' = PeersNow(r)
  <2>1. CASE Component[r] = NoLabels
    BY <2>1 DEF PeersNow
  <2>2. CASE Component[r] # NoLabels
    <3>1. \A o \in Objects : Component[o] = Component[r] => o \in steady'
      BY <2>2 DEF Unmoved
    <3>2. \A o \in Objects : Component[o] = Component[r] => object'[o] = object[o]
      BY <3>1 DEF Lasting
    <3> QED
      BY <3>2 DEF PeersNow
  <2> QED
    BY <2>1, <2>2
<1>2. \A o \in {r} \cup PeersNow(r) : Parts(o) \subseteq steady'
  BY <1>1 DEF Unmoved
<1>3. ASSUME NEW o \in {r} \cup PeersNow(r)
      PROVE  /\ o \in Objects /\ object'[o] = object[o]
             /\ \A p \in Parts(o) : Ailing(p)' <=> Ailing(p)
  <2>1. o \in Objects /\ o \in Parts(o)
    BY DEF PeersNow, Parts
  <2>2. \A p \in Parts(o) : object'[p] = object[p]
    BY <1>2 DEF Lasting
  <2> QED
    BY <2>1, <2>2 DEF Ailing, Ails
<1>4. ASSUME NEW o \in {r} \cup PeersNow(r)
      PROVE  Alone(o)' = Alone(o)
  <2>1. Ailing(o)' <=> Ailing(o)
    BY <1>3 DEF Parts
  <2>2. Kind[o] \in WithChildren =>
            \A c \in ToSet(Children[o]) :
                Kind[c] \in {"Deployment", "Service"} => (Ailing(c)' <=> Ailing(c))
    BY <1>3 DEF Parts
  <2>3. CASE Kind[o] \in WithChildren
    <3>1. (\A c \in ToSet(Children[o]) : Kind[c] \in {"Deployment", "Service"} => ~Ailing(c))'
             <=> \A c \in ToSet(Children[o]) : Kind[c] \in {"Deployment", "Service"} => ~Ailing(c)
      BY <2>2, <2>3
    <3>2. Kind[o] \notin WithReplicas
      BY <2>3 DEF WithChildren, WithReplicas
    <3> QED
      BY <1>3, <2>3, <3>1, <3>2 DEF Alone
  <2>4. CASE Kind[o] \notin WithChildren
    BY <2>1, <2>4 DEF Alone
  <2> QED
    BY <2>3, <2>4
<1>5. Unmoved(r)
  BY <1>1 DEF Unmoved, Lasting
<1>6. Truth(r)' = Truth(r)
  BY <1>1, <1>4 DEF Truth
<1> QED
  BY <1>1, <1>3, <1>4, <1>5, <1>6

LEMMA TruthSoFarLasts ==
    ASSUME TypeOK, Lasting, NEW r \in Objects, Unmoved(r)', NEW c, TruthSoFar(r, c)
    PROVE  TruthSoFar(r, c)'
<1>1. /\ PeersNow(r)' = PeersNow(r) /\ Truth(r)' = Truth(r)
      /\ \A o \in {r} \cup PeersNow(r) :
            /\ object'[o] = object[o] /\ Alone(o)' = Alone(o)
            /\ \A p \in Parts(o) : Ailing(p)' <=> Ailing(p)
  BY TruthLasts
<1>2. c.target \in {r} \cup PeersNow(r)
  BY DEF TruthSoFar
<1>3. Exists(r)' <=> Exists(r)
  BY <1>1 DEF Exists
<1>4. \A p \in PeersNow(r) : Alone(p)' = Alone(p)
  BY <1>1
<1>5. object'[c.target] = object[c.target] /\ \A p \in Parts(c.target) : Ailing(p)' <=> Ailing(p)
  BY <1>1, <1>2
<1> QED
  BY <1>1, <1>3, <1>4, <1>5 DEF TruthSoFar

\* What the goroutines go on with and have sent, as one.
TruthOK == (\A r \in probe.refs : TruthInv(r, checks[r])) /\ SentTruthInv

\* Steps that leave the goroutines alone, and of the objects only change such as then no longer
\* count as steady.
LEMMA TruthKept ==
    ASSUME ProbeInv, Lasting, UNCHANGED <<checks, conditions>>, probe'.refs = probe.refs,
           probe'.failed = probe.failed
    PROVE  TruthOK'
<1>1. TypeOK /\ SentInv /\ SentTruthInv /\ \A r \in probe.refs : r \in Objects /\ TruthInv(r, checks[r])
  BY ObjectsAssumption DEF ProbeInv, HealthInv, TypeOK
<1>2. ASSUME NEW q \in probe.refs, ~probe'.failed, checks[q].at # "done", Unmoved(q)'
      PROVE  TruthSoFar(q, checks[q])'
  <2>1. PICK k : k = checks[q]
    OBVIOUS
  <2>2. Unmoved(q)
    BY <1>1, <1>2, TruthLasts
  <2>3. TruthSoFar(q, k)
    BY <1>1, <1>2, <2>1, <2>2 DEF TruthInv
  <2>4. TruthSoFar(q, k)'
    BY <1>1, <1>2, <2>3, TruthSoFarLasts
  <2>5. checks'[q] = k
    BY <2>1
  <2> QED
    BY <2>4, <2>5 DEF TruthSoFar
<1>3. \A q \in probe'.refs : TruthInv(q, checks[q])'
  BY <1>2 DEF TruthInv
<1>4. ASSUME NEW i \in DOMAIN conditions, ~probe'.failed, Unmoved(conditions[i].targetWorkload)'
      PROVE  conditions[i].healthStatus = Truth(conditions[i].targetWorkload)'
  <2> DEFINE q == conditions[i].targetWorkload
  <2>1. q \in Objects
    BY <1>1 DEF SentInv
  <2>q. Unmoved(q)'
    BY <1>4
  <2>2. conditions[i].healthStatus = Truth(q) \/ ~Unmoved(q)
    BY <1>1, <1>4 DEF SentTruthInv
  <2>3. PICK k \in Objects : k = q
    BY <2>1
  <2>4. k = q'
    BY <2>3
  <2>5. Unmoved(k)'
    BY <2>4, <2>q DEF Unmoved, PeersNow
  <2>6. Unmoved(k) /\ Truth(k)' = Truth(k)
    BY <1>1, <2>5, TruthLasts
  <2>7. conditions[i].healthStatus = Truth(k)
    BY <2>2, <2>3, <2>6
  <2>8. conditions[i].healthStatus = Truth(k)'
    BY <2>6, <2>7
  <2> QED
    BY <2>4, <2>8 DEF Truth, PeersNow, Alone, Ailing, Ails, Exists, steady
<1>5. SentTruthInv'
  BY <1>4 DEF SentTruthInv
<1> QED
  BY <1>3, <1>5 DEF TruthOK

\* A goroutine goes on, or sends what it has found.
LEMMA GoroutineExact ==
    ASSUME ProbeInv, NEW r \in DOMAIN checks, checks[r].at # "done",
           UNCHANGED <<object, window>>, probe'.refs = probe.refs, probe'.failed = probe.failed,
           NEW n \in Check, Continue(r, n), Exact(r, n)
    PROVE  TruthOK'
<1> DEFINE sent == [targetWorkload |-> r, healthStatus |-> n.status]
           m == IF n.at = "done" THEN Finished(r) ELSE n
<1>1. /\ TypeOK /\ SentTruthInv /\ r \in probe.refs /\ r \in Objects
      /\ checks \in [probe.refs -> Check] /\ conditions \in Seq(WorkloadHealthCondition)
  BY CheckFacts DEF ProbeInv, HealthInv, TypeOK
<1>2. sent \in WorkloadHealthCondition /\ sent.targetWorkload = r /\ sent.healthStatus = n.status
  BY <1>1 DEF WorkloadHealthCondition, Check
<1>3. m.at # "done" => m = n /\ n.at # "done"
  BY <1>1, FinishedFacts
<1>4. checks' = [checks EXCEPT ![r] = m]
  BY DEF Continue
<1>5. conditions' = IF n.at # "done" THEN conditions ELSE Append(conditions, sent)
  BY DEF Continue
<1> HIDE DEF m, sent
<1>6. checks'[r] = m /\ \A q \in probe.refs : q # r => checks'[q] = checks[q]
  BY <1>1, <1>4
<1>7. ASSUME NEW q \in probe.refs
      PROVE  TruthInv(q, checks'[q])
  <2>1. CASE q = r
    BY <1>3, <1>6, <2>1 DEF TruthInv, Exact
  <2>2. CASE q # r
    BY <1>6, <1>7, <2>2 DEF ProbeInv
  <2> QED
    BY <2>1, <2>2
<1>8. \A q \in probe'.refs : TruthInv(q, checks[q])'
  BY <1>7 DEF TruthInv, TruthSoFar, Truth, Unmoved, PeersNow, Alone, Ailing, Ails, Exists, steady
<1>9. ASSUME NEW i \in DOMAIN conditions', ~probe.failed, Unmoved(conditions'[i].targetWorkload)
      PROVE  conditions'[i].healthStatus = Truth(conditions'[i].targetWorkload)
  <2>1. CASE n.at # "done"
    BY <1>1, <1>5, <1>9, <2>1 DEF SentTruthInv
  <2>2. CASE n.at = "done"
    <3>1. /\ Len(conditions) \in Nat /\ DOMAIN conditions = 1..Len(conditions)
          /\ conditions' = Append(conditions, sent)
      BY <1>1, <1>5, <2>2, LenProperties
    <3>2. /\ Len(conditions') = Len(conditions) + 1 /\ conditions'[Len(conditions) + 1] = sent
          /\ \A j \in DOMAIN conditions : conditions'[j] = conditions[j]
          /\ conditions' \in Seq(WorkloadHealthCondition)
      BY <1>1, <1>2, <3>1, AppendProperties
    <3>3. DOMAIN conditions' = 1..(Len(conditions) + 1)
      BY <3>1, <3>2, LenProperties
    <3>4. i \in DOMAIN conditions \/ i = Len(conditions) + 1
      BY <1>9, <3>1, <3>3
    <3>5. CASE i = Len(conditions) + 1
      BY <1>2, <1>9, <2>2, <3>2, <3>5 DEF Exact
    <3>6. CASE i \in DOMAIN conditions
      BY <1>1, <1>9, <3>2, <3>6 DEF SentTruthInv
    <3> QED
      BY <3>4, <3>5, <3>6
  <2> QED
    BY <2>1, <2>2
<1>10. SentTruthInv'
  BY <1>9 DEF SentTruthInv, Truth, Unmoved, PeersNow, Alone, Ailing, Ails, Exists, steady
<1> QED
  BY <1>8, <1>10 DEF TruthOK

LEMMA GoroutineTruth ==
    ASSUME ProbeInv, NEW r \in DOMAIN checks,
           CheckWorkload(r) \/ CheckChild(r) \/ GetLabels(r) \/ ListPeers(r)
    PROVE  TruthOK'
<1>1. UNCHANGED <<object, window>> /\ checks[r].at # "done"
  BY DEF CheckWorkload, CheckChild, GetLabels, ListPeers, world
<1>2. probe' = probe \/ probe' = [probe EXCEPT !.failed = TRUE]
  BY DEF CheckWorkload, CheckChild, GetLabels, ListPeers, Read
<1>3. probe \in [at : {"idle", "check"}, refs : RefSets \cup {{}},
                 current : BOOLEAN, failed : BOOLEAN]
  BY DEF ProbeInv, HealthInv, TypeOK
<1>4. probe'.refs = probe.refs /\ (probe'.failed = probe.failed \/ probe'.failed)
  BY <1>2, <1>3
<1>5. CASE probe'.failed
  BY <1>5 DEF TruthOK, TruthInv, SentTruthInv
<1>6. CASE ~probe'.failed
  <2>1. ~probe.failed /\ \E n \in Check : Continue(r, n) /\ Exact(r, n)
    BY <1>6, CheckWorkloadExact, CheckChildExact, GetLabelsExact, ListPeersExact
  <2>2. probe'.failed = probe.failed
    BY <1>4, <1>6
  <2> QED
    BY <1>1, <1>4, <2>1, <2>2, GoroutineExact
<1> QED
  BY <1>5, <1>6

\* At the start of a probe, and between two, nothing has been found yet.
LEMMA NothingFound ==
    ASSUME NEW refs \in SUBSET Objects, probe'.refs = refs, conditions' = <<>>,
           \A o \in refs : checks'[o] = Started(o)
    PROVE  TruthOK'
<1>1. DOMAIN conditions' = {}
  <2>1. conditions' \in Seq(WorkloadHealthCondition) /\ Len(conditions') = 0
    BY EmptySeq
  <2>2. DOMAIN conditions' = 1..0
    BY <2>1, LenProperties
  <2> QED
    BY <2>1, <2>2
<1>2. ASSUME NEW o \in refs
      PROVE  TruthSoFar(o, checks[o])'
  <2>1. /\ checks'[o].at = "get" /\ checks'[o].target = o /\ checks'[o].peers = {}
        /\ checks'[o].status = "Unknown"
    <3>1. checks'[o] = Started(o)
      BY <1>2
    <3>2. /\ Started(o).at = "get" /\ Started(o).target = o /\ Started(o).peers = {}
          /\ Started(o).status = "Unknown"
      BY DEF Started
    <3> QED
      BY <3>1, <3>2
  <2> QED
    BY <2>1 DEF TruthSoFar
<1> QED
  BY <1>1, <1>2 DEF TruthOK, TruthInv, SentTruthInv

LEMMA ProbeSteps ==
    ASSUME ProbeInv, [Next]_vars
    PROVE  TruthOK'
<1>0. HealthInv /\ TypeOK /\ SentInv
  BY DEF ProbeInv, HealthInv
<1>1. ASSUME NEW o \in Objects, ObjectChanges(o) PROVE TruthOK'
  <2>1. UNCHANGED <<probe, checks, conditions>>
    BY <1>1 DEF ObjectChanges
  <2>2. CASE probe.at = "check"
    <3>1. Lasting
      BY <1>0, <1>1, <2>2, ChangesLast
    <3> QED
      BY <2>1, <3>1, TruthKept
  <2>3. CASE probe.at # "check"
    <3>1. probe.refs = {}
      BY <1>0, <2>3 DEF TypeOK, SentInv
    <3>2. DOMAIN conditions = {}
      BY <1>0, <3>1 DEF SentInv
    <3> QED
      BY <2>1, <3>1, <3>2 DEF TruthOK, SentTruthInv
  <2> QED
    BY <2>2, <2>3
<1>2. CASE EditScope
  <2>1. UNCHANGED <<object, window, checks, conditions>> /\ probe' = [probe EXCEPT !.current = FALSE]
    BY <1>2 DEF EditScope, world
  <2>2. probe'.refs = probe.refs /\ probe'.failed = probe.failed
    BY <1>0, <2>1 DEF TypeOK
  <2> QED
    BY <2>1, <2>2, TruthKept DEF Lasting, steady
<1>3. CASE \/ \E o \in Objects : ObjectSync(o)
           \/ CacheSync \/ IntervalElapses \/ Resync \/ UNCHANGED vars
  <2>1. UNCHANGED <<object, window, probe, checks, conditions>>
    BY <1>3 DEF ObjectSync, CacheSync, IntervalElapses, Resync, vars, world, run
  <2> QED
    BY <2>1, TruthKept DEF Lasting, steady
<1>4. CASE Reconcile
  <2>1. CASE ~cached.exists
    <3>1. UNCHANGED <<object, window, probe, checks, conditions>>
      BY <1>4, <2>1 DEF Reconcile, run, world
    <3> QED
      BY <3>1, TruthKept DEF Lasting, steady
  <2>2. CASE cached.exists
    <3>1. cached.refs \in SUBSET Objects
      BY <1>0, ObjectsAssumption DEF TypeOK
    <3>2. /\ probe'.refs = cached.refs /\ conditions' = <<>>
          /\ checks' = [o \in cached.refs |-> Started(o)]
      BY <1>4, <2>2 DEF Reconcile
    <3> QED
      BY <3>1, <3>2, NothingFound
  <2> QED
    BY <2>1, <2>2
<1>5. CASE UpdateStatus
  <2>1. probe'.refs = {} /\ conditions' = <<>>
    BY <1>5 DEF UpdateStatus, Idle
  <2> QED
    BY <2>1, NothingFound
<1>6. CASE \E r \in DOMAIN checks :
              CheckWorkload(r) \/ CheckChild(r) \/ GetLabels(r) \/ ListPeers(r)
  BY <1>6, GoroutineTruth
<1> QED
  BY <1>1, <1>2, <1>3, <1>4, <1>5, <1>6 DEF Next, Step

\* The inductive invariant of the probe in both directions: what HealthInv says, and where every
\* goroutine is in finding out the truth about a workload nothing of which moves.
THEOREM ProbeInvariant == Spec => []ProbeInv
<1>1. Init => ProbeInv
  <2> SUFFICES ASSUME Init PROVE ProbeInv
    OBVIOUS
  <2>1. HealthInv /\ probe.refs = {}
    BY InitInv DEF Init, Idle
  <2>2. DOMAIN conditions = {}
    BY <2>1 DEF HealthInv, SentInv
  <2> QED
    BY <2>1, <2>2 DEF ProbeInv, SentTruthInv
<1>2. ProbeInv /\ [Next]_vars => ProbeInv'
  <2> SUFFICES ASSUME ProbeInv, [Next]_vars PROVE ProbeInv'
    OBVIOUS
  <2>1. HealthInv'
    BY NextKeepsInv DEF ProbeInv
  <2> QED
    BY <2>1, ProbeSteps DEF ProbeInv, TruthOK
<1> QED
  BY <1>1, <1>2, PTL DEF Spec

\* GetScopeHealthStatus without a failed read: a workload whose parts and peers stay as they are
\* during the probe, and had reached the informers' cache before, is reported to be exactly what it is, whatever else changes meanwhile.
THEOREM TruthIsFound == Spec => []TruthFound
<1>1. ProbeInv => TruthFound
  BY DEF ProbeInv, SentTruthInv, TruthFound
<1> QED
  BY <1>1, ProbeInvariant, PTL
=============================================================================
