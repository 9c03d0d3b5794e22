--------------------------- MODULE ManualScalerProofs ---------------------------
(***************************************************************************)
(* For any workloads, counts and number of disturbances: a success on      *)
(* which the controller of the trait has come to rest is true, and what it *)
(* does to a Deployment leaves the promises of WorkloadChild intact.       *)
(***************************************************************************)
EXTENDS ManualScaler, TLAPS

-------------------------------------------------------------------------------
(* Types of what the actions write *)

\* A trait with another condition is a trait.
LEMMA ConditionType ==
    ASSUME NEW t \in Trait, NEW c \in Conditions
    PROVE  [t EXCEPT !.condition = c] \in Trait
  BY DEF Trait

\* A write of the trait.
LEMMA WrittenType ==
    ASSUME TypeOK, NEW t \in Trait, Written(t)
    PROVE  /\ trait' = t
           /\ trait' \in Trait
           /\ cache' \in [trait : Trait, current : BOOLEAN]
           /\ ~cache'.current /\ cache'.trait = cache.trait
  BY DEF TypeOK, Written

\* PatchCondition writes the condition, or nothing if the reconciliation's copy has it.
LEMMA PatchConditionType ==
    ASSUME TypeOK, NEW c \in Conditions, PatchCondition(c)
    PROVE  /\ trait' \in Trait
           /\ cache' \in [trait : Trait, current : BOOLEAN]
           /\ \/ ~cache'.current /\ cache'.trait = cache.trait
              \/ UNCHANGED <<trait, cache>> /\ c = run.trait.condition
<1>1. CASE c = run.trait.condition
  BY <1>1 DEF PatchCondition, TypeOK
<1>2. CASE c # run.trait.condition
  <2>1. [trait EXCEPT !.condition = c] \in Trait
    BY ConditionType DEF TypeOK
  <2> QED
    BY <1>2, <2>1, WrittenType DEF PatchCondition
<1> QED
  BY <1>1, <1>2

\* Fail ends the reconciliation and brings the trait again.
LEMMA FailType ==
    ASSUME TypeOK, NEW c \in Conditions, Fail(c)
    PROVE  /\ trait' \in Trait
           /\ cache' \in [trait : Trait, current : BOOLEAN]
           /\ \/ ~cache'.current /\ cache'.trait = cache.trait
              \/ UNCHANGED <<trait, cache>>
           /\ run' = Idle /\ queued' = TRUE
<1>1. CASE trait.exists /\ PatchCondition(c)
  BY <1>1, PatchConditionType DEF Fail
<1>2. CASE UNCHANGED <<trait, cache>>
  BY <1>2 DEF Fail, TypeOK
<1> QED
  BY <1>1, <1>2 DEF Fail

\* The bound on disturbances is kept.
LEMMA CallFailsType ==
    ASSUME TypeOK, NEW reason, CallFails(reason)
    PROVE  events' \in 0..MaxEvents
  BY ScalerAssumption DEF TypeOK, CallFails, Event

\* The reconciliation when nothing is under way.
LEMMA IdleType == Idle \in Run
  BY DEF Idle, Run

\* What a patch makes of an object that is there.
LEMMA PatchedType ==
    ASSUME TypeOK, run.seen \in Object, run.trait \in Trait, NEW o \in Object
    PROVE  Patched(o) \in Object
  BY DEF Patched, OwnersPatched, Object, Owners, Trait

-------------------------------------------------------------------------------
(* Each action keeps the types *)

LEMMA TypeStep ==
    ASSUME ScalerInv, [Next]_vars
    PROVE  TypeOK'
<1>0. TypeOK /\ RunInv
  BY DEF ScalerInv
<1> USE <1>0, ScalerAssumption
<1>c. \A c \in {"noWorkload", "noChildren", "notScaled", "success"} : c \in Conditions
  BY DEF Conditions
<1>1. CASE ChangeTrait
  <2>1. /\ \A r \in Replicas : [trait EXCEPT !.replicas = r] \in Trait
        /\ \A w \in Workloads : [trait EXCEPT !.workload = w] \in Trait
        /\ [trait EXCEPT !.exists = FALSE] \in Trait
    BY DEF TypeOK, Trait
  <2>2. \E t \in Trait : Written(t)
    BY <1>1, <2>1 DEF ChangeTrait
  <2>3. trait' \in Trait /\ cache' \in [trait : Trait, current : BOOLEAN]
    BY <2>2, WrittenType
  <2> QED
    BY <1>1, <2>3 DEF TypeOK, ChangeTrait, Event, cluster
<1>2. ASSUME NEW w \in Workloads, DeleteWorkload(w) PROVE TypeOK'
  BY <1>2 DEF TypeOK, DeleteWorkload, Event
<1>3. ASSUME NEW w \in Workloads, CreateChild(w) PROVE TypeOK'
  BY <1>3 DEF TypeOK, CreateChild, Fresh, Object, Owners
<1>4. ASSUME NEW w \in Workloads, Disturb(w) PROVE TypeOK'
  BY <1>4 DEF TypeOK, Disturb, Event, Object
<1>5. ASSUME NEW w \in Workloads, CollectChild(w) PROVE TypeOK'
  BY <1>5 DEF TypeOK, CollectChild
<1>6. CASE DefineWorkload
  BY <1>6 DEF TypeOK, DefineWorkload, Event
<1>7. CASE Deliver
  BY <1>7 DEF TypeOK, Deliver, cluster
<1>8. CASE Resync
  BY <1>8 DEF TypeOK, Resync, cluster
<1>9. CASE Begin
  BY <1>9 DEF TypeOK, Begin, cluster, Run
<1>10. CASE FetchWorkload
  <2>1. CASE run.trait.workload \in workloads /\ run'.at = "list"
    <3>1. run' \in Run
      BY <1>10, <2>1, IdleType DEF FetchWorkload, TypeOK, Run, Fail, Idle
    <3> QED
      BY <1>10, <2>1, <3>1 DEF FetchWorkload, TypeOK, cluster, Fail, Idle
  <2>2. CASE CallFails(run.trait.workload \notin workloads) /\ Fail("noWorkload")
    <3>1. /\ trait' \in Trait /\ cache' \in [trait : Trait, current : BOOLEAN]
          /\ run' = Idle /\ queued' = TRUE
      BY <1>c, <2>2, FailType
    <3> QED
      BY <1>10, <2>2, <3>1, IdleType DEF FetchWorkload, TypeOK, cluster, CallFails, Event
  <2> QED
    BY <1>10, <2>1, <2>2 DEF FetchWorkload, TypeOK, Run
<1>11. CASE FetchChildren
  <2>1. CASE Event /\ Fail("noChildren")
    <3>1. /\ trait' \in Trait /\ cache' \in [trait : Trait, current : BOOLEAN]
          /\ run' = Idle /\ queued' = TRUE
      BY <1>c, <2>1, FailType
    <3> QED
      BY <1>11, <2>1, <3>1, IdleType DEF FetchChildren, TypeOK, cluster, Event
  <2>2. CASE ~(Event /\ Fail("noChildren"))
    <3>1. run' \in Run
      BY ZenonT(40), <1>11, <2>2 DEF FetchChildren, TypeOK, Run, RunInv, Trait
    <3> QED
      BY <1>11, <2>2, <3>1 DEF FetchChildren, TypeOK, cluster
  <2> QED
    BY <2>1, <2>2
<1>12. CASE ScaleResources
  <2>1. run' \in Run
    BY <1>12 DEF ScaleResources, TypeOK, Run, AfterFailure
  <2>2. object' \in [Workloads -> Object \cup {NoObject}]
    <3>1. ASSUME Found, object[run.trait.workload] # NoObject
          PROVE  Patched(object[run.trait.workload]) \in Object
      BY <1>12, <3>1, PatchedType DEF ScaleResources, RunInv, TypeOK, Run, Found, Trait
    <3> QED
      BY <1>12, <3>1 DEF ScaleResources, TypeOK, RunInv
  <2> QED
    BY <1>12, <2>1, <2>2 DEF ScaleResources, TypeOK, CallFails, Event
<1>13. CASE ReportFailure
  <2>1. run' \in Run
    BY ZenonT(40), <1>13, IdleType, ConditionType DEF ReportFailure, RunInv, TypeOK, Run, Conditions
  <2>2. trait' \in Trait /\ cache' \in [trait : Trait, current : BOOLEAN]
    <3>1. CASE PatchCondition("notScaled")
      BY <1>c, <3>1, PatchConditionType
    <3>2. CASE UNCHANGED <<trait, cache>>
      BY <3>2 DEF TypeOK
    <3> QED
      BY <1>13, <3>1, <3>2 DEF ReportFailure
  <2>3. events' \in 0..MaxEvents /\ queued' \in BOOLEAN
    BY <1>13, CallFailsType DEF ReportFailure, TypeOK
  <2>4. UNCHANGED <<workloads, defined, object, disturbed>>
    BY <1>13 DEF ReportFailure, cluster
  <2> QED
    BY <2>1, <2>2, <2>3, <2>4 DEF TypeOK
<1>14. CASE ReportSuccess
  <2>1. trait' \in Trait /\ cache' \in [trait : Trait, current : BOOLEAN]
    <3>1. CASE PatchCondition("success")
      BY <1>c, <3>1, PatchConditionType
    <3>2. CASE UNCHANGED <<trait, cache>>
      BY <3>2 DEF TypeOK
    <3> QED
      BY <1>14, <3>1, <3>2 DEF ReportSuccess
  <2>2. events' \in 0..MaxEvents /\ queued' \in BOOLEAN
    BY <1>14, CallFailsType DEF ReportSuccess, TypeOK
  <2>3. UNCHANGED <<workloads, defined, object, disturbed>> /\ run' \in Run
    BY <1>14, IdleType DEF ReportSuccess, cluster
  <2> QED
    BY <2>1, <2>2, <2>3 DEF TypeOK
<1>15. CASE Restart
  BY <1>15, IdleType DEF TypeOK, Restart, Event, cluster
<1>16. CASE UNCHANGED vars
  BY <1>16 DEF TypeOK, vars
<1> QED
  BY <1>1, <1>2, <1>3, <1>4, <1>5, <1>6, <1>7, <1>8, <1>9, <1>10, <1>11, <1>12, <1>13, <1>14,
     <1>15, <1>16 DEF Next, Control

-------------------------------------------------------------------------------
(* A reconciliation works on the trait as it is, unless an event is on its way *)

LEMMA RunStep ==
    ASSUME ScalerInv, [Next]_vars
    PROVE  RunInv'
<1>0. TypeOK /\ RunInv
  BY DEF ScalerInv
<1> USE <1>0
<1>c. \A c \in {"noWorkload", "noChildren", "notScaled", "success"} : c \in Conditions
  BY DEF Conditions
<1>i. ASSUME run' = Idle,
             \/ ~cache'.current /\ cache'.trait = cache.trait
             \/ UNCHANGED <<trait, cache>>
      PROVE  RunInv'
  BY <1>i DEF RunInv, Idle
<1>1. CASE ChangeTrait
  <2>1. \E t : Written(t)
    BY <1>1 DEF ChangeTrait
  <2>2. ~cache'.current /\ UNCHANGED <<run, queued>>
    BY <1>1, <2>1 DEF ChangeTrait, Written, TypeOK
  <2> QED
    BY <2>2 DEF RunInv
<1>2. ASSUME NEW w \in Workloads,
             DeleteWorkload(w) \/ CreateChild(w) \/ Disturb(w) \/ CollectChild(w)
      PROVE  RunInv'
  BY <1>2 DEF RunInv, DeleteWorkload, CreateChild, Disturb, CollectChild
<1>3. CASE DefineWorkload
  BY <1>3 DEF RunInv, DefineWorkload
<1>4. CASE Deliver \/ Resync
  BY <1>4 DEF RunInv, Deliver, Resync
<1>5. CASE Begin
  BY <1>5 DEF RunInv, Begin, TypeOK
<1>6. CASE FetchWorkload
  <2>1. CASE Fail("noWorkload")
    BY <1>c, <1>i, <2>1, FailType
  <2>2. CASE ~Fail("noWorkload")
    <3>1. UNCHANGED <<trait, cache, queued>> /\ run.at # "idle" /\ run'.trait = run.trait
      BY <1>6, <2>2 DEF FetchWorkload, TypeOK, Run
    <3> QED
      BY <3>1 DEF RunInv
  <2> QED
    BY <2>1, <2>2
<1>7. CASE FetchChildren
  <2>1. CASE Fail("noChildren")
    BY <1>c, <1>i, <2>1, FailType
  <2>2. CASE ~Fail("noChildren")
    <3>1. UNCHANGED <<trait, cache, queued>> /\ run.at # "idle" /\ run'.trait = run.trait
      BY <1>7, <2>2 DEF FetchChildren, TypeOK, Run
    <3> QED
      BY <3>1 DEF RunInv
  <2> QED
    BY <2>1, <2>2
<1>8. CASE ScaleResources
  <2>1. UNCHANGED <<trait, cache, queued>> /\ run.at # "idle" /\ run'.trait = run.trait
    BY <1>8 DEF ScaleResources, TypeOK, Run
  <2> QED
    BY <2>1 DEF RunInv
<1>9. CASE ReportFailure
  <2>1. CASE run' = Idle /\ UNCHANGED <<trait, cache>>
    BY <1>i, <2>1
  <2>2. CASE PatchCondition("notScaled") /\ run'.trait = [run.trait EXCEPT !.condition = "notScaled"]
             /\ UNCHANGED queued
    <3>1. run.trait \in Trait /\ (~queued /\ cache.current => run.trait = trait)
      BY <1>9 DEF ReportFailure, RunInv
    <3>2. run'.trait \in Trait
      BY <1>c, <2>2, <3>1, ConditionType
    <3>3. CASE ~cache'.current
      BY <3>2, <3>3 DEF RunInv
    <3>4. CASE UNCHANGED <<trait, cache>> /\ "notScaled" = run.trait.condition
      <4>1. run'.trait = run.trait
        BY <2>2, <3>1, <3>4 DEF Trait
      <4> QED
        BY <2>2, <3>1, <3>4, <4>1 DEF RunInv
    <3> QED
      BY <1>c, <2>2, <3>3, <3>4, PatchConditionType
  <2> QED
    BY <1>9, <2>1, <2>2 DEF ReportFailure, TypeOK, Run
<1>10. CASE ReportSuccess
  <2>1. CASE PatchCondition("success")
    BY <1>10, <1>c, <1>i, <2>1, PatchConditionType DEF ReportSuccess
  <2> QED
    BY <1>10, <1>i, <2>1 DEF ReportSuccess
<1>11. CASE Restart
  BY <1>11 DEF Restart, RunInv, Idle
<1>12. CASE UNCHANGED vars
  BY <1>12 DEF RunInv, vars
<1> QED
  BY <1>1, <1>2, <1>3, <1>4, <1>5, <1>6, <1>7, <1>8, <1>9, <1>10, <1>11, <1>12 DEF Next, Control

-------------------------------------------------------------------------------
(* Whatever is patched, the workload stays the first owner *)

LEMMA OwnerStep ==
    ASSUME ScalerInv, [Next]_vars
    PROVE  OwnerInv'
<1>0. TypeOK /\ RunInv /\ OwnerInv
  BY DEF ScalerInv
<1> USE <1>0
<1>i. ASSUME UNCHANGED object, run' = Idle \/ UNCHANGED run
      PROVE  OwnerInv'
  BY <1>i DEF OwnerInv, Idle
<1>1. CASE ChangeTrait \/ DefineWorkload \/ Deliver \/ Resync \/ ReportSuccess \/ Restart
  BY <1>1, <1>i DEF ChangeTrait, DefineWorkload, Deliver, Resync, ReportSuccess, Restart, cluster
<1>2. ASSUME NEW w \in Workloads, DeleteWorkload(w) \/ CreateChild(w) \/ CollectChild(w)
      PROVE  OwnerInv'
  BY <1>2 DEF OwnerInv, DeleteWorkload, CreateChild, CollectChild, TypeOK, Fresh
<1>3. ASSUME NEW w \in Workloads, Disturb(w)
      PROVE  OwnerInv'
  BY <1>3 DEF OwnerInv, Disturb, TypeOK, Object
<1>4. CASE Begin
  BY <1>4 DEF OwnerInv, Begin, cluster
<1>5. CASE FetchWorkload
  <2>1. CASE Fail("noWorkload")
    BY <1>5, <1>i, <2>1 DEF Fail, FetchWorkload, cluster
  <2>2. CASE ~Fail("noWorkload")
    BY ZenonT(40), <1>5, <2>2 DEF FetchWorkload, OwnerInv, RunInv, TypeOK, Run, Trait, cluster
  <2> QED
    BY <2>1, <2>2
<1>6. CASE FetchChildren
  <2>1. CASE Fail("noChildren")
    BY <1>6, <1>i, <2>1 DEF Fail, FetchChildren, cluster
  <2>2. CASE ~Fail("noChildren")
    BY <1>6, <2>2 DEF FetchChildren, OwnerInv, RunInv, TypeOK, Run, Trait, cluster
  <2> QED
    BY <2>1, <2>2
<1>7. CASE ScaleResources
  <2>1. run'.seen = run.seen
    BY <1>7 DEF ScaleResources, TypeOK, Run
  <2>2. CASE UNCHANGED object
    BY <2>1, <2>2 DEF OwnerInv
  <2>3. CASE object' # object
    <3>1. run.seen # NoObject /\ object[run.trait.workload] # NoObject
      BY <1>7, <2>3 DEF ScaleResources, Found
    <3>2. object' = [object EXCEPT ![run.trait.workload] = Patched(@)]
      BY <1>7, <2>3 DEF ScaleResources
    <3>3. "workload" \in Patched(object[run.trait.workload]).owners
      BY <1>7, <3>1 DEF ScaleResources, OwnerInv, Patched, OwnersPatched, RunInv, Trait
    <3> QED
      BY <2>1, <3>2, <3>3 DEF OwnerInv, TypeOK
  <2> QED
    BY <2>2, <2>3
<1>8. CASE ReportFailure
  <2>1. CASE run' = Idle
    BY <1>8, <1>i, <2>1 DEF ReportFailure, cluster
  <2>2. CASE run'.seen = run.seen
    BY <1>8, <2>2 DEF ReportFailure, cluster, OwnerInv
  <2> QED
    BY <1>8, <2>1, <2>2 DEF ReportFailure, TypeOK, Run
<1>9. CASE UNCHANGED vars
  BY <1>9 DEF OwnerInv, vars
<1> QED
  BY <1>1, <1>2, <1>3, <1>4, <1>5, <1>6, <1>7, <1>8, <1>9 DEF Next, Control

-------------------------------------------------------------------------------
(* What becomes of an object *)

\* Only scaleResources changes an object that is there and that nobody disturbs, as long as
\* its workload is there.
LEMMA ObjectStep ==
    ASSUME ScalerInv, [Next]_vars, NEW w \in Workloads, Untouched(w)'
    PROVE  /\ Untouched(w)
           /\ object[w] # NoObject =>
                 \/ object'[w] = object[w]
                 \/ ScaleResources /\ run.trait.workload = w
<1>0. TypeOK /\ OwnerInv /\ RunInv
  BY DEF ScalerInv
<1> USE <1>0
<1>1. CASE UNCHANGED cluster
  BY <1>1 DEF cluster, Untouched
<1>2. ASSUME NEW v \in Workloads, DeleteWorkload(v) \/ CreateChild(v) \/ Disturb(v)
      PROVE  /\ Untouched(w)
             /\ object[w] # NoObject => object'[w] = object[w]
  BY <1>2 DEF TypeOK, DeleteWorkload, CreateChild, Disturb, Untouched
<1>3. ASSUME NEW v \in Workloads, CollectChild(v)
      PROVE  /\ Untouched(w)
             /\ object[w] # NoObject => object'[w] = object[w]
  <2>1. v = w => FALSE
    BY <1>3 DEF CollectChild, Untouched, Alive, OwnerInv
  <2> QED
    BY <1>3, <2>1 DEF CollectChild, Untouched, TypeOK
<1>4. CASE DefineWorkload
  BY <1>4 DEF DefineWorkload, Untouched
<1>5. CASE ScaleResources
  <2>1. Untouched(w) /\ (run.trait.workload # w => object'[w] = object[w])
    BY <1>5 DEF ScaleResources, Untouched, TypeOK
  <2> QED
    BY <1>5, <2>1
<1>6. CASE ChangeTrait \/ Deliver \/ Resync \/ Begin \/ FetchWorkload \/ FetchChildren
           \/ ReportFailure \/ ReportSuccess \/ Restart
  BY <1>1, <1>6 DEF ChangeTrait, Deliver, Resync, Begin, FetchWorkload, FetchChildren,
     ReportFailure, ReportSuccess, Restart
<1>7. CASE UNCHANGED vars
  BY <1>1, <1>7 DEF vars, cluster
<1> QED
  BY <1>2, <1>3, <1>4, <1>5, <1>6, <1>7 DEF Next, Control

\* The step of a reconciliation that goes on, or stops.
LEMMA RunChange ==
    ASSUME ScalerInv, [Next]_vars
    PROVE  \/ UNCHANGED run /\ ~ScaleResources
           \/ run' = Idle
           \/ run'.at = "fetch"
           \/ FetchWorkload /\ run'.at = "list"
           \/ FetchChildren /\ run'.at = "scale"
           \/ ScaleResources /\ run'.at \in {"failed", "done"} /\ run'.trait = run.trait
           \/ /\ ReportFailure /\ run'.at = "done"
              /\ run'.trait.condition = "notScaled"
<1>0. TypeOK /\ RunInv
  BY DEF ScalerInv
<1> USE <1>0
<1>s. ScaleResources => run' # run
  BY DEF ScaleResources, TypeOK, Run, AfterFailure
<1>1. CASE ChangeTrait \/ DefineWorkload \/ Deliver \/ Resync \/ Restart \/ UNCHANGED vars
  BY <1>1, <1>s DEF ChangeTrait, DefineWorkload, Deliver, Resync, Restart, vars
<1>2. ASSUME NEW w \in Workloads,
             DeleteWorkload(w) \/ CreateChild(w) \/ Disturb(w) \/ CollectChild(w)
      PROVE  UNCHANGED run /\ ~ScaleResources
  BY <1>2, <1>s DEF DeleteWorkload, CreateChild, Disturb, CollectChild
<1>3. CASE Begin
  BY <1>3, <1>s DEF Begin
<1>4. CASE FetchWorkload
  BY <1>4 DEF FetchWorkload, Fail, TypeOK, Run
<1>5. CASE FetchChildren
  BY <1>5 DEF FetchChildren, Fail, TypeOK, Run
<1>6. CASE ScaleResources
  BY <1>6 DEF ScaleResources, TypeOK, Run, AfterFailure
<1>7. CASE ReportFailure
  <2>1. CASE run' = [run EXCEPT !.at = "done", !.trait.condition = "notScaled"]
    <3>1. run'.at = "done" /\ run'.trait = [run.trait EXCEPT !.condition = "notScaled"]
      BY <2>1 DEF TypeOK, Run
    <3>2. run.trait \in Trait
      BY <1>7 DEF ReportFailure, RunInv
    <3> QED
      BY <1>7, <3>1, <3>2 DEF Trait
  <2> QED
    BY <1>7, <2>1 DEF ReportFailure
<1>8. CASE ReportSuccess
  BY <1>8 DEF ReportSuccess
<1> QED
  BY <1>1, <1>2, <1>3, <1>4, <1>5, <1>6, <1>7, <1>8 DEF Next, Control

-------------------------------------------------------------------------------
(* What was read is still so, and what was scaled is *)

LEMMA SeenStep ==
    ASSUME ScalerInv, [Next]_vars
    PROVE  SeenInv'
<1>0. TypeOK /\ RunInv /\ SeenInv
  BY DEF ScalerInv
<1>r. RunInv'
  BY RunStep
<1> USE <1>0
<1> SUFFICES ASSUME run'.at \in {"list", "scale"}, run'.seen # NoObject,
                    Untouched(run.trait.workload)'
             PROVE  /\ object'[run'.trait.workload] # NoObject
                    /\ object'[run'.trait.workload].replicas = run'.seen.replicas
  BY DEF SeenInv
<1>w. run'.trait.workload \in Workloads
  BY <1>r DEF RunInv, Trait
<1>1. CASE UNCHANGED run /\ ~ScaleResources
  BY <1>1, <1>w, ObjectStep DEF SeenInv
<1>2. CASE FetchWorkload /\ run'.at = "list"
  <2>1. ~Fail("noWorkload")
    BY <1>2 DEF Fail, Idle
  <2>2. /\ UNCHANGED cluster /\ run'.trait = run.trait
        /\ run'.seen \in {NoObject, object[run.trait.workload]}
    BY <1>2, <2>1 DEF FetchWorkload, TypeOK, Run
  <2> QED
    BY <2>2 DEF cluster
<1>3. CASE FetchChildren /\ run'.at = "scale"
  <2>0. ~Fail("noChildren")
    BY <1>3 DEF Fail, Idle
  <2>1. /\ UNCHANGED cluster /\ run'.trait = run.trait /\ run.at = "list"
        /\ run'.seen \in {run.seen, object[run.trait.workload]}
    BY <1>3, <2>0 DEF FetchChildren, TypeOK, Run
  <2> QED
    BY <2>1 DEF SeenInv, cluster, Untouched
<1> QED
  BY <1>1, <1>2, <1>3, RunChange DEF Idle

LEMMA DoneStep ==
    ASSUME ScalerInv, [Next]_vars
    PROVE  DoneInv'
<1>0. TypeOK /\ RunInv /\ SeenInv /\ DoneInv
  BY DEF ScalerInv
<1>r. RunInv'
  BY RunStep
<1> USE <1>0
<1> SUFFICES ASSUME run'.at = "done", run'.trait.condition = "success",
                    Untouched(run.trait.workload)'
             PROVE  /\ object'[run'.trait.workload] # NoObject
                    /\ object'[run'.trait.workload].replicas = run'.trait.replicas
  BY DEF DoneInv
<1>w. run'.trait.workload \in Workloads
  BY <1>r DEF RunInv, Trait
<1>1. CASE UNCHANGED run /\ ~ScaleResources
  BY <1>1, <1>w, ObjectStep DEF DoneInv
<1>2. CASE ScaleResources /\ run'.trait = run.trait
  <2>1. /\ run.at = "scale" /\ run.seen # NoObject /\ object[run.trait.workload] # NoObject
        /\ object' = [object EXCEPT ![run.trait.workload] = Patched(@)]
    BY <1>2 DEF ScaleResources, Found, AfterFailure, TypeOK, Run
  <2>2. object[run.trait.workload].replicas = run.seen.replicas
    BY <1>2, <1>w, <2>1, ObjectStep DEF SeenInv
  <2>3. object'[run.trait.workload] = Patched(object[run.trait.workload])
    BY <1>2, <1>w, <2>1 DEF TypeOK
  <2>4. Patched(object[run.trait.workload]).replicas = run.trait.replicas
    BY <2>2 DEF Patched
  <2>5. Patched(object[run.trait.workload]) # NoObject
    BY <1>2, <1>w, <2>1, PatchedType, NoObjectAssumption DEF RunInv, TypeOK, Run
  <2> QED
    BY <1>2, <2>3, <2>4, <2>5
<1> QED
  BY <1>1, <1>2, RunChange DEF Idle

\* A success that is not written is one that stands: what it says was scaled, is.
LEMMA RestStep ==
    ASSUME ScalerInv, [Next]_vars
    PROVE  RestingSuccessIsTrue'
<1>0. TypeOK /\ RunInv /\ DoneInv /\ RestingSuccessIsTrue
  BY DEF ScalerInv
<1>t. TypeOK'
  BY TypeStep
<1> USE <1>0
<1>c. \A c \in {"noWorkload", "noChildren", "notScaled", "success"} : c \in Conditions
  BY DEF Conditions
<1> SUFFICES ASSUME run'.at = "idle", ~queued', cache'.current, trait'.exists,
                    trait'.condition = "success", Untouched(trait.workload)'
             PROVE  Scaled'
  BY DEF RestingSuccessIsTrue, Untouched
<1>w. trait'.workload \in Workloads
  BY <1>t DEF TypeOK, Trait
<1>k. ASSUME UNCHANGED <<run, queued, trait, cache>>
      PROVE  Scaled'
  <2>1. ~ScaleResources
    BY <1>k DEF ScaleResources
  <2>2. Scaled
    BY <1>k, <1>w, ObjectStep DEF RestingSuccessIsTrue, Untouched
  <2> QED
    BY <1>k, <1>w, <2>1, <2>2, ObjectStep DEF Scaled
<1>1. CASE ChangeTrait
  <2>1. \E t : Written(t)
    BY <1>1 DEF ChangeTrait
  <2> QED
    BY <2>1 DEF Written, TypeOK
<1>2. ASSUME NEW w \in Workloads,
             DeleteWorkload(w) \/ CreateChild(w) \/ Disturb(w) \/ CollectChild(w)
      PROVE  Scaled'
  BY <1>2, <1>k DEF DeleteWorkload, CreateChild, Disturb, CollectChild
<1>3. CASE DefineWorkload \/ UNCHANGED vars
  BY <1>3, <1>k DEF DefineWorkload, vars
<1>4. CASE Deliver \/ Resync \/ Restart
  BY <1>4 DEF Deliver, Resync, Restart
<1>5. CASE Begin
  BY <1>5 DEF Begin, RunInv
<1>6. CASE FetchWorkload \/ FetchChildren
  <2>1. Fail("noWorkload") \/ Fail("noChildren") => queued' = TRUE
    BY DEF Fail
  <2> QED
    BY <1>6, <2>1 DEF FetchWorkload, FetchChildren, TypeOK, Run
<1>7. CASE ScaleResources
  BY <1>7 DEF ScaleResources, TypeOK, Run, AfterFailure
<1>8. CASE ReportFailure
  BY <1>8 DEF ReportFailure, TypeOK, Run
<1>9. CASE ReportSuccess
  <2>1. /\ PatchCondition("success") /\ UNCHANGED <<queued, object, workloads, disturbed>>
        /\ run.at = "done"
    BY <1>9 DEF ReportSuccess, cluster
  <2>2. UNCHANGED <<trait, cache>> /\ run.trait.condition = "success"
    BY <1>c, <2>1, PatchConditionType
  <2>3. run.trait = trait
    BY <2>1, <2>2 DEF RunInv
  <2> QED
    BY <2>1, <2>2, <2>3 DEF DoneInv, Scaled, Untouched
<1> QED
  BY <1>1, <1>2, <1>3, <1>4, <1>5, <1>6, <1>7, <1>8, <1>9 DEF Next, Control

-------------------------------------------------------------------------------
(* The theorems *)

LEMMA ScalerInit ==
    ASSUME Init
    PROVE  ScalerInv
<1>1. TypeOK
  <2>1. Fresh \in Object /\ "none" \in Conditions
    BY ScalerAssumption DEF Fresh, Object, Owners, Conditions
  <2>2. trait \in Trait
    BY <2>1 DEF Init, Trait
  <2>3. object \in [Workloads -> Object \cup {NoObject}]
    BY <2>1 DEF Init
  <2> QED
    BY <2>2, <2>3, IdleType, ScalerAssumption DEF Init, TypeOK
<1>2. RunInv /\ SeenInv /\ DoneInv /\ RestingSuccessIsTrue
  BY DEF Init, Idle, RunInv, SeenInv, DoneInv, RestingSuccessIsTrue
<1>3. OwnerInv
  BY DEF Init, Idle, OwnerInv, Fresh
<1> QED
  BY <1>1, <1>2, <1>3 DEF ScalerInv

\* The inductive invariant: a reconciliation between whose calls anything may happen works on
\* what is still so, or an event that brings the trait again is on its way.
THEOREM ScalerInvariant == Spec => []ScalerInv
<1>1. ScalerInv /\ [Next]_vars => ScalerInv'
  BY TypeStep, RunStep, OwnerStep, SeenStep, DoneStep, RestStep DEF ScalerInv
<1> QED
  BY <1>1, ScalerInit, PTL DEF Spec

\* A success on which the controller has come to rest is true, although Reconcile reports one
\* also after a failure to scale.
THEOREM SuccessAtRestIsTrue == Spec => []RestingSuccessIsTrue
<1>1. ScalerInv => RestingSuccessIsTrue
  BY DEF ScalerInv
<1> QED
  BY <1>1, ScalerInvariant, PTL

-------------------------------------------------------------------------------
(* The scaler leaves the promises of the workload's controller intact *)

\* Each step is one of WorkloadChild for every Deployment, or does not touch it: a patch finds
\* one or fails, and the garbage collector comes only when the workload, an owner, is gone.
LEMMA ChildStep ==
    ASSUME ScalerInv, [Next]_vars, NEW w \in Workloads \ Direct
    PROVE  [ChildOf(w)!Next]_(ChildOf(w)!vars)
<1>0. TypeOK /\ OwnerInv /\ RunInv
  BY DEF ScalerInv
<1> USE <1>0
<1>1. CASE UNCHANGED <<workloads, object, disturbed>>
  BY <1>1 DEF ChildOf!vars
<1>2. ASSUME NEW v \in Workloads, DeleteWorkload(v)
      PROVE  ChildOf(w)!DeleteWorkload \/ UNCHANGED ChildOf(w)!vars
  BY <1>2 DEF DeleteWorkload, ChildOf!vars, ChildOf!DeleteWorkload
<1>3. ASSUME NEW v \in Workloads, CreateChild(v)
      PROVE  ChildOf(w)!CreateChild \/ UNCHANGED ChildOf(w)!vars
  <2>1. CASE v = w
    <3>1. Fresh \in Object
      BY ScalerAssumption DEF Fresh, Object, Owners
    <3>2. object[w] = NoObject /\ object'[w] # NoObject /\ UNCHANGED <<workloads, disturbed>>
      BY <1>3, <2>1, <3>1, NoObjectAssumption DEF CreateChild, TypeOK
    <3> QED
      BY <3>2 DEF ChildOf!CreateChild
  <2>2. CASE v # w
    BY <1>3, <2>2 DEF CreateChild, ChildOf!vars, TypeOK
  <2> QED
    BY <2>1, <2>2
<1>4. ASSUME NEW v \in Workloads, Disturb(v)
      PROVE  ChildOf(w)!UserDeletes \/ UNCHANGED ChildOf(w)!vars
  <2>1. CASE v = w
    <3>1. disturbed'[w] = TRUE /\ UNCHANGED workloads
      BY <1>4, <2>1 DEF Disturb, TypeOK
    <3> QED
      BY <1>4, <2>1, <3>1 DEF Disturb, TypeOK, ChildOf!UserDeletes
  <2>2. CASE v # w
    <3>1. object'[w] = object[w] /\ disturbed'[w] = disturbed[w] /\ UNCHANGED workloads
      BY <1>4, <2>2 DEF Disturb, TypeOK
    <3> QED
      BY <3>1 DEF ChildOf!vars
  <2> QED
    BY <2>1, <2>2
<1>5. ASSUME NEW v \in Workloads, CollectChild(v)
      PROVE  ChildOf(w)!CollectChild \/ UNCHANGED ChildOf(w)!vars
  <2>1. CASE v = w
    <3>1. /\ w \notin workloads /\ object[w] # NoObject
          /\ object'[w] = NoObject /\ UNCHANGED <<workloads, disturbed>>
      BY <1>5, <2>1 DEF CollectChild, Alive, OwnerInv, TypeOK
    <3> QED
      BY <3>1 DEF ChildOf!CollectChild, ChildOf!vars
  <2>2. CASE v # w
    BY <1>5, <2>2 DEF CollectChild, ChildOf!vars, TypeOK
  <2> QED
    BY <2>1, <2>2
<1>6. CASE ScaleResources
  <2>1. (object[w] = NoObject <=> object'[w] = NoObject) /\ UNCHANGED <<workloads, disturbed>>
    <3>1. CASE UNCHANGED object
      BY <1>6, <3>1 DEF ScaleResources
    <3>2. CASE object' # object
      <4>1. /\ run.at = "scale" /\ run.seen # NoObject /\ object[run.trait.workload] # NoObject
            /\ object' = [object EXCEPT ![run.trait.workload] = Patched(@)]
            /\ UNCHANGED <<workloads, disturbed>>
        BY <1>6, <3>2 DEF ScaleResources, Found
      <4>2. run.trait \in Trait /\ run.trait.workload \in Workloads
        BY <4>1 DEF RunInv, Trait
      <4>3. Patched(object[run.trait.workload]) # NoObject
        BY <4>1, <4>2, PatchedType, NoObjectAssumption DEF TypeOK, Run
      <4> QED
        BY <4>1, <4>2, <4>3 DEF TypeOK
    <3> QED
      BY <3>1, <3>2
  <2> QED
    BY <2>1 DEF ChildOf!vars
<1>7. CASE \/ ChangeTrait \/ DefineWorkload \/ Deliver \/ Resync \/ Begin \/ FetchWorkload
           \/ FetchChildren \/ ReportFailure \/ ReportSuccess \/ Restart \/ UNCHANGED vars
  BY <1>1, <1>7 DEF ChangeTrait, DefineWorkload, Deliver, Resync, Begin, FetchWorkload,
     FetchChildren, ReportFailure, ReportSuccess, Restart, cluster, vars
<1> QED
  BY <1>2, <1>3, <1>4, <1>5, <1>6, <1>7 DEF Next, Control, ChildOf!Next

\* No interleaving of patches, owner references and garbage collection makes a Deployment
\* behave in a way that the specification of its own controller does not allow.
THEOREM ChildPromiseKept == Spec => KeepsWorkloadChild
<1>1. ScalerInv /\ [Next]_vars
      => [\A w \in Workloads \ Direct : [ChildOf(w)!Next]_(ChildOf(w)!vars)]_vars
  BY ChildStep
<1> QED
  BY <1>1, ScalerInvariant, PTL DEF Spec, KeepsWorkloadChild
===============================================================================
