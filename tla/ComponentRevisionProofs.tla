----------------------- MODULE ComponentRevisionProofs -----------------------
(***************************************************************************)
(* Proofs about ComponentRevision, for every value of its constants.       *)
(***************************************************************************)
EXTENDS ComponentRevision, TLAPS, FiniteSetTheorems, SequenceTheorems

\* The types of a component's fields.
LEMMA ComponentFields ==
    ASSUME NEW c \in Component
    PROVE  /\ c.alive \in BOOLEAN /\ c.spec \in Specs
           /\ c.rv \in Nat /\ c.generation \in Nat
           /\ c.latest \in Nat /\ c.observedGeneration \in Nat
BY DEF Component

\* Writing a component keeps the types: every version the handler gets is a component
\* (WriteComponent: the API server's updates and the watch that delivers them).
LEMMA WriteComponentType ==
    ASSUME component \in [Namespaces -> Component],
           events \in [Namespaces -> Seq(Component)],
           NEW n \in Namespaces, NEW c \in Component, WriteComponent(n, c)
    PROVE  /\ component' \in [Namespaces -> Component]
           /\ events' \in [Namespaces -> Seq(Component)]
<1>1. Append(events[n], c) \in Seq(Component)
    BY AppendProperties
<1>2. QED
    BY <1>1 DEF WriteComponent

\* The idle handler and the handler moved to another program counter are handlers.
LEMMA HandlerType ==
    ASSUME handler \in Handler
    PROVE  /\ Idle \in Handler
           /\ \A pc \in {"idle", "create", "status", "list", "kill", "enqueue"} :
                 Goto(pc) => handler' \in Handler
           /\ AbortCleanup => handler' \in Handler
<1>1. (CHOOSE n \in Namespaces : TRUE) \in Namespaces
    BY NamespacesAssumption
<1>2. Idle \in Handler
    BY <1>1 DEF Idle, Handler
<1>3. ASSUME NEW pc \in {"idle", "create", "status", "list", "kill", "enqueue"}, Goto(pc)
      PROVE  handler' \in Handler
    <2>1. [handler EXCEPT !.pc = pc] \in Handler
        BY DEF Handler
    <2>2. QED
        BY <1>2, <1>3, <2>1 DEF Goto
<1>4. [handler EXCEPT !.pc = "enqueue", !.toKill = 0, !.victims = {}] \in Handler
    BY DEF Handler
<1>5. QED
    BY <1>2, <1>3, <1>4 DEF AbortCleanup

\* A finite set of revisions has finitely many names.
LEMMA NamesFinite ==
    ASSUME NEW S, IsFiniteSet(S)
    PROVE  IsFiniteSet(Names(S))
<1> DEFINE f == [r \in S |-> Name(r)]
<1>1. f \in Surjection(S, Names(S))
    BY DEF Surjection, Names
<1>2. QED
    BY <1>1, FS_Surjection

\* ApplicationConfigurations pin finitely many names (liveHashes).
LEMMA LiveHashesFinite ==
    ASSUME appConfigs \in [AppConfigs -> AppConfigSpecs]
    PROVE  IsFiniteSet(LiveHashes) /\ LiveHashes \subseteq Nat
<1> DEFINE pinned == {appConfigs[a].pins : a \in AppConfigs}
           f == [a \in AppConfigs |-> appConfigs[a].pins]
<1>1. f \in Surjection(AppConfigs, pinned)
    BY DEF Surjection
<1>2. IsFiniteSet(pinned)
    BY <1>1, FS_Surjection, AppConfigsAssumption
<1>3. \A a \in AppConfigs : IsFiniteSet(appConfigs[a].pins) /\ appConfigs[a].pins \in SUBSET Nat
    BY AppConfigsAssumption
<1>4. \A p \in pinned : IsFiniteSet(p) /\ p \in SUBSET Nat
    BY <1>3
<1>5. IsFiniteSet(UNION pinned)
    BY <1>2, <1>4, FS_UNION
<1>6. QED
    BY <1>4, <1>5 DEF LiveHashes

\* Every step of the specification keeps the types.
LEMMA TypeInductive == TypeOK /\ [Next]_vars => TypeOK'
<1> SUFFICES ASSUME TypeOK, [Next]_vars PROVE TypeOK'
    OBVIOUS
<1> USE DEF TypeOK
<1>h. Idle \in Handler
    BY HandlerType
<1>s. At("create") => Snapshot \in Revision
    BY DEF At, Snapshot, Given, Handler, Component, Revision
<1>r. At("create") /\ AddRevision =>
         /\ revisions' \subseteq Revision /\ IsFiniteSet(revisions')
         /\ issued' \subseteq Revision
    BY <1>s, FS_AddElement DEF AddRevision
<1>p. At("status") => Published \in Component
    <2> HAVE At("status")
    <2>1. handler.ns \in Namespaces /\ handler.next \in Nat
        BY DEF Handler
    <2>2. component[handler.ns] \in Component /\ Given \in Component
        BY <2>1 DEF Given
    <2>3. component[handler.ns].rv + 1 \in Nat /\ Given.generation \in Nat
        BY <2>2, ComponentFields
    <2>4. QED
        BY <2>1, <2>2, <2>3 DEF Published, Component
<1>1. CASE \E n \in Namespaces, s \in Specs : EditComponent(n, s)
    <2> PICK n \in Namespaces, s \in Specs : EditComponent(n, s)
        BY <1>1
    <2> DEFINE c == [component[n] EXCEPT !.rv = @ + 1, !.spec = s,
                        !.generation = IF s = component[n].spec THEN @ ELSE @ + 1]
    <2> DEFINE g == IF s = component[n].spec THEN component[n].generation
                    ELSE component[n].generation + 1
    <2>1. component[n].rv + 1 \in Nat /\ g \in Nat
        BY DEF Component
    <2>2. c \in Component
        <3> HIDE DEF g
        <3>1. [component[n] EXCEPT !.rv = component[n].rv + 1, !.spec = s, !.generation = g]
                 \in Component
            BY <2>1 DEF Component
        <3>2. QED
            BY <3>1 DEF g
    <2>3. QED
        BY <2>2, WriteComponentType DEF EditComponent
<1>2. CASE \E n \in Namespaces : DeleteComponent(n)
    <2> PICK n \in Namespaces : DeleteComponent(n)
        BY <1>2
    <2> DEFINE c == [component[n] EXCEPT !.rv = @ + 1, !.alive = FALSE]
    <2>1. component[n].rv + 1 \in Nat
        BY DEF Component
    <2>2. c \in Component
        BY <2>1 DEF Component
    <2>3. QED
        BY <2>2, WriteComponentType DEF DeleteComponent
<1>3. CASE \E n \in Namespaces : CollectOwned(n)
    BY <1>3, FS_Subset DEF CollectOwned
<1>4. CASE \E n \in Namespaces : Resync(n)
    <2> PICK n \in Namespaces : Resync(n)
        BY <1>4
    <2>1. <<component[n]>> \in Seq(Component)
        OBVIOUS
    <2>2. QED
        BY <2>1 DEF Resync
<1>5. CASE \E n \in Namespaces : HandleEvent(n)
    <2> PICK n \in Namespaces : HandleEvent(n)
        BY <1>5
    <2>1. Head(events[n]) \in Component /\ Tail(events[n]) \in Seq(Component)
        BY HeadTailProperties DEF HandleEvent
    <2>2. handler' \in Handler
        <3>1. NextRevision(n, Head(events[n])) \in Nat
            BY <2>1, ComponentFields DEF NextRevision
        <3>2. /\ [Idle EXCEPT !.pc = "enqueue", !.ns = n] \in Handler
              /\ [Idle EXCEPT !.pc = "create", !.ns = n,
                              !.next = NextRevision(n, Head(events[n]))] \in Handler
            BY <1>h, <3>1 DEF Handler
        <3>3. QED
            BY <1>h, <3>2 DEF HandleEvent
    <2>3. QED
        BY <2>1, <2>2 DEF HandleEvent
<1>6. CASE \E a \in AppConfigs : \/ \E s \in AppConfigSpecs : EditAppConfig(a, s)
                                 \/ ResyncAppConfig(a)
    BY <1>6 DEF EditAppConfig, ResyncAppConfig
<1>7. CASE \E a \in AppConfigs : Reconcile(a)
    <2> PICK a \in AppConfigs : Reconcile(a)
        BY <1>7
    <2> DEFINE n == NamespaceOf[a]
    <2>1. n \in Namespaces
        BY AppConfigsAssumption
    <2>2. \A i \in DOMAIN events[n] : events[n][i] \in Component
        BY <2>1, ElementOfSeq, LenProperties
    <2>3. \A c \in {componentCache[n]} \cup {events[n][i] : i \in DOMAIN events[n]} :
             c.latest \in Nat
        BY <2>1, <2>2, ComponentFields
    <2>4. QED
        BY <2>1, <2>3 DEF Reconcile
<1>8. CASE SyncRevisionCache
    <2>1. \A r : IsFiniteSet({c \in revisionCache : Name(c) # Name(r)} \cup {r})
        BY FS_Subset, FS_AddElement
    <2>2. \A r : IsFiniteSet(revisionCache \ {r})
        BY FS_RemoveElement
    <2>3. QED
        BY <1>8, <2>1, <2>2 DEF SyncRevisionCache
<1>9. CASE CreateRevision \/ CreateFault
    <2>1. handler' \in Handler
        BY <1>9, HandlerType DEF CreateRevision, CreateFault
    <2>2. QED
        BY <1>9, <1>r, <2>1, BoundsAssumption DEF CreateRevision, CreateFault
<1>10. CASE CreateAlreadyExists \/ UpdateStatusRejected
    BY <1>10, HandlerType DEF CreateAlreadyExists, UpdateStatusRejected
<1>11. CASE UpdateStatus \/ StatusFault
    <2>1. handler' \in Handler
        BY <1>11, HandlerType DEF UpdateStatus, StatusFault
    <2>2. component' \in [Namespaces -> Component] /\ events' \in [Namespaces -> Seq(Component)]
        <3>1. handler.ns \in Namespaces
            BY DEF Handler
        <3>2. QED
            BY <1>11, <1>p, <3>1, WriteComponentType DEF UpdateStatus, StatusFault
    <2>3. QED
        BY <1>11, <2>1, <2>2, BoundsAssumption DEF UpdateStatus, StatusFault
<1>12. CASE ListRevisions
    <2>1. Names(revisionCache) \subseteq Namespaces \X Nat
        BY DEF Names, Name, Revision
    <2>2. ToKill(Names(revisionCache)) > 0 => ToKill(Names(revisionCache)) \in Nat
        <3>1. IsFiniteSet(Names(revisionCache)) /\ IsFiniteSet(LiveHashes)
            BY NamesFinite, LiveHashesFinite
        <3>2. QED
            BY <3>1, FS_CardinalityType, BoundsAssumption DEF ToKill
    <2>3. QED
        BY <1>12, <2>1, <2>2 DEF ListRevisions, Handler
<1>13. CASE DeleteRevision
    <2>1. handler' \in Handler
        <3>1. PICK v \in handler.victims : AfterKill(v) \/ AbortCleanup
            BY <1>13 DEF DeleteRevision
        <3>2. handler.toKill - 1 > 0 => handler.toKill - 1 \in Nat
            BY DEF Handler
        <3>3. handler.toKill - 1 > 0 =>
                 [handler EXCEPT !.toKill = @ - 1, !.victims = @ \ {v}] \in Handler
            BY <3>2 DEF Handler
        <3>4. [handler EXCEPT !.pc = "enqueue", !.toKill = 0, !.victims = {}] \in Handler
            BY DEF Handler
        <3>5. handler.toKill \in Nat
            BY DEF Handler
        <3>6. QED
            BY <3>1, <3>3, <3>4, <3>5 DEF AfterKill, AbortCleanup
    <2>2. QED
        BY <1>13, <2>1, FS_Subset DEF DeleteRevision
<1>14. CASE DeleteFault
    BY <1>14, FS_Subset, HandlerType, BoundsAssumption DEF DeleteFault
<1>15. CASE EnqueueRelated
    BY <1>15, HandlerType DEF EnqueueRelated, Matching
<1>16. CASE Restart
    BY <1>16, <1>h, BoundsAssumption DEF Restart
<1>17. CASE UNCHANGED vars
    BY <1>17 DEF vars
<1>18. QED
    BY <1>1, <1>2, <1>3, <1>4, <1>5, <1>6, <1>7, <1>8, <1>9, <1>10, <1>11, <1>12,
       <1>13, <1>14, <1>15, <1>16, <1>17 DEF Next, HandlerStep, Fault

\* The initial states are type correct.
LEMMA InitType == Init => TypeOK
<1> SUFFICES ASSUME Init PROVE TypeOK
    OBVIOUS
<1>1. \A s \in Specs : NewComponent(s) \in Component
    BY DEF NewComponent, Component
<1>2. component \in [Namespaces -> Component]
    BY <1>1 DEF Init
<1>3. \A n \in Namespaces : <<component[n]>> \in Seq(Component)
    BY <1>2
<1>4. Idle \in Handler
    BY NamespacesAssumption DEF Idle, Handler
<1>5. QED
    BY <1>2, <1>3, <1>4, FS_EmptySet, BoundsAssumption DEF Init, TypeOK

\* Type correctness of the component revisions (component.go), for every value of the
\* constants.
THEOREM TypeCorrect == Spec => []TypeOK
BY InitType, TypeInductive, PTL DEF Spec

-------------------------------------------------------------------------------
(* The inductive invariant *)

\* The versions in the handler's hands or on their way to it are components.
LEMMA VersionsType ==
    ASSUME TypeOK, NEW n \in Namespaces
    PROVE  /\ Versions(n) \subseteq Component
           /\ component[n] \in Component
           /\ DOMAIN events[n] = 1..Len(events[n]) /\ Len(events[n]) \in Nat
<1>1. events[n] \in Seq(Component) /\ componentCache[n] \in Component
    BY DEF TypeOK
<1>2. \A i \in DOMAIN events[n] : events[n][i] \in Component
    BY <1>1, ElementOfSeq, LenProperties
<1>3. QED
    BY <1>1, <1>2, LenProperties DEF Versions, TypeOK

\* Writing a newer version keeps the versions in order, if it succeeds them all.
LEMMA WriteKeepsOrder ==
    ASSUME TypeOK, NEW n \in Namespaces, NEW c \in Component, WriteComponent(n, c),
           UNCHANGED componentCache, VersionsInOrder(n),
           c.rv = component[n].rv + 1,
           \A d \in Versions(n) : VersionOf(d, c)
    PROVE  VersionsInOrder(n)'
<1> DEFINE E == events[n]
<1>1. E \in Seq(Component) /\ events'[n] = Append(E, c) /\ component'[n] = c
    BY DEF TypeOK, WriteComponent
<1>2. /\ DOMAIN E = 1..Len(E) /\ Len(E) \in Nat
      /\ DOMAIN events'[n] = 1..(Len(E) + 1)
      /\ \A i \in 1..Len(E) : events'[n][i] = E[i]
      /\ events'[n][Len(E) + 1] = c
    BY <1>1, LenProperties, AppendProperties
<1>3. Versions(n)' \subseteq Versions(n) \cup {c}
    BY <1>2 DEF Versions
<1>4. \A d \in Versions(n) : d.rv \in Nat /\ d.rv < c.rv /\ componentCache[n].rv <= d.rv
    <2>1. \A d \in Versions(n) : d.rv \in Nat
        BY VersionsType, ComponentFields
    <2>2. component[n].rv \in Nat
        BY VersionsType, ComponentFields
    <2>3. QED
        BY <2>1, <2>2 DEF VersionsInOrder, VersionOf
<1>5. componentCache[n] \in Versions(n)
    BY DEF Versions
<1>6. VersionOf(c, c) /\ c.rv \in Nat
    BY ComponentFields DEF VersionOf
<1>7. \A d \in Versions(n)' : VersionOf(d, c) /\ componentCache[n].rv <= d.rv
    BY <1>3, <1>4, <1>5, <1>6
<1>8. \A i, j \in 1..(Len(E) + 1) : i <= j => events'[n][i].rv <= events'[n][j].rv
    <2> SUFFICES ASSUME NEW i \in 1..(Len(E) + 1), NEW j \in 1..(Len(E) + 1), i <= j
                 PROVE  events'[n][i].rv <= events'[n][j].rv
        OBVIOUS
    <2>1. CASE j \in 1..Len(E)
        BY <1>2, <2>1 DEF VersionsInOrder
    <2>2. CASE j = Len(E) + 1 /\ i \in 1..Len(E)
        <3>1. E[i] \in Versions(n)
            BY <1>2, <2>2 DEF Versions
        <3>2. QED
            BY <1>2, <1>4, <1>6, <2>2, <3>1
    <2>3. CASE j = Len(E) + 1 /\ i = Len(E) + 1
        BY <1>2, <1>6, <2>3
    <2>4. QED
        BY <1>2, <2>1, <2>2, <2>3
<1>9. QED
    BY <1>1, <1>2, <1>7, <1>8 DEF VersionsInOrder, VersionOf

\* Delivering the first version keeps the others in order.
LEMMA DeliverKeepsOrder ==
    ASSUME TypeOK, NEW n \in Namespaces, HandleEvent(n), VersionsInOrder(n)
    PROVE  VersionsInOrder(n)' /\ componentCache'[n] = Head(events[n])
<1> DEFINE E == events[n]
<1>1. /\ E \in Seq(Component) /\ E # <<>>
      /\ events'[n] = Tail(E) /\ componentCache'[n] = Head(E)
      /\ component' = component
    BY DEF TypeOK, HandleEvent
<1>2. /\ DOMAIN E = 1..Len(E) /\ Len(E) \in Nat /\ Len(E) > 0
      /\ Head(E) = E[1]
      /\ DOMAIN events'[n] = 1..(Len(E) - 1)
      /\ \A i \in 1..(Len(E) - 1) : events'[n][i] = E[i + 1]
    BY <1>1, LenProperties, HeadTailProperties, EmptySeq
<1>3. Versions(n)' = {E[i] : i \in DOMAIN E}
    <2>1. ASSUME NEW i \in DOMAIN E
          PROVE  i = 1 \/ ((i - 1) \in DOMAIN events'[n] /\ events'[n][i - 1] = E[i])
        <3>1. i # 1 => (i - 1) \in 1..(Len(E) - 1) /\ (i - 1) + 1 = i
            BY <1>2
        <3>2. QED
            BY <1>2, <3>1
    <2>2. \A i \in DOMAIN events'[n] : i + 1 \in DOMAIN E /\ events'[n][i] = E[i + 1]
        BY <1>2
    <2>3. Versions(n)' = {E[1]} \cup {events'[n][i] : i \in DOMAIN events'[n]}
        BY <1>1, <1>2 DEF Versions
    <2>4. 1 \in DOMAIN E
        BY <1>2
    <2>5. Versions(n)' \subseteq {E[i] : i \in DOMAIN E}
        BY <2>2, <2>3, <2>4
    <2>6. {E[i] : i \in DOMAIN E} \subseteq Versions(n)'
        BY <2>1, <2>3
    <2>7. QED
        BY <2>5, <2>6
<1>4. \A i, j \in DOMAIN E : i <= j => E[i].rv <= E[j].rv
    BY DEF VersionsInOrder
<1>5. \A d \in Versions(n)' : VersionOf(d, component[n]) /\ Head(E).rv <= d.rv
    <2> SUFFICES ASSUME NEW i \in DOMAIN E
                 PROVE  VersionOf(E[i], component[n]) /\ Head(E).rv <= E[i].rv
        BY <1>3
    <2>1. E[i] \in Versions(n)
        BY DEF Versions
    <2>2. VersionOf(E[i], component[n])
        BY <2>1 DEF VersionsInOrder
    <2>3. 1 \in DOMAIN E /\ 1 <= i
        BY <1>2
    <2>4. Head(E).rv <= E[i].rv
        BY <1>2, <1>4, <2>3
    <2>5. QED
        BY <2>2, <2>4
<1>6. \A i, j \in DOMAIN events'[n] : i <= j => events'[n][i].rv <= events'[n][j].rv
    <2> SUFFICES ASSUME NEW i \in DOMAIN events'[n], NEW j \in DOMAIN events'[n], i <= j
                 PROVE  events'[n][i].rv <= events'[n][j].rv
        OBVIOUS
    <2>1. i + 1 \in DOMAIN E /\ j + 1 \in DOMAIN E /\ i + 1 <= j + 1
        BY <1>2
    <2>2. QED
        BY <1>2, <1>4, <2>1
<1>7. QED
    BY <1>1, <1>5, <1>6 DEF VersionsInOrder, VersionOf

\* When the status update of a call is accepted, the handler and every version on its
\* way to it have the current version.
LEMMA AcceptedIsCurrent ==
    ASSUME TypeOK, handler.ns \in Namespaces, VersionsInOrder(handler.ns), StatusAccepted
    PROVE  \A d \in Versions(handler.ns) : d = component[handler.ns]
<1> DEFINE n == handler.ns
<1>1. componentCache[n] \in Versions(n)
    BY DEF Versions
<1>2. \A d \in Versions(n) : d.rv \in Nat /\ component[n].rv \in Nat
    BY VersionsType, ComponentFields
<1>3. \A d \in Versions(n) : component[n].rv <= d.rv /\ d.rv <= component[n].rv
    BY DEF VersionsInOrder, VersionOf, StatusAccepted, Given
<1>4. QED
    BY <1>2, <1>3 DEF VersionsInOrder, VersionOf

\* How many pairs (n, i) with i in a finite set L there are.
LEMMA PairsCardinality ==
    ASSUME NEW n, NEW L, IsFiniteSet(L)
    PROVE  /\ IsFiniteSet({<<n, i>> : i \in L})
           /\ Cardinality({<<n, i>> : i \in L}) <= Cardinality(L)
<1> DEFINE f == [i \in L |-> <<n, i>>]
<1>1. f \in Surjection(L, {<<n, i>> : i \in L})
    BY DEF Surjection
<1>2. QED
    BY <1>1, FS_Surjection

\* In one namespace a cleanup leaves at least RevisionLimit of the revisions that no
\* ApplicationConfiguration pins (sortedControllerRevision).
LEMMA VictimsSpared ==
    ASSUME NEW n, NEW listed, IsFiniteSet(listed), \A v \in listed : v = <<n, v[2]>>,
           IsFiniteSet(LiveHashes)
    PROVE  LET victims == {v \in listed : v[2] \notin LiveHashes} IN
           /\ IsFiniteSet(victims)
           /\ ToKill(listed) + RevisionLimit <= Cardinality(victims)
<1> DEFINE victims == {v \in listed : v[2] \notin LiveHashes}
           pairs == {<<n, i>> : i \in LiveHashes}
           live == listed \cap pairs
<1>1. victims = listed \ pairs /\ live \in SUBSET pairs /\ victims \in SUBSET listed
    <2>1. \A v \in listed : v \in pairs <=> v[2] \in LiveHashes
        <3> SUFFICES ASSUME NEW v \in listed PROVE v \in pairs <=> v[2] \in LiveHashes
            OBVIOUS
        <3>1. v = <<n, v[2]>>
            OBVIOUS
        <3>2. ASSUME v \in pairs PROVE v[2] \in LiveHashes
            <4>1. PICK i \in LiveHashes : v = <<n, i>>
                BY <3>2
            <4>2. QED
                BY <4>1
        <3>3. QED
            BY <3>1, <3>2
    <2>2. QED
        BY <2>1
<1>2. /\ IsFiniteSet(pairs) /\ Cardinality(pairs) <= Cardinality(LiveHashes)
      /\ IsFiniteSet(victims) /\ IsFiniteSet(live)
      /\ Cardinality(live) <= Cardinality(pairs)
    <2> HIDE DEF pairs, live, victims
    <2>1. IsFiniteSet(pairs) /\ Cardinality(pairs) <= Cardinality(LiveHashes)
        BY PairsCardinality DEF pairs
    <2>2. QED
        BY <1>1, <2>1, FS_Subset
<1>3. Cardinality(victims) = Cardinality(listed) - Cardinality(live)
    BY <1>1, <1>2, FS_Difference
<1>4. /\ Cardinality(victims) \in Nat /\ Cardinality(live) \in Nat
      /\ Cardinality(pairs) \in Nat /\ Cardinality(LiveHashes) \in Nat
      /\ Cardinality(listed) \in Nat
    BY <1>2, FS_CardinalityType
<1>5. ToKill(listed) + RevisionLimit <= Cardinality(victims)
    BY <1>2, <1>3, <1>4, BoundsAssumption DEF ToKill
<1>6. QED
    BY <1>2, <1>5

\* The assumptions under which the handler keeps what it publishes.
OneNamespace == \A m, n \in Namespaces : m = n

\* What RevisionInv says besides the types.
RevisionInvRest(n) ==
    /\ revisions \subseteq issued /\ revisionCache \subseteq issued
    /\ HandlerInv
    /\ VersionsInOrder(n)
    /\ component[n].alive => IssuedInv(n)
    /\ PublishedRevisionHeld
    /\ RevisionNameNeverRebound

\* Steps that leave the component, its versions, its revisions and the handler alone.
LEMMA FrameStep ==
    ASSUME RevisionInv,
           UNCHANGED <<component, events, componentCache, revisions, revisionCache,
                       issued, handler>>,
           NEW n \in Namespaces
    PROVE  RevisionInvRest(n)'
BY DEF RevisionInv, RevisionInvRest, HandlerInv, VersionsInOrder, Versions, VersionOf,
       IssuedInv, PublishedRevisionHeld, RevisionNameNeverRebound, Given, Snapshot

\* A user's edit of the component.
LEMMA EditStep ==
    ASSUME OneNamespace, RevisionInv, TypeOK',
           NEW n \in Namespaces, NEW s \in Specs, EditComponent(n, s)
    PROVE  RevisionInvRest(n)'
<1> DEFINE o == component[n]
           c == component'[n]
<1>1. TypeOK /\ VersionsInOrder(n) /\ o.alive /\ IssuedInv(n)
    BY DEF RevisionInv, EditComponent
<1>2. o \in Component /\ c \in Component
    BY <1>1 DEF TypeOK
<1>3. /\ c.rv = o.rv + 1 /\ c.spec = s /\ c.latest = o.latest
      /\ c.alive = o.alive /\ c.observedGeneration = o.observedGeneration
      /\ c.generation = IF s = o.spec THEN o.generation ELSE o.generation + 1
      /\ WriteComponent(n, c)
    BY <1>1, <1>2 DEF EditComponent, WriteComponent, TypeOK, Component
<1>4. /\ o.generation \in Nat /\ o.rv \in Nat /\ o.latest \in Nat
      /\ o.observedGeneration \in Nat
    BY <1>2, ComponentFields
<1>5. \A d \in Versions(n) : VersionOf(d, c)
    <2> SUFFICES ASSUME NEW d \in Versions(n) PROVE VersionOf(d, c)
        OBVIOUS
    <2>1. d.rv \in Nat /\ d.generation \in Nat /\ d.latest \in Nat /\ VersionOf(d, o)
        BY <1>1, VersionsType, ComponentFields DEF VersionsInOrder
    <2>2. QED
        BY <1>3, <1>4, <2>1 DEF VersionOf
<1>6. VersionsInOrder(n)'
    BY <1>1, <1>2, <1>3, <1>5, WriteKeepsOrder DEF EditComponent
<1>7. \A r \in issued : r.revision \in Nat /\ r.generation \in Nat
    BY <1>1 DEF TypeOK, Revision
<1>8. IssuedInv(n)'
    BY <1>1, <1>3, <1>4, <1>7 DEF IssuedInv, EditComponent
<1>9. PublishedRevisionHeld'
    <2> SUFFICES ASSUME c.latest > 0
                 PROVE  \E r \in revisions :
                            /\ Name(r) = <<n, c.latest>>
                            /\ r.generation = c.observedGeneration
                            /\ c.generation = c.observedGeneration => r.spec = c.spec
        BY DEF PublishedRevisionHeld, OneNamespace, EditComponent
    <2>1. PICK r \in revisions : /\ Name(r) = <<n, o.latest>>
                                 /\ r.generation = o.observedGeneration
                                 /\ o.generation = o.observedGeneration => r.spec = o.spec
        BY <1>1, <1>3 DEF RevisionInv, PublishedRevisionHeld
    <2>2. r \in issued /\ r.ns = n /\ r.generation <= o.generation
        BY <1>1, <2>1 DEF RevisionInv, IssuedInv, Name
    <2>3. QED
        BY <1>3, <1>4, <1>7, <2>1, <2>2
<1>10. RevisionNameNeverRebound' /\ revisions' \subseteq issued' /\ revisionCache' \subseteq issued'
    BY <1>1 DEF RevisionInv, RevisionNameNeverRebound, EditComponent, OneNamespace
<1>11. HandlerInv'
    <2>1. handler.ns \in Namespaces /\ handler.ns = n
        BY <1>1 DEF TypeOK, Handler, OneNamespace
    <2>2. QED
        BY <1>1, <2>1 DEF RevisionInv, HandlerInv, EditComponent, Given, Snapshot
<1>12. QED
    BY <1>6, <1>8, <1>9, <1>10, <1>11 DEF RevisionInvRest

\* The deletion of the component.
LEMMA DeleteStep ==
    ASSUME OneNamespace, RevisionInv, TypeOK', NEW n \in Namespaces, DeleteComponent(n)
    PROVE  RevisionInvRest(n)'
<1> DEFINE o == component[n]
           c == component'[n]
<1>1. TypeOK /\ VersionsInOrder(n)
    BY DEF RevisionInv
<1>2. o \in Component /\ c \in Component
    BY <1>1 DEF TypeOK
<1>3. /\ c.rv = o.rv + 1 /\ c.spec = o.spec /\ c.latest = o.latest
      /\ ~c.alive /\ c.generation = o.generation /\ WriteComponent(n, c)
    BY <1>1, <1>2 DEF DeleteComponent, WriteComponent, TypeOK, Component
<1>4. \A d \in Versions(n) : VersionOf(d, c)
    <2> SUFFICES ASSUME NEW d \in Versions(n) PROVE VersionOf(d, c)
        OBVIOUS
    <2>1. /\ d.rv \in Nat /\ o.rv \in Nat /\ VersionOf(d, o)
        BY <1>1, <1>2, VersionsType, ComponentFields DEF VersionsInOrder
    <2>2. QED
        BY <1>3, <2>1 DEF VersionOf
<1>5. VersionsInOrder(n)'
    BY <1>1, <1>2, <1>3, <1>4, WriteKeepsOrder DEF DeleteComponent
<1>6. PublishedRevisionHeld' /\ RevisionNameNeverRebound'
    BY <1>3 DEF PublishedRevisionHeld, RevisionNameNeverRebound, OneNamespace
<1>7. HandlerInv'
    <2>1. handler.ns \in Namespaces /\ handler.ns = n
        BY <1>1 DEF TypeOK, Handler, OneNamespace
    <2>2. QED
        BY <1>3, <2>1 DEF RevisionInv, HandlerInv, DeleteComponent, Given, Snapshot
<1>8. QED
    BY <1>3, <1>5, <1>6, <1>7 DEF RevisionInvRest, RevisionInv, DeleteComponent

\* The garbage collection of a deleted component's revisions.
LEMMA CollectStep ==
    ASSUME OneNamespace, RevisionInv, NEW n \in Namespaces, CollectOwned(n)
    PROVE  RevisionInvRest(n)'
<1>1. ~component[n].alive /\ revisions' \subseteq revisions
    BY DEF CollectOwned
<1>2. HandlerInv'
    <2>1. handler.ns = n
        BY DEF RevisionInv, TypeOK, Handler, OneNamespace
    <2>2. QED
        BY <1>1, <2>1 DEF RevisionInv, HandlerInv, CollectOwned, Given, Snapshot
<1>3. VersionsInOrder(n)'
    BY DEF RevisionInv, CollectOwned, VersionsInOrder, Versions, VersionOf
<1>4. PublishedRevisionHeld' /\ RevisionNameNeverRebound'
    BY <1>1 DEF CollectOwned, PublishedRevisionHeld, RevisionNameNeverRebound, OneNamespace
<1>5. QED
    BY <1>1, <1>2, <1>3, <1>4 DEF RevisionInvRest, RevisionInv, CollectOwned

\* The delivery of the current version once more.
LEMMA ResyncStep ==
    ASSUME RevisionInv, NEW n \in Namespaces, Resync(n)
    PROVE  RevisionInvRest(n)'
<1>1. TypeOK /\ events'[n] = <<component[n]>> /\ component' = component
         /\ componentCache' = componentCache
    BY DEF RevisionInv, TypeOK, Resync
<1>2. DOMAIN events'[n] = {1} /\ events'[n][1] = component[n]
    BY <1>1
<1>3. Versions(n)' = {componentCache[n], component[n]} /\ componentCache[n] \in Versions(n)
    BY <1>1, <1>2 DEF Versions
<1>4. VersionOf(component[n], component[n]) /\ component[n].rv \in Nat
    BY <1>1, VersionsType, ComponentFields DEF VersionOf
<1>5. VersionOf(componentCache[n], component[n]) /\ componentCache[n].rv \in Nat
    BY <1>1, <1>3, VersionsType, ComponentFields DEF RevisionInv, VersionsInOrder
<1>6. componentCache[n].rv <= component[n].rv /\ component[n].rv <= component[n].rv
         /\ componentCache[n].rv <= componentCache[n].rv
    BY <1>4, <1>5 DEF VersionOf
<1>7. VersionsInOrder(n)'
    BY <1>1, <1>2, <1>3, <1>4, <1>5, <1>6 DEF VersionsInOrder, VersionOf
<1>8. HandlerInv'
    BY DEF RevisionInv, HandlerInv, Resync, Given, Snapshot
<1>9. (component[n].alive => IssuedInv(n))' /\ PublishedRevisionHeld' /\ RevisionNameNeverRebound'
    BY DEF RevisionInv, Resync, IssuedInv, PublishedRevisionHeld, RevisionNameNeverRebound
<1>10. QED
    BY <1>7, <1>8, <1>9 DEF RevisionInvRest, RevisionInv, Resync

\* The handler is called with the next version.
LEMMA HandleStep ==
    ASSUME RevisionInv, NEW n \in Namespaces, HandleEvent(n)
    PROVE  RevisionInvRest(n)'
<1> DEFINE c == Head(events[n])
<1>1. TypeOK /\ VersionsInOrder(n)' /\ componentCache'[n] = c
    BY DeliverKeepsOrder DEF RevisionInv
<1>2. /\ handler'.pc \in {"idle", "create", "enqueue"}
      /\ handler'.pc = "create" => handler'.ns = n /\ handler'.next = c.latest + 1
    BY DEF HandleEvent, Idle, NextRevision
<1>3. HandlerInv'
    BY <1>1, <1>2 DEF HandlerInv, Given
<1>4. (component[n].alive => IssuedInv(n))' /\ PublishedRevisionHeld' /\ RevisionNameNeverRebound'
    BY <1>2 DEF RevisionInv, HandleEvent, IssuedInv, PublishedRevisionHeld,
                RevisionNameNeverRebound
<1>5. QED
    BY <1>1, <1>3, <1>4 DEF RevisionInvRest, RevisionInv, HandleEvent

\* A watch event of the revision cache.
LEMMA SyncStep ==
    ASSUME RevisionInv, NEW n \in Namespaces, SyncRevisionCache
    PROVE  RevisionInvRest(n)'
<1>1. revisionCache' \subseteq issued
    BY DEF RevisionInv, SyncRevisionCache
<1>2. HandlerInv' /\ VersionsInOrder(n)'
    BY DEF RevisionInv, HandlerInv, SyncRevisionCache, Given, Snapshot, VersionsInOrder,
           Versions, VersionOf
<1>3. (component[n].alive => IssuedInv(n))' /\ PublishedRevisionHeld' /\ RevisionNameNeverRebound'
    BY DEF RevisionInv, SyncRevisionCache, IssuedInv, PublishedRevisionHeld,
           RevisionNameNeverRebound
<1>4. QED
    BY <1>1, <1>2, <1>3 DEF RevisionInvRest, RevisionInv, SyncRevisionCache

\* The handler goes idle and nothing else changes but the queue.
LEMMA IdleStep ==
    ASSUME RevisionInv, NEW n \in Namespaces, handler'.pc \in {"idle", "enqueue"},
           UNCHANGED <<component, events, componentCache, revisions, revisionCache, issued>>
    PROVE  RevisionInvRest(n)'
<1>1. HandlerInv'
    BY DEF HandlerInv
<1>2. VersionsInOrder(n)'
    BY DEF RevisionInv, VersionsInOrder, Versions, VersionOf
<1>3. (component[n].alive => IssuedInv(n))' /\ PublishedRevisionHeld' /\ RevisionNameNeverRebound'
    BY DEF RevisionInv, IssuedInv, PublishedRevisionHeld, RevisionNameNeverRebound
<1>4. QED
    BY <1>1, <1>2, <1>3 DEF RevisionInvRest, RevisionInv

\* A revision is created: while the component lives its number is new, one more than
\* the published one.
LEMMA CreateStep ==
    ASSUME OneNamespace, RevisionInv, NEW n \in Namespaces, At("create"), AddRevision,
           \/ handler'.pc = "idle"
           \/ handler' = [handler EXCEPT !.pc = "status"],
           UNCHANGED <<component, events, componentCache, revisionCache>>
    PROVE  RevisionInvRest(n)'
<1> DEFINE c == component[n]
           k == componentCache[n]
<1>1. TypeOK /\ handler.ns = n /\ Given = k /\ handler \in Handler
    BY DEF RevisionInv, TypeOK, Handler, OneNamespace, Given
<1>2. k \in Versions(n) /\ VersionOf(k, c) /\ handler.next = k.latest + 1
    BY <1>1 DEF Versions, RevisionInv, VersionsInOrder, HandlerInv, At
<1>3. /\ k.latest \in Nat /\ k.generation \in Nat
      /\ c.latest \in Nat /\ c.generation \in Nat
    BY <1>1, <1>2, VersionsType, ComponentFields
<1>4. Snapshot = [ns |-> n, revision |-> k.latest + 1, spec |-> k.spec,
                  generation |-> k.generation]
    BY <1>1, <1>2 DEF Snapshot
<1>5. Name(Snapshot) = <<n, k.latest + 1>> /\ <<n, k.latest + 1>> \notin Names(revisions)
    BY <1>4 DEF Name, AddRevision
<1>6. c.alive => k.latest = c.latest
    <2> SUFFICES ASSUME c.alive, k.latest + 1 = c.latest PROVE FALSE
        BY <1>2, <1>3 DEF VersionOf
    <2>1. <<n, c.latest>> \in Names(revisions)
        BY <1>3 DEF RevisionInv, PublishedRevisionHeld, Names
    <2>2. QED
        BY <1>5, <2>1
<1>7. ASSUME c.alive, NEW r \in issued, r.ns = n, r.revision = k.latest + 1
      PROVE  FALSE
    <2>1. r \in revisions
        BY <1>6, <1>7 DEF RevisionInv, IssuedInv
    <2>2. Name(r) \in Names(revisions) /\ Name(r) = <<n, k.latest + 1>>
        BY <1>7, <2>1 DEF Names, Name
    <2>3. QED
        BY <1>5, <2>2
<1>8. RevisionNameNeverRebound'
    <2> SUFFICES ASSUME c.alive, NEW r \in issued', NEW s \in issued', r.ns = n, Name(r) = Name(s)
                 PROVE  r = s
        BY DEF RevisionNameNeverRebound, OneNamespace
    <2>1. r.ns = s.ns /\ r.revision = s.revision
        BY DEF Name
    <2>2. CASE r \in issued /\ s \in issued
        BY <2>2 DEF RevisionInv, RevisionNameNeverRebound
    <2>3. QED
        BY <1>4, <1>7, <2>1, <2>2 DEF AddRevision
<1>9. c.alive => IssuedInv(n)'
    <2> SUFFICES ASSUME c.alive, NEW r \in issued', r.ns = n
                 PROVE  /\ r.revision <= c.latest + 1
                        /\ r.revision = c.latest + 1 =>
                              r \in revisions' /\ handler'.pc \notin {"list", "kill"}
                        /\ r.generation <= c.generation
                        /\ r.generation = c.generation => r.spec = c.spec
        BY DEF IssuedInv
    <2>1. handler'.pc \notin {"list", "kill"}
        BY <1>1 DEF Handler
    <2>2. CASE r \in issued
        BY <2>1, <2>2 DEF RevisionInv, IssuedInv, AddRevision
    <2>3. CASE r = Snapshot
        BY <1>2, <1>3, <1>4, <1>6, <2>1, <2>3 DEF AddRevision, VersionOf
    <2>4. QED
        BY <2>2, <2>3 DEF AddRevision
<1>10. HandlerInv'
    <2>1. CASE handler'.pc = "idle"
        BY <2>1 DEF HandlerInv
    <2>2. CASE handler' = [handler EXCEPT !.pc = "status"]
        <3>1. handler'.pc = "status" /\ handler'.ns = n /\ handler'.next = handler.next
            BY <1>1, <2>2 DEF Handler
        <3>2. Snapshot' = Snapshot /\ Given' = k
            BY <1>1, <3>1 DEF Snapshot, Given
        <3>3. QED
            BY <1>2, <3>1, <3>2 DEF HandlerInv, AddRevision
    <2>3. QED
        BY <2>1, <2>2
<1>11. PublishedRevisionHeld' /\ VersionsInOrder(n)'
    BY DEF RevisionInv, AddRevision, PublishedRevisionHeld, VersionsInOrder, Versions, VersionOf
<1>12. QED
    BY <1>8, <1>9, <1>10, <1>11 DEF RevisionInvRest, RevisionInv, AddRevision

\* A status update is accepted: the revision created is published.
LEMMA PublishStep ==
    ASSUME OneNamespace, RevisionInv, TypeOK', NEW n \in Namespaces,
           At("status"), StatusAccepted, WriteComponent(handler.ns, Published),
           handler'.pc \in {"idle", "list", "enqueue"},
           UNCHANGED <<componentCache, revisions, revisionCache, issued>>
    PROVE  /\ RevisionInvRest(n)'
           /\ component'[n].latest = component[n].latest + 1
<1> DEFINE o == component[n]
           c == component'[n]
           k == componentCache[n]
<1>1. TypeOK /\ handler.ns = n /\ Given = k /\ VersionsInOrder(n)
    BY DEF RevisionInv, TypeOK, Handler, OneNamespace, Given
<1>2. o.alive /\ (\A d \in Versions(n) : d = o) /\ k = o
    BY <1>1, AcceptedIsCurrent DEF StatusAccepted, Versions
<1>3. o \in Component /\ c \in Component /\ WriteComponent(n, c) /\ c = Published
    BY <1>1 DEF TypeOK, WriteComponent
<1>4. handler.next = o.latest + 1 /\ Snapshot \in revisions
    BY <1>1, <1>2 DEF RevisionInv, HandlerInv, At
<1>5. /\ o.latest \in Nat /\ o.rv \in Nat /\ o.generation \in Nat
    BY <1>3, ComponentFields
<1>6. /\ c.rv = o.rv + 1 /\ c.latest = o.latest + 1 /\ c.observedGeneration = o.generation
      /\ c.generation = o.generation /\ c.spec = o.spec
    BY <1>1, <1>2, <1>3, <1>4 DEF Published, Component
<1>7. \A d \in Versions(n) : VersionOf(d, c)
    BY <1>2, <1>5, <1>6 DEF VersionOf
<1>8. VersionsInOrder(n)'
    BY <1>1, <1>3, <1>6, <1>7, WriteKeepsOrder
<1>9. \A r \in issued : r.revision \in Nat
    BY <1>1 DEF TypeOK, Revision
<1>10. IssuedInv(n)'
    BY <1>2, <1>5, <1>6, <1>9 DEF RevisionInv, IssuedInv
<1>11. PublishedRevisionHeld'
    <2>1. /\ Name(Snapshot) = <<n, c.latest>>
          /\ Snapshot.generation = c.observedGeneration
          /\ Snapshot.spec = c.spec
        BY <1>1, <1>2, <1>4, <1>6 DEF Snapshot, Name
    <2>2. QED
        BY <1>4, <2>1 DEF PublishedRevisionHeld, OneNamespace
<1>12. HandlerInv' /\ RevisionNameNeverRebound'
    BY <1>2 DEF HandlerInv, RevisionInv, RevisionNameNeverRebound, OneNamespace
<1>13. QED
    BY <1>6, <1>8, <1>10, <1>11, <1>12 DEF RevisionInvRest, RevisionInv

\* A cleanup decides what it may delete.
LEMMA ListStep ==
    ASSUME OneNamespace, RevisionInv, NEW n \in Namespaces, ListRevisions
    PROVE  RevisionInvRest(n)'
<1> DEFINE listed == Names(revisionCache)
           victims == {v \in listed : v[2] \notin LiveHashes}
<1>1. TypeOK /\ handler \in Handler /\ At("list")
    BY DEF RevisionInv, TypeOK, ListRevisions
<1>2. IsFiniteSet(listed) /\ IsFiniteSet(LiveHashes) /\ listed \subseteq Names(issued)
    BY <1>1, NamesFinite, LiveHashesFinite DEF RevisionInv, TypeOK, Names
<1>3. \A v \in listed : v = <<n, v[2]>>
    BY <1>1 DEF TypeOK, Revision, Names, Name, OneNamespace
<1>4. IsFiniteSet(victims) /\ ToKill(listed) + RevisionLimit <= Cardinality(victims)
    BY <1>2, <1>3, VictimsSpared
<1>5. HandlerInv'
    <2>1. CASE ToKill(listed) > 0 /\ victims # {}
        <3>1. /\ handler'.pc = "kill" /\ handler'.toKill = ToKill(listed)
              /\ handler'.victims = victims /\ issued' = issued
            BY <1>1, <2>1 DEF ListRevisions, Handler
        <3>2. QED
            BY <1>2, <1>4, <2>1, <3>1 DEF HandlerInv, Names
    <2>2. CASE ~(ToKill(listed) > 0 /\ victims # {})
        <3>1. handler'.pc = "enqueue"
            BY <1>1, <2>2 DEF ListRevisions, Handler
        <3>2. QED
            BY <3>1 DEF HandlerInv
    <2>3. QED
        BY <2>1, <2>2
<1>6. handler.pc = "list"
    BY <1>1 DEF At
<1>7. (component[n].alive => IssuedInv(n))' /\ PublishedRevisionHeld' /\ RevisionNameNeverRebound'
    BY <1>6 DEF RevisionInv, ListRevisions, IssuedInv, PublishedRevisionHeld,
                RevisionNameNeverRebound
<1>8. VersionsInOrder(n)'
    BY DEF RevisionInv, ListRevisions, VersionsInOrder, Versions, VersionOf
<1>9. QED
    BY <1>5, <1>7, <1>8 DEF RevisionInvRest, RevisionInv, ListRevisions

\* The oldest victim is never the published revision: at least one more recent
\* victim is spared.
LEMMA OldestNotPublished ==
    ASSUME OneNamespace, RevisionLimit > 0, RevisionInv, NEW n \in Namespaces, At("kill"),
           component[n].alive, NEW v \in handler.victims, Oldest(v)
    PROVE  v # <<n, component[n].latest>>
<1> DEFINE c == component[n]
           V == handler.victims
<1> SUFFICES ASSUME v = <<n, c.latest>> PROVE FALSE
    OBVIOUS
<1>1. /\ TypeOK /\ handler.pc = "kill" /\ IsFiniteSet(V) /\ V \subseteq Names(issued)
      /\ handler.toKill > 0 /\ handler.toKill + RevisionLimit <= Cardinality(V)
    BY DEF RevisionInv, HandlerInv, At
<1>2. c.latest \in Nat /\ handler.toKill \in Nat
    BY <1>1, VersionsType, ComponentFields DEF TypeOK, Handler
<1>3. ASSUME NEW w \in V PROVE w = v
    <2>1. PICK r \in issued : w = <<r.ns, r.revision>>
        BY <1>1 DEF Names, Name
    <2>2. r.ns = n /\ r.revision \in Nat
        BY <1>1 DEF TypeOK, Revision, OneNamespace
    <2>3. r.revision <= c.latest + 1 /\ r.revision # c.latest + 1
        BY <1>1, <2>2 DEF RevisionInv, IssuedInv
    <2>4. c.latest <= r.revision
        BY <2>1 DEF Oldest
    <2>5. r.revision = c.latest
        BY <1>2, <2>2, <2>3, <2>4
    <2>6. QED
        BY <2>1, <2>2, <2>5
<1>4. V = {v}
    BY <1>3
<1>5. Cardinality(V) = 1
    BY <1>4, FS_Singleton
<1>6. QED
    BY <1>1, <1>2, <1>5, BoundsAssumption

\* The cleanup deletes its oldest victim, or fails to.
LEMMA KillStep ==
    ASSUME OneNamespace, RevisionLimit > 0, RevisionInv, NEW n \in Namespaces, At("kill"),
           NEW v \in handler.victims, Oldest(v),
           revisions' \in {revisions, {r \in revisions : Name(r) # v}},
           AfterKill(v) \/ AbortCleanup,
           UNCHANGED <<component, events, componentCache, revisionCache, issued>>
    PROVE  RevisionInvRest(n)'
<1> DEFINE c == component[n]
           V == handler.victims
<1>1. /\ TypeOK /\ handler.pc = "kill" /\ IsFiniteSet(V) /\ V \subseteq Names(issued)
      /\ handler.toKill > 0 /\ handler.toKill + RevisionLimit <= Cardinality(V)
      /\ handler \in Handler /\ handler.toKill \in Nat
    BY DEF RevisionInv, HandlerInv, At, TypeOK, Handler
<1>2. HandlerInv'
    <2>1. CASE handler' = [handler EXCEPT !.pc = "enqueue", !.toKill = 0, !.victims = {}]
        <3>1. handler'.pc = "enqueue"
            BY <1>1, <2>1 DEF Handler
        <3>2. QED
            BY <3>1 DEF HandlerInv
    <2>2. CASE /\ handler.toKill - 1 > 0
               /\ handler' = [handler EXCEPT !.toKill = @ - 1, !.victims = @ \ {v}]
        <3>1. /\ handler'.pc = "kill" /\ handler'.toKill = handler.toKill - 1
              /\ handler'.victims = V \ {v}
            BY <1>1, <2>2 DEF Handler
        <3>2. /\ IsFiniteSet(V \ {v}) /\ Cardinality(V \ {v}) = Cardinality(V) - 1
              /\ Cardinality(V) \in Nat
            BY <1>1, FS_RemoveElement, FS_CardinalityType
        <3>3. QED
            BY <1>1, <2>2, <3>1, <3>2, BoundsAssumption DEF HandlerInv, Names
    <2>3. QED
        BY <1>1, <2>1, <2>2 DEF AfterKill, AbortCleanup
<1>3. PublishedRevisionHeld'
    <2> SUFFICES ASSUME c.alive, c.latest > 0
                 PROVE  \E r \in revisions' :
                            /\ Name(r) = <<n, c.latest>>
                            /\ r.generation = c.observedGeneration
                            /\ c.generation = c.observedGeneration => r.spec = c.spec
        BY DEF PublishedRevisionHeld, OneNamespace
    <2>1. v # <<n, c.latest>>
        BY OldestNotPublished
    <2>2. QED
        BY <2>1 DEF RevisionInv, PublishedRevisionHeld
<1>4. c.alive => IssuedInv(n)'
    BY <1>1 DEF RevisionInv, IssuedInv
<1>5. VersionsInOrder(n)' /\ RevisionNameNeverRebound'
    BY DEF RevisionInv, VersionsInOrder, Versions, VersionOf, RevisionNameNeverRebound
<1>6. QED
    BY <1>2, <1>3, <1>4, <1>5 DEF RevisionInvRest, RevisionInv

\* A restart: everything is read anew.
LEMMA RestartStep ==
    ASSUME RevisionInv, NEW n \in Namespaces, Restart
    PROVE  RevisionInvRest(n)'
<1>1. TypeOK /\ component' = component /\ componentCache'[n] = component[n]
         /\ events'[n] \in {<<component[n]>>, <<>>}
    BY DEF RevisionInv, Restart
<1>2. Versions(n)' = {component[n]}
    BY <1>1 DEF Versions
<1>3. VersionOf(component[n], component[n]) /\ component[n].rv \in Nat
    BY <1>1, VersionsType, ComponentFields DEF VersionOf
<1>4. \A i \in DOMAIN events'[n] : events'[n][i] = component[n]
    BY <1>1
<1>5. VersionsInOrder(n)'
    BY <1>1, <1>2, <1>3, <1>4 DEF VersionsInOrder, VersionOf
<1>6. handler'.pc = "idle"
    BY DEF Restart, Idle
<1>7. HandlerInv'
    BY <1>6 DEF HandlerInv
<1>8. (component[n].alive => IssuedInv(n))' /\ PublishedRevisionHeld' /\ RevisionNameNeverRebound'
    BY <1>6 DEF RevisionInv, Restart, IssuedInv, PublishedRevisionHeld, RevisionNameNeverRebound
<1>9. QED
    BY <1>5, <1>7, <1>8 DEF RevisionInvRest, RevisionInv, Restart

\* Every step keeps the inductive invariant.
LEMMA RevisionInductive ==
    ASSUME OneNamespace, RevisionLimit > 0
    PROVE  RevisionInv /\ [Next]_vars => RevisionInv'
<1> SUFFICES ASSUME RevisionInv, [Next]_vars PROVE RevisionInv'
    OBVIOUS
<1>1. TypeOK /\ TypeOK' /\ handler \in Handler
    BY TypeInductive DEF RevisionInv, TypeOK
<1>2. ASSUME NEW n \in Namespaces PROVE RevisionInvRest(n)'
    <2> DEFINE Rest == RevisionInvRest(n)'
    <2>n. \A m \in Namespaces : m = n
        BY DEF OneNamespace
    <2>g. /\ Goto("idle") => handler'.pc = "idle"
          /\ Goto("status") => handler' = [handler EXCEPT !.pc = "status"]
          /\ Goto("list") \/ Goto("enqueue") => handler'.pc \in {"list", "enqueue"}
        BY <1>1 DEF Goto, Idle, Handler
    <2>1. CASE \E m \in Namespaces, s \in Specs : EditComponent(m, s)
        BY <1>1, <2>n, <2>1, EditStep
    <2>2. CASE \E m \in Namespaces : DeleteComponent(m)
        BY <1>1, <2>n, <2>2, DeleteStep
    <2>3. CASE \E m \in Namespaces : CollectOwned(m)
        BY <2>n, <2>3, CollectStep
    <2>4. CASE \E m \in Namespaces : Resync(m)
        BY <2>n, <2>4, ResyncStep
    <2>5. CASE \E m \in Namespaces : HandleEvent(m)
        BY <2>n, <2>5, HandleStep
    <2>6. CASE \E a \in AppConfigs : \/ \E s \in AppConfigSpecs : EditAppConfig(a, s)
                                     \/ ResyncAppConfig(a) \/ Reconcile(a)
        BY <2>6, FrameStep DEF EditAppConfig, ResyncAppConfig, Reconcile
    <2>7. CASE SyncRevisionCache
        BY <2>7, SyncStep
    <2>8. CASE CreateRevision
        BY <2>8, <2>g, CreateStep DEF CreateRevision
    <2>9. CASE CreateFault
        <3>1. handler'.pc = "idle"
            BY <2>9, <2>g DEF CreateFault
        <3>2. CASE AddRevision
            BY <2>9, <3>1, <3>2, CreateStep DEF CreateFault
        <3>3. CASE UNCHANGED <<revisions, issued>>
            BY <2>9, <3>1, <3>3, IdleStep DEF CreateFault
        <3>4. QED
            BY <2>9, <3>2, <3>3 DEF CreateFault
    <2>10. CASE CreateAlreadyExists \/ UpdateStatusRejected
        BY <2>10, <2>g, IdleStep DEF CreateAlreadyExists, UpdateStatusRejected
    <2>11. CASE UpdateStatus
        <3>1. handler'.pc \in {"idle", "list", "enqueue"}
            BY <2>11, <2>g DEF UpdateStatus
        <3>2. QED
            BY <1>1, <2>11, <3>1, PublishStep DEF UpdateStatus
    <2>12. CASE StatusFault
        <3>1. handler'.pc = "idle"
            BY <2>12, <2>g DEF StatusFault
        <3>2. CASE StatusAccepted /\ WriteComponent(handler.ns, Published)
            BY <1>1, <2>12, <3>1, <3>2, PublishStep DEF StatusFault
        <3>3. CASE UNCHANGED <<component, events>>
            BY <2>12, <3>1, <3>3, IdleStep DEF StatusFault
        <3>4. QED
            BY <2>12, <3>2, <3>3 DEF StatusFault
    <2>13. CASE ListRevisions
        BY <2>13, ListStep
    <2>14. CASE DeleteRevision
        BY <2>14, KillStep DEF DeleteRevision
    <2>15. CASE DeleteFault
        BY <2>15, KillStep DEF DeleteFault
    <2>16. CASE EnqueueRelated
        BY <2>16, <2>g, IdleStep DEF EnqueueRelated
    <2>17. CASE Restart
        BY <2>17, RestartStep
    <2>18. CASE UNCHANGED vars
        BY <2>18, FrameStep DEF vars
    <2>19. QED
        BY <2>1, <2>2, <2>3, <2>4, <2>5, <2>6, <2>7, <2>8, <2>9, <2>10, <2>11, <2>12,
           <2>13, <2>14, <2>15, <2>16, <2>17, <2>18 DEF Next, HandlerStep, Fault
<1>3. PICK n \in Namespaces : TRUE
    BY NamespacesAssumption
<1>4. RevisionInvRest(n)'
    BY <1>2
<1>5. QED
    BY <1>1, <1>2, <1>4 DEF RevisionInv, RevisionInvRest

\* The initial states satisfy the inductive invariant.
LEMMA RevisionInitial == Init => RevisionInv
<1> SUFFICES ASSUME Init PROVE RevisionInv
    OBVIOUS
<1>1. TypeOK
    BY InitType
<1>2. handler.pc = "idle" /\ HandlerInv
    BY DEF Init, Idle, HandlerInv
<1>3. ASSUME NEW n \in Namespaces PROVE VersionsInOrder(n)
    <2>1. events[n] = <<component[n]>> /\ componentCache[n] = component[n]
        BY DEF Init
    <2>2. \A d \in Versions(n) : d = component[n]
        BY <2>1 DEF Versions
    <2>3. VersionOf(component[n], component[n]) /\ component[n].rv \in Nat
        BY <1>1, VersionsType, ComponentFields DEF VersionOf
    <2>4. QED
        BY <2>1, <2>2, <2>3 DEF VersionsInOrder
<1>4. \A n \in Namespaces : component[n].latest = 0
    BY DEF Init, NewComponent
<1>5. QED
    BY <1>1, <1>2, <1>3, <1>4
       DEF Init, RevisionInv, IssuedInv, PublishedRevisionHeld, RevisionNameNeverRebound

\* In every behaviour, with a positive --revision-limit and the component in one
\* namespace, the inductive invariant of ComponentHandler holds.
THEOREM RevisionInvariant ==
    ASSUME OneNamespace, RevisionLimit > 0
    PROVE  Spec => []RevisionInv
BY RevisionInitial, RevisionInductive, PTL DEF Spec

\* The revision a component's status publishes is never lost, and is the snapshot the
\* status says it is (createControllerRevision against cleanupControllerRevision).
THEOREM PublishedRevisionAlwaysHeld ==
    ASSUME OneNamespace, RevisionLimit > 0
    PROVE  Spec => []PublishedRevisionHeld
<1>1. RevisionInv => PublishedRevisionHeld
    BY DEF RevisionInv
<1>2. QED
    BY <1>1, RevisionInvariant, PTL

\* A revision name is never given to a second snapshot while the component lives
\* (IsRevisionDiff and createControllerRevision).
THEOREM NameNeverRebound ==
    ASSUME OneNamespace, RevisionLimit > 0
    PROVE  Spec => []RevisionNameNeverRebound
<1>1. RevisionInv => RevisionNameNeverRebound
    BY DEF RevisionInv
<1>2. QED
    BY <1>1, RevisionInvariant, PTL

\* The published number goes up one at a time (Status().Update in
\* createControllerRevision), also when duplicate or delayed events are handled.
THEOREM PublishedNumberMonotone ==
    ASSUME OneNamespace, RevisionLimit > 0
    PROVE  Spec => PublishedMonotone
<1> DEFINE Mono == \A n \in Namespaces :
              component'[n].latest \in {component[n].latest, component[n].latest + 1}
<1>1. RevisionInv /\ [Next]_vars => [Mono]_vars
    <2> SUFFICES ASSUME RevisionInv, Next, NEW n \in Namespaces
                 PROVE  component'[n].latest \in {component[n].latest, component[n].latest + 1}
        OBVIOUS
    <2>1. TypeOK /\ TypeOK' /\ handler \in Handler
        BY TypeInductive DEF RevisionInv, TypeOK
    <2>2. CASE \E m \in Namespaces : \/ DeleteComponent(m)
                                     \/ \E s \in Specs : EditComponent(m, s)
        <3>1. PICK m \in Namespaces : \/ DeleteComponent(m)
                                      \/ \E s \in Specs : EditComponent(m, s)
            BY <2>2
        <3>2. component'[m].latest = component[m].latest
            <4>1. component \in [Namespaces -> Component] /\ component[m] \in Component
                BY <2>1 DEF TypeOK
            <4>2. CASE DeleteComponent(m)
                BY <4>1, <4>2 DEF DeleteComponent, WriteComponent, Component
            <4>3. CASE \E s \in Specs : EditComponent(m, s)
                BY <4>1, <4>3 DEF EditComponent, WriteComponent, Component
            <4>4. QED
                BY <3>1, <4>2, <4>3
        <3>3. QED
            BY <3>2 DEF OneNamespace
    <2>3. CASE UpdateStatus
        <3>1. handler'.pc \in {"idle", "list", "enqueue"}
            BY <2>1, <2>3 DEF UpdateStatus, Goto, Handler
        <3>2. QED
            BY <2>1, <2>3, <3>1, PublishStep DEF UpdateStatus
    <2>4. CASE StatusFault
        <3>1. handler'.pc = "idle"
            BY <2>4 DEF StatusFault, Goto, Idle
        <3>2. QED
            BY <2>1, <2>4, <3>1, PublishStep DEF StatusFault
    <2>5. CASE component' = component
        BY <2>5
    <2>6. QED
        BY <2>2, <2>3, <2>4, <2>5
           DEF Next, HandlerStep, Fault, CollectOwned, Resync, HandleEvent, EditAppConfig,
               ResyncAppConfig, Reconcile, SyncRevisionCache, CreateRevision,
               CreateAlreadyExists, UpdateStatusRejected, ListRevisions, DeleteRevision,
               EnqueueRelated, CreateFault, DeleteFault, Restart
<1>2. QED
    BY <1>1, RevisionInvariant, PTL DEF Spec, PublishedMonotone
=============================================================================
