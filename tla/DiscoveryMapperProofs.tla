------------------------- MODULE DiscoveryMapperProofs -------------------------
(***************************************************************************)
(* For any number of callers and kinds: a lookup finds nothing for one of  *)
(* three reasons, an old mapper not among them; what is found was served;  *)
(* and the race on the field can make a lookup panic only until the first  *)
(* refresh is through.                                                     *)
(***************************************************************************)
EXTENDS DiscoveryMapper, TLAPS

\* The types are kept by every step.
LEMMA TypeStep == TypeOK /\ [Next]_vars => TypeOK'
<1> SUFFICES ASSUME TypeOK, [Next]_vars PROVE TypeOK'
  OBVIOUS
<1> USE DEF TypeOK, Mapper, Places, Outcomes, server, field, Goto
<1>1. CASE \E S \in SUBSET Kinds : Serve(S)
  BY <1>1 DEF Serve
<1>2. ASSUME NEW c \in Callers, NEW k \in Kinds, Call(c, k) PROVE TypeOK'
  BY <1>2 DEF Call, Nil
<1>3. ASSUME NEW c \in Callers, Check(c) PROVE TypeOK'
  BY <1>3 DEF Check
<1>4. ASSUME NEW c \in Callers, Read(c) PROVE TypeOK'
  BY <1>4 DEF Read
<1>5. ASSUME NEW c \in Callers, Fetch(c) \/ Fetched(c) PROVE TypeOK'
  BY <1>5 DEF Fetch, Fetched, NewDiscoveryRESTMapper
<1>a. ASSUME NEW c \in Callers, NEW k \in Kinds, Ask(c, k) PROVE TypeOK'
  BY <1>a DEF Ask
<1>6. ASSUME NEW c \in Callers, StoreType(c) PROVE TypeOK'
  BY <1>6 DEF StoreType
<1>7. ASSUME NEW c \in Callers, StorePointer(c) PROVE TypeOK'
  BY <1>7 DEF StorePointer
<1>8. ASSUME NEW c \in Callers, Look(c) PROVE TypeOK'
  BY <1>8 DEF Look
<1>9. CASE UNCHANGED vars
  BY <1>9 DEF vars
<1> QED
  BY <1>1, <1>2, <1>3, <1>4, <1>5, <1>a, <1>6, <1>7, <1>8, <1>9 DEF Next

\* What the callers hold and have seen: each step of the invariant's remaining parts.
LEMMA CallStep ==
    ASSUME MapperInv, TypeOK', [Next]_vars
    PROVE  MapperInv'
<1> USE DEF MapperInv, CallInv, TypeOK, Mapper, Places, Outcomes, NoMatchJustified,
            FoundWasServed, server, field, Goto
<1>1. ASSUME NEW S \in SUBSET Kinds, Serve(S) PROVE MapperInv'
  BY <1>1 DEF Serve
<1>2. ASSUME NEW c \in Callers, NEW k \in Kinds, Call(c, k) PROVE MapperInv'
  BY <1>2 DEF Call, Nil
<1>3. ASSUME NEW c \in Callers, Check(c) PROVE MapperInv'
  BY <1>3 DEF Check
<1>4. ASSUME NEW c \in Callers, Read(c) PROVE MapperInv'
  BY <1>4 DEF Read
<1>5. ASSUME NEW c \in Callers, Fetch(c) PROVE MapperInv'
  <2>1. CASE pc' = [pc EXCEPT ![c] = "failed"] /\ UNCHANGED <<view, asked, lost>>
    BY <1>5, <2>1 DEF Fetch
  <2>2. CASE /\ pc' = [pc EXCEPT ![c] = "ask"]
             /\ view' = [view EXCEPT ![c] = NewDiscoveryRESTMapper({})]
             /\ asked' = [asked EXCEPT ![c] = {}]
             /\ lost' = lost \ {c}
    <3>1. ASSUME NEW d \in Callers PROVE CallInv(d)'
      <4>1. CASE d = c
        BY <1>5, <2>2, <4>1 DEF Fetch, NewDiscoveryRESTMapper
      <4>2. CASE d # c
        <5>1. /\ pc'[d] = pc[d] /\ view'[d] = view[d] /\ asked'[d] = asked[d]
              /\ d \in lost' <=> d \in lost
          BY <2>2, <4>2
        <5> QED
          BY <1>5, <5>1 DEF Fetch
      <4> QED
        BY <4>1, <4>2
    <3>2. NoMatchJustified' /\ FoundWasServed'
      BY <1>5, <2>2 DEF Fetch
    <3> QED
      BY <1>5, <3>1, <3>2 DEF Fetch
  <2> QED
    BY <1>5, <2>1, <2>2 DEF Fetch
<1>b. ASSUME NEW c \in Callers, Fetched(c) PROVE MapperInv'
  BY <1>b DEF Fetched
<1>a. ASSUME NEW c \in Callers, NEW k \in Kinds, Ask(c, k) PROVE MapperInv'
  BY <1>a DEF Ask
<1>6. ASSUME NEW c \in Callers, StoreType(c) PROVE MapperInv'
  BY <1>6 DEF StoreType
<1>7. ASSUME NEW c \in Callers, StorePointer(c) PROVE MapperInv'
  BY <1>7 DEF StorePointer
<1>8. ASSUME NEW c \in Callers, Look(c) PROVE MapperInv'
  BY <1>8 DEF Look
<1>9. CASE UNCHANGED vars
  BY <1>9 DEF vars
<1> QED
  BY <1>1, <1>2, <1>3, <1>4, <1>5, <1>a, <1>b, <1>6, <1>7, <1>8, <1>9 DEF Next

\* The invariant holds at the beginning and is kept: Refresh, GetMapper and the two lookups keep
\* what each caller knows of its own discovery, whatever the others write into d.mapper.
THEOREM MapperInvariant == Spec => []MapperInv
<1>1. Init => MapperInv
  <2> SUFFICES ASSUME Init PROVE MapperInv
    OBVIOUS
  <2>1. TypeOK
    BY DEF Init, TypeOK, Mapper, Nil, Places
  <2>2. served \subseteq ever /\ mapper.kinds \subseteq ever
    BY DEF Init, Nil
  <2>3. \A c \in Callers : pc[c] = "idle" /\ view[c].kinds = {}
    BY DEF Init, Nil
  <2> QED
    BY <2>1, <2>2, <2>3 DEF MapperInv, CallInv, Outcomes, NoMatchJustified, FoundWasServed
<1>2. MapperInv /\ [Next]_vars => MapperInv'
  BY TypeStep, CallStep DEF MapperInv
<1> QED
  BY <1>1, <1>2, PTL DEF Spec

\* RESTMapping and KindsFor report a kind as missing only if it was absent at some time during
\* the call, if its group did not answer the caller's own refresh, or if another caller's refresh
\* overtook that: a mapper that was old when the call began is never the reason.
THEOREM NoMatchIsJustified == Spec => []NoMatchJustified
<1>1. MapperInv => NoMatchJustified
  BY DEF MapperInv
<1> QED
  BY <1>1, MapperInvariant, PTL

\* RESTMapping and KindsFor find only what the API server has served at some time.
THEOREM FoundIsServed == Spec => []FoundWasServed
<1>1. MapperInv => FoundWasServed
  BY DEF MapperInv
<1> QED
  BY <1>1, MapperInvariant, PTL

\* Once a refresh has written the pointer of d.mapper, no caller takes a nil pointer from it.
THEOREM PanicsOnlyAtStart == Spec => PanicOnlyAtStart
<1> DEFINE Safe == mapper.state = "loaded" =>
              /\ mapper'.state = "loaded"
              /\ \A c \in Callers :
                    pc[c] # "look" /\ pc'[c] = "look" => view'[c].state = "loaded"
<1>1. MapperInv /\ [Next]_vars => [Safe]_vars
  <2> SUFFICES ASSUME MapperInv, Next PROVE Safe
    OBVIOUS
  <2> USE DEF MapperInv, CallInv, TypeOK, Mapper, Places, Outcomes, server, field, Goto
  <2>1. ASSUME NEW S \in SUBSET Kinds, Serve(S) PROVE Safe
    BY <2>1 DEF Serve
  <2>2. ASSUME NEW c \in Callers, NEW k \in Kinds, Call(c, k) PROVE Safe
    BY <2>2 DEF Call
  <2>3. ASSUME NEW c \in Callers, Check(c) \/ Read(c) \/ Fetch(c) \/ Fetched(c) \/ StoreType(c)
        PROVE  Safe
    BY <2>3 DEF Check, Read, Fetch, Fetched, StoreType
  <2>a. ASSUME NEW c \in Callers, NEW k \in Kinds, Ask(c, k) PROVE Safe
    BY <2>a DEF Ask
  <2>4. ASSUME NEW c \in Callers, StorePointer(c) PROVE Safe
    BY <2>4 DEF StorePointer
  <2>5. ASSUME NEW c \in Callers, Look(c) PROVE Safe
    BY <2>5 DEF Look
  <2> QED
    BY <2>1, <2>2, <2>3, <2>a, <2>4, <2>5 DEF Next
<1> QED
  BY <1>1, MapperInvariant, PTL DEF Spec, PanicOnlyAtStart
===============================================================================
