---------------------------- MODULE DiscoveryMapper ----------------------------
(***************************************************************************)
(* The cached REST mapping that a webhook handler uses for all requests.   *)
(* The API server calls a handler from many goroutines at a time, and they *)
(* share the field d.mapper without a lock: a lookup reads it, refreshes   *)
(* it if it is nil or does not have the kind, and looks once more.         *)
(*                                                                         *)
(* The field is an interface, two words in memory: a type and a pointer.   *)
(* The race is modelled by writing them one after the other, in any order. *)
(*                                                                         *)
(* A discovery is no snapshot: it asks for one API group after the other,  *)
(* and a group that does not answer is left out without an error.          *)
(***************************************************************************)

CONSTANTS
    Callers,    \* goroutines
    Kinds       \* kinds of resources

VARIABLES
    served,     \* the kinds the API server has now
    ever,       \* history: the kinds it has ever had
    typed,      \* is the type word of d.mapper set?
    mapper,     \* its pointer: nil, or the kinds of one discovery
    pc,         \* where each caller is
    kind,       \* the kind it looks up
    view,       \* the mapper it holds
    asked,      \* the kinds whose group its discovery has asked for
    again,      \* the callers that look for the second time
    absent,     \* history: those whose kind has been absent at some time during the call
    overtaken,  \* history: those between whose write and read another one has written
    lost        \* history: those whose last discovery got no answer from the group of their kind

vars == <<served, ever, typed, mapper, pc, kind, view, asked, again, absent, overtaken, lost>>
server == <<served, ever>>
field == <<typed, mapper>>

Mapper == [state : {"nil", "loaded"}, kinds : SUBSET Kinds]
Nil == [state |-> "nil", kinds |-> {}]
NewDiscoveryRESTMapper(S) == [state |-> "loaded", kinds |-> S]

Outcomes == {"found", "noMatch", "failed", "panic"}
Places == {"idle", "check", "read", "fetch", "ask", "store", "typeLeft", "pointerLeft", "reread",
           "look"} \cup Outcomes

TypeOK ==
    /\ served \subseteq Kinds
    /\ ever \subseteq Kinds
    /\ typed \in BOOLEAN
    /\ mapper \in Mapper
    /\ pc \in [Callers -> Places]
    /\ kind \in [Callers -> Kinds]
    /\ view \in [Callers -> Mapper]
    /\ asked \in [Callers -> SUBSET Kinds]
    /\ again \subseteq Callers
    /\ absent \subseteq Callers
    /\ overtaken \subseteq Callers
    /\ lost \subseteq Callers

Init ==
    /\ served \in SUBSET Kinds /\ ever = served
    /\ typed = FALSE /\ mapper = Nil
    /\ pc = [c \in Callers |-> "idle"]
    /\ kind \in [Callers -> Kinds]
    /\ view = [c \in Callers |-> Nil]
    /\ asked = [c \in Callers |-> {}]
    /\ again = {} /\ absent = {} /\ overtaken = {} /\ lost = {}

\* Custom resource definitions come and go.
Serve(S) ==
    /\ served' = S
    /\ ever' = ever \cup S
    /\ absent' = absent \cup {c \in Callers : kind[c] \notin S}
    /\ UNCHANGED <<field, pc, kind, view, asked, again, overtaken, lost>>

Goto(c, p) == pc' = [pc EXCEPT ![c] = p]

\* RESTMapping or KindsFor is called.
Call(c, k) ==
    /\ pc[c] \in {"idle"} \cup Outcomes
    /\ Goto(c, "check")
    /\ kind' = [kind EXCEPT ![c] = k]
    /\ view' = [view EXCEPT ![c] = Nil]
    /\ again' = again \ {c}
    /\ absent' = IF k \in served THEN absent \ {c} ELSE absent \cup {c}
    /\ overtaken' = overtaken \ {c}
    /\ lost' = lost \ {c}
    /\ UNCHANGED <<server, field, asked>>

\* GetMapper: is d.mapper nil?
Check(c) ==
    /\ pc[c] = "check"
    /\ Goto(c, IF typed THEN "read" ELSE "fetch")
    /\ UNCHANGED <<server, field, kind, view, asked, again, absent, overtaken, lost>>

\* GetMapper, and Refresh at its end, return d.mapper as it is now.
Read(c) ==
    /\ pc[c] \in {"read", "reread"}
    /\ Goto(c, "look")
    /\ view' = [view EXCEPT ![c] = mapper]
    /\ UNCHANGED <<server, field, kind, asked, again, absent, overtaken, lost>>

\* Refresh: a discovery begins, or fails as a whole.
Fetch(c) ==
    /\ pc[c] = "fetch"
    /\ \/ /\ Goto(c, "ask")
          /\ view' = [view EXCEPT ![c] = NewDiscoveryRESTMapper({})]
          /\ asked' = [asked EXCEPT ![c] = {}]
          /\ lost' = lost \ {c}
       \/ /\ Goto(c, "failed")
          /\ UNCHANGED <<view, asked, lost>>
    /\ UNCHANGED <<server, field, kind, again, absent, overtaken>>

\* The group of kind k says whether it has it, or does not answer: GetAPIGroupResources goes on
\* without a group that failed and reports no error.
Ask(c, k) ==
    /\ pc[c] = "ask" /\ k \notin asked[c]
    /\ asked' = [asked EXCEPT ![c] = @ \cup {k}]
    /\ \/ /\ view' = [view EXCEPT ![c].kinds = @ \cup ({k} \cap served)]
          /\ UNCHANGED lost
       \/ /\ lost' = IF k = kind[c] THEN lost \cup {c} ELSE lost
          /\ UNCHANGED view
    /\ UNCHANGED <<server, field, pc, kind, again, absent, overtaken>>

\* All groups have been asked for.
Fetched(c) ==
    /\ pc[c] = "ask" /\ asked[c] = Kinds
    /\ Goto(c, "store")
    /\ UNCHANGED <<server, field, kind, view, asked, again, absent, overtaken, lost>>

StoreType(c) ==
    /\ pc[c] \in {"store", "typeLeft"}
    /\ Goto(c, IF pc[c] = "store" THEN "pointerLeft" ELSE "reread")
    /\ typed' = TRUE
    /\ UNCHANGED <<server, mapper, kind, view, asked, again, absent, overtaken, lost>>

StorePointer(c) ==
    /\ pc[c] \in {"store", "pointerLeft"}
    /\ Goto(c, IF pc[c] = "store" THEN "typeLeft" ELSE "reread")
    /\ mapper' = view[c]
    /\ overtaken' = (overtaken \cup {d \in Callers : pc[d] \in {"typeLeft", "reread"}}) \ {c}
    /\ UNCHANGED <<server, typed, kind, view, asked, again, absent, lost>>

\* The lookup: a panic without a pointer; the kind found; a refresh after the first miss.
Look(c) ==
    /\ pc[c] = "look"
    /\ \/ view[c].state = "nil" /\ Goto(c, "panic") /\ UNCHANGED again
       \/ view[c].state = "loaded" /\ kind[c] \in view[c].kinds /\ Goto(c, "found")
             /\ UNCHANGED again
       \/ /\ view[c].state = "loaded" /\ kind[c] \notin view[c].kinds
          /\ Goto(c, IF c \in again THEN "noMatch" ELSE "fetch")
          /\ again' = again \cup {c}
    /\ UNCHANGED <<server, field, kind, view, asked, absent, overtaken, lost>>

Next ==
    \/ \E S \in SUBSET Kinds : Serve(S)
    \/ \E c \in Callers :
          \/ \E k \in Kinds : Call(c, k) \/ Ask(c, k)
          \/ Check(c) \/ Read(c) \/ Fetch(c) \/ Fetched(c) \/ StoreType(c) \/ StorePointer(c) \/ Look(c)

Spec == Init /\ [][Next]_vars

-------------------------------------------------------------------------------
(* Properties *)

\* A kind is reported as not there only for one of three reasons, and never because the mapper
\* was old when the call began: it was absent at some time during the call; its group did not
\* answer the caller's last discovery, which is no error; or another caller put the result of
\* its own discovery, which may be older than the call, in between (Refresh returns d.mapper and
\* not what it has made).
NoMatchJustified ==
    \A c \in Callers : pc[c] = "noMatch" => c \in absent \cup lost \cup overtaken

\* A kind is found only if the API server has had it at some time.
FoundWasServed == \A c \in Callers : pc[c] = "found" => kind[c] \in ever

\* The race can make a lookup panic only until the first refresh has written the field: after
\* that no caller takes a pointer that is nil.
PanicOnlyAtStart ==
    [][mapper.state = "loaded" =>
          /\ mapper'.state = "loaded"
          /\ \A c \in Callers : pc[c] # "look" /\ pc'[c] = "look" => view'[c].state = "loaded"]_vars

\* What makes them inductive: whatever is in the field or in a caller's hands was served; what a
\* caller's own discovery lacks was absent during the call or has got no answer; and what it has
\* made is what it reads back from the field unless it was overtaken.
CallInv(c) ==
    /\ view[c].kinds \subseteq ever
    /\ pc[c] \notin {"idle"} \cup Outcomes /\ kind[c] \notin served => c \in absent
    /\ pc[c] \in {"check", "read"} => c \notin again
    /\ pc[c] = "ask" =>
          /\ view[c].state = "loaded"
          /\ kind[c] \in asked[c] \ view[c].kinds => c \in absent \cup lost
    /\ pc[c] \in {"store", "typeLeft", "pointerLeft", "reread"} =>
          view[c].state = "loaded" /\ (kind[c] \notin view[c].kinds => c \in absent \cup lost)
    /\ pc[c] \in {"typeLeft", "reread"} => mapper = view[c] \/ c \in overtaken
    /\ pc[c] = "look" /\ c \in again /\ kind[c] \notin view[c].kinds =>
          c \in absent \cup lost \cup overtaken

MapperInv ==
    /\ TypeOK
    /\ served \subseteq ever
    /\ mapper.kinds \subseteq ever
    /\ \A c \in Callers : CallInv(c)
    /\ NoMatchJustified
    /\ FoundWasServed
===============================================================================
