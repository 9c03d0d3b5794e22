---------------------------- MODULE MCHealthScope ----------------------------
(***************************************************************************)
(* Instances of HealthScope for TLC.                                       *)
(***************************************************************************)
EXTENDS HealthScope

CONSTANTS cw, dep, svc, set1, set2, job

\* A ContainerizedWorkload with its children, two revisions of a StatefulSet, and a
\* workload of a kind the controller does not know.
MCKind == (cw :> "ContainerizedWorkload") @@ (dep :> "Deployment") @@ (svc :> "Service")
          @@ (set1 :> "StatefulSet") @@ (set2 :> "StatefulSet") @@ (job :> "Other")
MCChildren == [o \in Objects |-> IF o = cw THEN <<dep, svc>> ELSE <<>>]
MCComponent == [o \in Objects |-> IF o \in {set1, set2} THEN "db" ELSE NoLabels]
\* Everything is in order but a Deployment.
MCWorlds == {[o \in Objects |-> IF o = dep THEN "unready" ELSE "ready"]}
MCRefSets == {{cw, set1}, {job}}
==============================================================================
