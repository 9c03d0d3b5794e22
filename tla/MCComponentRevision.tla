------------------------- MODULE MCComponentRevision -------------------------
(***************************************************************************)
(* Instances of ComponentRevision for TLC.                                 *)
(***************************************************************************)
EXTENDS ComponentRevision

CONSTANTS n1, n2, a1, a2

AllInFirst == [a \in AppConfigs |-> n1]

ByName == [byName |-> TRUE, pins |-> {}]
Pinning(p) == [byName |-> FALSE, pins |-> {p}]
NotListed == [byName |-> FALSE, pins |-> {}]

\* An ApplicationConfiguration that lists the component or pins one of its
\* revisions, or one of another component.
NameOrPin == {ByName, Pinning(0), Pinning(1), Pinning(2)}
OnlyByName == {ByName}
Unlisted == {NotListed}
=============================================================================
