------------------------------ MODULE MCRendering ------------------------------
(* Contents and entries for TLC. *)
EXTENDS Rendering

Plain == [form |-> "gvk", data |-> "a", named |-> FALSE, nameParam |-> "no"]

\* A plain content, and one written by type, with a parameter for the name of the workload.
SomeContents ==
    {Plain,
     [Plain EXCEPT !.form = "type", !.data = "b", !.nameParam = "optional"]}

Rollout(d) == [form |-> "gvk", data |-> d, kind |-> "rollout", name |-> NoName]
Scaler(f, n) == [form |-> f, data |-> "a", kind |-> "scaler", name |-> n]

ByName(v, ts) == [component |-> TRUE, pin |-> 0, value |-> v, traits |-> ts]
Pinned(ts) == [component |-> FALSE, pin |-> 1, value |-> FALSE, traits |-> ts]

\* Versioned and not, by name and pinned, a trait that changes its contents, named and by type,
\* and entries the webhook denies: a value for the name, both names, no name.
SomeEntries ==
    {ByName(FALSE, <<>>),
     ByName(FALSE, <<Rollout("a")>>),
     Pinned(<<Rollout("b"), Scaler("type", "n")>>),
     ByName(TRUE, <<Rollout("a")>>),
     [ByName(FALSE, <<>>) EXCEPT !.pin = 1],
     [ByName(FALSE, <<>>) EXCEPT !.component = FALSE]}
===============================================================================
