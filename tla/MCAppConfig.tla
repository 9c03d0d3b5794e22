----------------------------- MODULE MCAppConfig -----------------------------
(***************************************************************************)
(* Instances of AppConfig for TLC.                                         *)
(***************************************************************************)
EXTENDS AppConfig

CONSTANTS w1, w2, t1, s1, s2

E(w, traits, scs) == [workload |-> w, traits |-> traits, scopes |-> scs]

\* A component with a trait in a scope, the component without both beside one that has joined
\* two scopes, of which the first takes no references, and no component at all.
Moving == {<<E(w1, <<t1>>, <<s1>>)>>, <<E(w1, <<>>, <<>>), E(w2, <<>>, <<s2, s1>>)>>, <<>>}

\* One component after another, in the same scope or in one that takes no references, or none.
Replaced == {<<E(w1, <<t1>>, <<s1>>)>>, <<E(w2, <<>>, <<s1>>)>>}
ReplacedPlain == {<<E(w1, <<t1>>, <<s1>>)>>, <<E(w2, <<>>, <<s2>>)>>, <<>>}
==============================================================================
