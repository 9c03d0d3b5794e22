----------------------------- MODULE MCDependency -----------------------------
(***************************************************************************)
(* Instances of Dependency for TLC.                                        *)
(***************************************************************************)
EXTENDS Dependency

CONSTANTS a, b, c, s1, x, y, v, w

In(from) == [from |-> from, store |-> NoStore, ops |-> <<>>, conds |-> {}]
Out(name, conds) ==
    [name |-> name, path |-> "out", conds |-> conds, store |-> NoStore, ops |-> <<>>]
Op(path, value) == [to |-> "out", path |-> path, value |-> value, conds |-> {}]

IsV == [op |-> "eq", path |-> NoPath, value |-> v]
NotW == [op |-> "notEq", path |-> "out", value |-> w]

\* b waits for c, which is listed after it, to say v, and a for b.
Chain == <<[object |-> b, inputs |-> <<In(y)>>, outputs |-> <<Out(x, {NotW})>>],
           [object |-> a, inputs |-> <<In(x)>>, outputs |-> <<>>],
           [object |-> c, inputs |-> <<>>, outputs |-> <<Out(y, {IsV})>>]>>

\* a waits for b through a store, and for the value of an output of b.
Stored == <<[object |-> a,
             inputs |-> <<[In(NoOutput) EXCEPT !.store = s1, !.ops = <<Op("out", Empty)>>],
                          In(x)>>,
             outputs |-> <<>>],
            [object |-> b, inputs |-> <<>>,
             outputs |-> <<Out(x, {IsV}),
                           [Out(y, {}) EXCEPT !.store = s1,
                                              !.ops = <<Op(NoPath, v), Op("out", Empty)>>]>>]>>

\* a and b wait for each other, and c for nothing that is there.
Cycle == <<[object |-> a, inputs |-> <<In(x)>>, outputs |-> <<Out(y, {})>>],
           [object |-> b, inputs |-> <<In(y)>>, outputs |-> <<Out(x, {})>>]>>
Missing == <<[object |-> a, inputs |-> <<In(x)>>, outputs |-> <<>>]>>

\* a is to be updated only while its own field allows.
Guarded == <<[object |-> a,
              inputs |-> <<[In(x) EXCEPT !.conds = {[op |-> "notEmpty", path |-> "out",
                                                     value |-> Empty]}]>>,
              outputs |-> <<>>],
             [object |-> b, inputs |-> <<>>, outputs |-> <<Out(x, {IsV})>>]>>

\* a waits for b, and is to store an output that takes nothing from it.
Eager == <<[object |-> a, inputs |-> <<In(x)>>,
            outputs |-> <<[Out(y, {}) EXCEPT !.store = s1, !.ops = <<Op(NoPath, v)>>]>>],
           [object |-> b, inputs |-> <<>>, outputs |-> <<Out(x, {})>>]>>

\* a waits for b through a store, and then errs, having a condition on no output.
Nameless == <<[object |-> a,
               inputs |-> <<[from |-> NoOutput, store |-> s1, ops |-> <<Op("out", Empty)>>,
                             conds |-> {NotW}]>>,
               outputs |-> <<>>],
              [object |-> b, inputs |-> <<>>,
               outputs |-> <<[Out(y, {}) EXCEPT !.store = s1, !.ops = <<Op("out", Empty)>>]>>]>>

AllApps == {Chain, Stored, Cycle, Missing, Guarded, Eager, Nameless}
AllFlags == {[longWait |-> FALSE, applyOnceOnly |-> TRUE],
             [longWait |-> TRUE, applyOnceOnly |-> FALSE]}
==============================================================================
