---------------------------- MODULE MCInlineGraph ----------------------------
(* Two functions of up to two inline records each: the same callee from both,
   callees with and without a function of their own, stripped names at the same
   and at different call sites, a refused tree, two functions of one name. *)
EXTENDS InlineGraph

MCNames == {"f", "g", "h"}
Named    == [name : {"g", "h"}, parentPc : {0, 1, Root}, line : {1}]
Stripped == [name : {NoName}, parentPc : {0, 1}, line : {1, 2}]
MCInlinings == Named \cup Stripped
MCGraphTrees == {<<>>} \cup {<<a>> : a \in MCInlinings} \cup {<<a, b>> : a, b \in MCInlinings}

Fn(a, n, d, t) == [addr |-> a, name |-> n, decoded |-> d, tree |-> t]

MCInputs ==
    {<<Fn(1, "f", TRUE, t), Fn(4, n, d, u)>> :
        t \in MCGraphTrees, u \in MCGraphTrees, n \in {"f", "g"}, d \in BOOLEAN}
=============================================================================
