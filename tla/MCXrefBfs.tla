------------------------------- MODULE MCXrefBfs -------------------------------
(* Every list of up to three calls among three functions, repeated and recursive
   calls included, in every order; and four-function graphs whose shortest paths
   are not the ones the list shows first. *)
EXTENDS XrefBfs

MCFunctions == {"a", "b", "c", "d"}
Few == [caller : {"a", "b", "c"}, callee : {"a", "b", "c"}]
CallTo(m, n) == [caller |-> m, callee |-> n]

Diamonds ==
    {<<CallTo("a", "b"), CallTo("b", "c"), CallTo("c", "d"), e, f>> :
        e, f \in {CallTo("a", "d"), CallTo("b", "d"), CallTo("d", "a"), CallTo("a", "c"), CallTo("c", "b")}}

MCCalls ==
    {<<>>} \cup {<<e>> : e \in Few} \cup {<<e, f>> : e, f \in Few}
           \cup {<<e, f, g>> : e, f, g \in Few} \cup Diamonds
=============================================================================
