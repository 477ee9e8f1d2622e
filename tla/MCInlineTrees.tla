----------------------------- MODULE MCInlineTrees -----------------------------
(* The two users of the inline trees in one run: the walk of lookup_inline and the graph
   of inline_callgraph.  Each meets all of its inputs while the other rests on its
   least one. *)
EXTENDS MCInlineWalk, MCInlineGraph

NoWalk  == stream = <<>> /\ tree = <<>> /\ off = 0
NoFuncs == funcs = <<>>
MCFunctions == MCInputs \cup {<<>>}

TreesInit ==
    \/ NoWalk /\ WalkInit /\ Init
    \/ NoFuncs /\ Init /\ WalkInit

TreesNext ==
    \/ WalkNext /\ UNCHANGED vars
    \/ NoWalk /\ done /\ Next /\ UNCHANGED walkVars

TreesSpec == TreesInit /\ [][TreesNext]_<<walkVars, vars>> /\ WF_walkVars(WalkNext)
=============================================================================
