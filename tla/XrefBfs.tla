-------------------------------- MODULE XrefBfs --------------------------------
(***************************************************************************)
(* callers_of and callees_from (src/src/xrefs/mod.rs): the breadth-first   *)
(* search behind --xrefs --to and --from.  The two functions are one       *)
(* search over the call edges, read in opposite directions.  A level of    *)
(* the search empties the frontier into the next one; the search ends when *)
(* a level finds nothing, the depth is used up, or max_nodes is reached.   *)
(***************************************************************************)
EXTENDS Integers, Sequences, FiniteSets

CONSTANTS
    Functions,  \* function names
    Calls,      \* edge lists to search, in the order find_calls found them
    Depths,     \* --depth values
    Caps        \* --max-nodes values

Call == [caller : Functions, callee : Functions]

ASSUME BfsAssumption ==
    /\ IsFiniteSet(Functions)
    /\ Calls \subseteq Seq(Call)
    /\ Depths \subseteq Nat
    /\ Caps \subseteq Nat

VARIABLES
    calls, direction, root, depth, max_nodes,   \* arguments
    depth_of,       \* 0: the name is not in the map
    frontier, next,
    level,          \* d
    at, ci,         \* current frontier name and call
    truncated,
    state           \* "search" or "done"

args == <<calls, direction, root, depth, max_nodes>>
bfsVars == <<args, depth_of, frontier, next, level, at, ci, truncated, state>>

BfsInit ==
    /\ calls \in Calls
    /\ direction \in {"callers", "callees"}
    /\ root \in Functions
    /\ depth \in Depths
    /\ max_nodes \in Caps
    /\ depth_of = [n \in Functions |-> 0]
    /\ frontier = <<root>>
    /\ next = <<>>
    /\ level = 1
    /\ at = 1
    /\ ci = 1
    /\ truncated = FALSE
    /\ state = IF depth = 0 THEN "done" ELSE "search"

\* A call as the search reads it: callers_of goes from callee to caller.
Near(c) == IF direction = "callees" THEN c.caller ELSE c.callee
Far(c)  == IF direction = "callees" THEN c.callee ELSE c.caller

\* Mutant of Labelled: only what this level found counts as seen.
LabelledThisLevel(n) == depth_of[n] = level

Labelled(n) == depth_of[n] # 0

Visiting == state = "search" /\ at <= Len(frontier)

\* k is the next call of the frontier name's list.
NextCall(k) ==
    /\ Visiting
    /\ k \in DOMAIN calls
    /\ ci <= k
    /\ Near(calls[k]) = frontier[at]
    /\ \A j \in DOMAIN calls : ci <= j /\ j < k => Near(calls[j]) # frontier[at]

\* Mutant of Past: the list is not moved along.
PastNothing(k) == k

\* Where the list goes on after call k.
Past(k) == k + 1

SkipSeen ==
    \E k \in DOMAIN calls :
      /\ NextCall(k)
      /\ Labelled(Far(calls[k]))
      /\ ci' = Past(k)
      /\ UNCHANGED <<args, depth_of, frontier, next, level, at, truncated, state>>

Count(labels) == Cardinality({n \in Functions : labels[n] # 0})

\* Mutant of Full: the cap is compared strictly.
FullStrict(labels) == Count(labels) > max_nodes

\* depth_of.len() >= max_nodes
Full(labels) == Count(labels) >= max_nodes

\* Mutant of Cut: the search stops at the cap without saying so.
CutSilently == truncated' = truncated

Cut == truncated' = TRUE

Discover ==
    \E k \in DOMAIN calls :
      /\ NextCall(k)
      /\ ~Labelled(Far(calls[k]))
      /\ depth_of' = [depth_of EXCEPT ![Far(calls[k])] = level]
      /\ next' = Append(next, Far(calls[k]))
      /\ IF Full(depth_of')
         THEN Cut /\ state' = "done" /\ UNCHANGED ci
         ELSE ci' = Past(k) /\ UNCHANGED <<truncated, state>>
      /\ UNCHANGED <<args, frontier, level, at>>

\* The frontier name has no further call.
NextName ==
    /\ Visiting
    /\ \A k \in DOMAIN calls : ~NextCall(k)
    /\ at' = at + 1
    /\ ci' = 1
    /\ UNCHANGED <<args, depth_of, frontier, next, level, truncated, state>>

LevelDone == state = "search" /\ at > Len(frontier)

\* Mutant of Descends: one level too many, as 0 ..= depth would give.
DescendsPastDepth == next # <<>> /\ level <= depth

\* Something was found, and the depth is not used up.
Descends == next # <<>> /\ level < depth

NextLevel ==
    /\ LevelDone
    /\ Descends
    /\ frontier' = next
    /\ next' = <<>>
    /\ level' = level + 1
    /\ at' = 1
    /\ ci' = 1
    /\ UNCHANGED <<args, depth_of, truncated, state>>

Finish ==
    /\ LevelDone
    /\ ~Descends
    /\ state' = "done"
    /\ UNCHANGED <<args, depth_of, frontier, next, level, at, ci, truncated>>

BfsNext == SkipSeen \/ Discover \/ NextName \/ NextLevel \/ Finish

BfsSpec == BfsInit /\ [][BfsNext]_bfsVars /\ WF_bfsVars(BfsNext)

-----------------------------------------------------------------------------
BfsTypeOK ==
    /\ calls \in Seq(Call)
    /\ direction \in {"callers", "callees"}
    /\ root \in Functions
    /\ depth \in Nat
    /\ max_nodes \in Nat
    /\ depth_of \in [Functions -> 0 .. depth]
    /\ frontier \in Seq(Functions)
    /\ next \in Seq(Functions)
    /\ level \in Nat \ {0}
    /\ at \in 1 .. Len(frontier) + 1
    /\ ci \in 1 .. Len(calls) + 1
    /\ truncated \in BOOLEAN
    /\ state \in {"search", "done"}

\* The call graph, in the direction of the search.
Step(m, n) == \E k \in DOMAIN calls : Near(calls[k]) = m /\ Far(calls[k]) = n

\* A walk of k >= 1 calls leads from the root to n.
Reaches(n, k) ==
    \E p \in [1 .. k -> Functions] :
      Step(root, p[1]) /\ p[k] = n /\ \A i \in 1 .. k - 1 : Step(p[i], p[i + 1])

\* A node's depth in the answer is its distance from the root, whether or not the
\* answer is truncated; the root's own depth is the length of its shortest cycle.
DepthIsDistance ==
    state = "done" =>
      \A n \in Functions : depth_of[n] # 0 =>
        /\ Reaches(n, depth_of[n])
        /\ \A k \in 1 .. depth_of[n] - 1 : ~Reaches(n, k)

\* An answer that is not marked truncated holds everything within the depth.
CompleteUnlessTruncated ==
    state = "done" /\ ~truncated =>
      \A n \in Functions : \A k \in 1 .. depth : Reaches(n, k) => depth_of[n] # 0

\* callers_of and callees_from give every name its distance from the root, within the depth,
\* and what they leave out they mark as truncated.
SearchExact == DepthIsDistance /\ CompleteUnlessTruncated

\* No more than max_nodes nodes (one, for a cap of zero), and exactly that many when
\* the answer is marked truncated.
CapHonoured ==
    LET most == IF max_nodes = 0 THEN 1 ELSE max_nodes IN
    /\ Count(depth_of) <= most
    /\ truncated => Count(depth_of) = most

\* The search ends, on cyclic graphs and for any depth.
SearchEnds == <>(state = "done")
=============================================================================
