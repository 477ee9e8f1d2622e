------------------------------ MODULE InlineGraph ------------------------------
(***************************************************************************)
(* inline_callgraph (src/src/inline/mod.rs): one physical node for every   *)
(* function, then, function by function and record by record, an edge to   *)
(* the node of each inlined callee.  A callee is found by name, or, when   *)
(* its name was stripped, by where it was inlined; one that has no node    *)
(* yet gets a synthetic address in the upper half of the address space.    *)
(***************************************************************************)
EXTENDS Integers, Sequences

CONSTANTS
    Inputs,     \* function lists to consider
    Names,      \* function names; "" is the name that does not resolve
    TextAddr,   \* entry PCs
    PcOffsets,  \* parentPc values of real inlinings
    Lines,      \* startLine values
    AnonBit     \* 1 << 63

NoName == ""
NoAddr == 0     \* an absent map entry; no function and no synthetic node is at 0
Root   == -1    \* parentPc of the record that stands for the function itself

InlineRecord == [name : Names \cup {NoName}, parentPc : PcOffsets \cup {Root}, line : Lines]

\* decoded = FALSE: decode_inline_tree refused the function's tree.
FuncEntry == [addr : TextAddr, name : Names \cup {NoName}, decoded : BOOLEAN,
              tree : Seq(InlineRecord)]

ASSUME GraphAssumption ==
    /\ AnonBit \in Nat
    /\ TextAddr \subseteq 1 .. AnonBit - 1
    /\ PcOffsets \subseteq Nat
    /\ NoName \notin Names
    /\ Inputs \subseteq Seq(FuncEntry)

AnonKey == TextAddr \X (PcOffsets \cup {Root}) \X Lines

VARIABLES
    funcs,      \* functions_with_offsets, with what decode_inline_tree says of each
    fi, ei,     \* current function and record
    nodes,      \* graph.nodes
    edges,      \* graph.edges
    named,      \* named_nodes
    anon,       \* anon_nodes
    nextAnon,   \* next_anon
    phase       \* first loop, second loop, returned

vars == <<funcs, fi, ei, nodes, edges, named, anon, nextAnon, phase>>

Init ==
    /\ funcs \in Inputs
    /\ fi = 1
    /\ ei = 1
    /\ nodes = <<>>
    /\ edges = <<>>
    /\ named = [n \in Names \cup {NoName} |-> NoAddr]
    /\ anon = [k \in AnonKey |-> NoAddr]
    /\ nextAnon = 1
    /\ phase = "physical"

F == funcs[fi]
R == F.tree[ei]

\* First loop: a node for every function, and the last function of a name owns it.
EmitPhysical ==
    /\ phase = "physical"
    /\ fi <= Len(funcs)
    /\ nodes' = Append(nodes, [addr |-> F.addr, name |-> F.name, kind |-> "physical",
                               parent |-> NoAddr])
    /\ named' = [named EXCEPT ![F.name] = F.addr]
    /\ fi' = fi + 1
    /\ UNCHANGED <<funcs, ei, edges, anon, nextAnon, phase>>

StartEdges ==
    /\ phase = "physical"
    /\ fi > Len(funcs)
    /\ phase' = "edges"
    /\ fi' = 1
    /\ UNCHANGED <<funcs, ei, nodes, edges, named, anon, nextAnon>>

\* Mutant of HasRecord: a refused tree is walked all the same.
HasRecordUnchecked == phase = "edges" /\ fi <= Len(funcs) /\ ei <= Len(F.tree)

\* A refused tree contributes no record.
HasRecord == phase = "edges" /\ fi <= Len(funcs) /\ F.decoded /\ ei <= Len(F.tree)

\* The function is done, refused or not: on to the next.
NextFunction ==
    /\ phase = "edges"
    /\ fi <= Len(funcs)
    /\ ~HasRecord
    /\ fi' = fi + 1
    /\ ei' = 1
    /\ UNCHANGED <<funcs, nodes, edges, named, anon, nextAnon, phase>>

\* The root record stands for the function itself.
SkipRoot ==
    /\ HasRecord
    /\ R.parentPc = Root
    /\ ei' = ei + 1
    /\ UNCHANGED <<funcs, fi, nodes, edges, named, anon, nextAnon, phase>>

KeyOf(f, r) == <<f.addr, r.parentPc, r.line>>

\* The map entry a record's callee is looked up under.
Slot == IF R.name # NoName THEN named[R.name] ELSE anon[KeyOf(F, R)]

CallSite(f, r) == (f.addr + r.parentPc) % (2 * AnonBit)

\* Mutants of Link: an edge is known by its ends alone; the ends are swapped.
LinkByEnds(from, to, site) ==
    edges' = IF \E k \in DOMAIN edges : edges[k].from = from /\ edges[k].to = to
             THEN edges
             ELSE Append(edges, [from |-> from, to |-> to, site |-> site])

LinkSwapped(from, to, site) ==
    edges' = Append(edges, [from |-> to, to |-> from, site |-> site])

\* An edge is pushed once per (from, to, call_site).
Link(from, to, site) ==
    LET edge == [from |-> from, to |-> to, site |-> site]
    IN edges' = IF \E k \in DOMAIN edges : edges[k] = edge
                THEN edges ELSE Append(edges, edge)

\* The callee already has a node.
LinkKnown ==
    /\ HasRecord
    /\ R.parentPc # Root
    /\ Slot # NoAddr
    /\ Link(F.addr, Slot, CallSite(F, R))
    /\ ei' = ei + 1
    /\ UNCHANGED <<funcs, fi, nodes, named, anon, nextAnon, phase>>

\* Mutant of Remember: a named node is entered under an address computed once the
\* counter has moved on.
RememberLate(addr) ==
    named' = [named EXCEPT ![R.name] = addr + 1] /\ UNCHANGED anon

Remember(addr) ==
    IF R.name # NoName
    THEN named' = [named EXCEPT ![R.name] = addr] /\ UNCHANGED anon
    ELSE anon' = [anon EXCEPT ![KeyOf(F, R)] = addr] /\ UNCHANGED named

Advance == nextAnon' = nextAnon + 1

\* The callee has no node yet: it gets the next synthetic address.
LinkNew ==
    /\ HasRecord
    /\ R.parentPc # Root
    /\ Slot = NoAddr
    /\ nodes' = Append(nodes, [addr |-> AnonBit + nextAnon, name |-> R.name,
                               kind |-> "inline", parent |-> F.addr])
    /\ Remember(AnonBit + nextAnon)
    /\ Advance
    /\ Link(F.addr, AnonBit + nextAnon, CallSite(F, R))
    /\ ei' = ei + 1
    /\ UNCHANGED <<funcs, fi, phase>>

Return ==
    /\ phase = "edges"
    /\ fi > Len(funcs)
    /\ phase' = "done"
    /\ UNCHANGED <<funcs, fi, ei, nodes, edges, named, anon, nextAnon>>

Next ==
    \/ EmitPhysical
    \/ StartEdges
    \/ NextFunction
    \/ SkipRoot
    \/ LinkKnown
    \/ LinkNew
    \/ Return

Spec == Init /\ [][Next]_vars

-----------------------------------------------------------------------------
Node == [addr : Nat \ {NoAddr}, name : Names \cup {NoName},
         kind : {"physical", "inline"}, parent : TextAddr \cup {NoAddr}]
Edge == [from : TextAddr, to : Nat \ {NoAddr}, site : 0 .. 2 * AnonBit - 1]

TypeOK ==
    /\ funcs \in Seq(FuncEntry)
    /\ fi \in 1 .. Len(funcs) + 1
    /\ ei \in Nat \ {0}
    /\ nodes \in Seq(Node)
    /\ edges \in Seq(Edge)
    /\ named \in [Names \cup {NoName} -> Nat]
    /\ anon \in [AnonKey -> Nat]
    /\ nextAnon \in Nat \ {0}
    /\ phase \in {"physical", "edges", "done"}

\* Every edge runs from a function to a node that is in the graph.
EndpointsAreNodes ==
    \A k \in DOMAIN edges :
      /\ \E i \in DOMAIN nodes : nodes[i].addr = edges[k].from /\ nodes[i].kind = "physical"
      /\ \E i \in DOMAIN nodes : nodes[i].addr = edges[k].to

\* A synthetic address names one node, and is never the address of a function.
SyntheticUnique ==
    \A i, j \in DOMAIN nodes :
      nodes[i].kind = "inline" /\ nodes[i].addr = nodes[j].addr => i = j

\* No edge is emitted twice.
EdgesUnique == \A i, j \in DOMAIN edges : edges[i] = edges[j] => i = j

\* An inlined callee known by name has one node, and none when a function has it.
OneNodePerName ==
    \A i, j \in DOMAIN nodes :
      /\ nodes[i].kind = "inline"
      /\ nodes[i].name # NoName
      /\ nodes[i].name = nodes[j].name
      => i = j

\* The graph can be read by its addresses: no edge dangles and none is emitted twice, an
\* invented node shares its address with no other, and a callee known by name has one node
\* however many functions inline it (inline_callgraph).
GraphWellFormed ==
    /\ EndpointsAreNodes
    /\ SyntheticUnique
    /\ OneNodePerName
    /\ EdgesUnique

\* Does edge g stand for the inlining r of function f?
StandsFor(g, f, r) ==
    /\ g.from = f.addr
    /\ g.site = CallSite(f, r)
    /\ \E i \in DOMAIN nodes :
         /\ nodes[i].addr = g.to
         /\ nodes[i].name = r.name
         /\ r.name = NoName => nodes[i].parent = f.addr

\* When it returns, the graph holds an edge for every inlining the trees record.
EveryInliningHasEdge ==
    phase = "done" =>
      \A f \in {i \in DOMAIN funcs : funcs[i].decoded} :
        \A e \in DOMAIN funcs[f].tree :
          funcs[f].tree[e].parentPc # Root =>
            \E k \in DOMAIN edges : StandsFor(edges[k], funcs[f], funcs[f].tree[e])

\* It holds no other: a refused tree, or a root record, contributes nothing.
EveryEdgeIsInlining ==
    \A k \in DOMAIN edges :
      \E f \in {i \in DOMAIN funcs : funcs[i].decoded} :
        \E e \in DOMAIN funcs[f].tree :
          /\ funcs[f].tree[e].parentPc # Root
          /\ StandsFor(edges[k], funcs[f], funcs[f].tree[e])

\* inline_callgraph returns the inlinings of the trees that decoded, all of them and no other,
\* though a tree before or after them is refused.
EdgesExact == EveryInliningHasEdge /\ EveryEdgeIsInlining
=============================================================================
