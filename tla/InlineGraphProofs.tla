--------------------------- MODULE InlineGraphProofs ---------------------------
(* What inline_callgraph promises for every list of functions and every inline
   tree.  The inductive invariant says what each map entry stands for: a node
   of the graph that carries the name, or the call site, it is filed under. *)
EXTENDS InlineGraph, Basics

IsPhysical(a) == \E i \in DOMAIN nodes : nodes[i].addr = a /\ nodes[i].kind = "physical"

\* The functions the first loop has passed have their node; nothing else has one yet.
PhysicalFirst ==
    /\ phase = "physical" =>
         /\ edges = <<>>
         /\ ei = 1
         /\ \A i \in DOMAIN nodes : nodes[i].kind = "physical"
         /\ \A f \in DOMAIN funcs : f < fi => IsPhysical(funcs[f].addr)
    /\ phase # "physical" => \A f \in DOMAIN funcs : IsPhysical(funcs[f].addr)

\* Synthetic addresses lie above every function, below the counter.
SyntheticRange ==
    \A i \in DOMAIN nodes :
      /\ nodes[i].kind = "inline" =>
            AnonBit < nodes[i].addr /\ nodes[i].addr < AnonBit + nextAnon
      /\ nodes[i].kind = "physical" => nodes[i].addr < AnonBit

\* A name in the map belongs to a node of that name, and every node's name is there.
NamesFiled ==
    /\ \A n \in Names : named[n] # NoAddr =>
         \E i \in DOMAIN nodes : nodes[i].addr = named[n] /\ nodes[i].name = n
    /\ \A i \in DOMAIN nodes : nodes[i].name # NoName => named[nodes[i].name] # NoAddr

\* A call site in the map belongs to a nameless node of its function.
SitesFiled ==
    \A k \in AnonKey : anon[k] # NoAddr =>
      \E i \in DOMAIN nodes :
         nodes[i].addr = anon[k] /\ nodes[i].name = NoName /\ nodes[i].parent = k[1]

Passed(f, e) == f < fi \/ (f = fi /\ e < ei)

\* Every inlining the second loop has passed has its edge.
PassedHaveEdges ==
    phase # "physical" =>
      \A f \in DOMAIN funcs : \A e \in DOMAIN funcs[f].tree :
        funcs[f].decoded /\ funcs[f].tree[e].parentPc # Root /\ Passed(f, e) =>
          \E k \in DOMAIN edges : StandsFor(edges[k], funcs[f], funcs[f].tree[e])

ReturnedAtEnd == phase = "done" => fi > Len(funcs)

IInv ==
    /\ TypeOK
    /\ PhysicalFirst
    /\ SyntheticRange
    /\ NamesFiled
    /\ SitesFiled
    /\ PassedHaveEdges
    /\ ReturnedAtEnd
    /\ EndpointsAreNodes
    /\ SyntheticUnique
    /\ EdgesUnique
    /\ OneNodePerName
    /\ EveryEdgeIsInlining

-----------------------------------------------------------------------------
NodesKept == \A i \in DOMAIN nodes : i \in DOMAIN nodes' /\ nodes'[i] = nodes[i]
EdgesKept == \A k \in DOMAIN edges : k \in DOMAIN edges' /\ edges'[k] = edges[k]

\* Link leaves the edge in the graph once, beside the edges that were there.
LEMMA LinkAdds ==
  ASSUME edges \in Seq(Edge), NEW edge \in Edge,
         edges' = IF \E k \in DOMAIN edges : edges[k] = edge
                  THEN edges ELSE Append(edges, edge)
  PROVE  /\ edges' \in Seq(Edge)
         /\ EdgesKept
         /\ \E k \in DOMAIN edges' : edges'[k] = edge
         /\ \A k \in DOMAIN edges' :
              (k \in DOMAIN edges /\ edges'[k] = edges[k]) \/ edges'[k] = edge
         /\ EdgesUnique => EdgesUnique'
<1>1. CASE \E k \in DOMAIN edges : edges[k] = edge
  BY <1>1 DEF EdgesKept, EdgesUnique
<1>2. CASE ~ \E k \in DOMAIN edges : edges[k] = edge
  BY <1>2, AppendFacts DEF EdgesKept, EdgesUnique
<1>3. QED
  BY <1>1, <1>2

\* Init establishes the invariant.
LEMMA InitIInv == Init => IInv
<1> SUFFICES ASSUME Init PROVE IInv
  OBVIOUS
<1>1. TypeOK
  BY GraphAssumption DEF Init, TypeOK, NoAddr, Node, Edge
<1>2. nodes = <<>> /\ edges = <<>> /\ phase = "physical" /\ fi = 1
  BY DEF Init
<1>3. DOMAIN nodes = {} /\ DOMAIN edges = {}
  BY <1>2
<1>4. PhysicalFirst
  BY <1>1, <1>2, <1>3 DEF PhysicalFirst, TypeOK, Init
<1>5. NamesFiled /\ SitesFiled
  BY <1>3 DEF Init, NamesFiled, SitesFiled
<1>6. QED
  BY <1>1, <1>2, <1>3, <1>4, <1>5
  DEF IInv, SyntheticRange, PassedHaveEdges, ReturnedAtEnd, EndpointsAreNodes,
      SyntheticUnique, EdgesUnique, OneNodePerName, EveryEdgeIsInlining

\* The record in hand, and the call site it names, are what the types say.
LEMMA RecordInHand ==
  ASSUME TypeOK, HasRecord
  PROVE  /\ F \in FuncEntry
         /\ R \in InlineRecord
         /\ fi \in DOMAIN funcs
         /\ ei \in DOMAIN F.tree
         /\ F.decoded
         /\ phase = "edges"
         /\ R.parentPc # Root =>
              CallSite(F, R) \in 0 .. 2 * AnonBit - 1 /\ KeyOf(F, R) \in AnonKey
<1>1. fi \in DOMAIN funcs /\ F.decoded /\ phase = "edges"
  BY DEF HasRecord, TypeOK
<1>2. F \in FuncEntry
  BY <1>1 DEF TypeOK, F
<1>3. F.tree \in Seq(InlineRecord) /\ F.addr \in TextAddr
  BY <1>2 DEF FuncEntry
<1>4. ei \in DOMAIN F.tree
  BY <1>3 DEF HasRecord, TypeOK
<1>5. R \in InlineRecord
  BY <1>3, <1>4 DEF R
<1>6. R.line \in Lines /\ R.parentPc \in PcOffsets \cup {Root}
  BY <1>5 DEF InlineRecord
<1>7. ASSUME R.parentPc # Root
      PROVE  CallSite(F, R) \in 0 .. 2 * AnonBit - 1 /\ KeyOf(F, R) \in AnonKey
  <2>1. F.addr \in Nat /\ R.parentPc \in Nat /\ AnonBit \in Nat \ {0}
    <3>1. AnonBit \in Nat /\ TextAddr \subseteq 1 .. AnonBit - 1 /\ PcOffsets \subseteq Nat
      BY GraphAssumption
    <3>2. F.addr \in 1 .. AnonBit - 1
      BY <1>3, <3>1
    <3>3. R.parentPc \in Nat
      BY <1>6, <1>7, <3>1
    <3>4. QED
      BY <3>1, <3>2, <3>3
  <2>2. CallSite(F, R) \in 0 .. 2 * AnonBit - 1
    <3> DEFINE m == 2 * AnonBit
               x == F.addr + R.parentPc
    <3>1. m \in Nat \ {0} /\ x \in Nat
      BY <2>1
    <3>2. CallSite(F, R) = x % m
      BY DEF CallSite
    <3> HIDE DEF m, x
    <3>3. x % m \in 0 .. m - 1
      BY <3>1, ResidueBound
    <3>4. QED
      BY <3>2, <3>3 DEF m
  <2>3. KeyOf(F, R) \in AnonKey
    BY <1>3, <1>6 DEF KeyOf, AnonKey
  <2>4. QED
    BY <2>2, <2>3
<1>8. QED
  BY <1>1, <1>2, <1>4, <1>5, <1>7

\* Nodes that stay keep every inlining an edge recorded.
LEMMA RecordsKept ==
  ASSUME NodesKept, NEW g, NEW f, NEW r, StandsFor(g, f, r)
  PROVE  /\ g.from = f.addr
         /\ g.site = CallSite(f, r)
         /\ \E i \in DOMAIN nodes' : /\ nodes'[i].addr = g.to
                                     /\ nodes'[i].name = r.name
                                     /\ r.name = NoName => nodes'[i].parent = f.addr
  BY DEF NodesKept, StandsFor

\* A step that links the record in hand to a node of its callee's name keeps
\* everything that is said of edges.
LEMMA LinkKeeps ==
  ASSUME IInv, HasRecord, R.parentPc # Root, NEW to \in Nat \ {NoAddr},
         Link(F.addr, to, CallSite(F, R)), NodesKept,
         ei' = ei + 1, UNCHANGED <<funcs, fi, phase>>,
         \E i \in DOMAIN nodes' : /\ nodes'[i].addr = to
                                  /\ nodes'[i].name = R.name
                                  /\ R.name = NoName => nodes'[i].parent = F.addr
  PROVE  /\ edges' \in Seq(Edge)
         /\ PhysicalFirst'
         /\ PassedHaveEdges'
         /\ ReturnedAtEnd'
         /\ EndpointsAreNodes'
         /\ EdgesUnique'
         /\ EveryEdgeIsInlining'
<1> DEFINE edge == [from |-> F.addr, to |-> to, site |-> CallSite(F, R)]
<1>1. /\ TypeOK /\ PhysicalFirst /\ PassedHaveEdges /\ ReturnedAtEnd
      /\ EndpointsAreNodes /\ EdgesUnique /\ EveryEdgeIsInlining
  BY DEF IInv
<1>2. /\ F \in FuncEntry /\ R \in InlineRecord /\ fi \in DOMAIN funcs /\ F.decoded
      /\ ei \in DOMAIN F.tree /\ phase = "edges" /\ F.addr \in TextAddr
      /\ CallSite(F, R) \in 0 .. 2 * AnonBit - 1
  BY <1>1, RecordInHand DEF FuncEntry
<1>3. /\ edges' \in Seq(Edge)
      /\ EdgesKept
      /\ \E k \in DOMAIN edges' : edges'[k] = edge
      /\ \A k \in DOMAIN edges' :
           (k \in DOMAIN edges /\ edges'[k] = edges[k]) \/ edges'[k] = edge
      /\ EdgesUnique'
  <2>1. edge \in Edge /\ edges \in Seq(Edge)
    BY <1>1, <1>2 DEF TypeOK, Edge
  <2>2. edges' = IF \E k \in DOMAIN edges : edges[k] = edge
                 THEN edges ELSE Append(edges, edge)
    BY DEF Link
  <2> HIDE DEF edge
  <2>3. QED
    BY <1>1, <2>1, <2>2, LinkAdds
<1>4. PhysicalFirst'
  BY <1>1, <1>2 DEF PhysicalFirst, IsPhysical, NodesKept
<1>5. ReturnedAtEnd'
  BY <1>2 DEF ReturnedAtEnd
<1>6. EndpointsAreNodes'
  <2> SUFFICES ASSUME NEW k \in DOMAIN edges'
               PROVE  /\ \E i \in DOMAIN nodes' : nodes'[i].addr = edges'[k].from
                                               /\ nodes'[i].kind = "physical"
                      /\ \E i \in DOMAIN nodes' : nodes'[i].addr = edges'[k].to
    BY DEF EndpointsAreNodes
  <2>1. CASE k \in DOMAIN edges /\ edges'[k] = edges[k]
    BY <1>1, <2>1 DEF EndpointsAreNodes, NodesKept
  <2>2. CASE edges'[k] = edge
    <3>1. IsPhysical(F.addr)
      BY <1>1, <1>2 DEF PhysicalFirst, F
    <3>2. QED
      BY <2>2, <3>1 DEF IsPhysical, NodesKept
  <2>3. QED
    BY <1>3, <2>1, <2>2
<1>7. PassedHaveEdges'
  <2> SUFFICES ASSUME NEW f \in DOMAIN funcs, NEW e \in DOMAIN funcs[f].tree,
                      funcs[f].decoded, funcs[f].tree[e].parentPc # Root,
                      Passed(f, e)'
               PROVE  (\E k \in DOMAIN edges : StandsFor(edges[k], funcs[f], funcs[f].tree[e]))'
    BY DEF PassedHaveEdges
  <2>1. CASE Passed(f, e)
    <3>1. PICK k \in DOMAIN edges : StandsFor(edges[k], funcs[f], funcs[f].tree[e])
      BY <1>1, <1>2, <2>1 DEF PassedHaveEdges
    <3>2. k \in DOMAIN edges' /\ edges'[k] = edges[k]
      BY <1>3 DEF EdgesKept
    <3>3. /\ edges[k].from = funcs[f].addr
          /\ edges[k].site = CallSite(funcs[f], funcs[f].tree[e])
          /\ \E i \in DOMAIN nodes' :
               /\ nodes'[i].addr = edges[k].to
               /\ nodes'[i].name = funcs[f].tree[e].name
               /\ funcs[f].tree[e].name = NoName => nodes'[i].parent = funcs[f].addr
      BY <3>1, RecordsKept
    <3>4. QED
      BY <3>2, <3>3 DEF StandsFor, CallSite
  <2>2. CASE ~Passed(f, e)
    <3>1. f = fi /\ e = ei
      <4>1. f \in Nat /\ fi \in Nat /\ ei \in Nat
        BY <1>1 DEF TypeOK
      <4>2. funcs[f].tree \in Seq(InlineRecord)
        <5>1. funcs \in Seq(FuncEntry)
          BY <1>1 DEF TypeOK
        <5>2. funcs[f] \in FuncEntry
          BY <5>1
        <5>3. QED
          BY <5>2 DEF FuncEntry
      <4>3. e \in Nat
        BY <4>2
      <4>4. QED
        BY <4>1, <4>3, <2>2 DEF Passed
    <3>2. PICK k \in DOMAIN edges' : edges'[k] = edge
      BY <1>3
    <3>3. QED
      BY <3>1, <3>2 DEF StandsFor, CallSite, F, R
  <2>3. QED
    BY <2>1, <2>2
<1>8. EveryEdgeIsInlining'
  <2> SUFFICES ASSUME NEW k \in DOMAIN edges'
               PROVE  (\E f \in {i \in DOMAIN funcs : funcs[i].decoded} :
                         \E e \in DOMAIN funcs[f].tree :
                           /\ funcs[f].tree[e].parentPc # Root
                           /\ StandsFor(edges[k], funcs[f], funcs[f].tree[e]))'
    BY DEF EveryEdgeIsInlining
  <2>1. CASE k \in DOMAIN edges /\ edges'[k] = edges[k]
    <3>1. PICK f \in {i \in DOMAIN funcs : funcs[i].decoded} :
             \E e \in DOMAIN funcs[f].tree :
               /\ funcs[f].tree[e].parentPc # Root
               /\ StandsFor(edges[k], funcs[f], funcs[f].tree[e])
      BY <1>1, <2>1 DEF EveryEdgeIsInlining
    <3>2. PICK e \in DOMAIN funcs[f].tree :
             /\ funcs[f].tree[e].parentPc # Root
             /\ StandsFor(edges[k], funcs[f], funcs[f].tree[e])
      BY <3>1
    <3>3. /\ edges[k].from = funcs[f].addr
          /\ edges[k].site = CallSite(funcs[f], funcs[f].tree[e])
          /\ \E i \in DOMAIN nodes' :
               /\ nodes'[i].addr = edges[k].to
               /\ nodes'[i].name = funcs[f].tree[e].name
               /\ funcs[f].tree[e].name = NoName => nodes'[i].parent = funcs[f].addr
      BY <3>2, RecordsKept
    <3>4. QED
      BY <2>1, <3>2, <3>3 DEF StandsFor, CallSite
  <2>2. CASE edges'[k] = edge
    BY <1>2, <2>2 DEF StandsFor, CallSite, F, R
  <2>3. QED
    BY <1>3, <2>1, <2>2
<1>9. QED
  BY <1>3, <1>4, <1>5, <1>6, <1>7, <1>8

\* The first loop's step: a function's node joins nodes that are all functions.
LEMMA EmitPhysicalKeeps == IInv /\ EmitPhysical => IInv'
<1> SUFFICES ASSUME IInv, EmitPhysical PROVE IInv'
  OBVIOUS
<1> DEFINE new == [addr |-> F.addr, name |-> F.name, kind |-> "physical",
                   parent |-> NoAddr]
<1>1. /\ TypeOK /\ PhysicalFirst /\ SyntheticRange /\ NamesFiled /\ SitesFiled
      /\ phase = "physical" /\ fi <= Len(funcs) /\ nodes' = Append(nodes, new)
      /\ named' = [named EXCEPT ![F.name] = F.addr] /\ fi' = fi + 1
      /\ UNCHANGED <<funcs, ei, edges, anon, nextAnon, phase>>
  BY DEF IInv, EmitPhysical
<1>2. /\ fi \in DOMAIN funcs
      /\ F.addr \in TextAddr /\ F.addr \in 1 .. AnonBit - 1 /\ F.name \in Names \cup {NoName}
  <2>1. fi \in DOMAIN funcs /\ F \in FuncEntry
    BY <1>1 DEF TypeOK, F
  <2>2. TextAddr \subseteq 1 .. AnonBit - 1
    BY GraphAssumption
  <2>3. QED
    BY <2>1, <2>2 DEF FuncEntry
<1>3. new \in Node /\ new.addr = F.addr /\ new.name = F.name /\ new.kind = "physical"
  BY <1>2 DEF Node, NoAddr
<1>4. /\ nodes' \in Seq(Node)
      /\ DOMAIN nodes = 1 .. Len(nodes)
      /\ DOMAIN nodes' = 1 .. Len(nodes) + 1
      /\ \A i \in DOMAIN nodes : nodes'[i] = nodes[i]
      /\ nodes'[Len(nodes) + 1] = new
      /\ Len(nodes) \in Nat
  <2> HIDE DEF new
  <2>1. QED
    BY <1>1, <1>3, AppendFacts DEF TypeOK
<1> HIDE DEF new
<1>5. /\ NodesKept
      /\ \A i \in DOMAIN nodes' : i \in DOMAIN nodes \/ nodes'[i] = new
  BY <1>4 DEF NodesKept
<1>6. TypeOK'
  <2>1. named' \in [Names \cup {NoName} -> Nat]
    BY <1>1, <1>2 DEF TypeOK
  <2>2. QED
    BY <1>1, <1>2, <1>4, <2>1 DEF TypeOK
<1>7. \A i \in DOMAIN nodes' : nodes'[i].kind = "physical"
  BY <1>1, <1>3, <1>4, <1>5 DEF PhysicalFirst
<1>8. PhysicalFirst'
  <2>1. \A f \in DOMAIN funcs : f < fi + 1 =>
           \E i \in DOMAIN nodes' : nodes'[i].addr = funcs[f].addr /\ nodes'[i].kind = "physical"
    <3> SUFFICES ASSUME NEW f \in DOMAIN funcs, f < fi + 1
                 PROVE  \E i \in DOMAIN nodes' : /\ nodes'[i].addr = funcs[f].addr
                                                 /\ nodes'[i].kind = "physical"
      OBVIOUS
    <3>1. CASE f < fi
      BY <1>1, <1>5, <3>1 DEF PhysicalFirst, IsPhysical, NodesKept
    <3>2. CASE f = fi
      <4>1. Len(nodes) + 1 \in DOMAIN nodes'
        BY <1>4
      <4>2. QED
        BY <1>3, <1>4, <3>2, <4>1 DEF F
    <3>3. QED
      BY <1>1, <3>1, <3>2 DEF TypeOK
  <2>2. QED
    BY <1>1, <1>7, <2>1 DEF PhysicalFirst, IsPhysical
<1>9. SyntheticRange'
  <2>1. ASSUME NEW i \in DOMAIN nodes'
        PROVE  nodes'[i].kind = "physical" /\ nodes'[i].addr < AnonBit
    <3>1. CASE i \in DOMAIN nodes
      BY <1>1, <1>4, <1>7, <3>1 DEF SyntheticRange
    <3>2. CASE nodes'[i] = new
      BY <1>2, <1>3, <1>7, <3>2, GraphAssumption
    <3>3. QED
      BY <1>5, <3>1, <3>2
  <2>2. QED
    BY <2>1 DEF SyntheticRange
<1>10. NamesFiled'
  <2>1. ASSUME NEW n \in Names, named'[n] # NoAddr
        PROVE  \E i \in DOMAIN nodes' : nodes'[i].addr = named'[n] /\ nodes'[i].name = n
    <3>1. CASE n = F.name
      <4>1. named'[n] = F.addr /\ Len(nodes) + 1 \in DOMAIN nodes'
        BY <1>1, <1>2, <1>4, <3>1 DEF TypeOK
      <4>2. QED
        BY <1>3, <1>4, <3>1, <4>1
    <3>2. CASE n # F.name
      <4>1. named'[n] = named[n]
        BY <1>1, <3>2 DEF TypeOK
      <4>2. QED
        BY <1>1, <1>5, <2>1, <4>1 DEF NamesFiled, NodesKept
    <3>3. QED
      BY <3>1, <3>2
  <2>2. ASSUME NEW i \in DOMAIN nodes', nodes'[i].name # NoName
        PROVE  named'[nodes'[i].name] # NoAddr
    <3>1. nodes'[i].name \in Names \cup {NoName}
      <4>1. nodes' \in Seq(Node)
        BY <1>4
      <4>2. nodes'[i] \in Node
        BY <4>1
      <4>3. QED
        BY <4>2 DEF Node
    <3>2. CASE nodes'[i].name = F.name
      BY <1>1, <1>2, <3>1, <3>2 DEF TypeOK, NoAddr
    <3>3. CASE nodes'[i].name # F.name
      BY <1>1, <1>3, <1>4, <1>5, <2>2, <3>1, <3>3 DEF TypeOK, NamesFiled
    <3>4. QED
      BY <3>2, <3>3
  <2>3. QED
    BY <2>1, <2>2 DEF NamesFiled
<1>11. SitesFiled'
  BY <1>1, <1>5 DEF SitesFiled, NodesKept
<1>12. edges' = <<>> /\ DOMAIN edges' = {}
  BY <1>1 DEF PhysicalFirst
<1>13. SyntheticUnique' /\ OneNodePerName'
  BY <1>7 DEF SyntheticUnique, OneNodePerName
<1>14. EndpointsAreNodes' /\ EdgesUnique' /\ EveryEdgeIsInlining'
  BY <1>12 DEF EndpointsAreNodes, EdgesUnique, EveryEdgeIsInlining
<1>15. PassedHaveEdges' /\ ReturnedAtEnd'
  BY <1>1 DEF PassedHaveEdges, ReturnedAtEnd
<1>16. QED
  BY <1>6, <1>8, <1>9, <1>10, <1>11, <1>13, <1>14, <1>15 DEF IInv

\* A step that only moves the loops on keeps the invariant, as long as it passes no
\* inlining that has no edge.
LEMMA MoveKeeps ==
  ASSUME IInv, TypeOK', phase # "physical" \/ phase' # "physical",
         UNCHANGED <<funcs, nodes, edges, named, anon, nextAnon>>,
         PhysicalFirst', PassedHaveEdges', ReturnedAtEnd'
  PROVE  IInv'
<1>1. /\ SyntheticRange /\ NamesFiled /\ SitesFiled /\ EndpointsAreNodes /\ SyntheticUnique
      /\ EdgesUnique /\ OneNodePerName /\ EveryEdgeIsInlining
  BY DEF IInv
<1>2. SyntheticRange' /\ NamesFiled' /\ SitesFiled'
  BY <1>1 DEF SyntheticRange, NamesFiled, SitesFiled
<1>3. EndpointsAreNodes' /\ SyntheticUnique' /\ EdgesUnique' /\ OneNodePerName'
  BY <1>1 DEF EndpointsAreNodes, SyntheticUnique, EdgesUnique, OneNodePerName
<1>4. EveryEdgeIsInlining'
  BY <1>1 DEF EveryEdgeIsInlining, StandsFor, CallSite
<1>5. QED
  BY <1>2, <1>3, <1>4 DEF IInv

\* The steps that add nothing to the graph.
LEMMA ControlKeeps ==
  IInv /\ (StartEdges \/ NextFunction \/ SkipRoot \/ Return) => IInv'
<1> SUFFICES ASSUME IInv, StartEdges \/ NextFunction \/ SkipRoot \/ Return PROVE IInv'
  OBVIOUS
<1>1. /\ TypeOK /\ PhysicalFirst /\ PassedHaveEdges /\ ReturnedAtEnd
      /\ \A f \in DOMAIN funcs : funcs[f].tree \in Seq(InlineRecord) /\ funcs[f].decoded \in BOOLEAN
  <2>1. \A f \in DOMAIN funcs : funcs[f] \in FuncEntry
    BY DEF IInv, TypeOK
  <2>2. QED
    BY <2>1 DEF IInv, FuncEntry
<1>2. CASE StartEdges
  <2>1. TypeOK'
    BY <1>1, <1>2 DEF TypeOK, StartEdges
  <2>2. \A f \in DOMAIN funcs : f < fi
    BY <1>1, <1>2 DEF TypeOK, StartEdges
  <2>3. PhysicalFirst'
    BY <1>1, <1>2, <2>2 DEF PhysicalFirst, StartEdges, IsPhysical
  <2>4. \A f \in DOMAIN funcs : \A e \in DOMAIN funcs[f].tree : ~Passed(f, e)'
    <3> SUFFICES ASSUME NEW f \in DOMAIN funcs, NEW e \in DOMAIN funcs[f].tree
                 PROVE  ~Passed(f, e)'
      OBVIOUS
    <3>1. f \in Nat \ {0} /\ e \in Nat \ {0}
      BY <1>1 DEF TypeOK
    <3>2. ei = 1
      BY <1>1, <1>2 DEF PhysicalFirst, StartEdges
    <3>3. QED
      BY <1>2, <3>1, <3>2 DEF Passed, StartEdges
  <2>5. PassedHaveEdges' /\ ReturnedAtEnd'
    BY <1>2, <2>4 DEF PassedHaveEdges, ReturnedAtEnd, StartEdges
  <2>6. QED
    BY <1>2, <2>1, <2>3, <2>5, MoveKeeps DEF StartEdges
<1>3. CASE NextFunction
  <2>1. TypeOK'
    BY <1>1, <1>3 DEF TypeOK, NextFunction
  <2>2. PhysicalFirst' /\ ReturnedAtEnd'
    BY <1>1, <1>3 DEF PhysicalFirst, ReturnedAtEnd, NextFunction, IsPhysical
  <2>3. PassedHaveEdges'
    <3> SUFFICES ASSUME NEW f \in DOMAIN funcs, NEW e \in DOMAIN funcs[f].tree,
                        funcs[f].decoded, funcs[f].tree[e].parentPc # Root, Passed(f, e)'
                 PROVE  \E k \in DOMAIN edges : StandsFor(edges[k], funcs[f], funcs[f].tree[e])
      BY <1>3 DEF PassedHaveEdges, NextFunction, StandsFor, CallSite
    <3>1. f \in Nat \ {0} /\ e \in 1 .. Len(funcs[f].tree)
      BY <1>1 DEF TypeOK
    <3>2. f < fi \/ f = fi
      BY <1>1, <1>3, <3>1 DEF Passed, NextFunction, TypeOK
    <3>3. Passed(f, e)
      <4>1. CASE f < fi
        BY <4>1 DEF Passed
      <4>2. CASE f = fi
        BY <1>1, <1>3, <3>1, <4>2 DEF Passed, NextFunction, HasRecord, F, TypeOK
      <4>3. QED
        BY <3>2, <4>1, <4>2
    <3>4. QED
      BY <1>1, <1>3, <3>3 DEF PassedHaveEdges, NextFunction
  <2>4. QED
    BY <1>3, <2>1, <2>2, <2>3, MoveKeeps DEF NextFunction
<1>4. CASE SkipRoot
  <2>1. fi \in DOMAIN funcs /\ ei \in DOMAIN F.tree /\ phase = "edges"
    BY <1>1, <1>4, RecordInHand DEF SkipRoot
  <2>2. TypeOK'
    BY <1>1, <1>4 DEF TypeOK, SkipRoot
  <2>3. PhysicalFirst' /\ ReturnedAtEnd'
    BY <1>1, <1>4, <2>1 DEF PhysicalFirst, ReturnedAtEnd, SkipRoot, IsPhysical
  <2>4. PassedHaveEdges'
    <3> SUFFICES ASSUME NEW f \in DOMAIN funcs, NEW e \in DOMAIN funcs[f].tree,
                        funcs[f].decoded, funcs[f].tree[e].parentPc # Root, Passed(f, e)'
                 PROVE  \E k \in DOMAIN edges : StandsFor(edges[k], funcs[f], funcs[f].tree[e])
      BY <1>4 DEF PassedHaveEdges, SkipRoot, StandsFor, CallSite
    <3>1. e \in Nat
      BY <1>1 DEF TypeOK
    <3>2. Passed(f, e)
      BY <1>1, <1>4, <3>1 DEF Passed, SkipRoot, F, R, TypeOK
    <3>3. QED
      BY <1>1, <2>1, <3>2 DEF PassedHaveEdges
  <2>5. QED
    BY <1>4, <2>1, <2>2, <2>3, <2>4, MoveKeeps DEF SkipRoot
<1>5. CASE Return
  <2>1. TypeOK' /\ PhysicalFirst' /\ ReturnedAtEnd'
    BY <1>1, <1>5 DEF TypeOK, PhysicalFirst, ReturnedAtEnd, Return, IsPhysical
  <2>2. PassedHaveEdges'
    BY <1>1, <1>5 DEF PassedHaveEdges, Return, Passed, StandsFor, CallSite
  <2>3. QED
    BY <1>5, <2>1, <2>2, MoveKeeps DEF Return
<1>6. QED
  BY <1>2, <1>3, <1>4, <1>5

\* The callee has its node: only an edge may be new.
LEMMA LinkKnownKeeps == IInv /\ LinkKnown => IInv'
<1> SUFFICES ASSUME IInv, LinkKnown PROVE IInv'
  OBVIOUS
<1>1. /\ TypeOK /\ SyntheticRange /\ NamesFiled /\ SitesFiled /\ SyntheticUnique
      /\ OneNodePerName
      /\ HasRecord /\ R.parentPc # Root /\ Slot # NoAddr
      /\ Link(F.addr, Slot, CallSite(F, R)) /\ ei' = ei + 1
      /\ UNCHANGED <<funcs, fi, nodes, named, anon, nextAnon, phase>>
  BY DEF IInv, LinkKnown
<1>2. /\ F \in FuncEntry /\ R \in InlineRecord /\ fi \in DOMAIN funcs
      /\ ei \in DOMAIN F.tree /\ KeyOf(F, R) \in AnonKey
  BY <1>1, RecordInHand
<1>3. Slot \in Nat \ {NoAddr}
  BY <1>1, <1>2 DEF Slot, TypeOK, InlineRecord
<1>4. \E i \in DOMAIN nodes : /\ nodes[i].addr = Slot
                              /\ nodes[i].name = R.name
                              /\ R.name = NoName => nodes[i].parent = F.addr
  <2>1. CASE R.name # NoName
    <3>1. R.name \in Names /\ Slot = named[R.name]
      BY <1>2, <2>1 DEF Slot, InlineRecord
    <3>2. QED
      BY <1>1, <2>1, <3>1 DEF NamesFiled
  <2>2. CASE R.name = NoName
    <3>1. Slot = anon[KeyOf(F, R)] /\ KeyOf(F, R)[1] = F.addr
      BY <2>2 DEF Slot, KeyOf
    <3>2. QED
      BY <1>1, <1>2, <2>2, <3>1 DEF SitesFiled
  <2>3. QED
    BY <2>1, <2>2
<1>5. NodesKept
  BY <1>1 DEF NodesKept
<1> HIDE DEF Slot
<1>6. /\ edges' \in Seq(Edge) /\ PhysicalFirst' /\ PassedHaveEdges' /\ ReturnedAtEnd'
      /\ EndpointsAreNodes' /\ EdgesUnique' /\ EveryEdgeIsInlining'
  BY <1>1, <1>3, <1>4, <1>5, LinkKeeps
<1>7. TypeOK'
  BY <1>1, <1>6 DEF TypeOK
<1>8. SyntheticRange' /\ NamesFiled' /\ SitesFiled' /\ SyntheticUnique' /\ OneNodePerName'
  BY <1>1 DEF SyntheticRange, NamesFiled, SitesFiled, SyntheticUnique, OneNodePerName
<1>9. QED
  BY <1>6, <1>7, <1>8 DEF IInv

\* The callee has none: the next synthetic address gets a node and an edge.
LEMMA LinkNewKeeps == IInv /\ LinkNew => IInv'
<1> SUFFICES ASSUME IInv, LinkNew PROVE IInv'
  OBVIOUS
<1> DEFINE to == AnonBit + nextAnon
           new == [addr |-> to, name |-> R.name, kind |-> "inline", parent |-> F.addr]
<1>1. /\ TypeOK /\ SyntheticRange /\ NamesFiled /\ SitesFiled /\ SyntheticUnique
      /\ OneNodePerName
      /\ HasRecord /\ R.parentPc # Root /\ Slot = NoAddr
      /\ nodes' = Append(nodes, new)
      /\ Remember(to) /\ nextAnon' = nextAnon + 1
      /\ Link(F.addr, to, CallSite(F, R)) /\ ei' = ei + 1
      /\ UNCHANGED <<funcs, fi, phase>>
  BY DEF IInv, LinkNew, Advance
<1>2. /\ F \in FuncEntry /\ R \in InlineRecord /\ fi \in DOMAIN funcs
      /\ ei \in DOMAIN F.tree /\ KeyOf(F, R) \in AnonKey
      /\ F.addr \in TextAddr /\ R.name \in Names \cup {NoName}
  BY <1>1, RecordInHand DEF FuncEntry, InlineRecord
<1>3. /\ AnonBit \in Nat /\ nextAnon \in Nat \ {0} /\ to \in Nat \ {NoAddr}
      /\ AnonBit < to
  <2>1. AnonBit \in Nat /\ nextAnon \in Nat \ {0}
    BY <1>1, GraphAssumption DEF TypeOK
  <2>2. QED
    BY <2>1 DEF NoAddr
<1> HIDE DEF to
<1>4. /\ new \in Node /\ new.addr = to /\ new.name = R.name /\ new.kind = "inline"
      /\ new.parent = F.addr
  BY <1>2, <1>3 DEF Node
<1> HIDE DEF new
<1>5. /\ nodes' \in Seq(Node)
      /\ DOMAIN nodes = 1 .. Len(nodes)
      /\ DOMAIN nodes' = 1 .. Len(nodes) + 1
      /\ \A i \in DOMAIN nodes : nodes'[i] = nodes[i]
      /\ nodes'[Len(nodes) + 1] = new
      /\ Len(nodes) \in Nat
  BY <1>1, <1>4, AppendFacts DEF TypeOK
<1>6. /\ NodesKept
      /\ Len(nodes) + 1 \in DOMAIN nodes'
      /\ \A i \in DOMAIN nodes' :
           (i \in DOMAIN nodes /\ nodes'[i] = nodes[i]) \/ (i = Len(nodes) + 1 /\ nodes'[i] = new)
  BY <1>5 DEF NodesKept
<1>7. \E i \in DOMAIN nodes' : /\ nodes'[i].addr = to
                               /\ nodes'[i].name = R.name
                               /\ R.name = NoName => nodes'[i].parent = F.addr
  BY <1>4, <1>5, <1>6
<1>8. /\ edges' \in Seq(Edge) /\ PhysicalFirst' /\ PassedHaveEdges' /\ ReturnedAtEnd'
      /\ EndpointsAreNodes' /\ EdgesUnique' /\ EveryEdgeIsInlining'
  BY <1>1, <1>3, <1>6, <1>7, LinkKeeps
<1>9. TypeOK'
  <2>1. named' \in [Names \cup {NoName} -> Nat] /\ anon' \in [AnonKey -> Nat]
    BY <1>1, <1>2, <1>3 DEF TypeOK, Remember
  <2>2. QED
    BY <1>1, <1>3, <1>5, <1>8, <2>1 DEF TypeOK
<1>10. SyntheticRange'
  <2>1. ASSUME NEW i \in DOMAIN nodes'
        PROVE  /\ nodes'[i].kind = "inline" =>
                    AnonBit < nodes'[i].addr /\ nodes'[i].addr < AnonBit + nextAnon'
               /\ nodes'[i].kind = "physical" => nodes'[i].addr < AnonBit
    <3>1. CASE i \in DOMAIN nodes /\ nodes'[i] = nodes[i]
      <4>1. nodes[i].addr \in Nat
        <5>1. nodes \in Seq(Node)
          BY <1>1 DEF TypeOK
        <5>2. nodes[i] \in Node
          BY <3>1, <5>1
        <5>3. QED
          BY <5>2 DEF Node
      <4>2. QED
        BY <1>1, <1>3, <3>1, <4>1 DEF SyntheticRange
    <3>2. CASE nodes'[i] = new
      BY <1>1, <1>3, <1>4, <3>2 DEF to
    <3>3. QED
      BY <1>6, <3>1, <3>2
  <2>2. QED
    BY <1>1, <2>1 DEF SyntheticRange
<1>11. SyntheticUnique'
  <2>1. ASSUME NEW i \in DOMAIN nodes PROVE nodes[i].addr # to
    <3>1. nodes[i] \in Node
      BY <1>1 DEF TypeOK
    <3>2. nodes[i].kind \in {"physical", "inline"} /\ nodes[i].addr \in Nat
      BY <3>1 DEF Node
    <3>3. QED
      BY <1>1, <1>3, <3>2 DEF SyntheticRange, to
  <2>2. QED
    BY <1>1, <1>4, <1>6, <2>1 DEF SyntheticUnique
<1>12. R.name # NoName => \A i \in DOMAIN nodes : nodes[i].name # R.name
  BY <1>1 DEF NamesFiled, Slot
<1>13. OneNodePerName'
  BY <1>1, <1>4, <1>6, <1>12 DEF OneNodePerName
<1>14. NamesFiled'
  <2>1. ASSUME NEW n \in Names, named'[n] # NoAddr
        PROVE  \E i \in DOMAIN nodes' : nodes'[i].addr = named'[n] /\ nodes'[i].name = n
    <3>1. CASE n = R.name /\ R.name # NoName
      <4>1. named'[n] = to
        BY <1>1, <1>2, <3>1 DEF TypeOK, Remember
      <4>2. QED
        BY <1>7, <3>1, <4>1
    <3>2. CASE ~(n = R.name /\ R.name # NoName)
      <4>1. named'[n] = named[n]
        BY <1>1, <3>2 DEF TypeOK, Remember
      <4>2. QED
        BY <1>1, <1>6, <2>1, <4>1 DEF NamesFiled, NodesKept
    <3>3. QED
      BY <3>1, <3>2
  <2>2. ASSUME NEW i \in DOMAIN nodes', nodes'[i].name # NoName
        PROVE  named'[nodes'[i].name] # NoAddr
    <3>1. nodes'[i].name \in Names \cup {NoName}
      <4>1. nodes' \in Seq(Node)
        BY <1>5
      <4>2. nodes'[i] \in Node
        BY <4>1
      <4>3. QED
        BY <4>2 DEF Node
    <3>2. CASE i \in DOMAIN nodes /\ nodes'[i] = nodes[i]
      <4>1. named[nodes[i].name] # NoAddr
        BY <1>1, <2>2, <3>2 DEF NamesFiled
      <4>2. QED
        BY <1>1, <1>3, <3>1, <3>2, <4>1 DEF TypeOK, Remember
    <3>3. CASE nodes'[i] = new
      BY <1>1, <1>2, <1>3, <1>4, <2>2, <3>3 DEF TypeOK, Remember
    <3>4. QED
      BY <1>6, <3>2, <3>3
  <2>3. QED
    BY <2>1, <2>2 DEF NamesFiled
<1>15. SitesFiled'
  <2> SUFFICES ASSUME NEW k \in AnonKey, anon'[k] # NoAddr
               PROVE  \E i \in DOMAIN nodes' : /\ nodes'[i].addr = anon'[k]
                                               /\ nodes'[i].name = NoName
                                               /\ nodes'[i].parent = k[1]
    BY DEF SitesFiled
  <2>1. CASE k = KeyOf(F, R) /\ R.name = NoName
    <3>1. anon'[k] = to /\ k[1] = F.addr
      BY <1>1, <2>1 DEF TypeOK, Remember, KeyOf
    <3>2. QED
      BY <1>7, <2>1, <3>1
  <2>2. CASE ~(k = KeyOf(F, R) /\ R.name = NoName)
    <3>1. anon'[k] = anon[k]
      BY <1>1, <2>2 DEF TypeOK, Remember
    <3>2. QED
      BY <1>1, <1>6, <3>1 DEF SitesFiled, NodesKept
  <2>3. QED
    BY <2>1, <2>2
<1>16. QED
  BY <1>8, <1>9, <1>10, <1>11, <1>13, <1>14, <1>15 DEF IInv

-----------------------------------------------------------------------------
\* Every step of inline_callgraph keeps the invariant.
THEOREM Invariance == Spec => []IInv
<1>1. IInv /\ [Next]_vars => IInv'
  <2> SUFFICES ASSUME IInv, [Next]_vars PROVE IInv'
    OBVIOUS
  <2>1. CASE Next
    BY <2>1, EmitPhysicalKeeps, ControlKeeps, LinkKnownKeeps, LinkNewKeeps DEF Next
  <2>2. CASE UNCHANGED vars
    BY <2>2
    DEF vars, IInv, TypeOK, PhysicalFirst, IsPhysical, SyntheticRange, NamesFiled,
        SitesFiled, PassedHaveEdges, Passed, ReturnedAtEnd, EndpointsAreNodes,
        SyntheticUnique, EdgesUnique, OneNodePerName, EveryEdgeIsInlining, StandsFor, CallSite
  <2>3. QED
    BY <2>1, <2>2
<1>2. QED
  BY InitIInv, <1>1, PTL DEF Spec

\* Every variable of the graph's construction keeps its type.
THEOREM TypeCorrect == Spec => []TypeOK
<1>1. IInv => TypeOK
  BY DEF IInv
<1>2. QED
  BY Invariance, <1>1, PTL

\* No edge of the graph dangles, whatever the functions and their trees.
THEOREM NoDanglingEdge == Spec => []EndpointsAreNodes
<1>1. IInv => EndpointsAreNodes
  BY DEF IInv
<1>2. QED
  BY Invariance, <1>1, PTL

\* A synthetic address never collides, with a function or with another.
THEOREM NoCollision == Spec => []SyntheticUnique
<1>1. IInv => SyntheticUnique
  BY DEF IInv
<1>2. QED
  BY Invariance, <1>1, PTL

\* The graph names an inlined callee once, and each inlining once.
THEOREM NoDuplicate == Spec => [](OneNodePerName /\ EdgesUnique)
<1>1. IInv => OneNodePerName /\ EdgesUnique
  BY DEF IInv
<1>2. QED
  BY Invariance, <1>1, PTL

\* The graph can be read by its addresses, whatever the functions and their trees.
THEOREM WellFormed == Spec => []GraphWellFormed
<1>1. IInv => GraphWellFormed
  BY DEF IInv, GraphWellFormed
<1>2. QED
  BY Invariance, <1>1, PTL

\* The graph holds an edge for nothing but an inlining of a tree that decoded.
THEOREM GraphSound == Spec => []EveryEdgeIsInlining
<1>1. IInv => EveryEdgeIsInlining
  BY DEF IInv
<1>2. QED
  BY Invariance, <1>1, PTL

\* The graph inline_callgraph returns holds an edge for every such inlining.
THEOREM GraphComplete == Spec => []EveryInliningHasEdge
<1>1. IInv => EveryInliningHasEdge
  <2> SUFFICES ASSUME IInv, phase = "done",
                      NEW f \in {i \in DOMAIN funcs : funcs[i].decoded},
                      NEW e \in DOMAIN funcs[f].tree, funcs[f].tree[e].parentPc # Root
               PROVE  \E k \in DOMAIN edges : StandsFor(edges[k], funcs[f], funcs[f].tree[e])
    BY DEF EveryInliningHasEdge
  <2>1. f < fi
    BY DEF IInv, ReturnedAtEnd, TypeOK
  <2>2. QED
    BY <2>1 DEF IInv, PassedHaveEdges, Passed
<1>2. QED
  BY Invariance, <1>1, PTL

\* The graph returned is that of the inlinings, no more and no less.
THEOREM GraphExact == Spec => []EdgesExact
<1>1. EveryEdgeIsInlining /\ EveryInliningHasEdge => EdgesExact
  BY DEF EdgesExact
<1>2. QED
  BY <1>1, GraphSound, GraphComplete, PTL

=============================================================================
