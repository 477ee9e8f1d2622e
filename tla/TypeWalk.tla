-------------------------------- MODULE TypeWalk --------------------------------
(***************************************************************************)
(* recover_with_mode (src/src/types/mod.rs): the worklist that follows     *)
(* type descriptors from the typelinks, and the linear scan that --full    *)
(* adds.  What parse_type makes of an address is data: whether it parses,  *)
(* the addresses child_addrs lists, and whether the header looks plausible.*)
(* Addresses count pointers, the unit of the region's alignment.           *)
(***************************************************************************)
EXTENDS Integers, Sequences, FiniteSets

CONSTANTS
    TypeInputs,     \* binaries to consider
    Addr,           \* addresses a typelink or a child may name
    types, etypes,  \* the region [types, etypes)
    HeaderSize,     \* TYPE_HEADER_SIZE_64
    QueueFactor     \* the queue's cap is QueueFactor * max_types

InRegion(a) == types <= a /\ a < etypes

\* What one binary holds.  plausible: a header the linear scan accepts.
TypeData == [refused : BOOLEAN, typelinks : Seq(Addr), parses : SUBSET Addr,
           children : [Addr -> Seq(Addr)], plausible : SUBSET Addr,
           scannable : BOOLEAN, full : BOOLEAN]

ASSUME WalkAssumption ==
    /\ types \in Nat
    /\ etypes \in Nat
    /\ types <= etypes
    /\ HeaderSize \in Nat \ {0}
    /\ QueueFactor \in Nat \ {0}
    /\ Addr \subseteq Nat
    /\ IsFiniteSet(Addr)
    /\ types .. etypes \subseteq Addr
    /\ TypeInputs \subseteq TypeData

max_types == (etypes - types) \div HeaderSize

VARIABLES
    data,       \* the binary
    queue,      \* a stack: pop takes the last
    seen,       \* addresses of the types recovered
    addr, ci,   \* the type in hand and the next of its children
    offset,     \* the linear scan's place
    extras,     \* what the linear scan adds, in order
    dropped,    \* a child was left out because the queue was full
    stage

recoverVars == <<data, queue, seen, addr, ci, offset, extras, dropped, stage>>

RecoverInit ==
    /\ data \in TypeInputs
    /\ queue = data.typelinks
    /\ seen = {}
    /\ addr = types
    /\ ci = 1
    /\ offset = types
    /\ extras = <<>>
    /\ dropped = FALSE
    /\ stage = IF data.refused THEN "error" ELSE "pop"

Children == data.children[addr]
Last == queue[Len(queue)]
Popped == SubSeq(queue, 1, Len(queue) - 1)

\* Mutant of Ceiling: one type short.
CeilingEarly == Cardinality(seen) + 1 >= max_types

\* The structural ceiling.
Ceiling == Cardinality(seen) >= max_types

\* Mutant of Wanted: the region is not checked, the parser is left to refuse.
WantedAnywhere(a) == a \notin seen /\ a \in data.parses

\* A popped address that is new, in the region and parses.
Wanted(a) == a \notin seen /\ InRegion(a) /\ a \in data.parses

PopSkip ==
    /\ stage = "pop"
    /\ queue # <<>>
    /\ ~Ceiling
    /\ ~Wanted(Last)
    /\ queue' = Popped
    /\ UNCHANGED <<data, seen, addr, ci, offset, extras, dropped, stage>>

PopParse ==
    /\ stage = "pop"
    /\ queue # <<>>
    /\ ~Ceiling
    /\ Wanted(Last)
    /\ queue' = Popped
    /\ addr' = Last
    /\ ci' = 1
    /\ stage' = "children"
    /\ UNCHANGED <<data, seen, offset, extras, dropped>>

\* Mutant of Full: the queue's cap is not looked at.
Uncapped == FALSE

Full == Len(queue) >= QueueFactor * max_types

\* Mutant of Queued: a child is taken to lie behind its parent.
QueuedForward(c) == InRegion(c) /\ addr < c

Queued(c) == InRegion(c) /\ c \notin seen

PushChild ==
    /\ stage = "children"
    /\ ci <= Len(Children)
    /\ ~Full
    /\ queue' = IF Queued(Children[ci]) THEN Append(queue, Children[ci]) ELSE queue
    /\ ci' = ci + 1
    /\ UNCHANGED <<data, seen, addr, offset, extras, dropped, stage>>

\* A full queue ends the loop over the children.
DropChildren ==
    /\ stage = "children"
    /\ ci <= Len(Children)
    /\ Full
    /\ dropped' = TRUE
    /\ ci' = Len(Children) + 1
    /\ UNCHANGED <<data, queue, seen, addr, offset, extras, stage>>

\* Mutant of Insert: the type is parsed and lost.
InsertNothing == seen

Insert == seen \cup {addr}

Record ==
    /\ stage = "children"
    /\ ci > Len(Children)
    /\ seen' = Insert
    /\ stage' = "pop"
    /\ UNCHANGED <<data, queue, addr, ci, offset, extras, dropped>>

EndWalk ==
    /\ stage = "pop"
    /\ queue = <<>> \/ Ceiling
    /\ stage' = IF data.full /\ data.scannable /\ types < etypes THEN "scan" ELSE "done"
    /\ UNCHANGED <<data, queue, seen, addr, ci, offset, extras, dropped>>

\* Mutant of Fresh: the scan forgets what the walk has recovered.
FreshUnchecked(a) == a \in data.parses /\ a \in data.plausible

\* What the scan adds: a plausible header the walk has not recovered.
Fresh(a) == a \notin seen /\ a \in data.parses /\ a \in data.plausible

\* Mutant of Fits: a header may begin anywhere in the region.
FitsPartly(a) == a <= etypes

Fits(a) == a + HeaderSize <= etypes

\* Every aligned address is tried.
Stride == 1

ScanStep ==
    /\ stage = "scan"
    /\ Fits(offset)
    /\ extras' = IF Fresh(offset) THEN Append(extras, offset) ELSE extras
    /\ offset' = offset + Stride
    /\ UNCHANGED <<data, queue, seen, addr, ci, dropped, stage>>

EndScan ==
    /\ stage = "scan"
    /\ ~Fits(offset)
    /\ stage' = "done"
    /\ UNCHANGED <<data, queue, seen, addr, ci, offset, extras, dropped>>

RecoverNext ==
    \/ PopSkip
    \/ PopParse
    \/ PushChild
    \/ DropChildren
    \/ Record
    \/ EndWalk
    \/ ScanStep
    \/ EndScan

RecoverSpec == RecoverInit /\ [][RecoverNext]_recoverVars /\ WF_recoverVars(RecoverNext)

-----------------------------------------------------------------------------
RecoverTypeOK ==
    /\ data \in TypeData
    /\ queue \in Seq(Addr)
    /\ seen \in SUBSET Addr
    /\ addr \in Nat
    /\ ci \in Nat \ {0}
    /\ offset \in types .. etypes
    /\ extras \in Seq(Addr)
    /\ dropped \in BOOLEAN
    /\ stage \in {"pop", "children", "scan", "done", "error"}

\* A set that holds the typelinks and its own children, as far as they are types.
IsType(a) == InRegion(a) /\ a \in data.parses
Closed(S) ==
    /\ \A i \in DOMAIN data.typelinks : IsType(data.typelinks[i]) => data.typelinks[i] \in S
    /\ \A a \in S : \A i \in DOMAIN data.children[a] :
          IsType(data.children[a][i]) => data.children[a][i] \in S

\* The types the program links in: the least closed set.
Reachable == {a \in Addr : \A S \in SUBSET Addr : Closed(S) => a \in S}

\* What the walk recovers is linked in: no address from outside the region, nothing
\* that does not parse, nothing no typelink leads to.
RecoveredIsReachable == stage = "done" => seen \subseteq Reachable

\* It recovers everything linked in, unless the queue was full or the ceiling reached.
ReachableIsRecovered ==
    stage = "done" /\ ~dropped /\ Cardinality(seen) < max_types => Reachable \subseteq seen

\* The worklist of recover_focused ends with exactly what the typelinks lead to.
RecoversReachable == RecoveredIsReachable /\ ReachableIsRecovered

\* As the comment in the loop says, the ceiling costs nothing: where type headers do
\* not overlap, what is left in the queue is a duplicate or outside the region.
HeadersDisjoint ==
    \A a \in Addr : IsType(a) =>
      /\ a + HeaderSize <= etypes
      /\ \A b \in Addr : IsType(b) /\ a < b => a + HeaderSize <= b

CeilingLosesNothing ==
    stage = "done" /\ ~dropped /\ HeadersDisjoint => Reachable \subseteq seen

\* Memory stays bounded by the region, whatever the typelinks and the children say.
SizesBounded ==
    /\ Cardinality(seen) <= max_types
    /\ Len(queue) <= QueueFactor * max_types \/ Len(queue) <= Len(data.typelinks)

\* No type is reported twice, by the walk and the scan or by the scan alone.
NoTypeTwice ==
    \A i \in DOMAIN extras :
      extras[i] \notin seen /\ \A j \in DOMAIN extras : extras[i] = extras[j] => i = j

\* --full reports every plausible header of the region.
ScanIsComplete ==
    stage = "done" /\ data.full /\ data.scannable =>
      \A a \in Addr : IsType(a) /\ a \in data.plausible /\ a + HeaderSize <= etypes =>
        a \in seen \/ \E i \in DOMAIN extras : extras[i] = a

\* --full lists every plausible header once: the scan repeats nothing the walk found, or
\* itself, and skips nothing (linear_scan_types_region).
FullListing == NoTypeTwice /\ ScanIsComplete

\* The walk ends on cyclic type graphs.
WalkTerminates == <>(stage \in {"done", "error"})
=============================================================================
