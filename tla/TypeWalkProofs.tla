---------------------------- MODULE TypeWalkProofs ----------------------------
(* The worklist computes the least set that holds the typelinks and its own
   children, for every region, every binary and every cap on the queue.  The
   inductive invariant: nothing outside that set is pending or recovered, and
   what a recovered type refers to is recovered, pending or in hand. *)
EXTENDS TypeWalk, FiniteSetTheorems, Basics

InHand(a) == stage = "children" /\ a = addr
Pending(a) == \E i \in DOMAIN queue : queue[i] = a
Known(a) == a \in seen \/ Pending(a) \/ InHand(a)

\* The type in hand is one the loop has just accepted.
HandOK ==
    stage = "children" =>
      addr \in Addr /\ IsType(addr) /\ addr \notin seen /\ Cardinality(seen) < max_types

SeenAreTypes == \A a \in seen : IsType(a)

\* Nothing is recovered, pending or in hand that some closed set does without.
Sound ==
    \A S \in SUBSET Addr : Closed(S) =>
      /\ seen \subseteq S
      /\ \A i \in DOMAIN queue : IsType(queue[i]) => queue[i] \in S
      /\ stage = "children" => addr \in S

\* Nothing linked in has been forgotten.
LinksKnown ==
    ~dropped =>
      \A i \in DOMAIN data.typelinks : IsType(data.typelinks[i]) => Known(data.typelinks[i])

ChildrenKnown ==
    ~dropped =>
      /\ \A a \in seen : \A i \in DOMAIN data.children[a] :
            IsType(data.children[a][i]) => Known(data.children[a][i])
      /\ stage = "children" => \A i \in DOMAIN Children :
            i < ci /\ IsType(Children[i]) => Known(Children[i])

EndedRight == stage \in {"scan", "done"} => queue = <<>> \/ Ceiling

\* The scan's additions lie behind it, in increasing order.
ExtrasBehind ==
    /\ \A i \in DOMAIN extras :
         extras[i] < offset /\ extras[i] \notin seen
    /\ \A i, j \in DOMAIN extras : i < j => extras[i] < extras[j]
    /\ stage \in {"pop", "children"} => extras = <<>>

\* What lies behind the scan and is fresh is among its additions.
ScannedFound ==
    /\ stage \in {"pop", "children"} => offset = types
    /\ stage \in {"scan", "done"} =>
         \A a \in Addr : IsType(a) /\ a \in data.plausible /\ a < offset =>
            a \in seen \/ \E i \in DOMAIN extras : extras[i] = a
    /\ stage = "done" /\ data.full /\ data.scannable => ~Fits(offset) \/ etypes <= types

IInv ==
    /\ RecoverTypeOK
    /\ HandOK
    /\ SeenAreTypes
    /\ Sound
    /\ LinksKnown
    /\ ChildrenKnown
    /\ EndedRight
    /\ ExtrasBehind
    /\ ScannedFound
    /\ SizesBounded

-----------------------------------------------------------------------------
LEMMA Constants ==
  /\ types \in Nat /\ etypes \in Nat /\ types <= etypes /\ HeaderSize \in Nat \ {0}
  /\ Addr \subseteq Nat /\ IsFiniteSet(Addr) /\ types .. etypes \subseteq Addr
  /\ max_types \in Nat
<1>1. /\ types \in Nat /\ etypes \in Nat /\ types <= etypes /\ HeaderSize \in Nat \ {0}
      /\ Addr \subseteq Nat /\ IsFiniteSet(Addr) /\ types .. etypes \subseteq Addr
  BY WalkAssumption
<1> DEFINE r == etypes - types
<1>2. r \in Nat
  BY <1>1
<1> HIDE DEF r
<1>3. r \div HeaderSize \in Nat
  BY <1>1, <1>2
<1>4. QED
  BY <1>1, <1>3 DEF max_types, r

LEMMA SeenFinite ==
  ASSUME RecoverTypeOK
  PROVE  IsFiniteSet(seen) /\ Cardinality(seen) \in Nat
  BY Constants, FS_Subset, FS_CardinalityType DEF RecoverTypeOK

\* Init establishes the invariant.
LEMMA InitIInv == RecoverInit => IInv
<1> SUFFICES ASSUME RecoverInit PROVE IInv
  OBVIOUS
<1>1. data \in TypeData
  BY WalkAssumption DEF RecoverInit
<1>2. /\ data.typelinks \in Seq(Addr) /\ seen = {} /\ extras = <<>> /\ queue = data.typelinks
      /\ offset = types /\ ~dropped /\ stage \in {"pop", "error"}
  <2>1. data.typelinks \in Seq(Addr)
    BY <1>1 DEF TypeData
  <2>2. stage \in {"pop", "error"}
    BY Zenon DEF RecoverInit
  <2>3. QED
    BY <2>1, <2>2 DEF RecoverInit
<1>3. RecoverTypeOK
  <2>1. offset \in types .. etypes /\ addr \in Nat /\ ci \in Nat \ {0}
    BY Constants DEF RecoverInit
  <2>2. dropped \in BOOLEAN
    BY DEF RecoverInit
  <2>3. QED
    BY <1>1, <1>2, <2>1, <2>2 DEF RecoverTypeOK
<1>4. Cardinality(seen) = 0 /\ max_types \in Nat
  BY <1>2, FS_EmptySet, Constants
<1>5. SizesBounded
  <2>1. Len(queue) \in Nat /\ Len(queue) = Len(data.typelinks)
    BY <1>2
  <2>2. QED
    BY <1>4, <2>1 DEF SizesBounded
<1>6. Sound
  BY <1>2 DEF Sound, Closed
<1>7. LinksKnown
  BY <1>2 DEF LinksKnown, Known, Pending
<1>8. ChildrenKnown /\ HandOK /\ SeenAreTypes /\ EndedRight
  BY <1>2 DEF ChildrenKnown, HandOK, SeenAreTypes, EndedRight
<1>9. ExtrasBehind /\ ScannedFound
  BY <1>2 DEF ExtrasBehind, ScannedFound
<1>10. QED
  BY <1>3, <1>5, <1>6, <1>7, <1>8, <1>9 DEF IInv

\* A pop takes one address off the stack.
LEMMA PopTakes ==
  ASSUME RecoverTypeOK, queue # <<>>, queue' = Popped
  PROVE  /\ queue' \in Seq(Addr) /\ Len(queue) \in Nat \ {0} /\ Len(queue') = Len(queue) - 1
         /\ Last \in Addr
         /\ \A i \in DOMAIN queue' : i \in DOMAIN queue /\ queue'[i] = queue[i]
         /\ \A a : Pending(a) => a = Last \/ \E i \in DOMAIN queue' : queue'[i] = a
         /\ Last = queue[Len(queue)] /\ Len(queue) \in DOMAIN queue
<1>1. queue \in Seq(Addr)
  BY DEF RecoverTypeOK
<1>2. /\ queue' \in Seq(Addr) /\ Len(queue) \in Nat \ {0} /\ Len(queue') = Len(queue) - 1
      /\ DOMAIN queue = 1 .. Len(queue) /\ DOMAIN queue' = 1 .. Len(queue) - 1
      /\ \A i \in 1 .. Len(queue) - 1 : queue'[i] = queue[i]
      /\ queue[Len(queue)] \in Addr
  BY <1>1, PopFacts DEF Popped
<1>3. \A i \in DOMAIN queue' : i \in DOMAIN queue /\ queue'[i] = queue[i]
  BY <1>2
<1>4. ASSUME NEW a, Pending(a) PROVE a = Last \/ \E i \in DOMAIN queue' : queue'[i] = a
  <2>1. PICK i \in DOMAIN queue : queue[i] = a
    BY <1>4 DEF Pending
  <2>2. i = Len(queue) \/ i \in DOMAIN queue'
    BY <1>2
  <2>3. QED
    BY <1>3, <2>1, <2>2 DEF Last
<1>5. QED
  BY <1>2, <1>3, <1>4 DEF Last

\* An address that is no new type is dropped: all that is known stays known.
LEMMA PopSkipKeeps == IInv /\ PopSkip => IInv'
<1> SUFFICES ASSUME IInv, PopSkip PROVE IInv'
  OBVIOUS
<1>1. /\ stage = "pop" /\ queue # <<>> /\ ~Wanted(Last) /\ queue' = Popped
      /\ UNCHANGED <<data, seen, addr, ci, offset, extras, dropped, stage>>
  BY DEF PopSkip
<1>2. /\ queue' \in Seq(Addr) /\ Len(queue) \in Nat \ {0} /\ Len(queue') = Len(queue) - 1
      /\ \A i \in DOMAIN queue' : i \in DOMAIN queue /\ queue'[i] = queue[i]
      /\ \A a : Pending(a) => a = Last \/ \E i \in DOMAIN queue' : queue'[i] = a
  BY <1>1, PopTakes DEF IInv
<1>3. ASSUME NEW a, IsType(a), Known(a) PROVE Known(a)'
  <2>1. CASE a \in seen \/ InHand(a)
    BY <1>1, <2>1 DEF Known, InHand
  <2>2. CASE Pending(a)
    <3>1. a = Last => a \in seen
      BY <1>1, <1>3 DEF Wanted, IsType
    <3>2. QED
      BY <1>1, <1>2, <2>2, <3>1 DEF Known, Pending
  <2>3. QED
    BY <1>3, <2>1, <2>2 DEF Known
<1>4. RecoverTypeOK'
  BY <1>1, <1>2 DEF IInv, RecoverTypeOK
<1>5. HandOK' /\ SeenAreTypes' /\ EndedRight' /\ ExtrasBehind' /\ ScannedFound'
  BY <1>1 DEF IInv, HandOK, SeenAreTypes, IsType, EndedRight, ExtrasBehind, ScannedFound, Fits
<1>6. Sound'
  BY <1>1, <1>2 DEF IInv, Sound, Closed, IsType
<1>7. LinksKnown'
  BY <1>1, <1>3 DEF IInv, LinksKnown, IsType
<1>8. ChildrenKnown'
  BY <1>1, <1>3 DEF IInv, ChildrenKnown, IsType, Children
<1>9. SizesBounded'
  <2>1. max_types \in Nat /\ QueueFactor * max_types \in Nat /\ Len(data.typelinks) \in Nat
    BY Constants, WalkAssumption DEF IInv, RecoverTypeOK, TypeData
  <2>2. QED
    BY <1>1, <1>2, <2>1 DEF IInv, SizesBounded
<1>10. QED
  BY <1>4, <1>5, <1>6, <1>7, <1>8, <1>9 DEF IInv

\* A new type is taken in hand.
LEMMA PopParseKeeps == IInv /\ PopParse => IInv'
<1> SUFFICES ASSUME IInv, PopParse PROVE IInv'
  OBVIOUS
<1>1. /\ stage = "pop" /\ queue # <<>> /\ ~Ceiling /\ Wanted(Last) /\ queue' = Popped
      /\ addr' = Last /\ ci' = 1 /\ stage' = "children"
      /\ UNCHANGED <<data, seen, offset, extras, dropped>>
  BY DEF PopParse
<1>2. /\ queue' \in Seq(Addr) /\ Len(queue) \in Nat \ {0} /\ Len(queue') = Len(queue) - 1
      /\ Last \in Addr
      /\ \A i \in DOMAIN queue' : i \in DOMAIN queue /\ queue'[i] = queue[i]
      /\ \A a : Pending(a) => a = Last \/ \E i \in DOMAIN queue' : queue'[i] = a
      /\ Last = queue[Len(queue)] /\ Len(queue) \in DOMAIN queue
  BY <1>1, PopTakes DEF IInv
<1>3. ASSUME NEW a, Known(a) PROVE Known(a)'
  BY <1>1, <1>2, <1>3 DEF Known, InHand, Pending
<1>4. RecoverTypeOK'
  BY <1>1, <1>2, Constants DEF IInv, RecoverTypeOK
<1>5. IsType(Last) /\ Last \notin seen
  BY <1>1 DEF Wanted, IsType
<1>6. HandOK'
  <2>1. Cardinality(seen) < max_types
    BY <1>1, SeenFinite, Constants DEF IInv, Ceiling
  <2>2. QED
    BY <1>1, <1>2, <1>5, <2>1 DEF HandOK, IsType
<1>7. SeenAreTypes' /\ EndedRight' /\ ExtrasBehind' /\ ScannedFound'
  BY <1>1 DEF IInv, SeenAreTypes, IsType, EndedRight, ExtrasBehind, ScannedFound
<1>8. Sound'
  BY <1>1, <1>2, <1>5 DEF IInv, Sound, Closed, IsType
<1>9. LinksKnown'
  BY <1>1, <1>3 DEF IInv, LinksKnown, IsType
<1>10. ChildrenKnown'
  <2>1. \A i \in DOMAIN data.children[Last] : ~(i < 1)
    BY <1>2 DEF IInv, RecoverTypeOK, TypeData
  <2>2. QED
    BY <1>1, <1>3, <2>1 DEF IInv, ChildrenKnown, IsType, Children
<1>11. SizesBounded'
  <2>1. max_types \in Nat /\ QueueFactor * max_types \in Nat /\ Len(data.typelinks) \in Nat
    BY Constants, WalkAssumption DEF IInv, RecoverTypeOK, TypeData
  <2>2. QED
    BY <1>1, <1>2, <2>1 DEF IInv, SizesBounded
<1>12. QED
  BY <1>4, <1>6, <1>7, <1>8, <1>9, <1>10, <1>11 DEF IInv

\* One child is queued, or passed over as known or outside.
LEMMA PushChildKeeps == IInv /\ PushChild => IInv'
<1> SUFFICES ASSUME IInv, PushChild PROVE IInv'
  OBVIOUS
<1> DEFINE c == Children[ci]
<1>1. /\ stage = "children" /\ ci <= Len(Children) /\ ~Full
      /\ queue' = IF Queued(c) THEN Append(queue, c) ELSE queue
      /\ ci' = ci + 1
      /\ UNCHANGED <<data, seen, addr, offset, extras, dropped, stage>>
  BY DEF PushChild
<1>2. /\ addr \in Addr /\ Children \in Seq(Addr) /\ ci \in DOMAIN Children /\ ci \in Nat
      /\ queue \in Seq(Addr) /\ Len(queue) \in Nat /\ DOMAIN queue = 1 .. Len(queue)
      /\ c \in Addr /\ DOMAIN Children \subseteq Nat
  <2>1. addr \in Addr /\ data \in TypeData /\ ci \in Nat \ {0} /\ queue \in Seq(Addr)
    BY <1>1 DEF IInv, HandOK, RecoverTypeOK
  <2>2. Children \in Seq(Addr)
    BY <2>1 DEF TypeData, Children
  <2>3. ci \in DOMAIN Children
    BY <1>1, <2>1, <2>2
  <2>4. QED
    BY <2>1, <2>2, <2>3
<1> HIDE DEF c
<1>3. /\ queue' \in Seq(Addr)
      /\ \A i \in DOMAIN queue : i \in DOMAIN queue' /\ queue'[i] = queue[i]
      /\ \A i \in DOMAIN queue' : (i \in DOMAIN queue /\ queue'[i] = queue[i]) \/ queue'[i] = c
      /\ Queued(c) => \E i \in DOMAIN queue' : queue'[i] = c
      /\ Len(queue') \in Nat
      /\ Len(queue') = Len(queue) \/ Len(queue') = Len(queue) + 1
  <2>1. CASE Queued(c)
    <3>1. queue' = Append(queue, c)
      BY <1>1, <2>1
    <3>2. QED
      BY <1>2, <3>1, AppendFacts
  <2>2. CASE ~Queued(c)
    BY <1>1, <1>2, <2>2
  <2>3. QED
    BY <2>1, <2>2
<1>4. ASSUME NEW a, Known(a) PROVE Known(a)'
  <2>1. CASE a \in seen \/ InHand(a)
    BY <1>1, <2>1 DEF Known, InHand
  <2>2. CASE Pending(a)
    <3>1. PICK i \in DOMAIN queue : queue[i] = a
      BY <2>2 DEF Pending
    <3>2. i \in DOMAIN queue' /\ queue'[i] = a
      BY <1>3, <3>1
    <3>3. QED
      BY <3>2 DEF Known, Pending
  <2>3. QED
    BY <1>4, <2>1, <2>2 DEF Known
<1>5. ASSUME NEW a, a = c, IsType(a) PROVE Known(a)'
  <2>1. CASE a \in seen
    BY <1>1, <2>1 DEF Known
  <2>2. CASE a \notin seen
    <3>1. Queued(c)
      BY <1>5, <2>2 DEF Queued, IsType
    <3>2. QED
      BY <1>3, <1>5, <3>1 DEF Known, Pending
  <2>3. QED
    BY <2>1, <2>2
<1>6. RecoverTypeOK'
  <2>1. ci' \in Nat \ {0}
    BY <1>1, <1>2
  <2>2. queue' \in Seq(Addr)
    BY <1>3
  <2>3. QED
    BY <1>1, <2>1, <2>2 DEF IInv, RecoverTypeOK
<1>7. HandOK' /\ SeenAreTypes' /\ EndedRight' /\ ExtrasBehind' /\ ScannedFound'
  BY <1>1 DEF IInv, HandOK, SeenAreTypes, IsType, EndedRight, ExtrasBehind, ScannedFound
<1>8. Sound'
  <2> SUFFICES ASSUME NEW S \in SUBSET Addr, Closed(S)
               PROVE  /\ seen \subseteq S /\ addr \in S
                      /\ \A i \in DOMAIN queue' : IsType(queue'[i]) => queue'[i] \in S
    BY <1>1 DEF Sound, Closed, IsType
  <2>1. /\ seen \subseteq S /\ addr \in S
        /\ \A i \in DOMAIN queue : IsType(queue[i]) => queue[i] \in S
    BY <1>1 DEF IInv, Sound
  <2>2. IsType(c) => c \in S
    <3>1. ci \in DOMAIN data.children[addr] /\ c = data.children[addr][ci]
      BY <1>2 DEF Children, c
    <3>2. \A i \in DOMAIN data.children[addr] :
             IsType(data.children[addr][i]) => data.children[addr][i] \in S
      BY <2>1 DEF Closed
    <3>3. QED
      BY <3>1, <3>2
  <2>3. QED
    BY <1>3, <2>1, <2>2
<1>9. LinksKnown'
  BY <1>1, <1>4 DEF IInv, LinksKnown, IsType
<1>10. ChildrenKnown'
  <2>1. ASSUME ~dropped, NEW a \in seen, NEW i \in DOMAIN data.children[a], IsType(data.children[a][i])
        PROVE  Known(data.children[a][i])'
    <3>1. Known(data.children[a][i])
      BY <2>1 DEF IInv, ChildrenKnown
    <3>2. QED
      BY <1>1, <1>4, <3>1
  <2>2. ASSUME ~dropped, NEW i \in DOMAIN Children, i < ci + 1, IsType(Children[i])
        PROVE  Known(Children[i])'
    <3>1. i < ci \/ i = ci
      BY <1>2, <2>2
    <3>2. CASE i < ci
      <4>1. Known(Children[i])
        BY <1>1, <2>2, <3>2 DEF IInv, ChildrenKnown
      <4>2. Children[i]' = Children[i]
        BY <1>1 DEF Children
      <4>3. QED
        BY <1>4, <4>1, <4>2
    <3>3. CASE i = ci
      <4>1. IsType(c)
        BY <2>2, <3>3 DEF c
      <4>2. QED
        BY <1>1, <1>5, <3>3, <4>1 DEF c, Known, InHand, Pending, Children
    <3>4. QED
      BY <3>1, <3>2, <3>3
  <2>3. QED
    BY <1>1, <2>1, <2>2 DEF ChildrenKnown, IsType, Children, Known, InHand, Pending
<1>11. SizesBounded'
  <2>1. max_types \in Nat /\ QueueFactor * max_types \in Nat
    BY Constants, WalkAssumption
  <2>2. Len(queue) < QueueFactor * max_types
    BY <1>1, <1>2, <2>1 DEF Full
  <2>3. Len(queue') <= QueueFactor * max_types
    BY <1>2, <1>3, <2>1, <2>2
  <2>4. QED
    BY <1>1, <2>3 DEF IInv, SizesBounded
<1>12. QED
  BY <1>6, <1>7, <1>8, <1>9, <1>10, <1>11 DEF IInv

\* The steps that move no type: children dropped, the walk and the scan ended.
LEMMA ControlKeeps == IInv /\ (DropChildren \/ EndWalk \/ EndScan) => IInv'
<1> SUFFICES ASSUME IInv, DropChildren \/ EndWalk \/ EndScan PROVE IInv'
  OBVIOUS
<1>1. UNCHANGED <<data, queue, seen, addr, offset, extras>>
  BY DEF DropChildren, EndWalk, EndScan
<1>2. SeenAreTypes' /\ SizesBounded'
  BY <1>1 DEF IInv, SeenAreTypes, IsType, SizesBounded
<1>3. CASE DropChildren
  <2>1. dropped' = TRUE /\ stage = "children" /\ stage' = stage /\ ci' = Len(Children) + 1
    BY <1>3 DEF DropChildren
  <2>2. Len(Children) \in Nat
    BY <2>1 DEF IInv, HandOK, RecoverTypeOK, TypeData, Children
  <2>3. RecoverTypeOK'
    BY <1>1, <2>1, <2>2 DEF IInv, RecoverTypeOK
  <2>4. HandOK' /\ Sound' /\ EndedRight' /\ ExtrasBehind' /\ ScannedFound'
    BY <1>1, <2>1
    DEF IInv, HandOK, Sound, Closed, IsType, EndedRight, ExtrasBehind, ScannedFound
  <2>5. LinksKnown' /\ ChildrenKnown'
    BY <2>1 DEF LinksKnown, ChildrenKnown
  <2>6. QED
    BY <1>2, <2>3, <2>4, <2>5 DEF IInv
<1>4. CASE EndWalk
  <2>1. /\ stage = "pop" /\ (queue = <<>> \/ Ceiling) /\ stage' \in {"scan", "done"}
        /\ stage' = "done" => ~(data.full /\ data.scannable /\ types < etypes)
        /\ UNCHANGED <<ci, dropped>>
    BY <1>4 DEF EndWalk
  <2>2. RecoverTypeOK'
    BY <1>1, <2>1 DEF IInv, RecoverTypeOK
  <2>3. HandOK' /\ Sound' /\ EndedRight' /\ ExtrasBehind'
    BY <1>1, <2>1 DEF IInv, HandOK, Sound, Closed, IsType, EndedRight, Ceiling, ExtrasBehind
  <2>4. ScannedFound'
    BY <1>1, <2>1, Constants DEF IInv, ScannedFound, IsType, InRegion
  <2>5. LinksKnown' /\ ChildrenKnown'
    BY <1>1, <2>1 DEF IInv, LinksKnown, ChildrenKnown, Known, Pending, InHand, IsType, Children
  <2>6. QED
    BY <1>2, <2>2, <2>3, <2>4, <2>5 DEF IInv
<1>5. CASE EndScan
  <2>1. stage = "scan" /\ ~Fits(offset) /\ stage' = "done" /\ UNCHANGED <<ci, dropped>>
    BY <1>5 DEF EndScan
  <2>2. RecoverTypeOK'
    BY <1>1, <2>1 DEF IInv, RecoverTypeOK
  <2>3. HandOK' /\ Sound' /\ EndedRight' /\ ExtrasBehind'
    BY <1>1, <2>1 DEF IInv, HandOK, Sound, Closed, IsType, EndedRight, Ceiling, ExtrasBehind
  <2>4. ScannedFound'
    BY <1>1, <2>1 DEF IInv, ScannedFound, IsType, Fits
  <2>5. LinksKnown' /\ ChildrenKnown'
    BY <1>1, <2>1 DEF IInv, LinksKnown, ChildrenKnown, Known, Pending, InHand, IsType, Children
  <2>6. QED
    BY <1>2, <2>2, <2>3, <2>4, <2>5 DEF IInv
<1>6. QED
  BY <1>3, <1>4, <1>5

\* The type in hand joins the recovered ones; all its children have been looked at.
LEMMA RecordKeeps == IInv /\ Record => IInv'
<1> SUFFICES ASSUME IInv, Record PROVE IInv'
  OBVIOUS
<1>1. /\ stage = "children" /\ ci > Len(Children) /\ seen' = seen \cup {addr} /\ stage' = "pop"
      /\ UNCHANGED <<data, queue, addr, ci, offset, extras, dropped>>
  BY DEF Record, Insert
<1>2. addr \in Addr /\ IsType(addr) /\ addr \notin seen /\ Cardinality(seen) < max_types
  BY <1>1 DEF IInv, HandOK
<1>3. ASSUME NEW a, Known(a) PROVE Known(a)'
  BY <1>1, <1>3 DEF Known, Pending, InHand
<1>4. RecoverTypeOK'
  <2>1. seen' \in SUBSET Addr
    BY <1>1, <1>2 DEF IInv, RecoverTypeOK
  <2>2. QED
    BY <1>1, <2>1 DEF IInv, RecoverTypeOK
<1>5. HandOK' /\ SeenAreTypes' /\ EndedRight' /\ ExtrasBehind' /\ ScannedFound'
  BY <1>1, <1>2 DEF IInv, HandOK, SeenAreTypes, IsType, EndedRight, ExtrasBehind, ScannedFound
<1>6. Sound'
  BY <1>1 DEF IInv, Sound, Closed, IsType
<1>7. LinksKnown'
  BY <1>1, <1>3 DEF IInv, LinksKnown, IsType
<1>8. ChildrenKnown'
  <2>1. ASSUME ~dropped, NEW a \in seen', NEW i \in DOMAIN data.children[a], IsType(data.children[a][i])
        PROVE  Known(data.children[a][i])
    <3>1. CASE a \in seen
      BY <2>1, <3>1 DEF IInv, ChildrenKnown
    <3>2. CASE a = addr
      <4>1. Children \in Seq(Addr) /\ ci \in Nat
        BY <1>2 DEF IInv, RecoverTypeOK, TypeData, Children
      <4>2. i \in DOMAIN Children /\ Children[i] = data.children[a][i]
        BY <2>1, <3>2 DEF Children
      <4>3. i < ci
        BY <1>1, <4>1, <4>2
      <4>4. QED
        BY <1>1, <2>1, <4>2, <4>3 DEF IInv, ChildrenKnown
    <3>3. QED
      BY <1>1, <3>1, <3>2
  <2>2. QED
    BY <1>1, <1>3, <2>1 DEF ChildrenKnown, IsType
<1>9. SizesBounded'
  <2>1. Cardinality(seen \cup {addr}) = Cardinality(seen) + 1
    BY <1>2, SeenFinite, FS_AddElement DEF IInv
  <2>2. Cardinality(seen) + 1 <= max_types
    BY <1>2, SeenFinite, Constants DEF IInv
  <2>3. QED
    BY <1>1, <2>1, <2>2 DEF IInv, SizesBounded
<1>10. QED
  BY <1>4, <1>5, <1>6, <1>7, <1>8, <1>9 DEF IInv

\* The scan looks at one address.
LEMMA ScanStepKeeps == IInv /\ ScanStep => IInv'
<1> SUFFICES ASSUME IInv, ScanStep PROVE IInv'
  OBVIOUS
<1>1. /\ stage = "scan" /\ Fits(offset) /\ offset' = offset + 1
      /\ extras' = IF Fresh(offset) THEN Append(extras, offset) ELSE extras
      /\ UNCHANGED <<data, queue, seen, addr, ci, dropped, stage>>
  BY DEF ScanStep, Stride
<1>2. /\ offset \in Nat /\ types <= offset /\ offset + 1 <= etypes /\ offset \in Addr
      /\ offset + 1 \in types .. etypes
  BY <1>1, Constants DEF IInv, RecoverTypeOK, Fits
<1>3. extras \in Seq(Addr) /\ Len(extras) \in Nat /\ DOMAIN extras = 1 .. Len(extras)
  BY DEF IInv, RecoverTypeOK
<1>4. /\ extras' \in Seq(Addr)
      /\ \A i \in DOMAIN extras : i \in DOMAIN extras' /\ extras'[i] = extras[i]
      /\ \A i \in DOMAIN extras' :
           (i \in DOMAIN extras /\ extras'[i] = extras[i])
           \/ (i = Len(extras) + 1 /\ extras'[i] = offset /\ Fresh(offset))
      /\ Fresh(offset) => \E i \in DOMAIN extras' : extras'[i] = offset
      /\ DOMAIN extras' \subseteq Nat
  <2>1. CASE Fresh(offset)
    <3>1. extras' = Append(extras, offset)
      BY <1>1, <2>1
    <3>2. QED
      BY <1>2, <1>3, <2>1, <3>1, AppendFacts
  <2>2. CASE ~Fresh(offset)
    BY <1>1, <1>3, <2>2
  <2>3. QED
    BY <2>1, <2>2
<1>5. RecoverTypeOK'
  BY <1>1, <1>2, <1>4 DEF IInv, RecoverTypeOK
<1>6. HandOK' /\ SeenAreTypes' /\ Sound' /\ EndedRight' /\ SizesBounded'
  BY <1>1
  DEF IInv, HandOK, SeenAreTypes, IsType, Sound, Closed, EndedRight, Ceiling, SizesBounded
<1>7. LinksKnown' /\ ChildrenKnown'
  BY <1>1 DEF IInv, LinksKnown, ChildrenKnown, Known, Pending, InHand, IsType, Children
<1>8. ExtrasBehind'
  <2>1. /\ \A i \in DOMAIN extras : extras[i] < offset /\ extras[i] \notin seen
        /\ \A i, j \in DOMAIN extras : i < j => extras[i] < extras[j]
    BY DEF IInv, ExtrasBehind
  <2>2. ASSUME NEW i \in DOMAIN extras PROVE extras[i] \in Nat
    <3>1. extras[i] \in Addr
      BY <1>3
    <3>2. QED
      BY <3>1, Constants
  <2>3. ASSUME NEW i \in DOMAIN extras' PROVE extras'[i] < offset + 1 /\ extras'[i] \notin seen
    <3>1. CASE i \in DOMAIN extras /\ extras'[i] = extras[i]
      BY <1>2, <2>1, <2>2, <3>1
    <3>2. CASE extras'[i] = offset /\ Fresh(offset)
      BY <1>2, <3>2 DEF Fresh
    <3>3. QED
      BY <1>4, <3>1, <3>2
  <2>4. ASSUME NEW i \in DOMAIN extras', NEW j \in DOMAIN extras', i < j
        PROVE  extras'[i] < extras'[j]
    <3>1. i \in DOMAIN extras /\ extras'[i] = extras[i]
      BY <1>3, <1>4, <2>4
    <3>2. QED
      BY <1>4, <2>1, <2>4, <3>1
  <2>5. QED
    BY <1>1, <2>3, <2>4 DEF ExtrasBehind
<1>9. ScannedFound'
  <2>1. ASSUME NEW a \in Addr, IsType(a), a \in data.plausible, a < offset + 1, a \notin seen
        PROVE  \E i \in DOMAIN extras' : extras'[i] = a
    <3>1. CASE a < offset
      <4>1. PICK i \in DOMAIN extras : extras[i] = a
        BY <1>1, <2>1, <3>1 DEF IInv, ScannedFound
      <4>2. QED
        BY <1>4, <4>1
    <3>2. CASE a = offset
      <4>1. Fresh(offset)
        BY <2>1, <3>2 DEF Fresh, IsType
      <4>2. QED
        BY <1>4, <3>2, <4>1
    <3>3. a \in Nat
      BY Constants
    <3>4. QED
      BY <1>2, <2>1, <3>1, <3>2, <3>3
  <2>2. QED
    BY <1>1, <2>1 DEF ScannedFound, IsType
<1>10. QED
  BY <1>5, <1>6, <1>7, <1>8, <1>9 DEF IInv

-----------------------------------------------------------------------------
\* Every reachable state satisfies the inductive invariant.
THEOREM Invariance == RecoverSpec => []IInv
<1>1. IInv /\ [RecoverNext]_recoverVars => IInv'
  <2> SUFFICES ASSUME IInv, [RecoverNext]_recoverVars PROVE IInv'
    OBVIOUS
  <2>1. CASE UNCHANGED recoverVars
    <3>1. UNCHANGED <<data, queue, seen, addr, ci, offset, extras, dropped, stage>>
      BY <2>1 DEF recoverVars
    <3>2. RecoverTypeOK' /\ HandOK' /\ SeenAreTypes' /\ EndedRight' /\ SizesBounded' /\ Sound'
      BY <3>1
      DEF IInv, RecoverTypeOK, HandOK, SeenAreTypes, IsType, EndedRight, Ceiling, SizesBounded, Sound, Closed
    <3>3. LinksKnown' /\ ChildrenKnown'
      BY <3>1 DEF IInv, LinksKnown, ChildrenKnown, Known, Pending, InHand, IsType, Children
    <3>4. ExtrasBehind' /\ ScannedFound'
      BY <3>1 DEF IInv, ExtrasBehind, ScannedFound, IsType, Fits
    <3>5. QED
      BY <3>2, <3>3, <3>4 DEF IInv
  <2>2. CASE RecoverNext
    BY <2>2, PopSkipKeeps, PopParseKeeps, PushChildKeeps, ControlKeeps, RecordKeeps, ScanStepKeeps
    DEF RecoverNext
  <2>3. QED
    BY <2>1, <2>2
<1>2. QED
  BY InitIInv, <1>1, PTL DEF RecoverSpec

\* Types are kept, for every region and every binary.
THEOREM TypeCorrect == RecoverSpec => []RecoverTypeOK
<1>1. IInv => RecoverTypeOK
  BY DEF IInv
<1>2. QED
  BY Invariance, <1>1, PTL

\* Nothing is recovered that the program does not link in: no address outside the
\* region, none that does not parse, none that no typelink leads to.
THEOREM Soundness == RecoverSpec => []RecoveredIsReachable
<1>1. IInv => RecoveredIsReachable
  BY DEF IInv, RecoverTypeOK, Sound, RecoveredIsReachable, Reachable
<1>2. QED
  BY Invariance, <1>1, PTL

\* Once the walk is over with an empty stack, the recovered set is closed.
LEMMA EndedClosed ==
  ASSUME IInv, stage = "done", ~dropped, queue = <<>>
  PROVE  Reachable \subseteq seen
<1>1. ASSUME NEW a, Known(a) PROVE a \in seen
  BY <1>1 DEF Known, Pending, InHand
<1>2. Closed(seen)
  BY <1>1 DEF IInv, LinksKnown, ChildrenKnown, Closed
<1>3. QED
  BY <1>2 DEF IInv, RecoverTypeOK, Reachable

\* Everything linked in is recovered unless the queue was full or the ceiling reached.
THEOREM Completeness == RecoverSpec => []ReachableIsRecovered
<1>1. IInv => ReachableIsRecovered
  <2> SUFFICES ASSUME IInv, stage = "done", ~dropped, Cardinality(seen) < max_types
               PROVE  Reachable \subseteq seen
    BY DEF ReachableIsRecovered
  <2>1. queue = <<>>
    BY SeenFinite, Constants DEF IInv, EndedRight, Ceiling
  <2>2. QED
    BY <2>1, EndedClosed
<1>2. QED
  BY Invariance, <1>1, PTL

\* The region holds no more than max_types headers that do not overlap.
LEMMA HeadersFit ==
  ASSUME RecoverTypeOK, HeadersDisjoint, NEW T \in SUBSET Addr, \A a \in T : IsType(a)
  PROVE  Cardinality(T) <= max_types
<1> DEFINE slot == [a \in T |-> (a - types) \div HeaderSize]
           Slots == 0 .. max_types - 1
<1>1. ASSUME NEW a \in T
      PROVE  a \in Addr /\ a - types \in Nat /\ a - types + HeaderSize <= etypes - types
  <2>1. a \in Addr /\ types <= a /\ a + HeaderSize <= etypes
    BY DEF HeadersDisjoint, IsType, InRegion
  <2>2. a \in Nat
    BY <2>1, Constants
  <2>3. QED
    BY <2>1, <2>2, Constants
<1>2. ASSUME NEW a \in T PROVE (a - types) \div HeaderSize \in Slots
  <2>1. etypes - types \in Nat
    BY Constants
  <2>2. /\ (a - types) \div HeaderSize \in Nat
        /\ (a - types) \div HeaderSize < (etypes - types) \div HeaderSize
    BY <1>1, <2>1, Constants, QuotientSeparates
  <2>3. QED
    BY <2>2, Constants DEF max_types
<1>3. ASSUME NEW a \in T, NEW b \in T, a < b
      PROVE  (a - types) \div HeaderSize # (b - types) \div HeaderSize
  <2>1. a + HeaderSize <= b /\ a \in Nat /\ b \in Nat
    BY <1>1, <1>3, Constants DEF HeadersDisjoint
  <2>2. a - types \in Nat /\ b - types \in Nat /\ (a - types) + HeaderSize <= b - types
    BY <1>1, <2>1, Constants
  <2> DEFINE x == a - types
             y == b - types
  <2>3. x \in Nat /\ y \in Nat /\ x + HeaderSize <= y
    BY <2>2
  <2> HIDE DEF x, y
  <2>4. x \div HeaderSize \in Nat /\ y \div HeaderSize \in Int /\ x \div HeaderSize < y \div HeaderSize
    BY <2>3, Constants, QuotientSeparates
  <2>5. QED
    BY <2>4 DEF x, y
<1>4. IsFiniteSet(T) /\ IsFiniteSet(Slots) /\ Cardinality(Slots) = max_types
  <2>1. 0 \in Int /\ max_types - 1 \in Int /\ max_types \in Nat
    BY Constants
  <2>2. IsFiniteSet(Slots) /\ Cardinality(Slots) = IF 0 > max_types - 1 THEN 0 ELSE max_types - 1 - 0 + 1
    BY <2>1, FS_Interval
  <2>3. IsFiniteSet(T)
    BY Constants, FS_Subset
  <2>4. QED
    BY <2>1, <2>2, <2>3
<1>5. ASSUME Cardinality(T) > max_types PROVE FALSE
  <2>1. slot \in [T -> Slots]
    BY <1>2
  <2>2. Cardinality(Slots) < Cardinality(T)
    BY <1>4, <1>5, Constants, FS_CardinalityType
  <2> HIDE DEF slot, Slots
  <2>3. PICK a, b \in T : a # b /\ slot[a] = slot[b]
    BY <1>4, <2>1, <2>2, FS_PigeonHole
  <2>4. a \in Nat /\ b \in Nat
    BY <1>1, Constants
  <2>5. slot[a] # slot[b]
    <3>1. a < b \/ b < a
      BY <2>3, <2>4
    <3>2. QED
      BY <1>3, <3>1 DEF slot
  <2>6. QED
    BY <2>3, <2>5
<1>6. QED
  BY <1>4, <1>5, Constants, FS_CardinalityType

\* The walk recovers what the typelinks lead to, no more and no less.
THEOREM WalkExact == RecoverSpec => []RecoversReachable
<1>1. RecoveredIsReachable /\ ReachableIsRecovered => RecoversReachable
  BY DEF RecoversReachable
<1>2. QED
  BY <1>1, Soundness, Completeness, PTL

\* Where headers do not overlap, the ceiling is no loss: a recovered set that fills
\* the region leaves no room for another type.
THEOREM CeilingIsHarmless == RecoverSpec => []CeilingLosesNothing
<1>1. IInv => CeilingLosesNothing
  <2> SUFFICES ASSUME IInv, stage = "done", ~dropped, HeadersDisjoint, NEW r \in Reachable,
                      r \notin seen
               PROVE  FALSE
    BY DEF CeilingLosesNothing
  <2>1. r \in Addr /\ IsType(r)
    <3> DEFINE Ts == {a \in Addr : IsType(a)}
    <3>1. data.typelinks \in Seq(Addr) /\ data.children \in [Addr -> Seq(Addr)]
      BY DEF IInv, RecoverTypeOK, TypeData
    <3>2. Closed(Ts)
      BY <3>1 DEF Closed
    <3>3. QED
      BY <3>2 DEF Reachable
  <2>2. Cardinality(seen) >= max_types
    <3>1. queue # <<>>
      BY EndedClosed
    <3>2. QED
      BY <3>1 DEF IInv, EndedRight, Ceiling
  <2>3. Cardinality(seen \cup {r}) = Cardinality(seen) + 1
    BY SeenFinite, FS_AddElement DEF IInv
  <2>4. Cardinality(seen \cup {r}) <= max_types
    <3> DEFINE T == seen \cup {r}
    <3>1. T \in SUBSET Addr /\ \A a \in T : IsType(a)
      BY <2>1 DEF IInv, RecoverTypeOK, SeenAreTypes
    <3> HIDE DEF T
    <3>2. Cardinality(T) <= max_types
      BY <3>1, HeadersFit DEF IInv
    <3>3. QED
      BY <3>2 DEF T
  <2>5. QED
    BY <2>2, <2>3, <2>4, SeenFinite, Constants DEF IInv
<1>2. QED
  BY Invariance, <1>1, PTL

\* The recovered set and the stack stay within bounds the region fixes.
THEOREM MemoryBounded == RecoverSpec => []SizesBounded
<1>1. IInv => SizesBounded
  BY DEF IInv
<1>2. QED
  BY Invariance, <1>1, PTL

\* No type is reported twice.
THEOREM Uniqueness == RecoverSpec => []NoTypeTwice
<1>1. IInv => NoTypeTwice
  <2> SUFFICES ASSUME IInv, NEW i \in DOMAIN extras, NEW j \in DOMAIN extras,
                      extras[i] = extras[j], i # j
               PROVE  FALSE
    BY DEF IInv, ExtrasBehind, NoTypeTwice
  <2>1. extras \in Seq(Addr)
    BY DEF IInv, RecoverTypeOK
  <2>2. i \in Nat /\ j \in Nat /\ extras[i] \in Nat /\ extras[j] \in Nat
    <3>1. i \in Nat /\ j \in Nat /\ extras[i] \in Addr /\ extras[j] \in Addr
      BY <2>1
    <3>2. QED
      BY <3>1, Constants
  <2>3. i < j \/ j < i
    BY <2>2
  <2>4. QED
    BY <2>2, <2>3 DEF IInv, ExtrasBehind
<1>2. QED
  BY Invariance, <1>1, PTL

\* With --full every plausible header of the region is reported.
THEOREM ScanCompleteness == RecoverSpec => []ScanIsComplete
<1>1. IInv => ScanIsComplete
  <2> SUFFICES ASSUME IInv, stage = "done", data.full, data.scannable, NEW a \in Addr,
                      IsType(a), a \in data.plausible, a + HeaderSize <= etypes
               PROVE  a \in seen \/ \E i \in DOMAIN extras : extras[i] = a
    BY DEF ScanIsComplete
  <2>1. a \in Nat /\ offset \in Nat /\ types <= a /\ a < etypes
    BY Constants DEF IInv, RecoverTypeOK, IsType, InRegion
  <2>2. a < offset
    BY <2>1, Constants DEF IInv, ScannedFound, Fits
  <2>3. QED
    BY <2>2 DEF IInv, ScannedFound
<1>2. QED
  BY Invariance, <1>1, PTL

\* With --full the listing has every plausible header of the region, once.
THEOREM FullListed == RecoverSpec => []FullListing
<1>1. NoTypeTwice /\ ScanIsComplete => FullListing
  BY DEF FullListing
<1>2. QED
  BY Uniqueness, ScanCompleteness, <1>1, PTL
=============================================================================
