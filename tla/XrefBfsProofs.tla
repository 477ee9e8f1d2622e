----------------------------- MODULE XrefBfsProofs -----------------------------
(* The breadth-first search is right for every call list, depth and cap.  The
   inductive invariant: the frontier is the level below, next is this level, and
   a name the search has passed has all its neighbours labelled. *)
EXTENDS XrefBfs, FiniteSetTheorems, Basics

\* No label is beyond the level being found.
LabelsBelow ==
    /\ state = "search" => level <= depth
    /\ \A n \in Functions : depth_of[n] <= level

\* The frontier holds the names of the level below, the root at the start.
FrontierIsLevel ==
    /\ level = 1 => frontier = <<root>>
    /\ level > 1 =>
         /\ \A i \in DOMAIN frontier : depth_of[frontier[i]] = level - 1
         /\ \A n \in Functions : depth_of[n] = level - 1 => \E i \in DOMAIN frontier : frontier[i] = n

\* next holds the names this level has found.
NextIsLevel ==
    /\ \A i \in DOMAIN next : depth_of[next[i]] = level
    /\ \A n \in Functions : depth_of[n] = level => \E i \in DOMAIN next : next[i] = n

\* A label is the length of a walk from the root.
LabelsReach == \A n \in Functions : depth_of[n] # 0 => Reaches(n, depth_of[n])

\* Everything one call away from m is labelled, with no more than d + 1.
Expanded(m, d) == \A n \in Functions : Step(m, n) => depth_of[n] # 0 /\ depth_of[n] <= d + 1

RootExpanded == level > 1 => Expanded(root, 0)

OlderExpanded ==
    \A m \in Functions : depth_of[m] # 0 /\ depth_of[m] + 1 < level => Expanded(m, depth_of[m])

CurrentExpanded ==
    /\ \A i \in DOMAIN frontier : i < at => Expanded(frontier[i], level - 1)
    /\ at \in DOMAIN frontier =>
         \A k \in DOMAIN calls :
           k < ci /\ Near(calls[k]) = frontier[at] => depth_of[Far(calls[k])] # 0

\* How the search may have ended.
EndReason ==
    state = "done" =>
      truncated \/ depth = 0 \/ (at > Len(frontier) /\ (next = <<>> \/ level >= depth))

\* The count against the cap.
CountInv ==
    /\ ~truncated => Count(depth_of) = 0 \/ Count(depth_of) < max_nodes
    /\ truncated => Count(depth_of) = IF max_nodes = 0 THEN 1 ELSE max_nodes
    /\ state = "search" => ~truncated

IInv ==
    /\ BfsTypeOK
    /\ LabelsBelow
    /\ FrontierIsLevel
    /\ NextIsLevel
    /\ LabelsReach
    /\ RootExpanded
    /\ OlderExpanded
    /\ CurrentExpanded
    /\ EndReason
    /\ CountInv

-----------------------------------------------------------------------------
\* Either end of a call is a name.
LEMMA CallEnds ==
  ASSUME BfsTypeOK, NEW k \in DOMAIN calls
  PROVE  Near(calls[k]) \in Functions /\ Far(calls[k]) \in Functions
<1>1. calls[k] \in Call
  BY DEF BfsTypeOK
<1>2. QED
  BY <1>1 DEF Call, Near, Far

\* A walk grows by one call.
LEMMA WalkGrows ==
  ASSUME NEW m \in Functions, NEW n \in Functions, NEW d \in Nat \ {0},
         Reaches(m, d), Step(m, n)
  PROVE  Reaches(n, d + 1)
<1>1. PICK p \in [1 .. d -> Functions] :
         Step(root, p[1]) /\ p[d] = m /\ \A i \in 1 .. d - 1 : Step(p[i], p[i + 1])
  BY DEF Reaches
<1> DEFINE q == [i \in 1 .. d + 1 |-> IF i <= d THEN p[i] ELSE n]
<1>2. q \in [1 .. d + 1 -> Functions]
  OBVIOUS
<1>3. q[1] = p[1] /\ q[d + 1] = n
  OBVIOUS
<1>4. ASSUME NEW i \in 1 .. d PROVE Step(q[i], q[i + 1])
  <2>1. CASE i < d
    <3>1. q[i] = p[i] /\ q[i + 1] = p[i + 1] /\ i \in 1 .. d - 1
      BY <2>1
    <3>2. QED
      BY <1>1, <3>1
  <2>2. CASE i = d
    <3>1. q[i] = m /\ q[i + 1] = n
      BY <1>1, <2>2
    <3>2. QED
      BY <3>1
  <2>3. QED
    BY <2>1, <2>2
<1> HIDE DEF q
<1>5. (d + 1) - 1 = d /\ d + 1 \in Nat
  OBVIOUS
<1>6. QED
  BY <1>1, <1>2, <1>3, <1>4, <1>5 DEF Reaches

\* One call is a walk.
LEMMA WalkStarts ==
  ASSUME NEW n \in Functions, Step(root, n)
  PROVE  Reaches(n, 1)
<1> DEFINE q == [i \in 1 .. 1 |-> n]
<1>1. q \in [1 .. 1 -> Functions] /\ q[1] = n
  OBVIOUS
<1> HIDE DEF q
<1>2. \A i \in 1 .. 1 - 1 : Step(q[i], q[i + 1])
  OBVIOUS
<1>3. QED
  BY <1>1, <1>2 DEF Reaches

\* When every label below bound has its neighbours labelled, each step of a walk is
\* labelled no later than the walk gets there: the first that is not has a
\* predecessor that was expanded.
LEMMA WalkLabelled ==
  ASSUME BfsTypeOK, NEW bound \in Nat, Expanded(root, 0),
         \A m \in Functions : depth_of[m] # 0 /\ depth_of[m] < bound => Expanded(m, depth_of[m]),
         NEW n \in Functions, NEW k \in Nat \ {0}, Reaches(n, k),
         k <= bound \/ \A m \in Functions : depth_of[m] < bound
  PROVE  depth_of[n] # 0 /\ depth_of[n] <= k
<1>1. PICK p \in [1 .. k -> Functions] :
         Step(root, p[1]) /\ p[k] = n /\ \A i \in 1 .. k - 1 : Step(p[i], p[i + 1])
  BY DEF Reaches
<1> DEFINE Late(i) == ~(depth_of[p[i]] # 0 /\ depth_of[p[i]] <= i)
           T == {i \in 1 .. k : Late(i)}
<1>2. \A m \in Functions : depth_of[m] \in Nat
  BY DEF BfsTypeOK
<1>3. ASSUME T # {} PROVE FALSE
  <2>1. T \subseteq Nat
    OBVIOUS
  <2>2. PICK x \in T : \A y \in T : x <= y
    <3> HIDE DEF T
    <3>1. QED
      BY <1>3, <2>1, LeastNumber
  <2>3. x \in 1 .. k /\ Late(x)
    OBVIOUS
  <2>4. CASE x = 1
    BY <1>1, <2>3, <2>4 DEF Expanded
  <2>5. CASE x # 1
    <3>1. x - 1 \in 1 .. k - 1 /\ x - 1 \in 1 .. k /\ (x - 1) + 1 = x
      BY <2>3, <2>5
    <3>2. ~Late(x - 1)
      <4>1. x - 1 \notin T
        <5> HIDE DEF T
        <5>1. QED
          BY <2>2, <2>3, <3>1
      <4>2. QED
        BY <3>1, <4>1
    <3>3. Step(p[x - 1], p[x])
      BY <1>1, <3>1
    <3>4. p[x - 1] \in Functions /\ p[x] \in Functions
      BY <2>3, <3>1
    <3>5. depth_of[p[x - 1]] < bound
      BY <1>2, <2>3, <3>1, <3>2, <3>4
    <3>6. Expanded(p[x - 1], depth_of[p[x - 1]])
      BY <3>2, <3>4, <3>5
    <3>7. depth_of[p[x]] # 0 /\ depth_of[p[x]] <= depth_of[p[x - 1]] + 1
      BY <3>3, <3>4, <3>6 DEF Expanded
    <3>8. QED
      BY <1>2, <2>3, <3>2, <3>4, <3>7
  <2>6. QED
    BY <2>4, <2>5
<1>4. ~Late(k)
  BY <1>3
<1>5. QED
  BY <1>1, <1>4

\* Init establishes the invariant.
LEMMA InitIInv == BfsInit => IInv
<1> SUFFICES ASSUME BfsInit PROVE IInv
  OBVIOUS
<1>1. BfsTypeOK
  <2>1. calls \in Seq(Call) /\ depth \in Nat /\ max_nodes \in Nat /\ root \in Functions
    BY BfsAssumption DEF BfsInit
  <2>2. frontier \in Seq(Functions) /\ Len(frontier) = 1 /\ next \in Seq(Functions)
    BY <2>1 DEF BfsInit
  <2>3. depth_of \in [Functions -> 0 .. depth]
    BY <2>1 DEF BfsInit
  <2>4. at \in 1 .. Len(frontier) + 1 /\ ci \in 1 .. Len(calls) + 1
    <3>1. Len(calls) \in Nat
      BY <2>1
    <3>2. QED
      BY <2>2, <3>1 DEF BfsInit
  <2>5. state \in {"search", "done"} /\ truncated \in BOOLEAN /\ level \in Nat \ {0}
        /\ direction \in {"callers", "callees"}
    <3>1. state \in {"search", "done"}
      BY Zenon DEF BfsInit
    <3>2. truncated \in BOOLEAN
      BY DEF BfsInit
    <3>3. QED
      BY <3>1, <3>2 DEF BfsInit
  <2>6. QED
    BY <2>1, <2>2, <2>3, <2>4, <2>5 DEF BfsTypeOK
<1>2. \A n \in Functions : depth_of[n] = 0
  BY DEF BfsInit
<1>3. Count(depth_of) = 0
  <2>1. {n \in Functions : depth_of[n] # 0} = {}
    BY <1>2
  <2>2. QED
    BY <2>1, FS_EmptySet DEF Count
<1>4. CountInv
  BY <1>3 DEF CountInv, BfsInit
<1>5. LabelsBelow
  BY <1>1, <1>2 DEF LabelsBelow, BfsInit, BfsTypeOK
<1>6. FrontierIsLevel /\ NextIsLevel
  BY <1>2 DEF FrontierIsLevel, NextIsLevel, BfsInit
<1>7. CurrentExpanded
  BY <1>1 DEF CurrentExpanded, BfsInit, BfsTypeOK
<1>8. QED
  BY <1>1, <1>2, <1>4, <1>5, <1>6, <1>7
  DEF IInv, LabelsReach, RootExpanded, OlderExpanded, EndReason, BfsInit

\* A step that leaves the arguments alone leaves the graph and its walks alone.
LEMMA GraphFixed ==
  ASSUME UNCHANGED args
  PROVE  /\ \A k : Near(calls[k])' = Near(calls[k]) /\ Far(calls[k])' = Far(calls[k])
         /\ \A m, n : Step(m, n)' <=> Step(m, n)
         /\ \A n, k : Reaches(n, k)' <=> Reaches(n, k)
  BY DEF args, Near, Far, Step, Reaches

\* A known neighbour is passed over: only the place in the list moves.
LEMMA SkipSeenKeeps == IInv /\ SkipSeen => IInv'
<1> SUFFICES ASSUME IInv, SkipSeen PROVE IInv'
  OBVIOUS
<1>1. PICK k \in DOMAIN calls :
        /\ NextCall(k)
        /\ depth_of[Far(calls[k])] # 0
        /\ ci' = k + 1
        /\ UNCHANGED <<args, depth_of, frontier, next, level, at, truncated, state>>
  BY DEF SkipSeen, Labelled, Past
<1>2. BfsTypeOK'
  <2>1. k \in 1 .. Len(calls) /\ Len(calls) \in Nat
    BY DEF IInv, BfsTypeOK
  <2>2. ci' \in 1 .. Len(calls) + 1
    BY <1>1, <2>1
  <2>3. QED
    BY <1>1, <2>2 DEF IInv, BfsTypeOK, args
<1>3. LabelsBelow' /\ FrontierIsLevel' /\ NextIsLevel'
  BY <1>1 DEF IInv, LabelsBelow, FrontierIsLevel, NextIsLevel, args
<1>4. LabelsReach' /\ RootExpanded' /\ OlderExpanded'
  BY <1>1 DEF IInv, LabelsReach, RootExpanded, OlderExpanded, Expanded, Step, Reaches, Near, Far, args
<1>5. CurrentExpanded'
  <2>1. \A i \in DOMAIN frontier : i < at => Expanded(frontier[i], level - 1)'
    BY <1>1 DEF IInv, CurrentExpanded, Expanded, Step, Near, Far, args
  <2>2. ASSUME NEW j \in DOMAIN calls, j < k + 1, Near(calls[j]) = frontier[at]
        PROVE  depth_of[Far(calls[j])] # 0
    <3>1. j \in Nat /\ k \in Nat /\ ci \in Nat
      BY DEF IInv, BfsTypeOK
    <3>2. CASE j < ci
      BY <1>1, <2>2, <3>2 DEF IInv, CurrentExpanded, NextCall, Visiting, BfsTypeOK
    <3>3. CASE ci <= j /\ j < k
      BY <1>1, <2>2, <3>3 DEF NextCall
    <3>4. CASE j = k
      BY <1>1, <3>4
    <3>5. QED
      BY <2>2, <3>1, <3>2, <3>3, <3>4
  <2>3. QED
    BY <1>1, <2>1, <2>2 DEF CurrentExpanded, Near, Far, args
<1>6. EndReason' /\ CountInv'
  BY <1>1 DEF IInv, EndReason, CountInv, NextCall, Visiting, Count, args
<1>7. QED
  BY <1>2, <1>3, <1>4, <1>5, <1>6 DEF IInv

\* A name with no call left in its list has all its neighbours labelled.
LEMMA NextNameKeeps == IInv /\ NextName => IInv'
<1> SUFFICES ASSUME IInv, NextName PROVE IInv'
  OBVIOUS
<1>1. /\ state = "search" /\ at \in DOMAIN frontier /\ at' = at + 1 /\ ci' = 1
      /\ \A k \in DOMAIN calls : ~NextCall(k)
      /\ UNCHANGED <<args, depth_of, frontier, next, level, truncated, state>>
  BY DEF NextName, Visiting, IInv, BfsTypeOK
<1>2. BfsTypeOK'
  <2>1. Len(calls) \in Nat /\ 1 \in 1 .. Len(calls) + 1
    BY DEF IInv, BfsTypeOK
  <2>2. at' \in 1 .. Len(frontier) + 1
    BY <1>1 DEF IInv, BfsTypeOK
  <2>3. QED
    BY <1>1, <2>1, <2>2 DEF IInv, BfsTypeOK, args
<1>3. LabelsBelow' /\ FrontierIsLevel' /\ NextIsLevel'
  BY <1>1 DEF IInv, LabelsBelow, FrontierIsLevel, NextIsLevel, args
<1>4. LabelsReach' /\ RootExpanded' /\ OlderExpanded'
  BY <1>1 DEF IInv, LabelsReach, RootExpanded, OlderExpanded, Expanded, Step, Reaches, Near, Far, args
<1>5. \A j \in DOMAIN calls : ci <= j => Near(calls[j]) # frontier[at]
  <2> DEFINE T == {j \in DOMAIN calls : ci <= j /\ Near(calls[j]) = frontier[at]}
  <2>1. T \subseteq Nat
    BY DEF IInv, BfsTypeOK
  <2>2. ASSUME T # {} PROVE FALSE
    <3>1. PICK k \in T : \A j \in T : k <= j
      <4> HIDE DEF T
      <4>1. QED
        BY <2>1, <2>2, LeastNumber
    <3>2. NextCall(k)
      <4>1. \A j \in DOMAIN calls : j \in Nat
        BY DEF IInv, BfsTypeOK
      <4>2. Visiting
        BY DEF NextName
      <4>3. QED
        BY <3>1, <4>1, <4>2 DEF NextCall
    <3>3. QED
      BY <1>1, <3>2
  <2>3. QED
    BY <2>2
<1>6. Expanded(frontier[at], level - 1)
  <2> SUFFICES ASSUME NEW k \in DOMAIN calls, Near(calls[k]) = frontier[at]
               PROVE  depth_of[Far(calls[k])] # 0 /\ depth_of[Far(calls[k])] <= level
    BY DEF Expanded, Step, IInv, BfsTypeOK
  <2>1. k < ci
    BY <1>5 DEF IInv, BfsTypeOK
  <2>2. Far(calls[k]) \in Functions
    BY CallEnds DEF IInv
  <2>3. QED
    BY <1>1, <2>1, <2>2 DEF IInv, CurrentExpanded, LabelsBelow
<1>7. CurrentExpanded'
  <2>1. ASSUME NEW i \in DOMAIN frontier, i < at + 1 PROVE Expanded(frontier[i], level - 1)
    <3>1. i < at \/ i = at
      BY <2>1 DEF IInv, BfsTypeOK
    <3>2. QED
      BY <1>6, <3>1 DEF IInv, CurrentExpanded
  <2>2. \A k \in DOMAIN calls : ~(k < 1)
    BY DEF IInv, BfsTypeOK
  <2>3. QED
    BY <1>1, <2>1, <2>2 DEF CurrentExpanded, Expanded, Step, Near, Far, args
<1>8. EndReason' /\ CountInv'
  BY <1>1 DEF IInv, EndReason, CountInv, Count, args
<1>9. QED
  BY <1>2, <1>3, <1>4, <1>7, <1>8 DEF IInv

\* The level is complete, so the next starts with every name of this one.
LEMMA NextLevelKeeps == IInv /\ NextLevel => IInv'
<1> SUFFICES ASSUME IInv, NextLevel PROVE IInv'
  OBVIOUS
<1>1. /\ state = "search" /\ at > Len(frontier) /\ level < depth
      /\ frontier' = next /\ next' = <<>> /\ level' = level + 1 /\ at' = 1 /\ ci' = 1
      /\ UNCHANGED <<args, depth_of, truncated, state>>
  BY DEF NextLevel, LevelDone, Descends
<1>2. level \in Nat \ {0} /\ depth \in Nat /\ \A n \in Functions : depth_of[n] \in Nat
  BY DEF IInv, BfsTypeOK
<1>3. BfsTypeOK'
  <2>1. Len(calls) \in Nat /\ 1 \in 1 .. Len(calls) + 1 /\ Len(next) \in Nat /\ 1 \in 1 .. Len(next) + 1
    BY DEF IInv, BfsTypeOK
  <2>2. <<>> \in Seq(Functions)
    OBVIOUS
  <2>3. QED
    BY <1>1, <1>2, <2>1, <2>2 DEF IInv, BfsTypeOK, args
<1>4. LabelsBelow'
  BY <1>1, <1>2 DEF IInv, LabelsBelow, args
<1>5. FrontierIsLevel'
  <2>1. level' # 1 /\ level' - 1 = level
    BY <1>1, <1>2
  <2>2. QED
    BY <1>1, <2>1 DEF IInv, NextIsLevel, FrontierIsLevel, args
<1>6. NextIsLevel'
  <2>1. \A n \in Functions : depth_of[n] # level + 1
    BY <1>2 DEF IInv, LabelsBelow
  <2>2. QED
    BY <1>1, <2>1 DEF NextIsLevel
<1>7. LabelsReach'
  BY <1>1 DEF IInv, LabelsReach, Step, Reaches, Near, Far, args
<1>8. \A i \in DOMAIN frontier : Expanded(frontier[i], level - 1)
  BY <1>1 DEF IInv, CurrentExpanded, BfsTypeOK
<1>9. RootExpanded'
  <2>1. Expanded(root, 0)
    <3>1. CASE level = 1
      <4>1. frontier = <<root>> /\ level - 1 = 0
        BY <3>1 DEF IInv, FrontierIsLevel
      <4>2. 1 \in DOMAIN frontier /\ frontier[1] = root
        BY <4>1
      <4>3. QED
        BY <1>8, <4>1, <4>2
    <3>2. CASE level > 1
      BY <3>2 DEF IInv, RootExpanded
    <3>3. QED
      BY <1>2, <3>1, <3>2
  <2>2. QED
    BY <1>1, <2>1 DEF RootExpanded, Expanded, Step, Near, Far, args
<1>10. OlderExpanded'
  <2>1. ASSUME NEW m \in Functions, depth_of[m] # 0, depth_of[m] + 1 < level + 1
        PROVE  Expanded(m, depth_of[m])
    <3>1. CASE depth_of[m] + 1 < level
      BY <2>1, <3>1 DEF IInv, OlderExpanded
    <3>2. CASE depth_of[m] = level - 1
      <4>1. level > 1
        BY <1>2, <2>1, <3>2
      <4>2. PICK i \in DOMAIN frontier : frontier[i] = m
        BY <3>2, <4>1 DEF IInv, FrontierIsLevel
      <4>3. QED
        BY <1>8, <3>2, <4>2
    <3>3. QED
      BY <1>2, <2>1, <3>1, <3>2
  <2>2. QED
    BY <1>1, <2>1 DEF OlderExpanded, Expanded, Step, Near, Far, args
<1>11. CurrentExpanded'
  <2>1. \A k \in DOMAIN calls : ~(k < 1)
    BY DEF IInv, BfsTypeOK
  <2>2. \A i \in DOMAIN next : ~(i < 1)
    BY DEF IInv, BfsTypeOK
  <2>3. QED
    BY <1>1, <2>1, <2>2 DEF CurrentExpanded, args
<1>12. EndReason' /\ CountInv'
  BY <1>1 DEF IInv, EndReason, CountInv, Count, args
<1>13. QED
  BY <1>3, <1>4, <1>5, <1>6, <1>7, <1>9, <1>10, <1>11, <1>12 DEF IInv

\* The search ends with its last level.
LEMMA FinishKeeps == IInv /\ Finish => IInv'
<1> SUFFICES ASSUME IInv, Finish PROVE IInv'
  OBVIOUS
<1>1. /\ state = "search" /\ at > Len(frontier) /\ ~Descends /\ state' = "done"
      /\ UNCHANGED <<args, depth_of, frontier, next, level, at, ci, truncated>>
  BY DEF Finish, LevelDone
<1>2. BfsTypeOK'
  BY <1>1 DEF IInv, BfsTypeOK, args
<1>3. LabelsBelow' /\ FrontierIsLevel' /\ NextIsLevel'
  BY <1>1 DEF IInv, LabelsBelow, FrontierIsLevel, NextIsLevel, args
<1>4. LabelsReach' /\ RootExpanded' /\ OlderExpanded' /\ CurrentExpanded'
  BY <1>1
  DEF IInv, LabelsReach, RootExpanded, OlderExpanded, CurrentExpanded, Expanded, Step, Reaches,
      Near, Far, args
<1>5. next = <<>> \/ level >= depth
  BY <1>1 DEF Descends, IInv, BfsTypeOK
<1>6. EndReason' /\ CountInv'
  BY <1>1, <1>5 DEF IInv, EndReason, CountInv, Count, args
<1>7. QED
  BY <1>2, <1>3, <1>4, <1>6 DEF IInv

\* A neighbour found for the first time is labelled, counted and kept for the next
\* level.
LEMMA DiscoverKeeps == IInv /\ Discover => IInv'
<1> SUFFICES ASSUME IInv, Discover PROVE IInv'
  OBVIOUS
<1>1. PICK k \in DOMAIN calls :
        /\ NextCall(k)
        /\ depth_of[Far(calls[k])] = 0
        /\ depth_of' = [depth_of EXCEPT ![Far(calls[k])] = level]
        /\ next' = Append(next, Far(calls[k]))
        /\ IF Full(depth_of')
           THEN Cut /\ state' = "done" /\ UNCHANGED ci
           ELSE ci' = Past(k) /\ UNCHANGED <<truncated, state>>
        /\ UNCHANGED <<args, frontier, level, at>>
  BY DEF Discover, Labelled
<1> DEFINE n == Far(calls[k])
<1>2. /\ n \in Functions /\ depth_of[n] = 0 /\ level \in Nat \ {0} /\ depth \in Nat
      /\ level <= depth /\ \A m \in Functions : depth_of[m] \in Nat
      /\ state = "search" /\ at \in DOMAIN frontier /\ frontier[at] \in Functions
      /\ Near(calls[k]) = frontier[at] /\ ci <= k
      /\ k \in 1 .. Len(calls) /\ Len(calls) \in Nat /\ ci \in 1 .. Len(calls) + 1
  <2>1. n \in Functions /\ level \in Nat \ {0} /\ depth \in Nat
    BY CallEnds DEF IInv, BfsTypeOK
  <2>2. /\ state = "search" /\ at \in DOMAIN frontier
        /\ Near(calls[k]) = frontier[at] /\ ci <= k
    BY <1>1 DEF NextCall, Visiting, IInv, BfsTypeOK
  <2>3. level <= depth
    BY <2>2 DEF IInv, LabelsBelow
  <2>4. \A m \in Functions : depth_of[m] \in Nat
    BY DEF IInv, BfsTypeOK
  <2>5. frontier[at] \in Functions
    BY <2>2 DEF IInv, BfsTypeOK
  <2>6. k \in 1 .. Len(calls) /\ Len(calls) \in Nat /\ ci \in 1 .. Len(calls) + 1
    BY DEF IInv, BfsTypeOK
  <2>7. QED
    BY <1>1, <2>1, <2>2, <2>3, <2>4, <2>5, <2>6
<1> HIDE DEF n
<1>3. /\ depth_of' \in [Functions -> 0 .. depth]
      /\ depth_of'[n] = level
      /\ \A m \in Functions : m # n => depth_of'[m] = depth_of[m]
      /\ \A m \in Functions : depth_of[m] # 0 => m # n /\ depth_of'[m] = depth_of[m]
  BY <1>1, <1>2 DEF n, IInv, BfsTypeOK
<1>4. /\ next' \in Seq(Functions)
      /\ DOMAIN next = 1 .. Len(next)
      /\ DOMAIN next' = 1 .. Len(next) + 1
      /\ \A i \in DOMAIN next : next'[i] = next[i]
      /\ next'[Len(next) + 1] = n
      /\ Len(next) \in Nat
  <2>1. next \in Seq(Functions) /\ n \in Functions /\ next' = Append(next, n)
    BY <1>1, <1>2 DEF n, IInv, BfsTypeOK
  <2>2. Len(next) \in Nat
    BY <2>1
  <2>3. QED
    BY <2>1, <2>2, AppendFacts
<1>5. BfsTypeOK'
  <2>1. state' \in {"search", "done"} /\ truncated' \in BOOLEAN
    BY <1>1, <1>2 DEF Cut, IInv, BfsTypeOK
  <2>2. ci' \in 1 .. Len(calls) + 1
    BY <1>1, <1>2 DEF Past
  <2>3. QED
    BY <1>1, <1>3, <1>4, <2>1, <2>2 DEF IInv, BfsTypeOK, args
<1>6. LabelsBelow'
  <2>1. \A m \in Functions : depth_of'[m] <= level
    BY <1>2, <1>3 DEF IInv, LabelsBelow
  <2>2. QED
    BY <1>1, <1>2, <2>1 DEF LabelsBelow, args
<1>7. FrontierIsLevel'
  <2>1. level > 1 => \A i \in DOMAIN frontier :
           frontier[i] \in Functions /\ depth_of'[frontier[i]] = level - 1
    <3> SUFFICES ASSUME level > 1, NEW i \in DOMAIN frontier
                 PROVE  frontier[i] \in Functions /\ depth_of'[frontier[i]] = level - 1
      OBVIOUS
    <3>1. frontier[i] \in Functions
      BY DEF IInv, BfsTypeOK
    <3>2. depth_of[frontier[i]] = level - 1
      BY DEF IInv, FrontierIsLevel
    <3>3. QED
      BY <1>2, <1>3, <3>1, <3>2
  <2>2. \A m \in Functions : depth_of'[m] = level - 1 => m # n /\ depth_of[m] = level - 1
    BY <1>2, <1>3
  <2>3. QED
    BY <1>1, <2>1, <2>2 DEF IInv, FrontierIsLevel, args
<1>8. NextIsLevel'
  <2>1. \A i \in DOMAIN next' : depth_of'[next'[i]] = level
    <3> SUFFICES ASSUME NEW i \in DOMAIN next' PROVE depth_of'[next'[i]] = level
      OBVIOUS
    <3>1. CASE i \in DOMAIN next
      <4>1. next[i] \in Functions
        BY <3>1 DEF IInv, BfsTypeOK
      <4>2. depth_of[next[i]] = level
        BY <3>1 DEF IInv, NextIsLevel
      <4>3. QED
        BY <1>2, <1>3, <1>4, <3>1, <4>1, <4>2
    <3>2. CASE i = Len(next) + 1
      BY <1>3, <1>4, <3>2
    <3>3. QED
      BY <1>4, <3>1, <3>2
  <2>2. ASSUME NEW m \in Functions, depth_of'[m] = level PROVE \E i \in DOMAIN next' : next'[i] = m
    <3>1. CASE m = n
      <4>1. Len(next) + 1 \in DOMAIN next'
        BY <1>4
      <4>2. QED
        BY <1>4, <3>1, <4>1
    <3>2. CASE m # n
      <4>1. PICK i \in DOMAIN next : next[i] = m
        BY <1>3, <2>2, <3>2 DEF IInv, NextIsLevel
      <4>2. i \in DOMAIN next' /\ next'[i] = m
        BY <1>4, <4>1
      <4>3. QED
        BY <4>2
    <3>3. QED
      BY <3>1, <3>2
  <2>3. QED
    BY <1>1, <2>1, <2>2 DEF NextIsLevel
<1>9. Step(frontier[at], n)
  BY <1>2 DEF Step, n
<1>10. Reaches(n, level)
  <2>1. CASE level = 1
    <3>1. frontier[at] = root
      BY <1>2, <2>1 DEF IInv, FrontierIsLevel
    <3>2. QED
      BY <1>2, <1>9, <2>1, <3>1, WalkStarts
  <2>2. CASE level > 1
    <3>1. depth_of[frontier[at]] = level - 1
      BY <1>2, <2>2 DEF IInv, FrontierIsLevel
    <3>2. level - 1 \in Nat \ {0} /\ (level - 1) + 1 = level
      BY <1>2, <2>2
    <3>3. Reaches(frontier[at], level - 1)
      BY <1>2, <3>1, <3>2 DEF IInv, LabelsReach
    <3>4. QED
      BY <1>2, <1>9, <3>2, <3>3, WalkGrows
  <2>3. QED
    BY <1>2, <2>1, <2>2
<1>11. LabelsReach'
  <2>1. \A m \in Functions : depth_of'[m] # 0 => Reaches(m, depth_of'[m])
    BY <1>2, <1>3, <1>10 DEF IInv, LabelsReach
  <2>2. QED
    BY <1>1, <2>1 DEF LabelsReach, Step, Reaches, Near, Far, args
<1>12. \A m \in Functions, d \in Nat : d < level /\ Expanded(m, d) =>
          \A x \in Functions : Step(m, x) => depth_of'[x] # 0 /\ depth_of'[x] <= d + 1
  BY <1>2, <1>3 DEF Expanded
<1>13. RootExpanded'
  <2>1. level > 1 => \A x \in Functions : Step(root, x) => depth_of'[x] # 0 /\ depth_of'[x] <= 0 + 1
    <3>1. root \in Functions /\ 0 \in Nat /\ 0 < level
      BY <1>2 DEF IInv, BfsTypeOK
    <3>2. level > 1 => Expanded(root, 0)
      BY DEF IInv, RootExpanded
    <3>3. QED
      BY <1>12, <3>1, <3>2
  <2>2. QED
    BY <1>1, <2>1 DEF RootExpanded, Expanded, Step, Near, Far, args
<1>14. OlderExpanded'
  <2>1. ASSUME NEW m \in Functions, depth_of'[m] # 0, depth_of'[m] + 1 < level, NEW x \in Functions, Step(m, x)
        PROVE  depth_of'[x] # 0 /\ depth_of'[x] <= depth_of'[m] + 1
    <3>1. m # n /\ depth_of'[m] = depth_of[m]
      BY <1>2, <1>3, <2>1
    <3>2. Expanded(m, depth_of[m])
      BY <2>1, <3>1 DEF IInv, OlderExpanded
    <3>3. depth_of[m] \in Nat /\ depth_of[m] < level
      BY <1>2, <2>1, <3>1
    <3>4. QED
      BY <1>12, <2>1, <3>1, <3>2, <3>3
  <2>2. QED
    BY <1>1, <2>1 DEF OlderExpanded, Expanded, Step, Near, Far, args
<1>15. CurrentExpanded'
  <2>1. ASSUME NEW i \in DOMAIN frontier, i < at, NEW x \in Functions, Step(frontier[i], x)
        PROVE  depth_of'[x] # 0 /\ depth_of'[x] <= (level - 1) + 1
    <3>1. Expanded(frontier[i], level - 1) /\ frontier[i] \in Functions
      BY <2>1 DEF IInv, CurrentExpanded, BfsTypeOK
    <3>2. level - 1 \in Nat /\ level - 1 < level
      BY <1>2
    <3>3. QED
      BY <1>12, <2>1, <3>1, <3>2
  <2>2. ASSUME NEW j \in DOMAIN calls, j < ci', Near(calls[j]) = frontier[at]
        PROVE  depth_of'[Far(calls[j])] # 0
    <3>1. Far(calls[j]) \in Functions
      BY CallEnds DEF IInv
    <3>2. j \in Nat /\ k \in Nat /\ ci \in Nat
      BY DEF IInv, BfsTypeOK
    <3>3. ci' = ci \/ ci' = k + 1
      BY <1>1 DEF Past
    <3>4. CASE j < ci
      <4>1. depth_of[Far(calls[j])] # 0
        BY <1>2, <2>2, <3>4 DEF IInv, CurrentExpanded
      <4>2. QED
        BY <1>3, <3>1, <4>1
    <3>5. CASE ci <= j /\ j < k
      BY <1>1, <2>2, <3>5 DEF NextCall
    <3>6. CASE j = k
      BY <1>2, <1>3, <3>6 DEF n
    <3>7. QED
      BY <1>2, <2>2, <3>2, <3>3, <3>4, <3>5, <3>6
  <2>3. QED
    BY <1>1, <2>1, <2>2 DEF CurrentExpanded, Expanded, Step, Near, Far, args
<1>16. Count(depth_of') = Count(depth_of) + 1 /\ Count(depth_of) \in Nat
  <2> DEFINE S == {m \in Functions : depth_of[m] # 0}
             Z == {m \in Functions : depth_of'[m] # 0}
  <2>1. IsFiniteSet(S)
    BY BfsAssumption, FS_Subset
  <2>2. n \notin S /\ Z = S \cup {n}
    BY <1>2, <1>3
  <2>3. Cardinality(S \cup {n}) = Cardinality(S) + 1 /\ Cardinality(S) \in Nat
    <3> HIDE DEF S
    <3>1. QED
      BY <2>1, <2>2, FS_AddElement, FS_CardinalityType
  <2>4. QED
    BY <2>2, <2>3 DEF Count
<1>17. CountInv'
  <2>1. max_nodes \in Nat /\ max_nodes' = max_nodes /\ ~truncated
    BY <1>1, <1>2 DEF IInv, BfsTypeOK, CountInv, args
  <2>2. Count(depth_of) = 0 \/ Count(depth_of) < max_nodes
    BY <2>1 DEF IInv, CountInv
  <2>3. CASE Full(depth_of')
    <3>1. truncated' /\ state' = "done" /\ Count(depth_of') >= max_nodes
      BY <1>1, <2>3 DEF Cut, Full
    <3>2. QED
      BY <1>16, <2>1, <2>2, <3>1 DEF CountInv
  <2>4. CASE ~Full(depth_of')
    <3>1. ~truncated' /\ ~(Count(depth_of') >= max_nodes)
      BY <1>1, <2>1, <2>4 DEF Full
    <3>2. QED
      BY <1>16, <2>1, <3>1 DEF CountInv
  <2>5. QED
    BY <2>3, <2>4
<1>18. EndReason'
  BY <1>1, <1>2 DEF EndReason, Cut
<1>19. QED
  BY <1>5, <1>6, <1>7, <1>8, <1>11, <1>13, <1>14, <1>15, <1>17, <1>18 DEF IInv

-----------------------------------------------------------------------------
\* Every step of the search keeps the invariant.
THEOREM Invariance == BfsSpec => []IInv
<1>1. IInv /\ [BfsNext]_bfsVars => IInv'
  <2> SUFFICES ASSUME IInv, [BfsNext]_bfsVars PROVE IInv'
    OBVIOUS
  <2>1. CASE BfsNext
    BY <2>1, SkipSeenKeeps, DiscoverKeeps, NextNameKeeps, NextLevelKeeps, FinishKeeps DEF BfsNext
  <2>2. CASE UNCHANGED bfsVars
    <3>1. BfsTypeOK' /\ LabelsBelow' /\ FrontierIsLevel' /\ NextIsLevel'
      BY <2>2 DEF bfsVars, args, IInv, BfsTypeOK, LabelsBelow, FrontierIsLevel, NextIsLevel
    <3>2. LabelsReach' /\ RootExpanded' /\ OlderExpanded' /\ CurrentExpanded'
      BY <2>2
      DEF bfsVars, args, IInv, LabelsReach, RootExpanded, OlderExpanded, CurrentExpanded, Expanded,
          Step, Reaches, Near, Far
    <3>3. EndReason' /\ CountInv'
      BY <2>2 DEF bfsVars, args, IInv, EndReason, CountInv, Count
    <3>4. QED
      BY <3>1, <3>2, <3>3 DEF IInv
  <2>3. QED
    BY <2>1, <2>2
<1>2. QED
  BY InitIInv, <1>1, PTL DEF BfsSpec

\* Every variable of the search keeps its type; no label is beyond --depth.
THEOREM TypeCorrect == BfsSpec => []BfsTypeOK
<1>1. IInv => BfsTypeOK
  BY DEF IInv
<1>2. QED
  BY Invariance, <1>1, PTL

\* Truncated or not, a depth reported is the distance from the root.
THEOREM ShortestDistance == BfsSpec => []DepthIsDistance
<1>1. IInv => DepthIsDistance
  <2> SUFFICES ASSUME IInv, NEW n \in Functions, depth_of[n] # 0, NEW k \in 1 .. depth_of[n] - 1,
                      Reaches(n, k)
               PROVE  FALSE
    BY DEF DepthIsDistance, IInv, LabelsReach
  <2>1. depth_of[n] \in Nat /\ depth_of[n] <= level /\ level \in Nat
    BY DEF IInv, BfsTypeOK, LabelsBelow
  <2>2. k \in Nat \ {0} /\ k < depth_of[n] /\ k <= level - 1 /\ level - 1 \in Nat /\ level > 1
    BY <2>1
  <2>3. Expanded(root, 0)
    BY <2>2 DEF IInv, RootExpanded
  <2>4. \A m \in Functions : depth_of[m] # 0 /\ depth_of[m] < level - 1 => Expanded(m, depth_of[m])
    BY <2>1 DEF IInv, OlderExpanded, BfsTypeOK
  <2>5. depth_of[n] <= k
    BY <2>2, <2>3, <2>4, WalkLabelled DEF IInv
  <2>6. QED
    BY <2>1, <2>2, <2>5
<1>2. QED
  BY Invariance, <1>1, PTL

\* What the answer leaves out within the depth, it marks as truncated.
THEOREM Completeness == BfsSpec => []CompleteUnlessTruncated
<1>1. IInv => CompleteUnlessTruncated
  <2> SUFFICES ASSUME IInv, state = "done", ~truncated, NEW n \in Functions,
                      NEW k \in 1 .. depth, Reaches(n, k)
               PROVE  depth_of[n] # 0
    BY DEF CompleteUnlessTruncated
  <2>1. depth \in Nat /\ k \in Nat \ {0} /\ depth # 0 /\ k <= depth
    BY DEF IInv, BfsTypeOK
  <2>2. at > Len(frontier) /\ (next = <<>> \/ level >= depth)
    BY <2>1 DEF IInv, EndReason
  <2>3. level \in Nat \ {0} /\ \A m \in Functions : depth_of[m] \in Nat /\ depth_of[m] <= level
    BY DEF IInv, BfsTypeOK, LabelsBelow
  <2>4. \A i \in DOMAIN frontier : Expanded(frontier[i], level - 1)
    BY <2>2 DEF IInv, CurrentExpanded, BfsTypeOK
  <2>5. Expanded(root, 0)
    <3>1. CASE level = 1
      <4>1. frontier = <<root>> /\ level - 1 = 0
        BY <3>1 DEF IInv, FrontierIsLevel
      <4>2. 1 \in DOMAIN frontier /\ frontier[1] = root
        BY <4>1
      <4>3. QED
        BY <2>4, <4>1, <4>2
    <3>2. CASE level > 1
      BY <3>2 DEF IInv, RootExpanded
    <3>3. QED
      BY <2>3, <3>1, <3>2
  <2>6. ASSUME NEW m \in Functions, depth_of[m] # 0, depth_of[m] < level
        PROVE  Expanded(m, depth_of[m])
    <3>1. CASE depth_of[m] + 1 < level
      BY <2>6, <3>1 DEF IInv, OlderExpanded
    <3>2. CASE depth_of[m] = level - 1
      <4>1. level > 1
        BY <2>3, <2>6, <3>2
      <4>2. PICK i \in DOMAIN frontier : frontier[i] = m
        BY <3>2, <4>1 DEF IInv, FrontierIsLevel
      <4>3. QED
        BY <2>4, <3>2, <4>2
    <3>3. QED
      BY <2>3, <2>6, <3>1, <3>2
  <2>7. k <= level \/ \A m \in Functions : depth_of[m] < level
    <3>1. CASE level >= depth
      BY <2>1, <2>3, <3>1
    <3>2. CASE next = <<>>
      <4>1. \A m \in Functions : depth_of[m] # level
        BY <3>2 DEF IInv, NextIsLevel
      <4>2. QED
        BY <2>3, <4>1
    <3>3. QED
      BY <2>2, <3>1, <3>2
  <2>8. QED
    BY <2>1, <2>3, <2>5, <2>6, <2>7, WalkLabelled DEF IInv
<1>2. QED
  BY Invariance, <1>1, PTL

\* The answer of the search is exact up to what it says it left out.
THEOREM SearchIsExact == BfsSpec => []SearchExact
<1>1. DepthIsDistance /\ CompleteUnlessTruncated => SearchExact
  BY DEF SearchExact
<1>2. QED
  BY <1>1, ShortestDistance, Completeness, PTL

\* The cap is kept, and a truncated answer is as large as the cap allows.
THEOREM CapKept == BfsSpec => []CapHonoured
<1>1. IInv => CapHonoured
  <2> SUFFICES ASSUME IInv PROVE CapHonoured
    OBVIOUS
  <2>1. Count(depth_of) \in Nat
    BY BfsAssumption, FS_Subset, FS_CardinalityType DEF Count
  <2>2. max_nodes \in Nat
    BY DEF IInv, BfsTypeOK
  <2>3. QED
    BY <2>1, <2>2 DEF IInv, CountInv, CapHonoured
<1>2. QED
  BY Invariance, <1>1, PTL
=============================================================================
