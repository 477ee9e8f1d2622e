---------------------------- MODULE FunctabProofs ----------------------------
(* What Functab promises for every table, every bound and every query.  The
   inductive invariant is the loop invariant of the two binary searches. *)
EXTENDS Functab, InlineWalk, Basics, FiniteSetTheorems

\* lookup's loop: everything it has passed is at or below the PC, everything it
\* has cut off is above it.
SearchInv ==
    phase = "search" =>
        /\ answer = NoFunction
        /\ lo # 0 => Readable(lo - 1) /\ entry[lo - 1] <= pc
        /\ hi < nfunc => Readable(hi) /\ pc < entry[hi]

\* lookup_inline's loop: the same over u32 offsets, unreadable counting as above.
RelocateInv ==
    phase = "relocate" =>
        /\ lo # 0 => Readable(lo - 1) /\ TextOffset(lo - 1) <= QueryOffset
        /\ hi < nfunc => (Readable(hi) => QueryOffset < TextOffset(hi))

\* lookup_inline searches again only below a physical frame in a 1.18+ table.
RelocateGuard ==
    phase \in {"relocate", "relocated"} =>
        answer # NoFunction /\ layout = "modern" /\ pc >= textStart

IInv ==
    /\ TypeOK
    /\ Encodable
    /\ SearchInv
    /\ RelocateInv
    /\ RelocateGuard
    /\ AnswerContainsPc
    /\ NoneIsRight
    /\ SameFunction

USE DEF Address, Index, NoFunction, Layouts, Phases

\* Init establishes the invariant.
LEMMA InitIInv == Init => IInv
  BY BoundsAssumption
  DEF Init, IInv, TypeOK, SearchInv, RelocateInv, RelocateGuard,
      AnswerContainsPc, NoneIsRight, SameFunction

\* The midpoint of a non-empty interval lies in it.
LEMMA MidInside ==
  ASSUME NEW l \in Nat, NEW h \in Nat, l < h
  PROVE  LET m == (l + h) \div 2 IN
           /\ m \in Nat
           /\ l <= m
           /\ m < h
           /\ 2 * (h - (m + 1)) <= h - l
           /\ 2 * (m - l) <= h - l
  OBVIOUS

\* A residue is the number itself when the number is below the modulus.
LEMMA SmallResidue ==
  ASSUME NEW m \in Nat \ {0}, NEW x \in 0 .. m - 1
  PROVE  x % m = x
  OBVIOUS

\* lookup's probe keeps the invariant: only the search interval moves.
LEMMA ProbeKeeps == IInv /\ Probe => IInv'
<1> SUFFICES ASSUME IInv, Probe PROVE IInv'
  OBVIOUS
<1> USE DEF IInv, Probe, table
<1>1. Mid \in Nat /\ lo <= Mid /\ Mid < hi
  BY MidInside DEF TypeOK, Mid
<1>2. TypeOK'
  BY <1>1 DEF TypeOK
<1>3. SearchInv'
  <2>1. CASE entry[Mid] <= pc
    <3>1. lo' - 1 = Mid /\ lo' # 0 /\ hi' = hi
      BY <1>1, <2>1
    <3> QED  BY <1>1, <2>1, <3>1 DEF SearchInv, Readable
  <2>2. CASE ~(entry[Mid] <= pc)
    BY <1>1, <2>2 DEF TypeOK, SearchInv, Readable
  <2> QED  BY <2>1, <2>2
<1>4. RelocateInv' /\ RelocateGuard'
  BY DEF RelocateInv, RelocateGuard
<1>5. Encodable' /\ AnswerContainsPc' /\ NoneIsRight' /\ SameFunction'
  BY DEF Encodable, AnswerContainsPc, NoneIsRight, SameFunction, Spans,
         NextAddr, Readable, Sorted
<1> QED  BY <1>2, <1>3, <1>4, <1>5

\* An unreadable probe answers None; NoneIsRight is not at stake, because such a
\* table has fewer entries than its header claims.
LEMMA ProbeUnreadableKeeps == IInv /\ ProbeUnreadable => IInv'
<1> SUFFICES ASSUME IInv, ProbeUnreadable PROVE IInv'
  OBVIOUS
<1> USE DEF IInv, ProbeUnreadable, table
<1>1. Mid \in Nat /\ lo <= Mid /\ Mid < hi
  BY MidInside DEF TypeOK, Mid
<1>2. TypeOK' /\ Encodable'
  BY DEF TypeOK, Encodable
<1>3. SearchInv' /\ RelocateInv' /\ RelocateGuard' /\ AnswerContainsPc' /\ SameFunction'
  BY DEF SearchInv, RelocateInv, RelocateGuard, AnswerContainsPc, SameFunction
<1>4. NoneIsRight'
  BY <1>1 DEF NoneIsRight, Readable, TypeOK
<1> QED  BY <1>2, <1>3, <1>4

\* The conclusion of lookup: the one entry left is the only one that can span pc.
LEMMA ConcludeKeeps == IInv /\ Conclude => IInv'
<1> SUFFICES ASSUME IInv, Conclude PROVE IInv'
  OBVIOUS
<1> USE DEF IInv, Conclude, table
<1>1. lo = hi
  BY DEF TypeOK
<1>2. TypeOK' /\ Encodable'
  BY DEF TypeOK, Encodable
<1>3. SearchInv' /\ RelocateInv' /\ RelocateGuard' /\ SameFunction'
  BY DEF SearchInv, RelocateInv, RelocateGuard, SameFunction
<1>4. AnswerContainsPc'
  BY <1>1 DEF AnswerContainsPc, Spans, SearchInv, NextAddr, Readable, TypeOK
<1>5. NoneIsRight'
  <2> SUFFICES ASSUME Sorted, nfunc <= avail, answer' = NoFunction,
                      NEW i \in 0 .. nfunc - 1, Spans(i), i \in decodable
               PROVE  FALSE
    BY DEF NoneIsRight, Sorted, Spans, NextAddr, Readable
  <2>1. i < lo
    <3>1. CASE lo < nfunc
      BY <1>1, <3>1 DEF SearchInv, TypeOK, Sorted, Spans, Readable
    <3>2. CASE ~(lo < nfunc)
      BY <3>2 DEF TypeOK
    <3> QED  BY <3>1, <3>2
  <2>2. i = lo - 1
    <3> SUFFICES ASSUME i + 1 <= lo - 1 PROVE FALSE
      BY <2>1 DEF TypeOK
    <3>1. Readable(i + 1) /\ Readable(lo - 1)
      BY DEF SearchInv, Readable, TypeOK
    <3>2. entry[i + 1] <= entry[lo - 1]
      BY <3>1 DEF Sorted, Readable, TypeOK
    <3> QED  BY <3>1, <3>2 DEF Spans, NextAddr, SearchInv, TypeOK, Readable
  <2> QED  BY <2>1, <2>2 DEF Spans, TypeOK, Readable
<1> QED  BY <1>2, <1>3, <1>4, <1>5

\* Entering the second search resets the interval.
LEMMA RelocateKeeps == IInv /\ Relocate => IInv'
<1> SUFFICES ASSUME IInv, Relocate PROVE IInv'
  OBVIOUS
<1> USE DEF IInv, Relocate, table
<1>1. TypeOK' /\ Encodable'
  BY DEF TypeOK, Encodable
<1>2. SearchInv' /\ RelocateInv' /\ RelocateGuard' /\ SameFunction'
  BY DEF SearchInv, RelocateInv, RelocateGuard, SameFunction, TypeOK
<1>3. AnswerContainsPc' /\ NoneIsRight'
  BY DEF AnswerContainsPc, NoneIsRight, Spans, NextAddr, Readable
<1> QED  BY <1>1, <1>2, <1>3

\* The second search's probe.
LEMMA RelocateProbeKeeps == IInv /\ RelocateProbe => IInv'
<1> SUFFICES ASSUME IInv, RelocateProbe PROVE IInv'
  OBVIOUS
<1> USE DEF IInv, RelocateProbe, table
<1>1. Mid \in Nat /\ lo <= Mid /\ Mid < hi
  BY MidInside DEF TypeOK, Mid
<1>2. TypeOK' /\ Encodable'
  BY <1>1 DEF TypeOK, Encodable
<1>3. RelocateInv'
  <2> DEFINE T(i) == TextOffset(i)
  <2>1. QueryOffset' = QueryOffset /\ \A i : TextOffset(i)' = TextOffset(i)
    BY DEF QueryOffset, TextOffset
  <2>2. QueryOffset \in Int
    BY BoundsAssumption DEF QueryOffset, TypeOK
  <2>3. Readable(Mid) => TextOffset(Mid) \in Int
    BY BoundsAssumption DEF TextOffset, TypeOK, Readable
  <2> QED  BY <1>1, <2>1, <2>2, <2>3 DEF RelocateInv, Readable, TypeOK
<1>4. SearchInv' /\ RelocateGuard' /\ SameFunction'
  BY DEF SearchInv, RelocateGuard, SameFunction
<1>5. AnswerContainsPc' /\ NoneIsRight'
  BY DEF AnswerContainsPc, NoneIsRight, Spans, NextAddr, Readable, Sorted
<1> QED  BY <1>2, <1>3, <1>4, <1>5

\* The second search ends where the first did: below OffMod the offsets order the
\* entries as their addresses do, and the answer is the one entry left.
LEMMA RelocateConcludeKeeps == IInv /\ RelocateConclude => IInv'
<1> SUFFICES ASSUME IInv, RelocateConclude PROVE IInv'
  OBVIOUS
<1> USE DEF IInv, RelocateConclude, table
<1>1. lo = hi
  BY DEF TypeOK
<1>2. TypeOK' /\ Encodable'
  BY DEF TypeOK, Encodable
<1>3. SearchInv' /\ RelocateInv' /\ RelocateGuard'
  BY DEF SearchInv, RelocateInv, RelocateGuard
<1>4. AnswerContainsPc' /\ NoneIsRight'
  BY DEF AnswerContainsPc, NoneIsRight, Spans, NextAddr, Readable, Sorted
<1>5. SameFunction'
  <2> SUFFICES ASSUME Sorted, nfunc < avail PROVE treeOf' = answer
    BY DEF SameFunction, Sorted
  <2>1. /\ answer \in 0 .. nfunc - 1
        /\ layout = "modern"
        /\ pc >= textStart
        /\ entry[answer] <= pc
        /\ pc < entry[answer + 1]
    BY DEF RelocateGuard, TypeOK, AnswerContainsPc, Spans, NextAddr, Readable
  <2>2. ASSUME NEW i \in 0 .. avail - 1
        PROVE  TextOffset(i) = entry[i] - textStart
    <3>1. entry[i] - textStart \in 0 .. OffMod - 1
      BY <2>1 DEF Encodable
    <3> QED  BY <3>1, SmallResidue, BoundsAssumption DEF TextOffset
  <2>3. QueryOffset = pc - textStart
    <3>1. entry[answer + 1] - textStart \in 0 .. OffMod - 1
      BY <2>1 DEF Encodable, TypeOK
    <3>2. pc - textStart \in 0 .. OffMod - 1
      BY <2>1, <3>1, BoundsAssumption DEF TypeOK
    <3> QED  BY <3>2, SmallResidue, BoundsAssumption DEF QueryOffset
  <2>4. lo # 0 => entry[lo - 1] <= pc
    BY <2>2, <2>3 DEF RelocateInv, Readable, TypeOK
  <2>5. lo < nfunc => pc < entry[lo]
    BY <1>1, <2>2, <2>3 DEF RelocateInv, Readable, TypeOK
  <2>6. ~(lo <= answer)
    <3> SUFFICES ASSUME lo <= answer PROVE FALSE
      OBVIOUS
    <3>1. entry[lo] <= entry[answer]
      BY <2>1 DEF Sorted, TypeOK
    <3> QED  BY <2>1, <2>5, <3>1 DEF TypeOK
  <2>7. ~(lo >= answer + 2)
    <3> SUFFICES ASSUME lo >= answer + 2 PROVE FALSE
      OBVIOUS
    <3>1. entry[answer + 1] <= entry[lo - 1]
      BY <2>1 DEF Sorted, TypeOK
    <3> QED  BY <2>1, <2>4, <3>1 DEF TypeOK
  <2>8. lo - 1 = answer
    BY <2>1, <2>6, <2>7 DEF TypeOK
  <2> QED  BY <2>1, <2>8 DEF Readable, TypeOK
<1> QED  BY <1>2, <1>3, <1>4, <1>5

\* No step of either search loses the invariant.
LEMMA NextKeeps == IInv /\ [Next]_vars => IInv'
<1> SUFFICES ASSUME IInv, [Next]_vars PROVE IInv'
  OBVIOUS
<1>1. CASE UNCHANGED vars
  BY <1>1 DEF vars, IInv, TypeOK, Encodable, SearchInv, RelocateInv,
     RelocateGuard, AnswerContainsPc, NoneIsRight, SameFunction, Spans,
     NextAddr, Readable, Sorted, TextOffset, QueryOffset
<1> QED
  BY <1>1, ProbeKeeps, ProbeUnreadableKeeps, ConcludeKeeps, RelocateKeeps,
     RelocateProbeKeeps, RelocateConcludeKeeps DEF Next

\* The invariant holds in every reachable state.
THEOREM Invariance == Spec => []IInv
  BY InitIInv, NextKeeps, PTL DEF Spec

\* Every variable keeps its type, for every table and bound.
THEOREM TypeCorrect == Spec => []TypeOK
<1>1. IInv => TypeOK
  BY DEF IInv
<1> QED  BY <1>1, Invariance, PTL

\* What lookup returns contains the PC, on every table, sorted or damaged.
THEOREM LookupSound == Spec => []AnswerContainsPc
<1>1. IInv => AnswerContainsPc
  BY DEF IInv
<1> QED  BY <1>1, Invariance, PTL

\* On a sorted, complete table None means that nothing decodable spans the PC.
THEOREM LookupComplete == Spec => []NoneIsRight
<1>1. IInv => NoneIsRight
  BY DEF IInv
<1> QED  BY <1>1, Invariance, PTL

\* lookup is right about the PC, whatever it answers.
THEOREM LookupCorrect == Spec => []LookupRight
<1>1. AnswerContainsPc /\ NoneIsRight => LookupRight
  BY DEF LookupRight
<1>2. QED
  BY <1>1, LookupSound, LookupComplete, PTL

\* lookup_inline reads the inline tree of the function lookup named.
THEOREM SearchesAgree == Spec => []SameFunction
<1>1. IInv => SameFunction
  BY DEF IInv
<1> QED  BY <1>1, Invariance, PTL

\* lookup and the listing agree on every sorted table the listing accepts.
THEOREM LookupMatchesListing == Spec => []AgreesWithListing
<1>1. IInv => AgreesWithListing
  <2> SUFFICES ASSUME IInv, Sorted, ~ListingRefused, phase # "search",
                      NEW i \in 0 .. nfunc - 1
               PROVE  (answer = i) <=> (i \in Listing /\ Spans(i))
    BY DEF AgreesWithListing
  <2>1. CASE answer = NoFunction
    BY <2>1 DEF IInv, NoneIsRight, ListingRefused, Listing, TypeOK
  <2>2. CASE answer # NoFunction
    <3>1. answer \in Listing /\ Spans(answer)
      BY <2>2 DEF IInv, AnswerContainsPc, Listing, TypeOK
    <3>2. ASSUME Spans(i), i # answer PROVE FALSE
      <4>1. i < answer => entry[i + 1] <= entry[answer]
        BY DEF IInv, TypeOK, Sorted, ListingRefused
      <4>2. answer < i => entry[answer + 1] <= entry[i]
        BY <2>2 DEF IInv, TypeOK, Sorted, ListingRefused
      <4> QED
        BY <2>2, <3>1, <3>2, <4>1, <4>2
        DEF IInv, TypeOK, Spans, NextAddr, Readable, ListingRefused
    <3> QED  BY <2>2, <3>1, <3>2
  <2> QED  BY <2>1, <2>2
<1> QED  BY <1>1, Invariance, PTL

\* Each probe at least halves the interval: O(log n) per query.
THEOREM LogarithmicSearch == Spec => IntervalHalves
<1>1. IInv /\ [Next]_vars =>
        [lo' - lo + hi - hi' # 0 /\ phase' = phase
           => 2 * (hi' - lo') <= hi - lo]_vars
  <2> SUFFICES ASSUME TypeOK, Next, phase' = phase
               PROVE  \/ lo' - lo + hi - hi' = 0
                      \/ 2 * (hi' - lo') <= hi - lo
    BY DEF IInv
  <2>1. CASE Probe
    BY <2>1, MidInside DEF Probe, TypeOK, Mid
  <2>2. CASE RelocateProbe
    BY <2>2, MidInside DEF RelocateProbe, TypeOK, Mid
  <2> QED
    BY <2>1, <2>2 DEF Next, ProbeUnreadable, Conclude, Relocate,
       RelocateConclude, TypeOK
<1> QED  BY <1>1, Invariance, PTL DEF Spec, IntervalHalves
-----------------------------------------------------------------------------
(* The inline stack lookup_inline builds at the PC it found (InlineWalk).  The
   streams' readers are recursive functions: each is the solution of its
   recurrence, and what holds of it is shown along the stream. *)

Record == [dv : Int, dpc : 0 .. Wrap - 1]

LEMMA RecordFacts ==
  ASSUME NEW s \in Seq(Record)
  PROVE  /\ Len(s) \in Nat /\ DOMAIN s = 1 .. Len(s)
         /\ \A k \in 1 .. Len(s) : s[k].dv \in Int /\ s[k].dpc \in Nat /\ s[k].dpc < Wrap
<1>1. \A k \in 1 .. Len(s) : s[k] \in Record
  OBVIOUS
<1>2. QED
  BY <1>1, WrapAssumption DEF Record

\* The value after each record of a stream.
LEMMA ValueFacts ==
  ASSUME NEW s \in Seq(Record)
  PROVE  /\ ValueAfter(s)[0] = -1
         /\ \A k \in 1 .. Len(s) : ValueAfter(s)[k] = ValueAfter(s)[k - 1] + s[k].dv
         /\ \A k \in 0 .. Len(s) : ValueAfter(s)[k] \in Int
<1> DEFINE n == Len(s)
           step == [e \in (1 .. n) \X Int |-> e[2] + s[e[1]].dv]
           F(g) == [k \in 0 .. n |-> IF k = 0 THEN -1 ELSE g[k - 1] + s[k].dv]
           v == ValueAfter(s)
<1>1. n \in Nat /\ \A k \in 1 .. n : s[k].dv \in Int
  BY RecordFacts
<1>2. v = CHOOSE g : g = F(g)
  BY DEF ValueAfter
<1> HIDE DEF n, v
<1>3. \E g : g = F(g)
  <2>1. step \in [(1 .. n) \X Int -> Int]
    BY <1>1
  <2>2. \A k \in 1 .. n, x \in Int : step[<<k, x>>] = x + s[k].dv
    OBVIOUS
  <2> HIDE DEF step
  <2> DEFINE b == -1
           U == Int
  <2>3. b \in U /\ step \in [(1 .. n) \X U -> U]
    BY <1>1, <2>1
  <2> HIDE DEF b, U
  <2>4. \E f : Solves(f, n, U, b, step)
    BY <1>1, <2>3, RecurrenceExists
  <2>5. PICK f : f \in [0 .. n -> U] /\ f[0] = b /\ \A k \in 1 .. n : f[k] = step[<<k, f[k - 1]>>]
    BY <2>4 DEF Solves
  <2>6. \A k \in 1 .. n : f[k] = f[k - 1] + s[k].dv
    <3>1. TAKE k \in 1 .. n
    <3>2. f[k - 1] \in Int
      BY <1>1, <2>5 DEF U
    <3>3. QED
      BY <2>2, <2>5, <3>2
  <2>7. f[0] = -1
    BY <2>5 DEF b
  <2>8. f = F(f)
    BY <2>5, <2>6, <2>7 DEF U
  <2>9. QED
    BY <2>8
<1>4. v = F(v)
  BY <1>2, <1>3
<1>5. v[0] = -1 /\ \A k \in 1 .. n : v[k] = v[k - 1] + s[k].dv
  BY <1>1, <1>4
<1>6. \A k \in 0 .. n : v[k] \in Int
  <2> DEFINE S == {k \in 0 .. n : v[k] \in Int}
  <2>1. 0 \in S
    BY <1>1, <1>5
  <2>2. \A k \in 1 .. n : k - 1 \in S => k \in S
    BY <1>1, <1>5
  <2> HIDE DEF S
  <2>3. \A k \in 0 .. n : k \in S
    BY <1>1, <2>1, <2>2, UpTo
  <2>4. QED
    BY <2>3 DEF S
<1>7. QED
  BY <1>5, <1>6 DEF n, v

\* The pc after each record, which wraps.
LEMMA PcFacts ==
  ASSUME NEW s \in Seq(Record)
  PROVE  /\ PcAfter(s)[0] = 0
         /\ \A k \in 1 .. Len(s) : PcAfter(s)[k] = (PcAfter(s)[k - 1] + s[k].dpc) % Wrap
         /\ \A k \in 0 .. Len(s) : PcAfter(s)[k] \in 0 .. Wrap - 1
<1> DEFINE n == Len(s)
           P == 0 .. Wrap - 1
           step == [e \in (1 .. n) \X P |-> (e[2] + s[e[1]].dpc) % Wrap]
           F(g) == [k \in 0 .. n |-> IF k = 0 THEN 0 ELSE (g[k - 1] + s[k].dpc) % Wrap]
           v == PcAfter(s)
<1>1. n \in Nat /\ Wrap \in Nat \ {0} /\ \A k \in 1 .. n : s[k].dpc \in Nat
  BY RecordFacts, WrapAssumption
<1>2. v = CHOOSE g : g = F(g)
  BY DEF PcAfter
<1>3. \A x \in P, k \in 1 .. n : (x + s[k].dpc) % Wrap \in P
  <2>1. TAKE x \in P, k \in 1 .. n
  <2>2. x + s[k].dpc \in Nat
    BY <1>1
  <2> QED
    BY <1>1, <2>2, ResidueBound
<1> HIDE DEF n, v
<1>4. \E g : g = F(g)
  <2>1. step \in [(1 .. n) \X P -> P]
    BY <1>3
  <2>2. \A k \in 1 .. n, x \in P : step[<<k, x>>] = (x + s[k].dpc) % Wrap
    OBVIOUS
  <2> HIDE DEF step
  <2> DEFINE b == 0
           U == P
  <2>4. b \in U /\ step \in [(1 .. n) \X U -> U]
    BY <1>1, <2>1
  <2> HIDE DEF b, U
  <2>5. \E f : Solves(f, n, U, b, step)
    BY <1>1, <2>4, RecurrenceExists
  <2>6. PICK f : f \in [0 .. n -> U] /\ f[0] = b /\ \A k \in 1 .. n : f[k] = step[<<k, f[k - 1]>>]
    BY <2>5 DEF Solves
  <2>7. \A k \in 1 .. n : f[k] = (f[k - 1] + s[k].dpc) % Wrap
    <3>1. TAKE k \in 1 .. n
    <3>2. f[k - 1] \in P
      BY <1>1, <2>6 DEF U
    <3>3. QED
      BY <2>2, <2>6, <3>2
  <2>8. f[0] = 0
    BY <2>6 DEF b
  <2>9. f = F(f)
    BY <2>6, <2>7, <2>8 DEF U
  <2>10. QED
    BY <2>9
<1>5. v = F(v)
  BY <1>2, <1>4
<1>6. v[0] = 0 /\ \A k \in 1 .. n : v[k] = (v[k - 1] + s[k].dpc) % Wrap
  BY <1>1, <1>5
<1>7. \A k \in 0 .. n : v[k] \in P
  <2> DEFINE S == {k \in 0 .. n : v[k] \in P}
  <2>1. 0 \in S
    BY <1>1, <1>6
  <2>2. ASSUME NEW k \in 1 .. n, k - 1 \in S PROVE k \in S
    <3>1. v[k - 1] \in P /\ v[k] = (v[k - 1] + s[k].dpc) % Wrap
      BY <1>1, <1>6, <2>2
    <3> HIDE DEF P
    <3>2. v[k] \in P
      BY <1>3, <3>1
    <3>3. QED
      BY <3>2
  <2> HIDE DEF S
  <2>3. \A k \in 0 .. n : k \in S
    BY <1>1, <2>1, <2>2, UpTo
  <2>4. QED
    BY <2>3 DEF S
<1>8. QED
  BY <1>6, <1>7 DEF n, v

\* Where each run ends by the format.
LEMMA RunEndFacts ==
  ASSUME NEW s \in Seq(Record), NEW q \in {1, 4}
  PROVE  /\ RunEnd(s, q)[0] = 0
         /\ \A k \in 1 .. Len(s) : RunEnd(s, q)[k] = RunEnd(s, q)[k - 1] + q * s[k].dpc
         /\ \A k \in 0 .. Len(s) : RunEnd(s, q)[k] \in Nat
<1> DEFINE n == Len(s)
           step == [e \in (1 .. n) \X Nat |-> e[2] + q * s[e[1]].dpc]
           F(g) == [k \in 0 .. n |-> IF k = 0 THEN 0 ELSE g[k - 1] + q * s[k].dpc]
           v == RunEnd(s, q)
<1>1. n \in Nat /\ \A k \in 1 .. n : q * s[k].dpc \in Nat
  BY RecordFacts
<1>2. v = CHOOSE g : g = F(g)
  BY DEF RunEnd
<1> HIDE DEF n, v
<1>3. \E g : g = F(g)
  <2>1. step \in [(1 .. n) \X Nat -> Nat]
    BY <1>1
  <2>2. \A k \in 1 .. n, x \in Nat : step[<<k, x>>] = x + q * s[k].dpc
    OBVIOUS
  <2> HIDE DEF step
  <2> DEFINE b == 0
           U == Nat
  <2>3. b \in U /\ step \in [(1 .. n) \X U -> U]
    BY <1>1, <2>1
  <2> HIDE DEF b, U
  <2>4. \E f : Solves(f, n, U, b, step)
    BY <1>1, <2>3, RecurrenceExists
  <2>5. PICK f : f \in [0 .. n -> U] /\ f[0] = b /\ \A k \in 1 .. n : f[k] = step[<<k, f[k - 1]>>]
    BY <2>4 DEF Solves
  <2>6. \A k \in 1 .. n : f[k] = f[k - 1] + q * s[k].dpc
    <3>1. TAKE k \in 1 .. n
    <3>2. f[k - 1] \in Nat
      BY <1>1, <2>5 DEF U
    <3>3. QED
      BY <2>2, <2>5, <3>2
  <2>7. f[0] = 0
    BY <2>5 DEF b
  <2>8. f = F(f)
    BY <2>5, <2>6, <2>7 DEF U
  <2>9. QED
    BY <2>8
<1>4. v = F(v)
  BY <1>2, <1>3
<1>5. v[0] = 0 /\ \A k \in 1 .. n : v[k] = v[k - 1] + q * s[k].dpc
  BY <1>1, <1>4
<1>6. \A k \in 0 .. n : v[k] \in Nat
  <2> DEFINE S == {k \in 0 .. n : v[k] \in Nat}
  <2>1. 0 \in S
    BY <1>1, <1>5
  <2>2. \A k \in 1 .. n : k - 1 \in S => k \in S
    BY <1>1, <1>5
  <2> HIDE DEF S
  <2>3. \A k \in 0 .. n : k \in S
    BY <1>1, <2>1, <2>2, UpTo
  <2>4. QED
    BY <2>3 DEF S
<1>7. QED
  BY <1>5, <1>6 DEF n, v

\* A residue is at most the number.
LEMMA ResidueAtMost ==
  ASSUME NEW m \in Nat \ {0}, NEW x \in Nat
  PROVE  x % m <= x
  OBVIOUS

\* Wrapping only takes away: the code's pc is never past the format's.
LEMMA PcAtMostEnd ==
  ASSUME NEW s \in Seq(Record), NEW q \in {1, 4}
  PROVE  \A k \in 0 .. Len(s) : PcAfter(s)[k] <= RunEnd(s, q)[k]
<1> DEFINE S == {k \in 0 .. Len(s) : PcAfter(s)[k] <= RunEnd(s, q)[k]}
<1>1. 0 \in S
  BY PcFacts, RunEndFacts, RecordFacts
<1>2. ASSUME NEW k \in 1 .. Len(s), k - 1 \in S PROVE k \in S
  <2>1. k - 1 \in 0 .. Len(s) /\ k \in 0 .. Len(s) /\ s[k].dpc \in Nat
    BY RecordFacts
  <2>2. PcAfter(s)[k - 1] \in Nat /\ RunEnd(s, q)[k - 1] \in Nat
    BY <2>1, PcFacts, RunEndFacts
  <2>3. PcAfter(s)[k] = (PcAfter(s)[k - 1] + s[k].dpc) % Wrap
    BY PcFacts
  <2>4. RunEnd(s, q)[k] = RunEnd(s, q)[k - 1] + q * s[k].dpc
    BY RunEndFacts
  <2>5. PcAfter(s)[k] <= PcAfter(s)[k - 1] + s[k].dpc
    <3> DEFINE x == PcAfter(s)[k - 1] + s[k].dpc
    <3>1. x \in Nat
      BY <2>1, <2>2
    <3> HIDE DEF x
    <3>2. x % Wrap <= x
      BY <3>1, ResidueAtMost, WrapAssumption
    <3>3. QED
      BY <2>3, <3>2 DEF x
  <2>6. PcAfter(s)[k - 1] <= RunEnd(s, q)[k - 1] /\ s[k].dpc <= q * s[k].dpc
    BY <1>2, <2>1
  <2>7. PcAfter(s)[k] \in Int /\ RunEnd(s, q)[k] \in Int
    BY <2>1, PcFacts, RunEndFacts
  <2>8. PcAfter(s)[k] <= RunEnd(s, q)[k]
    BY <2>1, <2>2, <2>4, <2>5, <2>6, <2>7
  <2>9. QED
    BY <2>1, <2>8
<1> HIDE DEF S
<1>3. \A k \in 0 .. Len(s) : k \in S
  BY <1>1, <1>2, UpTo, RecordFacts
<1>4. QED
  BY <1>3 DEF S

\* The runs of a stream the linker wrote end one behind the other.
LEMMA EndsGrow ==
  ASSUME NEW s \in Seq(Record), NEW q \in {1, 4}, WellFormedStream(s)
  PROVE  \A k \in 0 .. Len(s) : \A j \in 0 .. k - 1 : RunEnd(s, q)[j] < RunEnd(s, q)[k]
<1> DEFINE e == RunEnd(s, q)
           S == {k \in 0 .. Len(s) : \A j \in 0 .. k - 1 : e[j] < e[k]}
<1>1. 0 \in S
  BY RecordFacts
<1>2. ASSUME NEW k \in 1 .. Len(s), k - 1 \in S PROVE k \in S
  <2>1. k - 1 \in 0 .. Len(s) /\ k \in 0 .. Len(s) /\ s[k].dpc \in Nat
    BY RecordFacts
  <2>2. s[k].dpc > 0
    BY RecordFacts DEF WellFormedStream
  <2>3. e[k] = e[k - 1] + q * s[k].dpc /\ e[k - 1] \in Nat
    BY <2>1, RunEndFacts
  <2>4. e[k - 1] < e[k] /\ e[k] \in Nat
    BY <2>1, <2>2, <2>3
  <2>5. ASSUME NEW j \in 0 .. k - 1 PROVE e[j] < e[k]
    <3>1. CASE j = k - 1
      BY <2>4, <3>1
    <3>2. CASE j # k - 1
      <4>1. j \in 0 .. (k - 1) - 1 /\ j \in 0 .. Len(s)
        BY <3>2
      <4>2. e[j] < e[k - 1]
        BY <1>2, <4>1
      <4>3. e[j] \in Nat
        BY <4>1, RunEndFacts
      <4> HIDE DEF e
      <4>4. QED
        BY <2>3, <2>4, <4>2, <4>3
    <3>3. QED
      BY <3>1, <3>2
  <2> HIDE DEF e
  <2>6. QED
    BY <2>1, <2>5
<1> HIDE DEF S
<1>3. \A k \in 0 .. Len(s) : k \in S
  BY <1>1, <1>2, UpTo, RecordFacts
<1>4. QED
  BY <1>3 DEF S

\* In such a stream no pc wraps as long as the last does not, and with a quantum of 1
\* the code's pc is the format's.
LEMMA PcIsEnd ==
  ASSUME NEW s \in Seq(Record), WellFormedStream(s), RunEnd(s, 1)[Len(s)] < Wrap
  PROVE  \A k \in 0 .. Len(s) : PcAfter(s)[k] = RunEnd(s, 1)[k]
<1> DEFINE e == RunEnd(s, 1)
           p == PcAfter(s)
           S == {k \in 0 .. Len(s) : p[k] = e[k]}
<1>1. Len(s) \in Nat
  BY RecordFacts
<1>2. 0 \in S
  BY <1>1, PcFacts, RunEndFacts
<1>3. ASSUME NEW k \in 1 .. Len(s), k - 1 \in S PROVE k \in S
  <2>1. k - 1 \in 0 .. Len(s) /\ k \in 0 .. Len(s) /\ s[k].dpc \in Nat
    BY <1>1, RecordFacts
  <2>2. e[k] = e[k - 1] + s[k].dpc /\ e[k - 1] \in Nat /\ e[k] \in Nat /\ e[Len(s)] \in Nat
    BY <1>1, <2>1, RunEndFacts
  <2>3. e[k] <= e[Len(s)]
    <3>1. CASE k = Len(s)
      BY <2>2, <3>1
    <3>2. CASE k # Len(s)
      <4>1. k \in 0 .. Len(s) - 1 /\ Len(s) \in 0 .. Len(s)
        BY <1>1, <2>1, <3>2
      <4>2. e[k] < e[Len(s)]
        BY <4>1, EndsGrow
      <4>3. QED
        BY <2>2, <4>2
    <3>3. QED
      BY <3>1, <3>2
  <2>4. e[k] \in 0 .. Wrap - 1
    BY <2>2, <2>3, WrapAssumption
  <2>5. p[k] = (p[k - 1] + s[k].dpc) % Wrap
    BY PcFacts
  <2>6. p[k] = e[k] % Wrap
    BY <1>3, <2>2, <2>5
  <2>7. p[k] = e[k]
    BY <2>4, <2>6, SmallResidue, WrapAssumption
  <2> HIDE DEF e, p
  <2>8. QED
    BY <2>1, <2>7
<1> HIDE DEF S
<1>4. \A k \in 0 .. Len(s) : k \in S
  BY <1>1, <1>2, <1>3, UpTo
<1>5. QED
  BY <1>4 DEF S

\* No record of such a stream ends it.
LEMMA AllAreRecords ==
  ASSUME NEW s \in Seq(Record), WellFormedStream(s)
  PROVE  Records(s) = 1 .. Len(s)
<1>1. \A k \in DOMAIN s : ~(s[k].dv = 0 /\ PcAfter(s)[k - 1] # 0)
  <2>1. TAKE k \in DOMAIN s
  <2>2. CASE k = 1
    BY <2>2, PcFacts
  <2>3. CASE k > 1
    BY <2>3 DEF WellFormedStream
  <2>4. QED
    BY <2>2, <2>3, RecordFacts
<1>2. Terminators(s) = {}
  BY <1>1 DEF Terminators
<1>3. QED
  BY <1>2, RecordFacts DEF Records

\* pcvalue_at takes the first record that ends past the target.
Covers(s, k, target) ==
    /\ k \in Records(s)
    /\ target < PcAfter(s)[k]
    /\ \A j \in Records(s) : target < PcAfter(s)[j] => k <= j

LEMMA RecordsAreInside ==
  ASSUME NEW s \in Seq(Record)
  PROVE  /\ Records(s) \subseteq 1 .. Len(s)
         /\ \A k \in Records(s) : \A j \in 1 .. k - 1 : j \in Records(s)
<1>1. Records(s) \subseteq 1 .. Len(s) /\ Terminators(s) \subseteq 1 .. Len(s)
  BY RecordFacts DEF Records, Terminators
<1>2. ASSUME NEW k \in Records(s), NEW j \in 1 .. k - 1 PROVE j \in Records(s)
  <2>1. k \in Int /\ j \in 1 .. Len(s)
    BY <1>1, RecordFacts
  <2>2. \A e \in Terminators(s) : k < e /\ e \in Int
    BY <1>1 DEF Records
  <2>3. \A e \in Terminators(s) : j < e
    BY <2>1, <2>2
  <2>4. QED
    BY <2>1, <2>3, RecordFacts DEF Records
<1>3. QED
  BY <1>1, <1>2

LEMMA PcValueFacts ==
  ASSUME NEW s \in Seq(Record), NEW target \in Int
  PROVE  \/ /\ pcvalue_at(s, target) = -1
            /\ \A k \in Records(s) : ~(target < PcAfter(s)[k])
         \/ \E k \in 1 .. Len(s) : /\ Covers(s, k, target)
                                   /\ pcvalue_at(s, target) = ValueAfter(s)[k]
<1> DEFINE covering == {k \in Records(s) : target < PcAfter(s)[k]}
<1>1. CASE covering = {}
  BY <1>1 DEF pcvalue_at
<1>2. CASE covering # {}
  <2>1. covering \subseteq Nat
    BY RecordsAreInside
  <2>2. PICK k \in covering : \A j \in covering : k <= j
    BY <1>2, <2>1, LeastNumber
  <2>3. ASSUME NEW x \in covering, \A y \in covering : x <= y PROVE x = k
    <3>1. x <= k /\ k <= x /\ x \in Nat /\ k \in Nat
      BY <2>1, <2>2, <2>3
    <3>2. QED
      BY <3>1
  <2>4. Min(covering) = k
    BY <2>2, <2>3 DEF Min
  <2>5. pcvalue_at(s, target) = ValueAfter(s)[k]
    BY <1>2, <2>4 DEF pcvalue_at
  <2>6. Covers(s, k, target)
    BY <2>2 DEF Covers
  <2>7. k \in 1 .. Len(s)
    BY <2>6, RecordsAreInside DEF Covers
  <2>8. QED
    BY <2>5, <2>6, <2>7
<1>3. QED
  BY <1>1, <1>2

LEMMA PcValueIsNumber ==
  ASSUME NEW s \in Seq(Record), NEW target \in Int
  PROVE  pcvalue_at(s, target) \in Int
<1>1. CASE pcvalue_at(s, target) = -1
  BY <1>1
<1>2. CASE \E k \in 1 .. Len(s) : pcvalue_at(s, target) = ValueAfter(s)[k]
  <2>1. \A k \in 1 .. Len(s) : k \in 0 .. Len(s)
    BY RecordFacts
  <2>2. QED
    BY <1>2, <2>1, ValueFacts
<1>3. QED
  BY <1>1, <1>2, PcValueFacts

\* A parentPc of -1, the largest offset, is in no run.
LEMMA NoRunAtWrap ==
  ASSUME NEW s \in Seq(Record)
  PROVE  pcvalue_at(s, Wrap - 1) = -1
<1>1. \A k \in 1 .. Len(s) : k \in 0 .. Len(s)
  BY RecordFacts
<1>2. \A k \in 1 .. Len(s) : ~(Wrap - 1 < PcAfter(s)[k])
  BY <1>1, PcFacts, WrapAssumption
<1>3. Wrap - 1 \in Int
  BY WrapAssumption
<1>4. QED
  BY <1>2, <1>3, PcValueFacts DEF Covers

\* max_pcvalue is above every value it reads.
LEMMA MaxFacts ==
  ASSUME NEW s \in Seq(Record), NEW limit \in Int
  PROVE  /\ max_pcvalue(s, limit) \in Int
         /\ -1 <= max_pcvalue(s, limit)
         /\ \A k \in Records(s) :
              (\A j \in 1 .. k - 1 : PcAfter(s)[j] < limit) => ValueAfter(s)[k] <= max_pcvalue(s, limit)
<1> DEFINE v == ValueAfter(s)
           read == {k \in Records(s) : \A j \in 1 .. k - 1 : PcAfter(s)[j] < limit}
           All == {-1} \cup {v[k] : k \in read}
<1>1. read \subseteq 1 .. Len(s)
  BY RecordsAreInside
<1>2. \A k \in read : v[k] \in Int
  <2>1. \A k \in 1 .. Len(s) : k \in 0 .. Len(s)
    BY RecordFacts
  <2>2. QED
    BY <1>1, <2>1, ValueFacts
<1>3. max_pcvalue(s, limit) = CHOOSE x \in All : \A y \in All : x >= y
  BY DEF max_pcvalue, Max
<1>4. \A x \in All : x \in Int
  BY <1>2
<1> HIDE DEF v, read
<1>5. \E x \in All : \A y \in All : x >= y
  <2> DEFINE b == -1
  <2>1. b \in Int /\ Len(s) \in Nat
    BY RecordFacts
  <2> HIDE DEF b
  <2>2. \E m \in {b} \cup {v[k] : k \in read} : \A x \in {b} \cup {v[k] : k \in read} : x <= m
    BY <1>1, <1>2, <2>1, GreatestOf
  <2>3. PICK m \in All : \A x \in All : x <= m
    BY <2>2 DEF b
  <2>4. QED
    BY <1>4, <2>3
<1> DEFINE m == max_pcvalue(s, limit)
<1>6. m \in All /\ \A y \in All : m >= y
  BY <1>3, <1>5
<1>7. m \in Int /\ -1 <= m
  BY <1>4, <1>6
<1> HIDE DEF m
<1>8. \A k \in read : v[k] <= m
  BY <1>2, <1>6, <1>7
<1>9. QED
  BY <1>7, <1>8 DEF m, v, read

\* What a lookup below the limit answers was read.
LEMMA LookupIsCounted ==
  ASSUME NEW s \in Seq(Record), NEW target \in Int, NEW limit \in Int, target < limit
  PROVE  pcvalue_at(s, target) <= max_pcvalue(s, limit)
<1>1. CASE pcvalue_at(s, target) = -1
  BY <1>1, MaxFacts
<1>2. ASSUME NEW k \in 1 .. Len(s), Covers(s, k, target), pcvalue_at(s, target) = ValueAfter(s)[k]
      PROVE  pcvalue_at(s, target) <= max_pcvalue(s, limit)
  <2>1. k \in Records(s)
    BY <1>2 DEF Covers
  <2>2. ASSUME NEW j \in 1 .. k - 1 PROVE PcAfter(s)[j] < limit
    <3>1. j \in Records(s) /\ j \in 0 .. Len(s) /\ ~(k <= j)
      BY <2>1, RecordsAreInside, RecordFacts
    <3>2. ~(target < PcAfter(s)[j])
      BY <1>2, <3>1 DEF Covers
    <3>3. PcAfter(s)[j] \in Int
      BY <3>1, PcFacts
    <3>4. QED
      BY <3>2, <3>3
  <2>3. QED
    BY <1>2, <2>1, <2>2, MaxFacts
<1>3. QED
  BY <1>1, <1>2, PcValueFacts

\* The format's reading of a stream finds what the code's does, when the quantum is 1.
LEMMA SameIndex ==
  ASSUME NEW s \in Seq(Record), WellFormedStream(s), RunEnd(s, 1)[Len(s)] < Wrap, NEW o \in Nat
  PROVE  pcvalue_at(s, o) = RuntimeValueAt(s, o, 1)
<1> DEFINE e == RunEnd(s, 1)
           run == {k \in DOMAIN s : e[k - 1] <= o /\ o < e[k] /\ \A j \in 2 .. k : s[j].dv # 0}
<1>1. Records(s) = 1 .. Len(s) /\ DOMAIN s = 1 .. Len(s) /\ Len(s) \in Nat
  BY AllAreRecords, RecordFacts
<1>2. \A k \in 0 .. Len(s) : PcAfter(s)[k] = e[k] /\ e[k] \in Nat
  BY PcIsEnd, RunEndFacts
<1>3. \A k \in 1 .. Len(s) : k \in 0 .. Len(s) /\ k - 1 \in 0 .. Len(s)
  BY <1>1
<1>4. RuntimeValueAt(s, o, 1) = IF run = {} THEN -1 ELSE ValueAfter(s)[CHOOSE k \in run : TRUE]
  BY DEF RuntimeValueAt
<1>5. e[0] = 0
  BY RunEndFacts
<1>6. \A k \in 0 .. Len(s) : \A j \in 0 .. k - 1 : e[j] < e[k]
  BY EndsGrow
<1> HIDE DEF e
<1>7. CASE \A k \in Records(s) : ~(o < PcAfter(s)[k])
  <2>1. run = {}
    BY <1>1, <1>2, <1>3, <1>7
  <2>2. pcvalue_at(s, o) = -1
    BY <1>7, PcValueFacts DEF Covers
  <2>3. QED
    BY <1>4, <2>1, <2>2
<1>8. ASSUME NEW k \in 1 .. Len(s), Covers(s, k, o), pcvalue_at(s, o) = ValueAfter(s)[k]
      PROVE  pcvalue_at(s, o) = RuntimeValueAt(s, o, 1)
  <2>1. o < e[k] /\ \A j \in 1 .. Len(s) : o < e[j] => k <= j
    BY <1>1, <1>2, <1>3, <1>8 DEF Covers
  <2>2. e[k - 1] <= o
    <3>1. CASE k = 1
      BY <1>5, <3>1
    <3>2. CASE k # 1
      <4>1. k - 1 \in 1 .. Len(s) /\ ~(k <= k - 1) /\ e[k - 1] \in Nat
        BY <1>1, <1>2, <1>3, <3>2
      <4>2. QED
        BY <2>1, <4>1
    <3>3. QED
      BY <3>1, <3>2
  <2>3. \A j \in 2 .. k : s[j].dv # 0
    BY <1>1 DEF WellFormedStream
  <2>4. k \in run
    BY <1>1, <2>1, <2>2, <2>3
  <2>5. ASSUME NEW m \in run PROVE m = k
    <3>1. m \in 1 .. Len(s) /\ e[m - 1] <= o /\ o < e[m]
      BY <1>1
    <3>2. k <= m
      BY <2>1, <3>1
    <3>3. CASE k < m
      <4>1. k \in 0 .. Len(s) /\ m - 1 \in 0 .. Len(s) /\ k <= m - 1
        BY <3>1, <3>3, <1>3
      <4>2. e[k] <= e[m - 1]
        <5>1. CASE k = m - 1
          BY <1>2, <4>1, <5>1
        <5>2. CASE k # m - 1
          <6>1. k \in 0 .. (m - 1) - 1
            BY <4>1, <5>2
          <6>2. e[k] < e[m - 1]
            BY <1>6, <4>1, <6>1
          <6>3. QED
            BY <1>2, <4>1, <6>2
        <5>3. QED
          BY <5>1, <5>2
      <4>3. QED
        BY <1>2, <2>1, <3>1, <4>1, <4>2
    <3>4. QED
      BY <3>1, <3>2, <3>3
  <2> HIDE DEF run
  <2>6. run # {} /\ (CHOOSE m \in run : TRUE) = k
    BY <2>4, <2>5
  <2>7. QED
    BY <1>4, <1>8, <2>6
<1>9. QED
  BY <1>7, <1>8, PcValueFacts

-----------------------------------------------------------------------------
(* The walk itself, on any stream and any tree.                            *)

WalkTypes == WalkTypeOK /\ off < size /\ curIdx = pcvalue_at(stream, curOff)

LEMMA WalkInputFacts ==
  ASSUME WalkTypeOK
  PROVE  /\ stream \in Seq(Record)
         /\ Len(tree) \in Nat /\ DOMAIN tree = 1 .. Len(tree)
         /\ \A i \in 0 .. Len(tree) - 1 : parentPc(i) \in -Wrap .. Wrap - 1
         /\ size \in 0 .. Wrap - 1
         /\ off \in Nat
         /\ Wrap \in Nat \ {0}
         /\ \A i \in Int : Mapped(i) <=> i \in 0 .. Len(tree) - 1
<1>1. /\ stream \in Seq(Record) /\ tree \in Seq(-Wrap .. Wrap - 1)
      /\ size \in 0 .. Wrap - 1 /\ off \in Nat /\ Wrap \in Nat \ {0}
  BY WrapAssumption DEF WalkTypeOK, Record
<1>2. Len(tree) \in Nat /\ DOMAIN tree = 1 .. Len(tree)
  BY <1>1
<1>3. \A k \in 1 .. Len(tree) : tree[k] \in -Wrap .. Wrap - 1
  BY <1>1
<1>4. \A i \in 0 .. Len(tree) - 1 : i + 1 \in 1 .. Len(tree)
  BY <1>2
<1>5. \A i \in 0 .. Len(tree) - 1 : parentPc(i) \in -Wrap .. Wrap - 1
  BY <1>3, <1>4 DEF parentPc
<1>6. \A i \in Int : Mapped(i) <=> i \in 0 .. Len(tree) - 1
  BY <1>2 DEF Mapped
<1>7. QED
  BY <1>1, <1>2, <1>5, <1>6

LEMMA WalkInitTypes == WalkInit => WalkTypes /\ frames = <<>>
<1> SUFFICES ASSUME WalkInit PROVE WalkTypes /\ frames = <<>>
  OBVIOUS
<1>1. /\ stream \in Streams /\ tree \in Trees /\ size \in Sizes /\ off \in Offsets
      /\ off < size /\ curOff = off /\ curIdx = pcvalue_at(stream, off)
      /\ frames = <<>> /\ done = FALSE
  BY DEF WalkInit
<1>2. /\ stream \in Seq(Record) /\ tree \in Seq(-Wrap .. Wrap - 1)
      /\ size \in 0 .. Wrap - 1 /\ off \in Nat /\ MaxDepth \in Nat
  BY <1>1, WalkAssumption DEF Record
<1>3. curIdx \in Int
  BY <1>1, <1>2, PcValueIsNumber
<1>4. curOff \in 0 .. Wrap - 1
  BY <1>1, <1>2, WrapAssumption
<1>5. Len(frames) = 0 /\ frames \in Seq(0 .. Len(tree) - 1)
  BY <1>1
<1>6. curIdx = pcvalue_at(stream, curOff) /\ done \in BOOLEAN /\ Len(frames) <= MaxDepth
  <2>1. curIdx = pcvalue_at(stream, curOff)
    BY <1>1
  <2>2. done \in BOOLEAN
    BY <1>1
  <2>3. Len(frames) <= MaxDepth
    BY <1>2, <1>5
  <2>4. QED
    BY <2>1, <2>2, <2>3
<1>7. WalkTypeOK
  BY <1>2, <1>3, <1>4, <1>5, <1>6 DEF WalkTypeOK, Record
<1>8. QED
  BY <1>1, <1>6, <1>7 DEF WalkTypes

\* One frame more: what is pushed is the index in hand, an entry of the tree.
LEMMA WalkOne ==
  ASSUME WalkTypes, Walk
  PROVE  /\ WalkTypes'
         /\ curIdx \in 0 .. Len(tree) - 1 /\ curIdx <= MaxIndex
         /\ Len(frames) < MaxDepth /\ Len(frames) \in Nat
         /\ Len(frames') = Len(frames) + 1
         /\ \A k \in 1 .. Len(frames) : frames'[k] = frames[k]
         /\ frames'[Len(frames) + 1] = curIdx
         /\ DOMAIN frames = 1 .. Len(frames) /\ DOMAIN frames' = 1 .. Len(frames) + 1
         /\ curOff' = AsU32(parentPc(curIdx))
         /\ parentPc(curIdx) = -1 => curIdx' = -1
         /\ UNCHANGED <<input, done>>
<1>1. /\ stream \in Seq(Record) /\ Len(tree) \in Nat
      /\ \A i \in 0 .. Len(tree) - 1 : parentPc(i) \in -Wrap .. Wrap - 1
      /\ Wrap \in Nat \ {0} /\ size \in 0 .. Wrap - 1
  BY WalkInputFacts DEF WalkTypes
<1>2. /\ curIdx \in Int /\ ~done /\ curIdx >= 0 /\ Len(frames) < MaxDepth /\ curIdx <= MaxIndex /\ Mapped(curIdx)
      /\ frames' = Append(frames, curIdx) /\ curOff' = AsU32(parentPc(curIdx))
      /\ curIdx' = pcvalue_at(stream, curOff') /\ UNCHANGED <<input, done>>
  BY DEF Walk, Walking, WalkTypes, WalkTypeOK
<1>3. curIdx \in 0 .. Len(tree) - 1
  BY <1>2, WalkInputFacts DEF WalkTypes
<1>4. parentPc(curIdx) \in -Wrap .. Wrap - 1
  BY <1>1, <1>3
<1>5. curOff' \in 0 .. Wrap - 1
  BY <1>1, <1>2, <1>4 DEF AsU32
<1>6. curIdx' \in Int
  BY <1>1, <1>2, <1>5, PcValueIsNumber
<1>7. frames \in Seq(0 .. Len(tree) - 1)
  BY DEF WalkTypes, WalkTypeOK
<1>8. /\ Len(frames) \in Nat /\ Len(frames') = Len(frames) + 1
      /\ DOMAIN frames = 1 .. Len(frames) /\ DOMAIN frames' = 1 .. Len(frames) + 1
      /\ \A k \in 1 .. Len(frames) : frames'[k] = frames[k]
      /\ frames'[Len(frames) + 1] = curIdx /\ frames' \in Seq(0 .. Len(tree) - 1)
  BY <1>2, <1>3, <1>7, AppendFacts
<1>10. Len(frames') <= MaxDepth
  BY <1>2, <1>8, WalkAssumption
<1>11. ASSUME parentPc(curIdx) = -1 PROVE curIdx' = -1
  <2>1. curOff' = Wrap - 1
    BY <1>1, <1>2, <1>11 DEF AsU32
  <2>2. QED
    BY <1>1, <1>2, <2>1, NoRunAtWrap
<1>12. /\ stream' = stream /\ tree' = tree /\ size' = size /\ off' = off /\ done' = done
  BY <1>2 DEF input
<1>13. WalkTypes'
  BY <1>2, <1>5, <1>6, <1>8, <1>10, <1>12 DEF WalkTypes, WalkTypeOK
<1>14. QED
  BY <1>2, <1>3, <1>8, <1>11, <1>13

LEMMA WalkTypesInductive == WalkTypes /\ [WalkNext]_walkVars => WalkTypes'
<1> SUFFICES ASSUME WalkTypes, [WalkNext]_walkVars PROVE WalkTypes'
  OBVIOUS
<1>1. CASE Walk
  BY <1>1, WalkOne
<1>2. CASE Finish
  BY <1>2 DEF Finish, WalkTypes, WalkTypeOK, input
<1>3. CASE UNCHANGED walkVars
  BY <1>3 DEF walkVars, WalkTypes, WalkTypeOK
<1>4. QED
  BY <1>1, <1>2, <1>3 DEF WalkNext

LEMMA MinOfTwo ==
  ASSUME NEW a \in Int, NEW b \in Int
  PROVE  Min({a, b}) = IF a <= b THEN a ELSE b
<1> DEFINE m == IF a <= b THEN a ELSE b
<1>1. m \in {a, b} /\ \A y \in {a, b} : m <= y
  OBVIOUS
<1>2. \A x \in {a, b} : (\A y \in {a, b} : x <= y) => x = m
  OBVIOUS
<1> HIDE DEF m
<1>3. Min({a, b}) = m
  BY <1>1, <1>2 DEF Min
<1>4. QED
  BY <1>3 DEF m

\* How many entries decode_inline_tree reads, and which of them are there.
LEMMA EntriesFacts ==
  ASSUME WalkTypeOK
  PROVE  /\ n_entries(stream, size) \in Int
         /\ n_entries(stream, size) = IF max_pcvalue(stream, size) + 1 <= MaxIndex
                                      THEN max_pcvalue(stream, size) + 1 ELSE MaxIndex
         /\ max_pcvalue(stream, size) \in Int
         /\ Decoded = {i \in 0 .. n_entries(stream, size) - 1 : i < Len(tree)}
<1>1. stream \in Seq(Record) /\ size \in Int /\ Len(tree) \in Nat /\ MaxIndex \in Nat
  BY WalkInputFacts, WalkAssumption
<1>2. max_pcvalue(stream, size) \in Int
  BY <1>1, MaxFacts
<1>3. n_entries(stream, size) = IF max_pcvalue(stream, size) + 1 <= MaxIndex
                                THEN max_pcvalue(stream, size) + 1 ELSE MaxIndex
  BY <1>1, <1>2, MinOfTwo DEF n_entries
<1> HIDE DEF n_entries
<1>4. n_entries(stream, size) \in Int
  BY <1>1, <1>2, <1>3
<1>5. \A i \in 0 .. n_entries(stream, size) - 1 : (\A j \in 0 .. i : Mapped(j)) <=> i < Len(tree)
  <2>1. TAKE i \in 0 .. n_entries(stream, size) - 1
  <2>2. \A j \in 0 .. i : Mapped(j) <=> j \in 0 .. Len(tree) - 1
    BY <1>4, WalkInputFacts
  <2>3. i \in 0 .. i /\ i \in Nat
    BY <1>4
  <2>4. (\A j \in 0 .. i : Mapped(j)) => i < Len(tree)
    BY <1>1, <2>2, <2>3
  <2>5. i < Len(tree) => \A j \in 0 .. i : Mapped(j)
    BY <1>1, <2>2, <2>3
  <2>6. QED
    BY <2>4, <2>5
<1>6. Decoded = {i \in 0 .. n_entries(stream, size) - 1 : i < Len(tree)}
  BY <1>5 DEF Decoded
<1>7. QED
  BY <1>2, <1>3, <1>4, <1>6

\* The index past the last one decode_inline_tree admits, which the walk still follows, has
\* a parentPc nobody checked.  By then the whole tree up to the cap is there.
Full == n_entries(stream, size) = MaxIndex /\ MaxIndex < Len(tree)

\* As long as the tree is accepted, the walk is at an offset inside the function, at its
\* end, or in a tree that fills the cap.
TreeInv ==
    ~DecodeRefused =>
      /\ \A k \in 1 .. Len(frames) : frames[k] \in Decoded \/ frames[k] = MaxIndex
      /\ curOff < size \/ curIdx = -1 \/ Full

LEMMA WalkInitTree == WalkInit => TreeInv
<1> SUFFICES ASSUME WalkInit, NEW k \in 1 .. Len(frames) PROVE FALSE
  BY DEF WalkInit, TreeInv
<1>1. Len(frames) = 0
  BY DEF WalkInit
<1>2. QED
  BY <1>1

\* Nothing the decoder sees changes on the way.
LEMMA SameTree ==
  ASSUME UNCHANGED input
  PROVE  /\ Decoded' = Decoded /\ DecodeRefused' = DecodeRefused /\ Full' = Full
         /\ CompilerMade' = CompilerMade /\ RuntimeStack' = RuntimeStack /\ Outward' = Outward
<1>1. stream' = stream /\ tree' = tree /\ size' = size /\ off' = off
  BY DEF input
<1>2. Decoded' = Decoded
  BY <1>1 DEF Decoded, Mapped
<1>3. DecodeRefused' = DecodeRefused
  BY <1>1, <1>2 DEF DecodeRefused, parentPc
<1>4. Full' = Full
  BY <1>1 DEF Full
<1>5. Outward' = Outward
  BY <1>1 DEF Outward, RuntimeParent, RuntimeIndex, parentPc
<1>6. RuntimeStack' = RuntimeStack
  BY <1>1, <1>5 DEF RuntimeStack
<1>7. CompilerMade' = CompilerMade
  BY <1>1 DEF CompilerMade, RuntimeParent, RuntimeIndex, parentPc
<1>8. QED
  BY <1>2, <1>3, <1>4, <1>5, <1>6, <1>7

LEMMA WalkTree == WalkTypes /\ TreeInv /\ Walk => TreeInv'
<1> SUFFICES ASSUME WalkTypes, TreeInv, Walk PROVE TreeInv'
  OBVIOUS
<1>0. UNCHANGED input
  BY DEF Walk
<1>r. DecodeRefused' = DecodeRefused
  BY <1>0, SameTree
<1> SUFFICES ASSUME ~DecodeRefused
             PROVE  /\ (\A k \in 1 .. Len(frames) : frames[k] \in Decoded \/ frames[k] = MaxIndex)'
                    /\ (curOff < size \/ curIdx = -1 \/ Full)'
  BY <1>r DEF TreeInv
<1> DEFINE n == n_entries(stream, size)
           m == max_pcvalue(stream, size)
<1>1. /\ stream \in Seq(Record) /\ size \in Int /\ Len(tree) \in Nat /\ MaxIndex \in Nat
      /\ curOff \in Int /\ curIdx \in 0 .. Len(tree) - 1 /\ curIdx <= MaxIndex
      /\ curIdx = pcvalue_at(stream, curOff)
  BY WalkInputFacts, WalkOne, WalkAssumption, WrapAssumption DEF WalkTypes, WalkTypeOK
<1>2. /\ n \in Int /\ m \in Int /\ n = IF m + 1 <= MaxIndex THEN m + 1 ELSE MaxIndex
      /\ Decoded = {i \in 0 .. n - 1 : i < Len(tree)}
  BY EntriesFacts DEF WalkTypes
<1>3. curOff < size => curIdx <= m
  BY <1>1, LookupIsCounted
<1>4. curIdx \in Decoded \/ (curIdx = MaxIndex /\ Full)
  <2>1. curOff < size \/ Full
    BY <1>1 DEF TreeInv
  <2> HIDE DEF n, m
  <2>2. CASE curOff < size
    <3>1. CASE curIdx < n
      BY <1>1, <1>2, <3>1
    <3>2. CASE ~(curIdx < n)
      <4>1. n = MaxIndex /\ curIdx = MaxIndex
        BY <1>1, <1>2, <1>3, <2>2, <3>2
      <4>2. QED
        BY <1>1, <4>1 DEF Full, n
    <3>3. QED
      BY <3>1, <3>2
  <2>3. CASE Full
    <3>1. n = MaxIndex
      BY <2>3 DEF Full, n
    <3>2. CASE curIdx < MaxIndex
      BY <1>1, <1>2, <3>1, <3>2
    <3>3. CASE ~(curIdx < MaxIndex)
      BY <1>1, <2>3, <3>3
    <3>4. QED
      BY <3>2, <3>3
  <2>4. QED
    BY <2>1, <2>2, <2>3
<1>5. /\ Len(frames) \in Nat /\ Len(frames') = Len(frames) + 1
      /\ \A k \in 1 .. Len(frames) : frames'[k] = frames[k]
      /\ frames'[Len(frames) + 1] = curIdx
      /\ curOff' = AsU32(parentPc(curIdx)) /\ (parentPc(curIdx) = -1 => curIdx' = -1)
      /\ UNCHANGED input
  BY WalkOne
<1>6. Decoded' = Decoded /\ Full' = Full
  BY <1>5, SameTree
<1>7. ASSUME NEW k \in 1 .. Len(frames') PROVE frames'[k] \in Decoded \/ frames'[k] = MaxIndex
  <2>1. k \in 1 .. Len(frames) \/ k = Len(frames) + 1
    BY <1>5
  <2>2. CASE k \in 1 .. Len(frames)
    BY <1>5, <2>2 DEF TreeInv
  <2>3. CASE k = Len(frames) + 1
    BY <1>4, <1>5, <2>3
  <2>4. QED
    BY <2>1, <2>2, <2>3
<1>8. curOff' < size \/ curIdx' = -1 \/ Full
  <2>1. CASE curIdx \in Decoded
    <3>1. parentPc(curIdx) = -1 \/ parentPc(curIdx) \in 0 .. size - 1
      BY <2>1 DEF DecodeRefused
    <3>2. CASE parentPc(curIdx) = -1
      BY <1>5, <3>2
    <3>3. CASE parentPc(curIdx) \in 0 .. size - 1
      <4>1. curOff' = parentPc(curIdx)
        BY <1>5, <3>3 DEF AsU32
      <4>2. QED
        BY <1>1, <3>3, <4>1
    <3>4. QED
      BY <3>1, <3>2, <3>3
  <2>2. CASE Full
    BY <2>2
  <2>3. QED
    BY <1>4, <2>1, <2>2
<1>9. size' = size
  BY <1>5 DEF input
<1>10. QED
  BY <1>6, <1>7, <1>8, <1>9

LEMMA TreeInvInductive == WalkTypes /\ TreeInv /\ [WalkNext]_walkVars => TreeInv'
<1> SUFFICES ASSUME WalkTypes, TreeInv, [WalkNext]_walkVars PROVE TreeInv'
  OBVIOUS
<1>1. CASE Walk
  BY <1>1, WalkTree
<1>2. CASE Finish \/ UNCHANGED walkVars
  <2>1. UNCHANGED input /\ frames' = frames /\ curOff' = curOff /\ curIdx' = curIdx /\ size' = size
    BY <1>2 DEF Finish, walkVars, input
  <2>2. Decoded' = Decoded /\ DecodeRefused' = DecodeRefused /\ Full' = Full
    BY <2>1, SameTree
  <2>3. QED
    BY <2>1, <2>2 DEF TreeInv
<1>3. QED
  BY <1>1, <1>2 DEF WalkNext

\* The compiler's trees: what the format's reading of the stream can answer.
LEMMA RuntimeFacts ==
  ASSUME WalkTypeOK, CompilerMade, NEW o \in Nat
  PROVE  /\ RuntimeIndex(o) \in -1 .. Len(tree) - 1
         /\ RuntimeIndex(o) < MaxIndex \/ RuntimeIndex(o) = -1
         /\ o < size => RuntimeIndex(o) <= max_pcvalue(stream, size)
<1> DEFINE e == RunEnd(stream, Quantum)
           p == PcAfter(stream)
           v == ValueAfter(stream)
           run == {k \in DOMAIN stream : e[k - 1] <= o /\ o < e[k] /\ \A j \in 2 .. k : stream[j].dv # 0}
<1>1. /\ stream \in Seq(Record) /\ size \in Int /\ Len(tree) \in Nat /\ MaxIndex \in Nat
      /\ Quantum \in {1, 4} /\ DOMAIN stream = 1 .. Len(stream) /\ Len(stream) \in Nat
      /\ WellFormedStream(stream)
  BY WalkInputFacts, WalkAssumption, RecordFacts DEF CompilerMade
<1>2. RuntimeIndex(o) = IF run = {} THEN -1 ELSE v[CHOOSE k \in run : TRUE]
  BY DEF RuntimeIndex, RuntimeValueAt
<1>3. \A k \in 0 .. Len(stream) : p[k] <= e[k] /\ p[k] \in Int /\ e[k] \in Int /\ v[k] \in Int
  BY <1>1, PcAtMostEnd, PcFacts, RunEndFacts, ValueFacts
<1>4. \A k \in DOMAIN stream : v[k] \in -1 .. Min({Len(tree), MaxIndex}) - 1
  BY DEF CompilerMade
<1>5. Min({Len(tree), MaxIndex}) = IF Len(tree) <= MaxIndex THEN Len(tree) ELSE MaxIndex
  BY <1>1, MinOfTwo
<1>6. \A k \in DOMAIN stream : v[k] \in -1 .. Len(tree) - 1 /\ (v[k] < MaxIndex \/ v[k] = -1)
  <2> HIDE DEF v
  <2>1. QED
    BY <1>1, <1>4, <1>5
<1>7. Records(stream) = 1 .. Len(stream)
  BY <1>1, AllAreRecords
<1>8. -1 <= max_pcvalue(stream, size)
  BY <1>1, MaxFacts
<1>9. CASE run = {}
  BY <1>1, <1>2, <1>8, <1>9
<1>10. CASE run # {}
  <2>1. PICK k \in run : RuntimeIndex(o) = v[k]
    BY <1>2, <1>10
  <2>2. k \in 1 .. Len(stream) /\ e[k - 1] <= o
    BY <1>1
  <2>3. ASSUME o < size PROVE v[k] <= max_pcvalue(stream, size)
    <3>1. ASSUME NEW j \in 1 .. k - 1 PROVE p[j] < size
      <4>1. j \in 0 .. Len(stream) /\ k - 1 \in 0 .. Len(stream)
        BY <1>1, <2>2
      <4>2. e[j] <= e[k - 1]
        <5>1. CASE j = k - 1
          BY <1>3, <4>1, <5>1
        <5>2. CASE j # k - 1
          <6>1. j \in 0 .. (k - 1) - 1
            BY <2>2, <5>2
          <6>2. e[j] < e[k - 1]
            BY <1>1, <4>1, <6>1, EndsGrow
          <6> HIDE DEF e
          <6>3. QED
            BY <1>3, <4>1, <6>2
        <5>3. QED
          BY <5>1, <5>2
      <4>3. p[j] <= e[j] /\ p[j] \in Int /\ e[j] \in Int /\ e[k - 1] \in Int
        BY <1>3, <4>1
      <4> DEFINE pj == p[j]
                 ej == e[j]
                 ek == e[k - 1]
      <4>4. pj <= ej /\ ej <= ek /\ ek <= o /\ pj \in Int /\ ej \in Int /\ ek \in Int
        BY <2>2, <4>2, <4>3
      <4>5. size \in Int
        BY <1>1
      <4> HIDE DEF pj, ej, ek
      <4>6. pj < size
        BY <2>3, <4>4, <4>5
      <4>7. QED
        BY <4>6 DEF pj
    <3>2. k \in Records(stream)
      BY <1>7, <2>2
    <3>3. QED
      BY <1>1, <3>1, <3>2, MaxFacts
  <2>4. QED
    BY <1>1, <1>6, <2>1, <2>2, <2>3
<1>11. QED
  BY <1>9, <1>10

\* The readers of a tree and its streams agree on what is there.
LEMMA AcceptedByReaders ==
  ASSUME WalkTypes, TreeInv
  PROVE  ReadersAgree
<1>1. WalkStaysInTree
  <2>1. DOMAIN frames = 1 .. Len(frames)
    BY DEF WalkTypes, WalkTypeOK
  <2>2. QED
    BY <2>1 DEF WalkStaysInTree, TreeInv
<1>2. ASSUME CompilerMade PROVE ~DecodeRefused
  <2>1. \A i \in 0 .. Len(tree) - 1 : parentPc(i) \in -1 .. size - 1
    BY <1>2 DEF CompilerMade
  <2>2. ASSUME NEW i \in Decoded PROVE parentPc(i) = -1 \/ parentPc(i) \in 0 .. size - 1
    <3>1. i \in 0 .. Len(tree) - 1
      BY EntriesFacts, WalkInputFacts DEF WalkTypes
    <3>2. parentPc(i) \in -1 .. size - 1 /\ size \in Int
      BY <2>1, <3>1, WalkInputFacts DEF WalkTypes
    <3>3. QED
      BY <3>2
  <2>3. QED
    BY <2>2 DEF DecodeRefused
<1>3. ASSUME CompilerMade, NEW o \in 0 .. size - 1, RuntimeIndex(o) # -1
      PROVE  RuntimeIndex(o) \in Decoded
  <2>1. o \in Nat /\ o < size /\ Len(tree) \in Nat /\ MaxIndex \in Nat
    BY WalkInputFacts, WalkAssumption DEF WalkTypes
  <2>2. /\ RuntimeIndex(o) \in -1 .. Len(tree) - 1
        /\ RuntimeIndex(o) < MaxIndex \/ RuntimeIndex(o) = -1
        /\ RuntimeIndex(o) <= max_pcvalue(stream, size)
    BY <1>3, <2>1, RuntimeFacts DEF WalkTypes
  <2>3. QED
    BY <1>3, <2>1, <2>2, EntriesFacts DEF WalkTypes
<1>4. EntryReadersAgree
  <2> SUFFICES ASSUME WellFormedStream(stream), NEW f \in first_pcvalue(stream)
               PROVE  pcvalue_at(stream, 0) = f
    BY DEF EntryReadersAgree
  <2>1. stream \in Seq(Record) /\ DOMAIN stream = 1 .. Len(stream) /\ Len(stream) \in Nat
    BY WalkInputFacts, RecordFacts DEF WalkTypes
  <2>2. 1 \in 1 .. Len(stream) /\ f = -1 + stream[1].dv
    BY <2>1 DEF first_pcvalue
  <2>3. 0 < PcAfter(stream)[1]
    <3>1. stream[1].dpc \in 1 .. Wrap - 1
      BY <2>1, <2>2, RecordFacts, WrapAssumption DEF WellFormedStream
    <3>2. PcAfter(stream)[1] = (0 + stream[1].dpc) % Wrap
      BY <2>1, <2>2, PcFacts
    <3>3. (0 + stream[1].dpc) = stream[1].dpc
      BY <3>1, WrapAssumption
    <3>4. stream[1].dpc % Wrap = stream[1].dpc
      BY <3>1, WrapAssumption, SmallResidue
    <3>5. QED
      BY <3>1, <3>2, <3>3, <3>4, WrapAssumption
  <2>4. 1 \in Records(stream)
    BY <2>1, <2>2, AllAreRecords
  <2>5. PICK k \in 1 .. Len(stream) : Covers(stream, k, 0) /\ pcvalue_at(stream, 0) = ValueAfter(stream)[k]
    BY <2>1, <2>3, <2>4, PcValueFacts
  <2>6. k <= 1
    BY <2>3, <2>4, <2>5 DEF Covers
  <2>7. k = 1
    BY <2>1, <2>6
  <2>8. ValueAfter(stream)[1] = -1 + stream[1].dv
    BY <2>1, <2>2, ValueFacts
  <2>9. QED
    BY <2>2, <2>5, <2>7, <2>8
<1>5. DecodeKeepsCompilerTrees
  BY <1>2, <1>3 DEF DecodeKeepsCompilerTrees
<1>6. QED
  BY <1>1, <1>4, <1>5 DEF ReadersAgree, StreamReadersAgree

-----------------------------------------------------------------------------
(* The stack on what the compiler emits.                                   *)

\* One step outwards, as the chain is defined.
OutwardStep(x) == IF x = -1 THEN -1 ELSE RuntimeParent(x)

LEMMA ParentFacts ==
  ASSUME WalkTypeOK, CompilerMade, NEW x \in 0 .. Len(tree) - 1
  PROVE  /\ RuntimeParent(x) \in -1 .. x - 1
         /\ RuntimeParent(x) < MaxIndex \/ RuntimeParent(x) = -1
<1>1. parentPc(x) \in -1 .. size - 1 /\ RuntimeParent(x) < x
  BY DEF CompilerMade
<1>2. CASE parentPc(x) = -1
  BY <1>1, <1>2 DEF RuntimeParent
<1>3. CASE parentPc(x) # -1
  <2>1. parentPc(x) \in Nat
    BY <1>1, <1>3, WalkInputFacts
  <2>2. RuntimeParent(x) = RuntimeIndex(parentPc(x))
    BY <1>3 DEF RuntimeParent
  <2>3. /\ RuntimeIndex(parentPc(x)) \in -1 .. Len(tree) - 1
        /\ RuntimeIndex(parentPc(x)) < MaxIndex \/ RuntimeIndex(parentPc(x)) = -1
    BY <2>1, RuntimeFacts
  <2> DEFINE r == RuntimeParent(x)
  <2>4. r \in -1 .. Len(tree) - 1 /\ (r < MaxIndex \/ r = -1) /\ r < x /\ Len(tree) \in Nat
    BY <1>1, <2>2, <2>3, WalkInputFacts
  <2> HIDE DEF r
  <2>5. r \in -1 .. x - 1
    BY <2>4
  <2>6. QED
    BY <2>4, <2>5 DEF r
<1>4. QED
  BY <1>2, <1>3

\* The chain of indices falls until it has left the tree.
LEMMA OutwardFacts ==
  ASSUME WalkTypeOK, CompilerMade
  PROVE  /\ Outward[0] = RuntimeIndex(off)
         /\ \A k \in 1 .. Len(tree) : Outward[k] = OutwardStep(Outward[k - 1])
         /\ \A k \in 0 .. Len(tree) : Outward[k] \in -1 .. Len(tree) - 1
         /\ \A k \in 0 .. Len(tree) : Outward[k] # -1 => Outward[k] <= Len(tree) - 1 - k
         /\ \A k \in 0 .. Len(tree) : Outward[k] # -1 => Outward[k] < MaxIndex
<1> DEFINE n == Len(tree)
           U == -1 .. n - 1
           b == RuntimeIndex(off)
           step == [e \in (1 .. n) \X U |-> OutwardStep(e[2])]
           F(g) == [k \in 0 .. n |-> IF k = 0 THEN b ELSE IF g[k - 1] = -1 THEN -1 ELSE RuntimeParent(g[k - 1])]
           v == Outward
<1>1. n \in Nat /\ off \in Nat
  BY WalkInputFacts
<1>2. b \in U /\ (b < MaxIndex \/ b = -1)
  BY <1>1, RuntimeFacts
<1>3. ASSUME NEW x \in U
      PROVE /\ OutwardStep(x) \in U
            /\ OutwardStep(x) # -1 => OutwardStep(x) < x /\ OutwardStep(x) < MaxIndex /\ x # -1
  <2>1. CASE x = -1
    BY <2>1, <1>1 DEF OutwardStep
  <2>2. CASE x # -1
    <3>1. x \in 0 .. n - 1
      BY <1>1, <2>2
    <3>2. RuntimeParent(x) \in -1 .. x - 1 /\ (RuntimeParent(x) < MaxIndex \/ RuntimeParent(x) = -1)
      BY <3>1, ParentFacts
    <3>3. OutwardStep(x) = RuntimeParent(x)
      BY <2>2 DEF OutwardStep
    <3>4. QED
      BY <1>1, <3>1, <3>2, <3>3
  <2>3. QED
    BY <2>1, <2>2
<1>4. v = CHOOSE g : g = F(g)
  BY DEF Outward
<1> HIDE DEF n, v, b
<1>5. \E g : g = F(g)
  <2>1. step \in [(1 .. n) \X U -> U]
    BY <1>3
  <2>2. \A k \in 1 .. n, x \in U : step[<<k, x>>] = OutwardStep(x)
    OBVIOUS
  <2> HIDE DEF step, U
  <2>3. \E f : Solves(f, n, U, b, step)
    BY <1>1, <1>2, <2>1, RecurrenceExists
  <2>4. PICK f : f \in [0 .. n -> U] /\ f[0] = b /\ \A k \in 1 .. n : f[k] = step[<<k, f[k - 1]>>]
    BY <2>3 DEF Solves
  <2>5. \A k \in 1 .. n : f[k] = OutwardStep(f[k - 1])
    <3>1. TAKE k \in 1 .. n
    <3>2. k - 1 \in 0 .. n
      BY <1>1
    <3>3. f[k - 1] \in U
      BY <2>4, <3>2
    <3>4. QED
      BY <2>2, <2>4, <3>3
  <2>6. f = F(f)
    BY <2>4, <2>5 DEF OutwardStep
  <2>7. QED
    BY <2>6
<1>6. v = F(v)
  BY <1>4, <1>5
<1>7. v[0] = b
  BY <1>1, <1>6
<1>8. \A k \in 1 .. n : v[k] = OutwardStep(v[k - 1])
  BY <1>1, <1>6 DEF OutwardStep
<1> DEFINE S == {k \in 0 .. n : v[k] \in U /\ (v[k] # -1 => v[k] <= n - 1 - k /\ v[k] < MaxIndex)}
<1>9. 0 \in S
  BY <1>1, <1>2, <1>7
<1>10. ASSUME NEW k \in 1 .. n, k - 1 \in S PROVE k \in S
  <2> DEFINE x == v[k - 1]
             y == v[k]
  <2>1. x \in U /\ (x # -1 => x <= n - 1 - (k - 1))
    BY <1>10
  <2>2. y \in U /\ (y # -1 => y < x /\ y < MaxIndex /\ x # -1)
    BY <1>3, <1>8, <2>1
  <2> HIDE DEF x, y
  <2>3. y # -1 => y <= n - 1 - k
    BY <1>1, <2>1, <2>2
  <2>4. QED
    BY <1>1, <2>2, <2>3 DEF y
<1> HIDE DEF S
<1>11. \A k \in 0 .. n : k \in S
  BY <1>1, <1>9, <1>10, UpTo
<1>12. QED
  BY <1>7, <1>8, <1>11 DEF S, n, b, v

\* The stack is the first part of that chain, whose next index the walk holds.
StackInv ==
    CompilerMade =>
      /\ Len(frames) <= Len(tree)
      /\ \A k \in 1 .. Len(frames) : frames[k] = Outward[k - 1] /\ Outward[k - 1] # -1
      /\ curIdx = Outward[Len(frames)]
      /\ done => curIdx = -1 \/ Len(frames) = MaxDepth

\* With a quantum of 1 the code's lookup is the format's.
LEMMA LookupIsRuntimes ==
  ASSUME WalkTypeOK, CompilerMade, Quantum = 1, NEW o \in Nat
  PROVE  pcvalue_at(stream, o) = RuntimeIndex(o)
<1>1. stream \in Seq(Record) /\ size < Wrap
  BY WalkInputFacts, WrapAssumption
<1>2. WellFormedStream(stream) /\ RunEnd(stream, 1)[Len(stream)] < Wrap
  BY <1>1 DEF CompilerMade
<1>3. QED
  BY <1>1, <1>2, SameIndex DEF RuntimeIndex

LEMMA WalkInitStack == Quantum = 1 /\ WalkInit => StackInv
<1> SUFFICES ASSUME Quantum = 1, WalkInit, CompilerMade PROVE StackInv
  BY DEF StackInv
<1>1. WalkTypeOK /\ frames = <<>> /\ off \in Nat /\ Len(tree) \in Nat
  BY WalkInitTypes, WalkInputFacts DEF WalkTypes
<1>2. curIdx = pcvalue_at(stream, off) /\ ~done
  BY DEF WalkInit
<1>3. curIdx = Outward[0]
  BY <1>1, <1>2, LookupIsRuntimes, OutwardFacts
<1>4. Len(frames) = 0
  BY <1>1
<1>5. QED
  BY <1>1, <1>2, <1>3, <1>4 DEF StackInv

LEMMA WalkStack == Quantum = 1 /\ WalkTypes /\ StackInv /\ Walk => StackInv'
<1> SUFFICES ASSUME Quantum = 1, WalkTypes, StackInv, Walk PROVE StackInv'
  OBVIOUS
<1>0. UNCHANGED input
  BY DEF Walk
<1>r. CompilerMade' = CompilerMade /\ Outward' = Outward /\ tree' = tree
  BY <1>0, SameTree DEF input
<1>c. CASE ~CompilerMade
  BY <1>r, <1>c DEF StackInv
<1>d. CASE CompilerMade
  <2> DEFINE n == Len(frames)
             c == Outward
  <2>1. WalkTypeOK
    BY DEF WalkTypes
  <2>2. /\ curIdx \in 0 .. Len(tree) - 1 /\ n \in Nat /\ Len(frames') = n + 1 /\ Len(tree) \in Nat
        /\ \A k \in 1 .. n : frames'[k] = frames[k]
        /\ frames'[n + 1] = curIdx
        /\ curOff' = AsU32(parentPc(curIdx)) /\ (parentPc(curIdx) = -1 => curIdx' = -1)
    BY WalkOne, WalkInputFacts DEF WalkTypes
  <2>3. curIdx' = pcvalue_at(stream, curOff') /\ ~done'
    BY DEF Walk, Walking
  <2>4. /\ n <= Len(tree) /\ \A k \in 1 .. n : frames[k] = c[k - 1] /\ c[k - 1] # -1
        /\ curIdx = c[n]
    BY <1>d DEF StackInv
  <2>5. n <= Len(tree) - 1
    <3>1. n \in 0 .. Len(tree)
      BY <2>2, <2>4
    <3>2. c[n] # -1 => c[n] <= Len(tree) - 1 - n
      BY <1>d, <2>1, <3>1, OutwardFacts
    <3> HIDE DEF c, n
    <3>3. QED
      BY <2>2, <2>4, <3>2
  <2>6. curIdx' = RuntimeParent(curIdx)
    <3>1. CASE parentPc(curIdx) = -1
      BY <2>2, <3>1 DEF RuntimeParent
    <3>2. CASE parentPc(curIdx) # -1
      <4>1. parentPc(curIdx) \in 0 .. size - 1 /\ parentPc(curIdx) \in Nat
        BY <1>d, <2>1, <2>2, <3>2, WalkInputFacts DEF CompilerMade
      <4>2. curOff' = parentPc(curIdx)
        BY <2>2, <4>1 DEF AsU32
      <4>3. QED
        BY <1>d, <2>1, <2>3, <3>2, <4>1, <4>2, LookupIsRuntimes DEF RuntimeParent
    <3>3. QED
      BY <3>1, <3>2
  <2>7. c[n + 1] = curIdx'
    <3>1. n + 1 \in 1 .. Len(tree) /\ (n + 1) - 1 = n
      BY <2>2, <2>5
    <3>2. c[n + 1] = OutwardStep(c[n])
      BY <1>d, <2>1, <3>1, OutwardFacts
    <3>3. curIdx # -1
      BY <2>2
    <3>4. QED
      BY <2>4, <2>6, <3>2, <3>3 DEF OutwardStep
  <2>8. ASSUME NEW k \in 1 .. n + 1 PROVE frames'[k] = c[k - 1] /\ c[k - 1] # -1
    <3>1. CASE k = n + 1
      <4>1. k - 1 = n
        BY <2>2, <3>1
      <4>2. QED
        BY <2>2, <2>4, <3>1, <4>1
    <3>2. CASE k # n + 1
      <4>1. k \in 1 .. n
        BY <2>2, <3>2
      <4>2. QED
        BY <2>2, <2>4, <4>1
    <3>3. QED
      BY <3>1, <3>2
  <2>9. n + 1 <= Len(tree)
    BY <2>2, <2>5
  <2>10. QED
    BY <1>r, <2>2, <2>3, <2>7, <2>8, <2>9 DEF StackInv
<1>e. QED
  BY <1>c, <1>d

LEMMA FinishStack == Quantum = 1 /\ WalkTypes /\ StackInv /\ Finish => StackInv'
<1> SUFFICES ASSUME WalkTypes, StackInv, Finish PROVE StackInv'
  OBVIOUS
<1>1. UNCHANGED input /\ frames' = frames /\ curIdx' = curIdx /\ tree' = tree /\ ~Walking /\ ~done
  BY DEF Finish, input
<1>2. CompilerMade' = CompilerMade /\ Outward' = Outward
  BY <1>1, SameTree
<1>3. ASSUME CompilerMade PROVE curIdx = -1 \/ Len(frames) = MaxDepth
  <2>1. /\ WalkTypeOK /\ Len(frames) \in Nat /\ Len(frames) <= MaxDepth
        /\ Len(tree) \in Nat /\ MaxDepth \in Nat /\ MaxIndex \in Nat
    BY WalkInputFacts, WalkAssumption DEF WalkTypes, WalkTypeOK
  <2>2. Len(frames) \in 0 .. Len(tree) /\ curIdx = Outward[Len(frames)]
    BY <1>3, <2>1 DEF StackInv
  <2>3. curIdx \in -1 .. Len(tree) - 1 /\ (curIdx # -1 => curIdx < MaxIndex)
    BY <1>3, <2>1, <2>2, OutwardFacts
  <2>4. curIdx # -1 => Mapped(curIdx) /\ curIdx >= 0 /\ curIdx <= MaxIndex
    BY <2>1, <2>3, WalkInputFacts
  <2>5. curIdx # -1 => ~(Len(frames) < MaxDepth)
    BY <1>1, <2>4 DEF Walking
  <2>6. QED
    BY <2>1, <2>5
<1>4. QED
  BY <1>1, <1>2, <1>3 DEF StackInv

LEMMA StackInvInductive == Quantum = 1 /\ WalkTypes /\ StackInv /\ [WalkNext]_walkVars => StackInv'
<1> SUFFICES ASSUME Quantum = 1, WalkTypes, StackInv, [WalkNext]_walkVars PROVE StackInv'
  OBVIOUS
<1>1. CASE UNCHANGED walkVars
  <2>1. UNCHANGED input /\ frames' = frames /\ curIdx' = curIdx /\ tree' = tree /\ done' = done
    BY <1>1 DEF walkVars, input
  <2>2. CompilerMade' = CompilerMade /\ Outward' = Outward
    BY <2>1, SameTree
  <2>3. QED
    BY <2>1, <2>2 DEF StackInv
<1>2. QED
  BY <1>1, WalkStack, FinishStack DEF WalkNext

\* The runtime's stack is the chain as far as it stays in the tree.
LEMMA RuntimeStackFacts ==
  ASSUME WalkTypeOK, CompilerMade
  PROVE  \E d \in 0 .. Len(tree) :
           /\ \A k \in 0 .. Len(tree) : Outward[k] # -1 <=> k < d
           /\ RuntimeStack \in Seq(Int)
           /\ Len(RuntimeStack) = d
           /\ \A k \in 1 .. d : RuntimeStack[k] = Outward[k - 1]
<1> DEFINE n == Len(tree)
           c == Outward
           T == {k \in 0 .. n : c[k] = -1}
<1>1. n \in Nat
  BY WalkInputFacts
<1>2. /\ \A k \in 1 .. n : c[k] = OutwardStep(c[k - 1])
      /\ \A k \in 0 .. n : c[k] \in -1 .. n - 1
      /\ \A k \in 0 .. n : c[k] # -1 => c[k] <= n - 1 - k
  BY OutwardFacts
<1> HIDE DEF c, n
<1>3. c[n] = -1
  <2>1. c[n] \in -1 .. n - 1 /\ (c[n] # -1 => c[n] <= n - 1 - n)
    BY <1>1, <1>2
  <2>2. QED
    BY <1>1, <2>1
<1>4. PICK d \in T : \A y \in T : d <= y
  <2>1. n \in T /\ T \subseteq Nat
    BY <1>1, <1>3
  <2>2. QED
    BY <2>1, LeastNumber
<1>5. d \in 0 .. n /\ c[d] = -1
  BY <1>4
<1>6. ASSUME NEW k \in 0 .. n PROVE c[k] # -1 <=> k < d
  <2>1. k < d => c[k] # -1
    BY <1>4, <1>5
  <2>2. k >= d => c[k] = -1
    <3> DEFINE S == {j \in 0 .. n : j >= d => c[j] = -1}
    <3>1. 0 \in S
      BY <1>1, <1>5
    <3>2. ASSUME NEW j \in 1 .. n, j - 1 \in S PROVE j \in S
      <4>1. j < d \/ j = d \/ j - 1 >= d
        BY <1>1, <1>5
      <4>2. CASE j - 1 >= d
        <5>1. c[j - 1] = -1
          BY <3>2, <4>2
        <5>2. c[j] = -1
          BY <1>2, <5>1 DEF OutwardStep
        <5>3. QED
          BY <5>2
      <4>3. CASE j < d
        BY <1>5, <4>3
      <4>4. CASE j = d
        BY <1>5, <4>4
      <4>5. QED
        BY <4>1, <4>2, <4>3, <4>4
    <3> HIDE DEF S
    <3>3. \A j \in 0 .. n : j \in S
      BY <1>1, <3>1, <3>2, UpTo
    <3>4. QED
      BY <3>3 DEF S
  <2>3. QED
    BY <1>5, <2>1, <2>2
<1>7. {k \in 0 .. n : c[k] # -1} = 0 .. d - 1
  BY <1>1, <1>5, <1>6
<1>8. Cardinality({k \in 0 .. n : c[k] # -1}) = d
  <2> DEFINE a == 0
             z == d - 1
  <2>1. a \in Int /\ z \in Int /\ (IF a > z THEN 0 ELSE z - a + 1) = d
    BY <1>5
  <2> HIDE DEF a, z
  <2>2. Cardinality(a .. z) = IF a > z THEN 0 ELSE z - a + 1
    BY <2>1, FS_Interval
  <2>3. QED
    BY <1>7, <2>1, <2>2 DEF a, z
<1>9. RuntimeStack = [k \in 1 .. d |-> c[k - 1]]
  BY <1>8 DEF RuntimeStack, c, n
<1>10. \A k \in 1 .. d : c[k - 1] \in Int
  <2>1. TAKE k \in 1 .. d
  <2>2. k - 1 \in 0 .. n
    BY <1>1, <1>5
  <2>3. c[k - 1] \in -1 .. n - 1
    BY <1>2, <2>2
  <2>4. QED
    BY <2>3
<1>11. RuntimeStack \in Seq(Int) /\ Len(RuntimeStack) = d
  BY <1>5, <1>9, <1>10
<1>12. \A k \in 1 .. d : RuntimeStack[k] = c[k - 1]
  BY <1>9
<1>13. QED
  BY <1>5, <1>6, <1>11, <1>12 DEF c, n

\* A sequence that agrees with the start of another is its prefix.
LEMMA PrefixOf ==
  ASSUME NEW s \in Seq(Int), NEW t \in Seq(Int), Len(s) <= Len(t),
         \A k \in 1 .. Len(s) : s[k] = t[k]
  PROVE  s = SubSeq(t, 1, Len(s))
<1>1. SubSeq(t, 1, Len(s)) \in Seq(Int) /\ Len(SubSeq(t, 1, Len(s))) = Len(s)
  OBVIOUS
<1>2. \A k \in 1 .. Len(s) : SubSeq(t, 1, Len(s))[k] = t[k]
  OBVIOUS
<1>3. QED
  BY <1>1, <1>2

\* A finished stack is the runtime's, cut at MAX_INLINE_DEPTH.
LEMMA StackIsPrefix == WalkTypes /\ StackInv => StackMatchesRuntime
<1> SUFFICES ASSUME WalkTypes, StackInv, done, CompilerMade
             PROVE  frames = SubSeq(RuntimeStack, 1, Min({MaxDepth, Len(RuntimeStack)}))
  BY DEF StackMatchesRuntime
<1> DEFINE n == Len(frames)
<1>1. /\ WalkTypeOK /\ n \in Nat /\ n <= MaxDepth /\ MaxDepth \in Nat /\ Len(tree) \in Nat
  BY WalkInputFacts, WalkAssumption DEF WalkTypes, WalkTypeOK
<1>2. /\ n <= Len(tree) /\ \A k \in 1 .. n : frames[k] = Outward[k - 1] /\ Outward[k - 1] # -1
      /\ Outward[n] = -1 \/ n = MaxDepth
  BY DEF StackInv
<1>3. PICK d \in 0 .. Len(tree) :
           /\ \A k \in 0 .. Len(tree) : Outward[k] # -1 <=> k < d
           /\ RuntimeStack \in Seq(Int)
           /\ Len(RuntimeStack) = d
           /\ \A k \in 1 .. d : RuntimeStack[k] = Outward[k - 1]
  BY <1>1, RuntimeStackFacts
<1> HIDE DEF n
<1>4. n <= d
  <2> SUFFICES ASSUME d < n PROVE FALSE
    BY <1>1, <1>3
  <2>1. d + 1 \in 1 .. n /\ (d + 1) - 1 = d
    BY <1>1, <1>3
  <2>2. Outward[d] # -1
    BY <1>2, <2>1
  <2>3. QED
    BY <1>3, <2>2
<1>5. Outward[n] = -1 => n = d
  <2>1. n \in 0 .. Len(tree)
    BY <1>1, <1>2
  <2>2. Outward[n] = -1 => ~(n < d)
    BY <1>3, <2>1
  <2>3. QED
    BY <1>1, <1>3, <1>4, <2>2
<1>6. Min({MaxDepth, d}) = n
  <2>1. Min({MaxDepth, d}) = IF MaxDepth <= d THEN MaxDepth ELSE d
    BY <1>1, <1>3, MinOfTwo
  <2>2. QED
    BY <1>1, <1>2, <1>3, <1>4, <1>5, <2>1
<1>7. frames \in Seq(Int)
  BY <1>1 DEF WalkTypeOK
<1>8. \A k \in 1 .. n : frames[k] = RuntimeStack[k]
  <2>1. TAKE k \in 1 .. n
  <2>2. k \in 1 .. d
    BY <1>1, <1>3, <1>4
  <2>3. QED
    BY <1>2, <1>3, <2>2
<1>9. frames = SubSeq(RuntimeStack, 1, n)
  BY <1>3, <1>4, <1>7, <1>8, PrefixOf DEF n
<1>10. QED
  BY <1>3, <1>6, <1>9

\* Every variable of the walk keeps its type, for any streams, trees and bounds: the walk
\* never leaves the mapped entries and never exceeds MAX_INLINE_DEPTH, on damaged data too.
THEOREM WalkTypeCorrect == WalkSpec => []WalkTypeOK
<1>1. WalkInit => WalkTypes
  BY WalkInitTypes
<1>2. WalkTypes => WalkTypeOK
  BY DEF WalkTypes
<1>3. QED
  BY <1>1, <1>2, WalkTypesInductive, PTL DEF WalkSpec

\* lookup_inline walks only entries decode_inline_tree returns when it accepts the tree, on
\* damaged data too, and the readers of one stream agree on what it holds.
THEOREM WalkReadersAgree == WalkSpec => []ReadersAgree
<1>1. WalkInit => WalkTypes /\ TreeInv
  BY WalkInitTypes, WalkInitTree
<1>2. WalkTypes /\ TreeInv /\ [WalkNext]_walkVars => (WalkTypes /\ TreeInv)'
  BY WalkTypesInductive, TreeInvInductive
<1>3. WalkTypes /\ TreeInv => ReadersAgree
  BY AcceptedByReaders
<1>4. QED
  BY <1>1, <1>2, <1>3, PTL DEF WalkSpec

\* With the pclntab quantum of amd64 the inline stack of a compiler-made function is the
\* runtime's, cut at MAX_INLINE_DEPTH, whatever its depth.
THEOREM StackIsRuntimes == ASSUME Quantum = 1 PROVE WalkSpec => []StackMatchesRuntime
<1>1. WalkInit => WalkTypes /\ StackInv
  BY WalkInitTypes, WalkInitStack
<1>2. WalkTypes /\ StackInv /\ [WalkNext]_walkVars => (WalkTypes /\ StackInv)'
  BY WalkTypesInductive, StackInvInductive
<1>3. WalkTypes /\ StackInv => StackMatchesRuntime
  BY StackIsPrefix
<1>4. QED
  BY <1>1, <1>2, <1>3, PTL DEF WalkSpec
=============================================================================
