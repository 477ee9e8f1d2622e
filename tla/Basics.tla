-------------------------------- MODULE Basics --------------------------------
(* Facts about numbers and sequences that the proof modules share. *)
EXTENDS Integers, Sequences, TLAPS, WellFoundedInduction

\* What Append does, element by element.
LEMMA AppendFacts ==
  ASSUME NEW S, NEW s \in Seq(S), NEW e \in S
  PROVE  /\ Append(s, e) \in Seq(S)
         /\ Len(Append(s, e)) = Len(s) + 1
         /\ DOMAIN Append(s, e) = 1 .. Len(s) + 1
         /\ DOMAIN s = 1 .. Len(s)
         /\ \A i \in 1 .. Len(s) : Append(s, e)[i] = s[i]
         /\ Append(s, e)[Len(s) + 1] = e
  OBVIOUS

\* An element of a sequence.
LEMMA ElementFacts ==
  ASSUME NEW S, NEW s \in Seq(S), NEW k \in DOMAIN s
  PROVE  s[k] \in S /\ k \in Nat \ {0} /\ k <= Len(s) /\ Len(s) \in Nat
  OBVIOUS

\* What is left of a sequence when its last element is taken.
LEMMA PopFacts ==
  ASSUME NEW S, NEW s \in Seq(S), s # <<>>
  PROVE  LET t == SubSeq(s, 1, Len(s) - 1) IN
         /\ t \in Seq(S)
         /\ Len(s) \in Nat \ {0}
         /\ Len(t) = Len(s) - 1
         /\ DOMAIN s = 1 .. Len(s)
         /\ DOMAIN t = 1 .. Len(s) - 1
         /\ \A i \in 1 .. Len(s) - 1 : t[i] = s[i]
         /\ s[Len(s)] \in S
<1> DEFINE t == SubSeq(s, 1, Len(s) - 1)
<1>1. Len(s) \in Nat \ {0} /\ DOMAIN s = 1 .. Len(s)
  OBVIOUS
<1>2. \A i \in 1 .. Len(s) : s[i] \in S
  OBVIOUS
<1>3. t \in Seq(S) /\ Len(t) = Len(s) - 1
  BY <1>1, <1>2
<1>4. \A i \in 1 .. Len(s) - 1 : t[i] = s[i]
  BY <1>1
<1>5. DOMAIN t = 1 .. Len(s) - 1
  BY <1>1, <1>3
<1>6. s[Len(s)] \in S
  BY <1>1, <1>2
<1>7. QED
  BY <1>1, <1>3, <1>4, <1>5, <1>6

\* A residue is below its modulus.
LEMMA ResidueBound ==
  ASSUME NEW m \in Nat \ {0}, NEW x \in Nat
  PROVE  x % m \in 0 .. m - 1
  OBVIOUS

\* Division separates what is a divisor apart.
LEMMA QuotientSeparates ==
  ASSUME NEW h \in Nat \ {0}, NEW x \in Nat, NEW y \in Nat, x + h <= y
  PROVE  /\ x \div h \in Nat
         /\ x \div h < y \div h
  OBVIOUS

Below == {e \in Nat \X Nat : e[1] < e[2]}

\* The order of the numbers, as a set of pairs the provers can read.
LEMMA BelowIsLess == OpToRel(<, Nat) = Below
  BY DEF OpToRel, Below

LEMMA BelowWellFounded == IsWellFoundedOn(Below, Nat)
  BY NatLessThanWellFounded, BelowIsLess

LEMMA InBelow ==
  ASSUME NEW x \in Nat, NEW y \in Nat, y < x
  PROVE  <<y, x>> \in Below
<1> DEFINE e == <<y, x>>
<1>1. e \in Nat \X Nat /\ e[1] = y /\ e[2] = x
  OBVIOUS
<1>2. e[1] < e[2]
  BY <1>1
<1> HIDE DEF e
<1>3. e \in Below
  BY <1>1, <1>2 DEF Below
<1>4. QED
  BY <1>3 DEF e

\* A non-empty set of numbers has a least one.  This is how the proofs do induction
\* over the numbers: the least counterexample is 0 or follows a number that is none.
LEMMA LeastNumber ==
  ASSUME NEW T, T \subseteq Nat, T # {}
  PROVE  \E x \in T : \A y \in T : x <= y
<1>1. PICK x \in T : \A y \in T : <<y, x>> \notin Below
  BY BelowWellFounded, WFMin
<1>2. ASSUME NEW y \in T PROVE x <= y
  <2>1. x \in Nat /\ y \in Nat
    OBVIOUS
  <2>2. ~(y < x)
    BY <1>1, <2>1, InBelow
  <2>3. QED
    BY <2>1, <2>2
<1>3. QED
  BY <1>2

\* Induction along an interval, over the set of the numbers that have the property.
LEMMA UpTo ==
  ASSUME NEW n \in Nat, NEW S, 0 \in S,
         \A k \in 1 .. n : k - 1 \in S => k \in S
  PROVE  \A k \in 0 .. n : k \in S
<1> DEFINE T == {k \in 0 .. n : k \notin S}
<1>1. SUFFICES ASSUME T # {} PROVE FALSE
  OBVIOUS
<1>2. T \subseteq Nat
  OBVIOUS
<1>3. PICK x \in T : \A y \in T : x <= y
  BY <1>1, <1>2, LeastNumber
<1>4. x \in 1 .. n /\ x - 1 \in 0 .. n /\ x - 1 \notin T
  BY <1>3
<1>5. x - 1 \in S
  BY <1>4
<1>6. QED
  BY <1>3, <1>4, <1>5

\* A recurrence over an interval has a solution.
Solves(f, n, V, base, step) ==
    /\ f \in [0 .. n -> V]
    /\ f[0] = base
    /\ \A k \in 1 .. n : f[k] = step[<<k, f[k - 1]>>]

LEMMA RecurrenceExists ==
  ASSUME NEW n \in Nat, NEW V, NEW base \in V, NEW step \in [(1 .. n) \X V -> V]
  PROVE  \E f : Solves(f, n, V, base, step)
<1> DEFINE S == {m \in 0 .. n : \E f : Solves(f, m, V, base, step)}
<1>1. 0 \in S
  <2> DEFINE h == [k \in 0 .. 0 |-> base]
  <2>1. Solves(h, 0, V, base, step)
    BY DEF Solves
  <2> HIDE DEF h
  <2>2. \E f : Solves(f, 0, V, base, step)
    BY <2>1
  <2>3. QED
    BY <2>2
<1>2. ASSUME NEW m \in 1 .. n, m - 1 \in S PROVE m \in S
  <2>1. PICK g : Solves(g, m - 1, V, base, step)
    BY <1>2
  <2> DEFINE h == [k \in 0 .. m |-> IF k = m THEN step[<<m, g[m - 1]>>] ELSE g[k]]
  <2>2. g[m - 1] \in V /\ step[<<m, g[m - 1]>>] \in V
    BY <2>1 DEF Solves
  <2>3. h \in [0 .. m -> V]
    <3>1. g \in [0 .. m - 1 -> V]
      BY <2>1 DEF Solves
    <3>2. QED
      BY <2>2, <3>1
  <2>4. \A k \in 0 .. m - 1 : h[k] = g[k]
    OBVIOUS
  <2>5. h[m] = step[<<m, g[m - 1]>>]
    OBVIOUS
  <2> HIDE DEF h
  <2>6. ASSUME NEW k \in 1 .. m PROVE h[k] = step[<<k, h[k - 1]>>]
    <3>1. CASE k = m
      BY <2>4, <2>5, <3>1
    <3>2. CASE k # m
      <4>1. k \in 1 .. m - 1 /\ k - 1 \in 0 .. m - 1
        BY <3>2
      <4>2. h[k] = g[k] /\ h[k - 1] = g[k - 1]
        BY <2>4, <4>1
      <4>3. QED
        BY <2>1, <4>1, <4>2 DEF Solves
    <3>3. QED
      BY <3>1, <3>2
  <2>7. h[0] = base
    BY <2>1, <2>4 DEF Solves
  <2>8. Solves(h, m, V, base, step)
    BY <2>3, <2>6, <2>7 DEF Solves
  <2>9. QED
    BY <2>8
<1> HIDE DEF S
<1>3. n \in S
  BY <1>1, <1>2, UpTo
<1>4. QED
  BY <1>3 DEF S

\* The values of a family of integers, and one number more, have a greatest.
LEMMA GreatestOf ==
  ASSUME NEW n \in Nat, NEW v, NEW R, NEW b \in Int,
         R \subseteq 1 .. n, \A k \in R : v[k] \in Int
  PROVE  \E m \in {b} \cup {v[k] : k \in R} : \A x \in {b} \cup {v[k] : k \in R} : x <= m
<1> DEFINE Vals(j) == {b} \cup {v[k] : k \in {i \in R : i <= j}}
           S == {j \in 0 .. n : \E m \in Vals(j) : \A x \in Vals(j) : x <= m}
<1>0. \A i \in R : i \in Int /\ 1 <= i /\ i <= n
  OBVIOUS
<1>1. 0 \in S
  <2>1. Vals(0) = {b}
    <3>1. \A i \in R : ~(i <= 0)
      BY <1>0
    <3>2. QED
      BY <3>1
  <2> HIDE DEF Vals
  <2>2. QED
    BY <2>1
<1>2. ASSUME NEW j \in 1 .. n, j - 1 \in S PROVE j \in S
  <2>1. PICK m \in Vals(j - 1) : \A x \in Vals(j - 1) : x <= m
    BY <1>2
  <2>2. \A x \in Vals(j - 1) : x \in Int
    OBVIOUS
  <2>3. IF j \in R THEN Vals(j) = Vals(j - 1) \cup {v[j]} ELSE Vals(j) = Vals(j - 1)
    <3>1. \A i \in R : i <= j <=> i <= j - 1 \/ i = j
      BY <1>0
    <3>2. {i \in R : i <= j} = {i \in R : i <= j - 1} \cup (R \cap {j})
      BY <3>1
    <3>3. QED
      BY <3>2
  <2> HIDE DEF Vals
  <2>4. CASE j \in R
    <3>1. Vals(j) = Vals(j - 1) \cup {v[j]} /\ v[j] \in Int
      BY <2>3, <2>4
    <3>2. CASE v[j] <= m
      BY <2>1, <3>1, <3>2
    <3>3. CASE ~(v[j] <= m)
      <4>1. \A x \in Vals(j - 1) : x <= v[j]
        BY <2>1, <2>2, <3>1, <3>3
      <4>2. v[j] \in Vals(j) /\ \A x \in Vals(j) : x <= v[j]
        BY <3>1, <4>1
      <4>3. QED
        BY <4>2
    <3>4. QED
      BY <3>2, <3>3
  <2>5. CASE j \notin R
    BY <2>1, <2>3, <2>5
  <2>6. QED
    BY <2>4, <2>5
<1> HIDE DEF S
<1>3. n \in S
  BY <1>1, <1>2, UpTo
<1>4. {i \in R : i <= n} = R
  BY <1>0
<1>5. QED
  BY <1>3, <1>4 DEF S
=============================================================================
