---------------------------- MODULE TextSweepProofs ----------------------------
(* The sweeps over .text, for every program and every question. *)
EXTENDS TextSweep, Basics, FiniteSetTheorems

-----------------------------------------------------------------------------
(* Where the instructions begin.                                           *)

LEMMA SizeFacts ==
  ASSUME NEW arch \in Arches, NEW op \in Ops
  PROVE  /\ Size(arch, op) \in 2 .. 10
         /\ arch = "arm64" => Size(arch, op) \in {4, 8}
  BY DEF Size, Arches, Ops

LEMMA InputFacts ==
  ASSUME NEW x \in Input
  PROVE  /\ x.arch \in Arches
         /\ Len(x.program) \in Nat
         /\ DOMAIN x.program = 1 .. Len(x.program)
         /\ \A k \in DOMAIN x.program : x.program[k] \in Instr
         /\ \A k \in DOMAIN x.program : x.program[k].op \in Ops /\ x.program[k].to \in Nat
<1>1. x.arch \in Arches /\ x.program \in Seq(Instr)
  BY DEF Input
<1>2. \A k \in DOMAIN x.program : x.program[k] \in Instr
  BY <1>1, ElementFacts
<1>3. Len(x.program) \in Nat /\ DOMAIN x.program = 1 .. Len(x.program)
  BY <1>1
<1>4. QED
  BY <1>1, <1>2, <1>3 DEF Instr

LEMMA InstrSize ==
  ASSUME NEW x \in Input, NEW k \in DOMAIN x.program
  PROVE  LET z == Size(x.arch, x.program[k].op)
         IN  z \in Nat /\ z \in 2 .. 10 /\ (x.arch = "arm64" => z \in {4, 8})
  BY InputFacts, SizeFacts

\* The offsets of the first n instructions, as far as they are counted.
Counts(x, s, n) ==
    s = [k \in 1 .. n |-> IF k = 1 THEN 0 ELSE s[k - 1] + Size(x.arch, x.program[k - 1].op)]

LEMMA Counted ==
  ASSUME NEW x \in Input, NEW n \in Nat
  PROVE  \E s : Counts(x, s, n)
<1> DEFINE bad == {m \in Nat : ~ \E s : Counts(x, s, m)}
<1>1. SUFFICES ASSUME bad # {} PROVE FALSE
  OBVIOUS
<1>2. PICK m \in bad : \A l \in bad : m <= l
  <2> HIDE DEF bad
  <2>1. bad \subseteq Nat
    BY DEF bad
  <2>2. QED
    BY <1>1, <2>1, LeastNumber
<1>3. CASE m = 0
  <2> DEFINE s == [k \in 1 .. 0 |-> 0]
  <2>1. Counts(x, s, 0)
    BY DEF Counts
  <2>2. QED
    BY <1>2, <1>3, <2>1
<1>4. CASE m # 0
  <2>1. m - 1 \in Nat /\ m - 1 \notin bad
    BY <1>2, <1>4
  <2>2. PICK s : Counts(x, s, m - 1)
    BY <2>1
  <2> DEFINE t == [k \in 1 .. m |-> IF k = 1 THEN 0 ELSE s[k - 1] + Size(x.arch, x.program[k - 1].op)]
  <2>3. \A k \in 1 .. m - 1 : t[k] = s[k]
    BY <2>1, <2>2 DEF Counts
  <2>4. t = [k \in 1 .. m |-> IF k = 1 THEN 0 ELSE t[k - 1] + Size(x.arch, x.program[k - 1].op)]
    <3>1. \A k \in 1 .. m : k # 1 => k - 1 \in 1 .. m - 1
      BY <2>1
    <3>2. QED
      BY <2>3, <3>1
  <2>5. Counts(x, t, m)
    BY <2>4 DEF Counts
  <2>6. QED
    BY <1>2, <2>5
<1>5. QED
  BY <1>3, <1>4

LEMMA StartsCount ==
  ASSUME NEW x \in Input
  PROVE  Counts(x, Starts(x), Len(x.program) + 1)
<1>1. Len(x.program) + 1 \in Nat
  BY InputFacts
<1>2. Starts(x) = CHOOSE s : Counts(x, s, Len(x.program) + 1)
  BY DEF Starts, Counts
<1>3. QED
  BY <1>1, <1>2, Counted

\* What Starts is, without the recursion.
LEMMA StartsStep ==
  ASSUME NEW x \in Input
  PROVE  /\ DOMAIN Starts(x) = 1 .. Len(x.program) + 1
         /\ Starts(x)[1] = 0
         /\ \A k \in DOMAIN x.program : Starts(x)[k + 1] = Starts(x)[k] + Size(x.arch, x.program[k].op)
<1> DEFINE s == Starts(x)
           n == Len(x.program)
<1>1. n \in Nat /\ DOMAIN x.program = 1 .. n
  BY InputFacts
<1>2. s = [k \in 1 .. n + 1 |-> IF k = 1 THEN 0 ELSE s[k - 1] + Size(x.arch, x.program[k - 1].op)]
  BY StartsCount DEF Counts
<1> HIDE DEF s, n
<1>3. DOMAIN s = 1 .. n + 1 /\ s[1] = 0
  BY <1>1, <1>2
<1>4. ASSUME NEW k \in 1 .. n PROVE s[k + 1] = s[k] + Size(x.arch, x.program[k].op)
  <2>1. k + 1 \in 1 .. n + 1 /\ k + 1 # 1 /\ (k + 1) - 1 = k
    BY <1>1
  <2>2. QED
    BY <1>2, <2>1
<1>5. QED
  BY <1>1, <1>3, <1>4 DEF s, n

\* On arm64 everything lies at multiples of four.
OnGrid(x, p) == x.arch = "arm64" => \E q \in Nat : p = 4 * q

LEMMA StartsTyped ==
  ASSUME NEW x \in Input
  PROVE  \A k \in 1 .. Len(x.program) + 1 : Starts(x)[k] \in Nat /\ OnGrid(x, Starts(x)[k])
<1> DEFINE s == Starts(x)
           n == Len(x.program)
           bad == {k \in 1 .. n + 1 : ~(s[k] \in Nat /\ OnGrid(x, s[k]))}
<1>1. n \in Nat /\ DOMAIN x.program = 1 .. n /\ s[1] = 0
  BY InputFacts, StartsStep
<1>2. SUFFICES ASSUME bad # {} PROVE FALSE
  OBVIOUS
<1>3. PICK k \in bad : \A l \in bad : k <= l
  <2> HIDE DEF bad
  <2>1. bad \subseteq Nat
    BY <1>1 DEF bad
  <2>2. QED
    BY <1>2, <2>1, LeastNumber
<1>4. k # 1
  <2>1. OnGrid(x, 0)
    BY DEF OnGrid
  <2>2. QED
    BY <1>1, <1>3, <2>1
<1>5. k - 1 \in 1 .. n /\ k - 1 \notin bad
  BY <1>1, <1>3, <1>4
<1>6. s[k - 1] \in Nat /\ OnGrid(x, s[k - 1])
  BY <1>1, <1>5
<1> DEFINE z == Size(x.arch, x.program[k - 1].op)
<1>7. s[k] = s[k - 1] + z
  <2>1. s[(k - 1) + 1] = s[k - 1] + z
    BY <1>1, <1>5, StartsStep
  <2>2. (k - 1) + 1 = k
    BY <1>1, <1>3
  <2>3. QED
    BY <2>1, <2>2
<1>8. z \in Nat /\ (x.arch = "arm64" => z \in {4, 8})
  BY <1>1, <1>5, InstrSize
<1> HIDE DEF z, s
<1>9. s[k] \in Nat /\ OnGrid(x, s[k])
  <2>1. ASSUME x.arch = "arm64" PROVE \E q \in Nat : s[k] = 4 * q
    <3>1. PICK q \in Nat : s[k - 1] = 4 * q
      BY <1>6, <2>1 DEF OnGrid
    <3>2. s[k] = 4 * (q + 1) \/ s[k] = 4 * (q + 2)
      BY <1>7, <1>8, <2>1, <3>1
    <3>3. q + 1 \in Nat /\ q + 2 \in Nat
      BY <3>1
    <3>4. QED
      BY <3>2, <3>3
  <2>2. QED
    BY <1>6, <1>7, <1>8, <2>1 DEF OnGrid
<1>10. QED
  BY <1>3, <1>9

\* Instructions follow each other without overlap.
LEMMA StartsApart ==
  ASSUME NEW x \in Input, NEW k \in DOMAIN x.program
  PROVE  \A m \in 1 .. Len(x.program) + 1 :
           k < m => Starts(x)[k] + Size(x.arch, x.program[k].op) <= Starts(x)[m]
<1> DEFINE s == Starts(x)
           n == Len(x.program)
           z == Size(x.arch, x.program[k].op)
           bad == {m \in 1 .. n + 1 : k < m /\ ~(s[k] + z <= s[m])}
<1>1. n \in Nat /\ DOMAIN x.program = 1 .. n /\ k \in 1 .. n
  BY InputFacts
<1>2. SUFFICES ASSUME bad # {} PROVE FALSE
  OBVIOUS
<1>3. PICK m \in bad : \A l \in bad : m <= l
  <2> HIDE DEF bad
  <2>1. bad \subseteq Nat
    BY <1>1 DEF bad
  <2>2. QED
    BY <1>2, <2>1, LeastNumber
<1>4. s[k + 1] = s[k] + z /\ s[k] \in Nat /\ s[m] \in Nat /\ s[k + 1] \in Nat
  BY <1>1, <1>3, StartsStep, StartsTyped
<1>5. z \in Nat
  BY InstrSize
<1> DEFINE y == Size(x.arch, x.program[m - 1].op)
<1>6. CASE m # k + 1
  <2>1. m - 1 \in 1 .. n /\ k < m - 1 /\ (m - 1) + 1 = m /\ m - 1 \in 1 .. n + 1
    BY <1>1, <1>3, <1>6
  <2>2. s[m] = s[m - 1] + y /\ s[m - 1] \in Nat
    <3>1. s[(m - 1) + 1] = s[m - 1] + y
      BY <1>1, <2>1, StartsStep
    <3>2. QED
      BY <2>1, <3>1, StartsTyped
  <2>3. y \in Nat
    <3>1. m - 1 \in DOMAIN x.program
      BY <1>1, <2>1
    <3>2. QED
      BY <3>1, InstrSize
  <2>4. s[k] + z <= s[m - 1]
    BY <1>3, <2>1
  <2> HIDE DEF s, y, z
  <2>5. s[k] + z <= s[m]
    BY <1>4, <1>5, <2>2, <2>3, <2>4
  <2>6. QED
    BY <1>3, <2>5
<1>7. CASE m = k + 1
  <2>1. s[k] + z <= s[m]
    BY <1>4, <1>5, <1>7
  <2>2. QED
    BY <1>3, <2>1
<1>8. QED
  BY <1>6, <1>7

-----------------------------------------------------------------------------
(* What the bytes hold.                                                    *)

End(x) == Starts(x)[Len(x.program) + 1]
HiddenOps == {"immcall", "immload", "spill"}
Visible(x) == {k \in DOMAIN x.program : x.program[k].op \notin HiddenOps}

\* What an instruction at offset p reads as.
Plain(x, k, p) == Encode(x.arch, x.program[k].op, x.program[k].to, p)
Covert(x, k, p) == Encode(x.arch, Hidden[x.program[k].op], x.program[k].to, p)

LEMMA EncodeFacts ==
  ASSUME NEW x \in Input, NEW op \in Ops, NEW to \in Nat, NEW p \in Nat
  PROVE  LET e == Encode(x.arch, op, to, p)
         IN  /\ e.op = op
             /\ e.disp \in Int
             /\ x.arch = "amd64" => TextStart + p + Size(x.arch, op) + e.disp = to
             /\ x.arch = "arm64" /\ op # "dispatch" => TextStart + p + e.disp = to
<1>1. Size(x.arch, op) \in Nat /\ TextStart \in Nat
  BY SizeFacts, InputFacts, SweepAssumption
<1>2. QED
  BY <1>1 DEF Encode

LEMMA HiddenFacts ==
  /\ DOMAIN Hidden = HiddenOps
  /\ \A op \in HiddenOps : Hidden[op] \in {"call", "load", "dispatch"} /\ Hidden[op] \in Ops
  /\ Hidden["immcall"] = "call" /\ Hidden["immload"] = "load" /\ Hidden["spill"] = "dispatch"
  /\ HiddenAt["immload"] = 2 /\ HiddenAt["spill"] = 8
  BY DEF Hidden, HiddenAt, HiddenOps, Ops

\* Every byte begins an instruction that is not hidden, or a hidden one, or nothing.
LEMMA ByteKinds ==
  ASSUME NEW x \in Input
  PROVE  /\ End(x) \in Nat
         /\ DOMAIN Bytes(x) = 0 .. End(x) - 1
         /\ \A p \in 0 .. End(x) - 1 :
              \/ \E k \in Visible(x) : Starts(x)[k] = p /\ Bytes(x)[p] = Plain(x, k, p)
              \/ \E k \in DOMAIN x.program \ Visible(x) :
                   Starts(x)[k] + HiddenAt[x.program[k].op] = p /\ Bytes(x)[p] = Covert(x, k, p)
              \/ Bytes(x)[p] = [op |-> "nop", disp |-> 0]
         /\ \A k \in Visible(x) : Starts(x)[k] \in 0 .. End(x) - 1 /\ Bytes(x)[Starts(x)[k]] = Plain(x, k, Starts(x)[k])
<1> DEFINE s == Starts(x)
           n == Len(x.program)
           prog == x.program
           b == Bytes(x)
<1>1. n \in Nat /\ DOMAIN prog = 1 .. n /\ n + 1 \in 1 .. n + 1
  BY InputFacts
<1>2. End(x) \in Nat
  BY <1>1, StartsTyped DEF End
<1>3. b = [p \in 0 .. End(x) - 1 |->
            IF \E k \in DOMAIN prog : s[k] = p /\ prog[k].op \notin HiddenOps
            THEN LET k == CHOOSE k \in DOMAIN prog : s[k] = p
                 IN  Encode(x.arch, prog[k].op, prog[k].to, p)
            ELSE IF \E k \in DOMAIN prog : prog[k].op \in HiddenOps /\ s[k] + HiddenAt[prog[k].op] = p
            THEN LET k == CHOOSE k \in DOMAIN prog : prog[k].op \in HiddenOps /\ s[k] + HiddenAt[prog[k].op] = p
                 IN  Encode(x.arch, Hidden[prog[k].op], prog[k].to, p)
            ELSE [op |-> "nop", disp |-> 0]]
  BY HiddenFacts DEF Bytes, End
<1>4. \A k, m \in DOMAIN prog : s[k] = s[m] => k = m
  <2> SUFFICES ASSUME NEW k \in DOMAIN prog, NEW m \in DOMAIN prog, k < m, s[k] = s[m] PROVE FALSE
    BY <1>1
  <2>1. s[k] + Size(x.arch, prog[k].op) <= s[m]
    BY <1>1, StartsApart
  <2>2. s[k] \in Nat /\ s[m] \in Nat
    BY <1>1, StartsTyped
  <2>3. Size(x.arch, prog[k].op) \in Nat /\ Size(x.arch, prog[k].op) \in 2 .. 10
    BY InstrSize
  <2> HIDE DEF s
  <2>4. QED
    BY <2>1, <2>2, <2>3
<1>5. \A k \in DOMAIN prog : s[k] \in 0 .. End(x) - 1
  <2> TAKE k \in DOMAIN prog
  <2>1. s[k] + Size(x.arch, prog[k].op) <= End(x)
    BY <1>1, StartsApart DEF End
  <2>2. s[k] \in Nat
    BY <1>1, StartsTyped
  <2>3. Size(x.arch, prog[k].op) \in Nat /\ Size(x.arch, prog[k].op) \in 2 .. 10
    BY InstrSize
  <2> HIDE DEF s
  <2>4. QED
    BY <1>2, <2>1, <2>2, <2>3
<1> HIDE DEF s, b
<1>6. ASSUME NEW k \in Visible(x) PROVE b[s[k]] = Plain(x, k, s[k])
  <2>1. k \in DOMAIN prog /\ prog[k].op \notin HiddenOps /\ s[k] \in 0 .. End(x) - 1
    BY <1>5 DEF Visible
  <2>2. (CHOOSE m \in DOMAIN prog : s[m] = s[k]) = k
    BY <1>4, <2>1
  <2>3. b[s[k]] = Encode(x.arch, prog[CHOOSE m \in DOMAIN prog : s[m] = s[k]].op,
                         prog[CHOOSE m \in DOMAIN prog : s[m] = s[k]].to, s[k])
    BY <1>3, <2>1
  <2>4. QED
    BY <2>2, <2>3 DEF Plain
<1>7. ASSUME NEW p \in 0 .. End(x) - 1
      PROVE  \/ \E k \in Visible(x) : s[k] = p /\ b[p] = Plain(x, k, p)
             \/ \E k \in DOMAIN prog \ Visible(x) : s[k] + HiddenAt[prog[k].op] = p /\ b[p] = Covert(x, k, p)
             \/ b[p] = [op |-> "nop", disp |-> 0]
  <2>1. CASE \E k \in DOMAIN prog : s[k] = p /\ prog[k].op \notin HiddenOps
    BY <1>6, <2>1 DEF Visible
  <2>2. CASE /\ ~ \E k \in DOMAIN prog : s[k] = p /\ prog[k].op \notin HiddenOps
             /\ \E k \in DOMAIN prog : prog[k].op \in HiddenOps /\ s[k] + HiddenAt[prog[k].op] = p
    <3> DEFINE c == CHOOSE k \in DOMAIN prog : prog[k].op \in HiddenOps /\ s[k] + HiddenAt[prog[k].op] = p
    <3>1. c \in DOMAIN prog /\ prog[c].op \in HiddenOps /\ s[c] + HiddenAt[prog[c].op] = p
      BY <2>2
    <3>2. b[p] = Encode(x.arch, Hidden[prog[c].op], prog[c].to, p)
      BY <1>3, <2>2
    <3> HIDE DEF c
    <3>3. b[p] = Covert(x, c, p) /\ c \in DOMAIN prog \ Visible(x)
      BY <3>1, <3>2 DEF Covert, Visible
    <3>4. QED
      BY <3>1, <3>3
  <2>3. CASE /\ ~ \E k \in DOMAIN prog : s[k] = p /\ prog[k].op \notin HiddenOps
             /\ ~ \E k \in DOMAIN prog : prog[k].op \in HiddenOps /\ s[k] + HiddenAt[prog[k].op] = p
    BY <1>3, <2>3
  <2>4. QED
    BY <2>1, <2>2, <2>3
<1>8. DOMAIN b = 0 .. End(x) - 1
  BY <1>3
<1>9. \A k \in Visible(x) : s[k] \in 0 .. End(x) - 1
  BY <1>5 DEF Visible
<1>10. QED
  BY <1>2, <1>6, <1>7, <1>8, <1>9 DEF s, b

\* No immediate of the program looks like an instruction.
AllVisible(x) == Visible(x) = DOMAIN x.program

\* What does not occur in an immediate is an instruction, and so is everything where
\* no immediate looks like one.
LEMMA ByteFacts ==
  ASSUME NEW x \in Input, NEW p \in 0 .. End(x) - 1
  PROVE  LET b == Bytes(x)[p]
         IN  /\ b.op \in Ops
             /\ b.disp \in Int
             /\ b.op # "nop" /\ (AllVisible(x) \/ b.op \notin {"call", "load", "dispatch"})
                  => \E k \in Visible(x) : Starts(x)[k] = p /\ b = Plain(x, k, p) /\ b.op = x.program[k].op
<1> DEFINE b == Bytes(x)[p]
<1>0. p \in Nat
  BY ByteKinds
<1>1. \/ \E k \in Visible(x) : Starts(x)[k] = p /\ b = Plain(x, k, p)
      \/ \E k \in DOMAIN x.program \ Visible(x) : b = Covert(x, k, p)
      \/ b = [op |-> "nop", disp |-> 0]
  BY ByteKinds
<1> HIDE DEF b
<1>2. CASE \E k \in Visible(x) : Starts(x)[k] = p /\ b = Plain(x, k, p)
  <2>1. PICK k \in Visible(x) : Starts(x)[k] = p /\ b = Plain(x, k, p)
    BY <1>2
  <2>2. x.program[k].op \in Ops /\ x.program[k].to \in Nat
    BY InputFacts DEF Visible
  <2>3. b.op = x.program[k].op /\ b.disp \in Int
    BY <1>0, <2>1, <2>2, EncodeFacts DEF Plain
  <2>4. QED
    BY <2>1, <2>2, <2>3 DEF b
<1>3. CASE \E k \in DOMAIN x.program \ Visible(x) : b = Covert(x, k, p)
  <2>1. PICK k \in DOMAIN x.program \ Visible(x) : b = Covert(x, k, p)
    BY <1>3
  <2>2. x.program[k].op \in HiddenOps /\ x.program[k].to \in Nat
    BY <2>1, InputFacts DEF Visible
  <2> DEFINE op == Hidden[x.program[k].op]
  <2>3. op \in Ops /\ op \in {"call", "load", "dispatch"}
    BY <2>2, HiddenFacts
  <2> HIDE DEF op
  <2>4. b.op = op /\ b.disp \in Int
    <3>1. b = Encode(x.arch, op, x.program[k].to, p)
      BY <2>1 DEF Covert, op
    <3>2. QED
      BY <1>0, <2>2, <2>3, <3>1, EncodeFacts
  <2>5. ~AllVisible(x)
    BY <2>1 DEF AllVisible
  <2>6. QED
    BY <2>3, <2>4, <2>5 DEF b
<1>4. CASE b = [op |-> "nop", disp |-> 0]
  BY <1>4 DEF Ops, b
<1>5. QED
  BY <1>1, <1>2, <1>3, <1>4

-----------------------------------------------------------------------------
(* Where the sweeps for direct calls stop.                                 *)

Width(x) == IF x.arch = "amd64" THEN 5 ELSE 4
Stride(x) == IF x.arch = "amd64" THEN 1 ELSE 4
CallAt(x, p) == p + Width(x) <= End(x) /\ Bytes(x)[p].op = "call"
Dest(x, p) == IF x.arch = "amd64" THEN TextStart + p + 5 + Bytes(x)[p].disp ELSE TextStart + p + Bytes(x)[p].disp

\* What reads as a call before offset j, and anywhere.
CallsBelow(x, j) == {p \in Nat : OnGrid(x, p) /\ p < j /\ CallAt(x, p)}
AllCalls(x) == {p \in Nat : OnGrid(x, p) /\ CallAt(x, p)}

LEMMA CallsStart ==
  ASSUME NEW x
  PROVE  OnGrid(x, 0) /\ CallsBelow(x, 0) = {}
  BY DEF OnGrid, CallsBelow

LEMMA CallsStep ==
  ASSUME NEW x \in Input, NEW j \in Nat, OnGrid(x, j)
  PROVE  /\ OnGrid(x, j + Stride(x))
         /\ CallsBelow(x, j + Stride(x)) = CallsBelow(x, j) \cup {p \in {j} : CallAt(x, p)}
<1>1. x.arch \in {"amd64", "arm64"}
  BY InputFacts DEF Arches
<1>2. OnGrid(x, j + Stride(x))
  <2>1. ASSUME x.arch = "arm64" PROVE \E q \in Nat : j + 4 = 4 * q
    <3>1. PICK q \in Nat : j = 4 * q
      BY <2>1 DEF OnGrid
    <3>2. j + 4 = 4 * (q + 1) /\ q + 1 \in Nat
      BY <3>1
    <3>3. QED
      BY <3>2
  <2>2. QED
    BY <2>1 DEF OnGrid, Stride
<1>3. ASSUME NEW p \in Nat, OnGrid(x, p), j < p, p < j + Stride(x) PROVE FALSE
  <2>1. CASE x.arch = "amd64"
    BY <1>3, <2>1 DEF Stride
  <2>2. CASE x.arch = "arm64"
    <3>1. PICK q \in Nat : j = 4 * q
      BY <2>2 DEF OnGrid
    <3>2. PICK r \in Nat : p = 4 * r
      BY <1>3, <2>2 DEF OnGrid
    <3>3. p < j + 4
      BY <1>3, <2>2 DEF Stride
    <3>4. QED
      BY <1>3, <3>1, <3>2, <3>3
  <2>3. QED
    BY <1>1, <2>1, <2>2
<1>4. j < j + Stride(x) /\ Stride(x) \in Nat
  BY DEF Stride
<1>5. \A p \in Nat : OnGrid(x, p) => (p < j + Stride(x) <=> p < j \/ p = j)
  BY <1>3, <1>4
<1>6. QED
  BY <1>2, <1>5 DEF CallsBelow

LEMMA CallsEnd ==
  ASSUME NEW x \in Input, NEW j \in Nat, ~(j + Width(x) <= End(x))
  PROVE  CallsBelow(x, j) = AllCalls(x)
<1>1. End(x) \in Nat /\ Width(x) \in Nat
  BY ByteKinds DEF Width
<1>2. \A p \in Nat : p + Width(x) <= End(x) => p < j
  BY <1>1
<1>3. QED
  BY <1>2 DEF CallsBelow, AllCalls, CallAt

\* The calls of the program are among those, and are all of them where nothing is hidden.
LEMMA CallsFound ==
  ASSUME NEW x \in Input
  PROVE  /\ \A k \in DOMAIN x.program :
              x.program[k].op = "call" => /\ Starts(x)[k] \in AllCalls(x)
                                          /\ Dest(x, Starts(x)[k]) = x.program[k].to
         /\ AllVisible(x) =>
              \A p \in AllCalls(x) : \E k \in DOMAIN x.program : x.program[k].op = "call" /\ Starts(x)[k] = p
<1> DEFINE s == Starts(x)
           n == Len(x.program)
<1>1. n \in Nat /\ DOMAIN x.program = 1 .. n /\ n + 1 \in 1 .. n + 1 /\ x.arch \in {"amd64", "arm64"} /\ End(x) \in Nat
  BY InputFacts, ByteKinds DEF Arches
<1>2. ASSUME NEW k \in DOMAIN x.program, x.program[k].op = "call"
      PROVE  s[k] \in AllCalls(x) /\ Dest(x, s[k]) = x.program[k].to
  <2>1. k \in Visible(x)
    BY <1>2 DEF Visible, HiddenOps
  <2>2. Bytes(x)[s[k]] = Plain(x, k, s[k])
    BY <2>1, ByteKinds
  <2>3. s[k] \in Nat /\ OnGrid(x, s[k])
    BY <1>1, StartsTyped
  <2>4. Size(x.arch, "call") = Width(x)
    BY <1>1 DEF Size, Width
  <2>5. s[k] + Width(x) <= End(x)
    BY <1>1, <1>2, <2>4, StartsApart DEF End
  <2>6. x.program[k].to \in Nat /\ x.program[k].op \in Ops
    BY InputFacts
  <2> DEFINE e == Plain(x, k, s[k])
  <2>7. /\ e.op = "call"
        /\ x.arch = "amd64" => TextStart + s[k] + Size(x.arch, "call") + e.disp = x.program[k].to
        /\ x.arch = "arm64" => TextStart + s[k] + e.disp = x.program[k].to
    BY <1>2, <2>3, <2>6, EncodeFacts DEF Plain
  <2> HIDE DEF e, s
  <2>8. Dest(x, s[k]) = x.program[k].to
    <3>1. Bytes(x)[s[k]] = e
      BY <2>2 DEF e
    <3>2. QED
      BY <1>1, <2>4, <2>7, <3>1 DEF Dest, Width
  <2>9. QED
    BY <2>2, <2>3, <2>5, <2>7, <2>8 DEF AllCalls, CallAt, e
<1>3. ASSUME AllVisible(x), NEW p \in AllCalls(x)
      PROVE  \E k \in DOMAIN x.program : x.program[k].op = "call" /\ s[k] = p
  <2>1. p \in 0 .. End(x) - 1 /\ Bytes(x)[p].op = "call"
    BY <1>1 DEF AllCalls, CallAt, Width
  <2>2. PICK k \in Visible(x) : s[k] = p /\ Bytes(x)[p].op = x.program[k].op
    BY <1>3, <2>1, ByteFacts
  <2>3. QED
    BY <2>1, <2>2 DEF Visible
<1>4. QED
  BY <1>2, <1>3

-----------------------------------------------------------------------------
(* What the tables of a binary give.                                       *)

Ground == in \in Inputs /\ text = Bytes(in)

LEMMA TableTypes ==
  ASSUME Ground
  PROVE  /\ in \in Input
         /\ in.fns \in Seq([name : STRING, addr : Nat])
         /\ Entries \subseteq Nat
         /\ in.torn \subseteq Nat
         /\ in.itabs \in Seq([addr : Nat, methods : Seq(Nat)])
         /\ in.funcvals \subseteq [at : Nat, entry : Nat]
         /\ in.arch \in {"amd64", "arm64"}
         /\ TextStart \in Nat
<1>1. in \in Input
  BY SweepAssumption DEF Ground
<1>2. in.fns \in Seq([name : STRING, addr : Nat]) /\ in.itabs \in Seq([addr : Nat, methods : Seq(Nat)])
      /\ in.funcvals \subseteq [at : Nat, entry : Nat] /\ in.arch \in {"amd64", "arm64"}
      /\ in.torn \subseteq Nat
  BY <1>1 DEF Input, Arches
<1>3. \A k \in DOMAIN in.fns : in.fns[k] \in [name : STRING, addr : Nat]
  BY <1>2, ElementFacts
<1>4. Entries \subseteq Nat
  BY <1>3 DEF Entries
<1>5. QED
  BY <1>1, <1>2, <1>4, SweepAssumption

LEMMA LookupType ==
  ASSUME Ground, NEW pc \in Nat
  PROVE  Lookup(pc) \in Nat \cup {NoAddr}
<1> DEFINE table == Entries \cup in.torn
           below == {a \in table : a <= pc}
           last == CHOOSE a \in below : \A b \in below : b <= a
<1>0. table \subseteq Nat /\ below \subseteq table
  BY TableTypes
<1>1. Lookup(pc) = NoAddr \/ (below # {} /\ Lookup(pc) = last)
  BY DEF Lookup
<1>2. ASSUME below # {} PROVE last \in below
  <2> DEFINE T == {d \in Nat : \E a \in below : d = pc - a}
  <2>1. PICK a \in below : TRUE
    BY <1>2
  <2>2. pc - a \in T
    BY <1>0, <2>1
  <2>3. PICK d \in T : \A e \in T : d <= e
    <3> HIDE DEF T
    <3>1. T \subseteq Nat
      BY DEF T
    <3>2. QED
      BY <2>2, <3>1, LeastNumber
  <2>4. PICK m \in below : d = pc - m
    BY <2>3
  <2>5. ASSUME NEW b \in below PROVE b <= m
    <3>1. m \in Nat /\ b \in Nat /\ b <= pc
      BY <1>0
    <3>2. pc - b \in T
      BY <3>1, <2>5
    <3>3. d <= pc - b
      <4> HIDE DEF T
      <4>1. QED
        BY <2>3, <3>2
    <3>4. QED
      BY <2>4, <3>1, <3>3
  <2> HIDE DEF below
  <2>6. QED
    BY <2>4, <2>5
<1> HIDE DEF last, below, table
<1>3. QED
  BY <1>0, <1>1, <1>2

LEMMA NamedType ==
  ASSUME Ground, NEW name
  PROVE  Named(name) \in Entries \cup {NoAddr}
<1> DEFINE K == {k \in DOMAIN in.fns : in.fns[k].name = name}
<1>1. CASE K = {}
  BY <1>1 DEF Named
<1>2. CASE K # {}
  <2>1. K \subseteq Nat
    BY TableTypes
  <2>2. \E k \in K : \A m \in K : k <= m
    <3> HIDE DEF K
    <3>1. QED
      BY <1>2, <2>1, LeastNumber
  <2> DEFINE c == CHOOSE k \in K : \A m \in K : k <= m
  <2>3. c \in K
    BY <2>2
  <2>4. Named(name) = in.fns[c].addr
    BY <1>2 DEF Named
  <2> HIDE DEF c
  <2>5. QED
    BY <2>3, <2>4 DEF Entries
<1>3. QED
  BY <1>1, <1>2

\* What a question asks for.
LEMMA TargetTypes ==
  ASSUME Ground
  PROVE  /\ in.target.kind \in {"function", "address", "itab"}
         /\ in.target.kind = "itab" => TargetAddr = NoAddr /\ in.target.method \in Nat
         /\ TargetAddr \in Nat \cup {NoAddr}
         /\ SpawnerAddrs \subseteq Entries /\ SpawnerAddrs \subseteq Nat
         /\ Slots \subseteq (DOMAIN in.itabs) \X Nat
<1>1. in.target \in Target
  BY TableTypes DEF Input
<1>2. in.target.kind \in {"function", "address", "itab"}
  BY <1>1 DEF Target
<1>3. in.target.kind = "itab" => TargetAddr = NoAddr /\ in.target.method \in Nat
  BY <1>1 DEF Target, TargetAddr
<1>4. TargetAddr \in Nat \cup {NoAddr}
  <2>1. in.target.kind = "function" => TargetAddr \in Nat \cup {NoAddr}
    BY NamedType, TableTypes DEF TargetAddr
  <2>2. in.target.kind = "address" => TargetAddr \in Nat
    BY <1>1 DEF Target, TargetAddr
  <2>3. QED
    BY <1>2, <1>3, <2>1, <2>2
<1>5. SpawnerAddrs \subseteq Entries /\ SpawnerAddrs \subseteq Nat
  BY NamedType, TableTypes DEF SpawnerAddrs
<1>6. ASSUME NEW e \in Slots PROVE e \in (DOMAIN in.itabs) \X Nat
  <2>1. PICK t \in DOMAIN in.itabs : e \in {<<t, m - 1>> : m \in {n \in DOMAIN in.itabs[t].methods : in.itabs[t].methods[n] = TargetAddr}}
    BY <1>6 DEF Slots
  <2>2. PICK m \in DOMAIN in.itabs[t].methods : e = <<t, m - 1>>
    BY <2>1
  <2>3. in.itabs[t] \in [addr : Nat, methods : Seq(Nat)]
    BY TableTypes, ElementFacts
  <2>4. m \in Nat \ {0}
    <3>1. in.itabs[t].methods \in Seq(Nat)
      BY <2>3
    <3>2. QED
      BY <3>1, ElementFacts
  <2>5. QED
    BY <2>2, <2>4
<1>7. QED
  BY <1>2, <1>3, <1>4, <1>5, <1>6

\* The slot taken is one of those left.
LEMMA SlotType ==
  ASSUME Ground, todo \subseteq (DOMAIN in.itabs) \X Nat, todo # {}
  PROVE  Slot \in todo /\ Slot \in Seq(Nat) /\ Slot # <<>>
<1> DEFINE T == {e[1] : e \in todo}
<1>0. DOMAIN in.itabs \subseteq Nat
  BY TableTypes
<1>1. \A e \in todo : e[1] \in Nat /\ e[2] \in Nat
  BY <1>0
<1>2. PICK t \in T : \A u \in T : t <= u
  <2>1. T \subseteq Nat /\ T # {}
    BY <1>1
  <2> HIDE DEF T
  <2>2. QED
    BY <2>1, LeastNumber
<1> DEFINE M == {e[2] : e \in {f \in todo : f[1] = t}}
<1>3. PICK m \in M : \A n \in M : m <= n
  <2>1. M \subseteq Nat /\ M # {}
    BY <1>1, <1>2
  <2> HIDE DEF M
  <2>2. QED
    BY <2>1, LeastNumber
<1>4. PICK e \in todo : e[1] = t /\ e[2] = m
  BY <1>3
<1>5. ASSUME NEW f \in todo PROVE e[1] < f[1] \/ (e[1] = f[1] /\ e[2] <= f[2])
  <2>1. e[1] <= f[1] /\ e[1] \in Nat /\ f[1] \in Nat
    BY <1>1, <1>2, <1>4
  <2>2. e[1] = f[1] => e[2] <= f[2]
    BY <1>3, <1>4
  <2>3. QED
    BY <2>1, <2>2
<1>6. Slot \in todo
  BY <1>5 DEF Slot
<1>7. Slot \in Seq(Nat) /\ Slot # <<>>
  <2>1. Slot \in (DOMAIN in.itabs) \X Nat
    BY <1>6
  <2>2. PICK a \in DOMAIN in.itabs, b \in Nat : Slot = <<a, b>>
    BY <2>1
  <2>3. a \in Nat
    BY <1>0
  <2>4. QED
    BY <2>2, <2>3
<1>8. QED
  BY <1>6, <1>7

\* What a sweep for calls reads at the offset it has reached.
ReadsCall == i + CallWidth <= TextLen /\ text[i].op = "call"
CallTarget == IF Amd64 THEN TextStart + i + 5 + text[i].disp ELSE TextStart + i + text[i].disp

\* The three sweeps for calls read alike, each in its own loop (find_calls, scan_direct,
\* find_spawns).
LEMMA LoopsReadAlike ==
  /\ EdgesLeft <=> i + CallWidth <= TextLen
  /\ DirectLeft <=> i + CallWidth <= TextLen
  /\ SpawnsLeft <=> i + CallWidth <= TextLen
  /\ EdgeTarget = CallTarget /\ DirectTarget = CallTarget /\ SpawnTarget = CallTarget
  /\ EdgesLeft => (IsEdge <=> ReadsCall /\ CallTarget \in Entries /\ Lookup(Here) # NoAddr)
  /\ DirectLeft => (IsSite <=> ReadsCall /\ CallTarget = TargetAddr)
  /\ SpawnsLeft => (IsSpawn <=> ReadsCall /\ CallTarget \in SpawnerAddrs)
  BY DEF EdgesLeft, DirectLeft, SpawnsLeft, EdgeTarget, DirectTarget, SpawnTarget, CallTarget, ReadsCall, Here, IsEdge,
     IsSite, IsSpawn

LEMMA ReadFacts ==
  ASSUME Ground, i \in Nat
  PROVE  /\ TextLen = End(in) /\ End(in) \in Nat
         /\ DOMAIN text = 0 .. End(in) - 1
         /\ CallWidth = Width(in) /\ CallStride = Stride(in)
         /\ ReadsCall <=> CallAt(in, i)
         /\ CallTarget = Dest(in, i)
         /\ Here \in Nat
<1>1. in \in Input /\ in.arch \in {"amd64", "arm64"} /\ TextStart \in Nat
  BY TableTypes
<1>2. DOMAIN text = 0 .. End(in) - 1 /\ End(in) \in Nat
  BY <1>1, ByteKinds DEF Ground
<1>3. TextLen = End(in)
  <2> DEFINE a == 0
             b == End(in) - 1
  <2>1. a \in Int /\ b \in Int
    BY <1>2
  <2> HIDE DEF a, b
  <2>2. Cardinality(a .. b) = IF a > b THEN 0 ELSE b - a + 1
    BY <2>1, FS_Interval
  <2>3. Cardinality(a .. b) = End(in)
    BY <1>2, <2>2 DEF a, b
  <2>4. QED
    BY <1>2, <2>3 DEF TextLen, a, b
<1>4. CallWidth = Width(in) /\ CallStride = Stride(in)
  BY DEF CallWidth, CallStride, Amd64, Width, Stride
<1>5. ReadsCall <=> CallAt(in, i)
  BY <1>3, <1>4 DEF ReadsCall, CallAt, Ground
<1>6. CallTarget = Dest(in, i)
  BY DEF CallTarget, Dest, Amd64, Ground
<1>7. Here \in Nat
  BY <1>1 DEF Here
<1>8. QED
  BY <1>2, <1>3, <1>4, <1>5, <1>6, <1>7

-----------------------------------------------------------------------------
(* Types.                                                                  *)

Found == [resolution : {"resolved", "no-lea-pattern", "funcval-unmapped"}, target : Nat \cup {NoAddr}]
EdgeType == [site : Nat, caller : Nat, callee : Nat]
SiteType == [site : Nat, caller : Nat \cup {NoAddr}, slot : Seq(Nat)]
SpawnType == [site : Nat, spawner : Nat, found : Found]
RefType == [pc : Nat, kind : Ops]

Typed ==
    /\ in \in Input
    /\ i \in Nat
    /\ edges \in Seq(EdgeType)
    /\ sites \in Seq(SiteType)
    /\ todo \subseteq (DOMAIN in.itabs) \X Nat
    /\ spawns \in Seq(SpawnType)
    /\ refs \in Seq(RefType)
    /\ failed \in BOOLEAN
    /\ phase \in {"calls", "direct", "slots", "spawns", "refs", "done"}

LEMMA TypedIsTypeOK == Typed <=> TypeOK
  BY DEF Typed, TypeOK, EdgeType, SiteType, SpawnType, RefType, Found

Types ==
    /\ Ground
    /\ Typed
    /\ phase \in {"calls", "direct", "spawns"} => OnGrid(in, i)
    /\ phase = "direct" => TargetAddr # NoAddr
    /\ phase = "refs" => Amd64

Fixed == in' = in /\ text' = text

LEMMA NextFixed ==
  ASSUME [Next]_vars
  PROVE  Fixed
  BY DEF Next, vars, Fixed, ScanCalls, StartFind, ScanDirect, EndDirect, ScanSlot, EndSlot, EndFind, ScanSpawns,
     EndSpawns, ScanRefs, EndRefs

\* The binary and the question do not change, nor does what is read from them.
LEMMA FixedFacts ==
  ASSUME Fixed
  PROVE  /\ Ground' <=> Ground
         /\ TargetAddr' = TargetAddr
         /\ Entries' = Entries
         /\ SpawnerAddrs' = SpawnerAddrs
         /\ Amd64' <=> Amd64
         /\ \A pc : Lookup(pc)' = Lookup(pc)
<1>1. Entries' = Entries /\ (Amd64' <=> Amd64) /\ (Ground' <=> Ground)
  BY DEF Fixed, Entries, Amd64, Ground
<1>2. \A pc : Lookup(pc)' = Lookup(pc)
  BY <1>1 DEF Lookup, Fixed
<1>3. \A name : Named(name)' = Named(name)
  BY DEF Named, Fixed
<1>4. TargetAddr' = TargetAddr
  BY <1>3 DEF TargetAddr, Fixed
<1>5. SpawnerAddrs' = SpawnerAddrs
  BY <1>3 DEF SpawnerAddrs
<1>6. QED
  BY <1>1, <1>2, <1>4, <1>5

LEMMA NearestIn ==
  ASSUME NEW J, J \subseteq Nat, J # {}
  PROVE  Nearest(J) \in J /\ \A k \in J : Nearest(J) <= k
<1>1. \E j \in J : \A k \in J : j <= k
  BY LeastNumber
<1>2. QED
  BY <1>1 DEF Nearest

LEMMA BackFacts ==
  ASSUME Ground
  PROVE  /\ DOMAIN Back = 1 .. 8
         /\ Amd64 => Back[1] = 7
         /\ ~Amd64 => Back[1] = 4 /\ Back[2] = 8
  BY DEF Back

LEMMA ResolveType ==
  ASSUME Ground
  PROVE  Resolve \in Found
<1> DEFINE J == {j \in Candidates : Readable(j)}
<1>1. CASE J = {}
  BY <1>1 DEF Resolve, Found
<1>2. CASE J # {}
  <2>1. J \subseteq Nat
    BY BackFacts DEF Candidates
  <2>2. Nearest(J) \in J
    <3> HIDE DEF J
    <3>1. QED
      BY <1>2, <2>1, NearestIn
  <2>3. \E f \in in.funcvals : f.at = Loaded(Nearest(J))
    BY <2>2 DEF Readable
  <2> DEFINE g == CHOOSE f \in in.funcvals : f.at = Loaded(Nearest(J))
  <2>4. g \in in.funcvals
    BY <2>3
  <2>5. Resolve = [resolution |-> "resolved", target |-> g.entry]
    BY <1>2 DEF Resolve
  <2> HIDE DEF g
  <2>6. g.entry \in Nat
    BY <2>4, TableTypes
  <2>7. QED
    BY <2>5, <2>6 DEF Found
<1>3. QED
  BY <1>1, <1>2

\* A list that is left as it is or grows.
LEMMA Grown ==
  ASSUME NEW S, NEW q \in Seq(S), NEW e \in S, NEW r, r = Append(q, e) \/ r = q
  PROVE  r \in Seq(S)
  BY AppendFacts

LEMMA InitTypes ==
  ASSUME Init
  PROVE  Types
<1>1. Ground /\ in \in Input
  BY SweepAssumption DEF Init, Ground
<1>2. OnGrid(in, 0)
  BY CallsStart
<1>3. <<>> \in Seq(EdgeType) /\ <<>> \in Seq(SiteType) /\ <<>> \in Seq(SpawnType) /\ <<>> \in Seq(RefType)
  OBVIOUS
<1>4. QED
  BY <1>1, <1>2, <1>3 DEF Init, Types, Typed

\* What each sweep appends has its type.
LEMMA NewTypes ==
  ASSUME Types
  PROVE  /\ IsEdge => [site |-> Here, caller |-> Lookup(Here), callee |-> EdgeTarget] \in EdgeType
         /\ [site |-> Here, caller |-> Lookup(Here), slot |-> <<>>] \in SiteType
         /\ \A e \in Nat, q \in Seq(Nat) : [site |-> e, caller |-> Lookup(e), slot |-> q] \in SiteType
         /\ IsSpawn => [site |-> Here, spawner |-> SpawnTarget, found |-> Resolve] \in SpawnType
         /\ i + 7 <= TextLen => /\ text[i].op \in Ops
                                /\ [pc |-> Here, kind |-> text[i].op] \in RefType
<1>1. Ground /\ i \in Nat /\ Here \in Nat /\ in \in Input
  BY ReadFacts, TableTypes DEF Types, Typed
<1>2. \A e \in Nat : Lookup(e) \in Nat \cup {NoAddr}
  BY <1>1, LookupType
<1>3. IsEdge => EdgeTarget \in Nat
  BY <1>1, TableTypes DEF IsEdge
<1>4. <<>> \in Seq(Nat)
  OBVIOUS
<1>5. IsSpawn => SpawnTarget \in Nat
  BY <1>1, TargetTypes DEF IsSpawn
<1>6. ASSUME i + 7 <= TextLen PROVE text[i].op \in Ops
  <2>1. i \in 0 .. End(in) - 1
    BY <1>1, <1>6, ReadFacts
  <2>2. QED
    BY <1>1, <2>1, ByteFacts DEF Ground
<1>7. QED
  BY <1>1, <1>2, <1>3, <1>4, <1>5, <1>6, ResolveType DEF IsEdge, EdgeType, SiteType, SpawnType, RefType

LEMMA StepTypes ==
  ASSUME Types, Next
  PROVE  Types'
<1>1. Ground' /\ Fixed /\ in' = in /\ TargetAddr' = TargetAddr /\ (Amd64' <=> Amd64) /\ in \in Input
  BY NextFixed, FixedFacts, TableTypes DEF Types, Fixed
<1>2. Ground /\ Typed /\ i \in Nat /\ Here \in Nat /\ CallWidth = Width(in) /\ CallStride = Stride(in) /\ CallStride \in Nat
  BY ReadFacts DEF Types, Typed, Stride
<1>3. OnGrid(in, 0)
  BY CallsStart
<1>4. OnGrid(in, i) => OnGrid(in, i + CallStride)
  BY <1>1, <1>2, CallsStep
<1>5. SUFFICES Typed' /\ (phase' \in {"calls", "direct", "spawns"} => OnGrid(in, i'))
                /\ (phase' = "direct" => TargetAddr # NoAddr) /\ (phase' = "refs" => Amd64)
  BY <1>1 DEF Types
<1>6. CASE ScanCalls
  <2>1. edges' \in Seq(EdgeType)
    <3>1. CASE IsEdge
      <4> DEFINE e == [site |-> Here, caller |-> Lookup(Here), callee |-> EdgeTarget]
      <4>1. e \in EdgeType
        BY <3>1, NewTypes
      <4> HIDE DEF e
      <4>2. Append(edges, e) \in Seq(EdgeType)
        BY <1>2, <4>1 DEF Typed
      <4>3. QED
        BY <1>6, <3>1, <4>2 DEF ScanCalls, e
    <3>2. CASE ~IsEdge
      BY <1>2, <1>6, <3>2 DEF ScanCalls, Typed
    <3>3. QED
      BY <3>1, <3>2
  <2>2. i' \in Nat /\ OnGrid(in, i')
    BY <1>2, <1>4, <1>6 DEF ScanCalls, Types
  <2>3. QED
    BY <1>2, <1>6, <2>1, <2>2 DEF ScanCalls, Typed
<1>7. CASE StartFind
  <2>1. todo' \subseteq (DOMAIN in.itabs) \X Nat
    <3>1. CASE in.target.kind = "itab" /\ TargetItab # {}
      <4> DEFINE c == CHOOSE t \in TargetItab : \A u \in TargetItab : t <= u
      <4>1. TargetItab \subseteq DOMAIN in.itabs
        BY DEF TargetItab
      <4>2. DOMAIN in.itabs \subseteq Nat
        BY <1>2, TableTypes
      <4>3. \E t \in TargetItab : \A u \in TargetItab : t <= u
        BY <3>1, <4>1, <4>2, LeastNumber
      <4>4. c \in TargetItab
        BY <4>3
      <4>5. todo' = {<<c, in.target.method>>}
        BY <1>7, <3>1 DEF StartFind
      <4> HIDE DEF c
      <4>6. in.target.method \in Nat
        BY <1>2, <3>1, TargetTypes
      <4>7. QED
        BY <4>1, <4>4, <4>5, <4>6
    <3>2. CASE ~(in.target.kind = "itab" /\ TargetItab # {})
      <4>1. Slots \subseteq (DOMAIN in.itabs) \X Nat
        BY <1>2, TargetTypes
      <4>2. todo' = {} \/ todo' = Slots
        BY <1>7, <3>2 DEF StartFind
      <4>3. QED
        BY <4>1, <4>2
    <3>3. QED
      BY <3>1, <3>2
  <2>2. i' = 0 /\ phase' \in {"slots", "direct"} /\ failed' \in BOOLEAN /\ (phase' = "direct" => TargetAddr # NoAddr)
        /\ UNCHANGED <<in, text, edges, sites, spawns, refs>>
    BY <1>7 DEF StartFind
  <2>3. QED
    BY <1>2, <1>3, <2>1, <2>2 DEF Typed
<1>8. CASE ScanDirect
  <2> DEFINE e == [site |-> Here, caller |-> Lookup(Here), slot |-> <<>>]
  <2>1. e \in SiteType
    BY NewTypes
  <2>2. sites' = Append(sites, e) \/ sites' = sites
    BY <1>8 DEF ScanDirect
  <2> HIDE DEF e
  <2>3. sites' \in Seq(SiteType)
    <3>1. sites \in Seq(SiteType)
      BY <1>2 DEF Typed
    <3>2. QED
      BY <2>1, <2>2, <3>1, Grown
  <2>4. i' \in Nat /\ OnGrid(in, i')
    BY <1>2, <1>4, <1>8 DEF ScanDirect, Types
  <2>5. QED
    BY <1>2, <1>8, <2>3, <2>4 DEF ScanDirect, Typed, Types
<1>9. CASE EndDirect
  BY <1>2, <1>3, <1>9 DEF EndDirect, Typed
<1>10. CASE ScanSlot
  <2>1. Slot \in Seq(Nat)
    BY <1>2, <1>10, SlotType DEF ScanSlot, Typed
  <2> DEFINE site == IF Amd64 THEN Here ELSE Here + 4
             e == [site |-> site, caller |-> Lookup(site), slot |-> Slot]
  <2>2. site \in Nat
    BY <1>2
  <2>3. sites' = Append(sites, e) \/ sites' = sites
    BY <1>10 DEF ScanSlot
  <2> HIDE DEF site
  <2>4. e \in SiteType
    BY <2>1, <2>2, NewTypes
  <2> HIDE DEF e
  <2>5. sites' \in Seq(SiteType)
    <3>1. sites \in Seq(SiteType)
      BY <1>2 DEF Typed
    <3>2. QED
      BY <2>3, <2>4, <3>1, Grown
  <2>6. i' \in Nat
    BY <1>2, <1>10 DEF ScanSlot
  <2>7. QED
    BY <1>2, <1>10, <2>5, <2>6 DEF ScanSlot, Typed
<1>11. CASE EndSlot
  BY <1>2, <1>11 DEF EndSlot, Typed
<1>12. CASE EndFind
  BY <1>2, <1>3, <1>12 DEF EndFind, Typed
<1>13. CASE ScanSpawns
  <2> DEFINE e == [site |-> Here, spawner |-> SpawnTarget, found |-> Resolve]
  <2>1. IsSpawn => e \in SpawnType
    BY NewTypes
  <2>2. (IsSpawn /\ spawns' = Append(spawns, e)) \/ spawns' = spawns
    BY <1>13 DEF ScanSpawns
  <2> HIDE DEF e
  <2>3. spawns' \in Seq(SpawnType)
    <3>1. spawns \in Seq(SpawnType)
      BY <1>2 DEF Typed
    <3>2. CASE spawns' = spawns
      BY <3>1, <3>2
    <3>3. CASE IsSpawn /\ spawns' = Append(spawns, e)
      BY <2>1, <3>1, <3>3, AppendFacts
    <3>4. QED
      BY <2>2, <3>2, <3>3
  <2>4. i' \in Nat /\ OnGrid(in, i')
    BY <1>2, <1>4, <1>13 DEF ScanSpawns, Types
  <2>5. QED
    BY <1>2, <1>13, <2>3, <2>4 DEF ScanSpawns, Typed
<1>14. CASE EndSpawns
  BY <1>2, <1>14 DEF EndSpawns, Typed
<1>15. CASE ScanRefs
  <2> DEFINE e == [pc |-> Here, kind |-> text[i].op]
  <2>1. e \in RefType /\ text[i].op \in Ops
    BY <1>15, NewTypes DEF ScanRefs
  <2>2. refs' = Append(refs, e) \/ refs' = refs
    BY <1>15 DEF ScanRefs
  <2>3. RefLength(text[i].op) \in Nat
    BY <2>1 DEF RefLength, Ops
  <2> HIDE DEF e
  <2>4. refs' \in Seq(RefType)
    <3>1. refs \in Seq(RefType)
      BY <1>2 DEF Typed
    <3>2. QED
      BY <2>1, <2>2, <3>1, Grown
  <2>5. i' \in Nat
    BY <1>2, <1>15, <2>3 DEF ScanRefs
  <2>6. QED
    BY <1>2, <1>15, <2>4, <2>5 DEF ScanRefs, Typed, Types
<1>16. CASE EndRefs
  BY <1>2, <1>16 DEF EndRefs, Typed
<1>17. QED
  BY <1>6, <1>7, <1>8, <1>9, <1>10, <1>11, <1>12, <1>13, <1>14, <1>15, <1>16 DEF Next

-----------------------------------------------------------------------------
(* What the three sweeps for calls have found.                             *)

Elements(q) == {q[k] : k \in DOMAIN q}

LEMMA ElementsGrow ==
  ASSUME NEW S, NEW q \in Seq(S), NEW e \in S
  PROVE  Elements(Append(q, e)) = Elements(q) \cup {e}
<1>1. DOMAIN Append(q, e) = DOMAIN q \cup {Len(q) + 1}
  BY AppendFacts
<1>2. \A k \in DOMAIN q : Append(q, e)[k] = q[k]
  BY AppendFacts
<1>3. Append(q, e)[Len(q) + 1] = e
  BY AppendFacts
<1>4. QED
  BY <1>1, <1>2, <1>3 DEF Elements

LEMMA ElementsNone == Elements(<<>>) = {}
  BY DEF Elements

\* What each reports for a call at offset p, and for the calls in P.
EdgeOf(p) == [site |-> TextStart + p, caller |-> Lookup(TextStart + p), callee |-> Dest(in, p)]
SiteOf(p) == [site |-> TextStart + p, caller |-> Lookup(TextStart + p), slot |-> <<>>]
EdgesOf(P) == {EdgeOf(p) : p \in {q \in P : Dest(in, q) \in Entries /\ Lookup(TextStart + q) # NoAddr}}
SitesOf(P) == {SiteOf(p) : p \in {q \in P : Dest(in, q) = TargetAddr}}
SpawnsOf(P) == {TextStart + p : p \in {q \in P : Dest(in, q) \in SpawnerAddrs}}

LEMMA FixedReports ==
  ASSUME Fixed
  PROVE  \A p : EdgeOf(p)' = EdgeOf(p) /\ SiteOf(p)' = SiteOf(p)
  BY FixedFacts DEF EdgeOf, SiteOf, Fixed

LEMMA ReportsOfUnion ==
  ASSUME NEW P, NEW Q
  PROVE  /\ EdgesOf(P \cup Q) = EdgesOf(P) \cup EdgesOf(Q)
         /\ SitesOf(P \cup Q) = SitesOf(P) \cup SitesOf(Q)
         /\ SpawnsOf(P \cup Q) = SpawnsOf(P) \cup SpawnsOf(Q)
  BY DEF EdgesOf, SitesOf, SpawnsOf

EdgesInv == Elements(edges) = EdgesOf(IF phase = "calls" THEN CallsBelow(in, i) ELSE AllCalls(in))

\* What one step of a sweep for calls adds to what lies below its offset.
NewCall == {p \in {i} : CallAt(in, p)}

LEMMA SweepStep ==
  ASSUME Types, OnGrid(in, i)
  PROVE  /\ CallsBelow(in, i + CallStride) = CallsBelow(in, i) \cup NewCall
         /\ NewCall = IF ReadsCall THEN {i} ELSE {}
         /\ ~(i + CallWidth <= TextLen) => CallsBelow(in, i) = AllCalls(in)
         /\ CallTarget = Dest(in, i)
         /\ Here = TextStart + i
<1>1. Ground /\ i \in Nat /\ in \in Input
  BY TableTypes DEF Types, Typed
<1>2. CallsBelow(in, i + CallStride) = CallsBelow(in, i) \cup NewCall
  BY <1>1, CallsStep, ReadFacts DEF NewCall
<1>3. NewCall = IF ReadsCall THEN {i} ELSE {}
  BY <1>1, ReadFacts DEF NewCall
<1>4. ~(i + CallWidth <= TextLen) => CallsBelow(in, i) = AllCalls(in)
  BY <1>1, ReadFacts, CallsEnd
<1>5. QED
  BY <1>1, <1>2, <1>3, <1>4, ReadFacts DEF Here

LEMMA EdgesLater ==
  ASSUME Fixed
  PROVE  LET P == IF phase' = "calls" THEN CallsBelow(in, i') ELSE AllCalls(in)
         IN  EdgesInv' <=> Elements(edges') = EdgesOf(P)
<1> DEFINE P == IF phase' = "calls" THEN CallsBelow(in, i') ELSE AllCalls(in)
           D == {EdgeOf(p)' : p \in {q \in P : Dest(in, q) \in Entries' /\ Lookup(TextStart + q)' # NoAddr}}
<1>1. in' = in
  BY DEF Fixed
<1>2. EdgesInv' <=> Elements(edges') = D
  BY <1>1 DEF EdgesInv, EdgesOf, Elements
<1>3. EdgesOf(P) = D
  <2> HIDE DEF P
  <2>1. \A p : EdgeOf(p)' = EdgeOf(p)
    BY FixedReports
  <2>2. QED
    BY <2>1, FixedFacts DEF EdgesOf
<1>4. QED
  BY <1>2, <1>3

LEMMA EdgesStep ==
  ASSUME Types, EdgesInv, Next
  PROVE  EdgesInv'
<1>1. Fixed
  BY NextFixed
<1> DEFINE P1 == IF phase = "calls" THEN CallsBelow(in, i) ELSE AllCalls(in)
           P2 == IF phase' = "calls" THEN CallsBelow(in, i') ELSE AllCalls(in)
<1>3. Elements(edges) = EdgesOf(P1)
  BY DEF EdgesInv
<1>4. SUFFICES Elements(edges') = EdgesOf(P2)
  BY <1>1, EdgesLater
<1>5. CASE ScanCalls
  <2>1. OnGrid(in, i) /\ phase = "calls" /\ phase' = "calls" /\ i' = i + CallStride
        /\ EdgeTarget = CallTarget /\ (IsEdge <=> ReadsCall /\ CallTarget \in Entries /\ Lookup(Here) # NoAddr)
    BY <1>5, LoopsReadAlike DEF ScanCalls, Types
  <2>2. P2 = P1 \cup NewCall
    BY <2>1, SweepStep
  <2> HIDE DEF P1, P2
  <2>3. EdgesOf(P2) = EdgesOf(P1) \cup EdgesOf(NewCall)
    BY <2>2, ReportsOfUnion
  <2>4. CASE IsEdge
    <3>1. EdgesOf(NewCall) = {EdgeOf(i)}
      <4>1. NewCall = {i} /\ Dest(in, i) \in Entries /\ Lookup(TextStart + i) # NoAddr
        BY <2>1, <2>4, SweepStep
      <4>2. QED
        BY <4>1 DEF EdgesOf
    <3>2. edges' = Append(edges, EdgeOf(i))
      BY <1>5, <2>1, <2>4, SweepStep DEF ScanCalls, EdgeOf
    <3>3. EdgeOf(i) \in EdgeType
      BY <2>1, <2>4, NewTypes, SweepStep DEF EdgeOf
    <3>4. Elements(edges') = Elements(edges) \cup {EdgeOf(i)}
      <4>1. edges \in Seq(EdgeType)
        BY DEF Types, Typed
      <4>2. QED
        BY <3>2, <3>3, <4>1, ElementsGrow
    <3>5. QED
      BY <1>3, <2>3, <3>1, <3>4
  <2>5. CASE ~IsEdge
    <3>1. EdgesOf(NewCall) = {}
      <4>1. \A q \in NewCall : ~(Dest(in, q) \in Entries /\ Lookup(TextStart + q) # NoAddr)
        BY <2>1, <2>5, SweepStep
      <4>2. QED
        BY <4>1 DEF EdgesOf
    <3>2. QED
      BY <1>3, <1>5, <2>3, <2>5, <3>1 DEF ScanCalls
  <2>6. QED
    BY <2>4, <2>5
<1>6. CASE StartFind
  <2>1. OnGrid(in, i) /\ phase = "calls" /\ phase' # "calls" /\ ~(i + CallWidth <= TextLen) /\ edges' = edges
    <3>1. i \in Nat /\ CallWidth \in Nat /\ TextLen \in Nat
      BY ReadFacts DEF Types, Typed, CallWidth
    <3>2. QED
      BY <1>6, <3>1, LoopsReadAlike DEF StartFind, Types
  <2>2. P1 = P2
    BY <2>1, SweepStep
  <2>3. QED
    BY <1>3, <2>1, <2>2
<1>7. CASE ~ScanCalls /\ ~StartFind
  <2>1. edges' = edges /\ phase # "calls" /\ phase' # "calls"
    BY <1>7 DEF Next, ScanDirect, EndDirect, ScanSlot, EndSlot, EndFind, ScanSpawns, EndSpawns, ScanRefs, EndRefs
  <2>2. QED
    BY <1>3, <2>1
<1>8. QED
  BY <1>5, <1>6, <1>7

DirectOf(q) == {e \in Elements(q) : e.slot = <<>>}

InOrder(q) ==
    \A k, m \in DOMAIN q : k < m /\ q[k].slot = <<>> /\ q[m].slot = <<>> => q[k].site < q[m].site

\* The calls scan_direct has passed.
Passed == IF phase = "direct" THEN CallsBelow(in, i) ELSE AllCalls(in)
Swept == phase = "direct" \/ (phase # "calls" /\ TargetAddr # NoAddr)

SitesInv ==
    /\ phase = "calls" => sites = <<>>
    /\ phase = "direct" => \A k \in DOMAIN sites : sites[k].site < TextStart + i
    /\ Swept => DirectOf(sites) = SitesOf(Passed)
    /\ phase # "calls" /\ in.target.kind # "itab" => (failed <=> TargetAddr = NoAddr)
    /\ InOrder(sites)

\* An appended site that is not direct changes neither.
LEMMA SlotSiteApart ==
  ASSUME NEW q \in Seq(SiteType), NEW e \in SiteType, e.slot # <<>>, InOrder(q)
  PROVE  DirectOf(Append(q, e)) = DirectOf(q) /\ InOrder(Append(q, e))
<1>1. DirectOf(Append(q, e)) = DirectOf(q)
  BY ElementsGrow DEF DirectOf
<1>2. InOrder(Append(q, e))
  <2> DEFINE r == Append(q, e)
             n == Len(q)
  <2>1. DOMAIN r = 1 .. n + 1 /\ DOMAIN q = 1 .. n /\ r[n + 1] = e /\ (\A k \in 1 .. n : r[k] = q[k]) /\ n \in Nat
    BY AppendFacts
  <2> HIDE DEF r, n
  <2>2. SUFFICES ASSUME NEW k \in DOMAIN r, NEW m \in DOMAIN r, k < m, r[k].slot = <<>>, r[m].slot = <<>>
                 PROVE  r[k].site < r[m].site
    BY DEF InOrder, r
  <2>3. k # n + 1 /\ m # n + 1
    BY <2>1, <2>2
  <2>4. k \in DOMAIN q /\ m \in DOMAIN q /\ r[k] = q[k] /\ r[m] = q[m]
    BY <2>1, <2>3
  <2>5. QED
    BY <2>2, <2>4 DEF InOrder
<1>3. QED
  BY <1>1, <1>2

\* A direct one that lies behind all of them does.
LEMMA DirectSiteNext ==
  ASSUME NEW q \in Seq(SiteType), NEW e \in SiteType, e.slot = <<>>, InOrder(q),
         \A k \in DOMAIN q : q[k].site < e.site
  PROVE  /\ DirectOf(Append(q, e)) = DirectOf(q) \cup {e}
         /\ InOrder(Append(q, e))
         /\ \A k \in DOMAIN Append(q, e) : Append(q, e)[k].site <= e.site
<1>1. DirectOf(Append(q, e)) = DirectOf(q) \cup {e}
  BY ElementsGrow DEF DirectOf
<1> DEFINE r == Append(q, e)
           n == Len(q)
<1>2. DOMAIN r = 1 .. n + 1 /\ DOMAIN q = 1 .. n /\ r[n + 1] = e /\ (\A k \in 1 .. n : r[k] = q[k]) /\ n \in Nat
  BY AppendFacts
<1>3. \A k \in 1 .. n : q[k].site \in Nat
  <2>1. \A k \in DOMAIN q : q[k] \in SiteType
    BY ElementFacts
  <2>2. QED
    BY <1>2, <2>1 DEF SiteType
<1>4. e.site \in Nat
  BY DEF SiteType
<1> HIDE DEF r, n
<1>5. InOrder(r)
  <2>1. SUFFICES ASSUME NEW k \in DOMAIN r, NEW m \in DOMAIN r, k < m, r[k].slot = <<>>, r[m].slot = <<>>
                 PROVE  r[k].site < r[m].site
    BY DEF InOrder
  <2>2. k \in DOMAIN q /\ r[k] = q[k]
    BY <1>2, <2>1
  <2>3. CASE m = n + 1
    BY <1>2, <2>2, <2>3
  <2>4. CASE m # n + 1
    <3>1. m \in DOMAIN q /\ r[m] = q[m]
      BY <1>2, <2>4
    <3>2. QED
      BY <2>1, <2>2, <3>1 DEF InOrder
  <2>5. QED
    BY <2>3, <2>4
<1>6. \A k \in DOMAIN r : r[k].site <= e.site
  BY <1>2, <1>3, <1>4
<1>7. QED
  BY <1>1, <1>5, <1>6 DEF r

LEMMA SitesLater ==
  ASSUME Fixed
  PROVE  LET P == IF phase' = "direct" THEN CallsBelow(in, i') ELSE AllCalls(in)
         IN  SitesInv' <=>
              /\ phase' = "calls" => sites' = <<>>
              /\ phase' = "direct" => \A k \in DOMAIN sites' : sites'[k].site < TextStart + i'
              /\ phase' = "direct" \/ (phase' # "calls" /\ TargetAddr # NoAddr) => DirectOf(sites') = SitesOf(P)
              /\ phase' # "calls" /\ in.target.kind # "itab" => (failed' <=> TargetAddr = NoAddr)
              /\ InOrder(sites')
<1> DEFINE P == IF phase' = "direct" THEN CallsBelow(in, i') ELSE AllCalls(in)
<1>1. in' = in /\ TargetAddr' = TargetAddr
  BY FixedFacts DEF Fixed
<1>2. (SitesOf(Passed))' = {SiteOf(p)' : p \in {q \in P : Dest(in, q) = TargetAddr}}
  BY <1>1 DEF SitesOf, Passed
<1>3. SitesOf(P) = {SiteOf(p)' : p \in {q \in P : Dest(in, q) = TargetAddr}}
  <2> HIDE DEF P
  <2>1. \A p : SiteOf(p)' = SiteOf(p)
    BY FixedReports
  <2>2. QED
    BY <2>1 DEF SitesOf
<1>4. (SitesOf(Passed))' = SitesOf(P)
  BY <1>2, <1>3
<1>5. Swept' <=> phase' = "direct" \/ (phase' # "calls" /\ TargetAddr # NoAddr)
  BY <1>1 DEF Swept
<1> HIDE DEF P
<1>6. QED
  BY <1>1, <1>4, <1>5 DEF SitesInv, DirectOf, InOrder, Elements, P

LEMMA SitesStep ==
  ASSUME Types, SitesInv, Next
  PROVE  SitesInv'
<1>1. Fixed /\ in' = in /\ Ground
  BY NextFixed DEF Fixed, Types
<1>2. i \in Nat /\ CallWidth \in Nat /\ TextLen \in Nat /\ CallStride \in Nat /\ TextStart \in Nat /\ sites \in Seq(SiteType)
  BY ReadFacts, TableTypes DEF Types, Typed, CallWidth, CallStride
<1> DEFINE P == IF phase' = "direct" THEN CallsBelow(in, i') ELSE AllCalls(in)
<1>3. SUFFICES /\ phase' = "calls" => sites' = <<>>
               /\ phase' = "direct" => \A k \in DOMAIN sites' : sites'[k].site < TextStart + i'
               /\ phase' = "direct" \/ (phase' # "calls" /\ TargetAddr # NoAddr) => DirectOf(sites') = SitesOf(P)
               /\ phase' # "calls" /\ in.target.kind # "itab" => (failed' <=> TargetAddr = NoAddr)
               /\ InOrder(sites')
  BY <1>1, SitesLater
<1>4. CASE ScanCalls
  BY <1>4 DEF ScanCalls, SitesInv
<1>5. CASE StartFind
  <2>1. sites = <<>> /\ sites' = <<>> /\ i' = 0 /\ phase' \in {"slots", "direct"}
    BY <1>5 DEF StartFind, SitesInv
  <2>2. in.target.kind = "itab" => TargetAddr = NoAddr /\ phase' = "slots"
    BY <1>1, <1>5, TargetTypes DEF StartFind
  <2>3. in.target.kind # "itab" => (failed' <=> TargetAddr = NoAddr) /\ (phase' = "slots" <=> TargetAddr = NoAddr)
    BY <1>5 DEF StartFind
  <2>4. phase' = "direct" => DirectOf(sites') = SitesOf(P)
    <3>1. CallsBelow(in, 0) = {}
      BY CallsStart
    <3>2. QED
      BY <2>1, <3>1, ElementsNone DEF DirectOf, SitesOf
  <2>5. (phase' = "direct" \/ (phase' # "calls" /\ TargetAddr # NoAddr)) => phase' = "direct"
    BY <2>1, <2>2, <2>3
  <2> HIDE DEF P
  <2>6. QED
    BY <2>1, <2>2, <2>3, <2>4, <2>5 DEF InOrder
<1>6. CASE ScanDirect
  <2>1. OnGrid(in, i) /\ phase = "direct" /\ phase' = "direct" /\ i' = i + CallStride /\ failed' = failed
        /\ (IsSite <=> ReadsCall /\ CallTarget = TargetAddr)
    BY <1>6, LoopsReadAlike DEF ScanDirect, Types
  <2>2. P = Passed \cup NewCall
    BY <2>1, SweepStep DEF Passed
  <2>3. DirectOf(sites) = SitesOf(Passed) /\ InOrder(sites) /\ \A k \in DOMAIN sites : sites[k].site < TextStart + i
    BY <2>1 DEF SitesInv, Swept
  <2>4. i < i'
    BY <1>2, <2>1 DEF CallStride
  <2> HIDE DEF P
  <2>5. SitesOf(P) = SitesOf(Passed) \cup SitesOf(NewCall)
    BY <2>2, ReportsOfUnion
  <2>6. CASE IsSite
    <3>1. SitesOf(NewCall) = {SiteOf(i)}
      BY <2>1, <2>6, SweepStep DEF SitesOf
    <3>2. sites' = Append(sites, SiteOf(i))
      BY <1>6, <2>1, <2>6, SweepStep DEF ScanDirect, SiteOf
    <3>3. SiteOf(i) \in SiteType /\ SiteOf(i).site = TextStart + i /\ SiteOf(i).slot = <<>>
      BY <2>1, NewTypes, SweepStep DEF SiteOf
    <3>4. /\ DirectOf(sites') = DirectOf(sites) \cup {SiteOf(i)}
          /\ InOrder(sites')
          /\ \A k \in DOMAIN sites' : sites'[k].site <= TextStart + i
      BY <1>2, <2>3, <3>2, <3>3, DirectSiteNext
    <3>5. \A k \in DOMAIN sites' : sites'[k].site \in Nat
      <4>1. sites' \in Seq(SiteType)
        BY <1>2, <3>2, <3>3, Grown
      <4>2. \A k \in DOMAIN sites' : sites'[k] \in SiteType
        BY <4>1, ElementFacts
      <4>3. QED
        BY <4>2 DEF SiteType
    <3>6. \A k \in DOMAIN sites' : sites'[k].site < TextStart + i'
      BY <1>2, <2>1, <2>4, <3>4, <3>5
    <3>7. QED
      BY <2>1, <2>3, <2>5, <3>1, <3>4, <3>6 DEF SitesInv
  <2>7. CASE ~IsSite
    <3>1. SitesOf(NewCall) = {}
      <4>1. \A q \in NewCall : Dest(in, q) # TargetAddr
        BY <2>1, <2>7, SweepStep
      <4>2. QED
        BY <4>1 DEF SitesOf
    <3>2. sites' = sites
      BY <1>6, <2>7 DEF ScanDirect
    <3>3. \A k \in DOMAIN sites : sites[k].site \in Nat
      <4>1. \A k \in DOMAIN sites : sites[k] \in SiteType
        BY <1>2, ElementFacts
      <4>2. QED
        BY <4>1 DEF SiteType
    <3>4. \A k \in DOMAIN sites : sites[k].site < TextStart + i'
      BY <1>2, <2>1, <2>3, <2>4, <3>3
    <3>5. QED
      BY <2>1, <2>3, <2>5, <3>1, <3>2, <3>4 DEF SitesInv
  <2>8. QED
    BY <2>6, <2>7
<1>7. CASE EndDirect
  <2>1. OnGrid(in, i) /\ phase = "direct" /\ phase' = "slots" /\ sites' = sites /\ failed' = failed
    BY <1>7 DEF EndDirect, Types
  <2>2. ~(i + CallWidth <= TextLen)
    BY <1>2, <1>7, LoopsReadAlike DEF EndDirect
  <2>3. P = Passed
    BY <2>1, <2>2, SweepStep DEF Passed
  <2> HIDE DEF P
  <2>4. QED
    BY <2>1, <2>3 DEF SitesInv, Swept
<1>8. CASE ScanSlot
  <2>1. phase = "slots" /\ phase' = "slots" /\ failed' = failed /\ InOrder(sites) /\ P = Passed
    BY <1>8 DEF ScanSlot, SitesInv, Passed
  <2>2. Slot \in Seq(Nat) /\ Slot # <<>>
    BY <1>1, <1>8, SlotType DEF ScanSlot, Types, Typed
  <2> DEFINE site == IF Amd64 THEN Here ELSE Here + 4
             e == [site |-> site, caller |-> Lookup(site), slot |-> Slot]
  <2>3. site \in Nat
    BY <1>1, <1>2, ReadFacts
  <2>4. sites' = Append(sites, e) \/ sites' = sites
    BY <1>8 DEF ScanSlot
  <2>5. e.slot # <<>>
    BY <2>2
  <2> HIDE DEF site
  <2>6. e \in SiteType
    BY <2>2, <2>3, NewTypes
  <2> HIDE DEF e, P
  <2>7. DirectOf(sites') = DirectOf(sites) /\ InOrder(sites')
    BY <1>2, <2>1, <2>4, <2>5, <2>6, SlotSiteApart
  <2>8. QED
    BY <2>1, <2>7 DEF SitesInv, Swept
<1>9. CASE EndSlot \/ EndFind \/ ScanSpawns \/ EndSpawns \/ ScanRefs \/ EndRefs
  <2>1. sites' = sites /\ failed' = failed /\ phase \notin {"calls", "direct"} /\ phase' \notin {"calls", "direct"}
    BY <1>9 DEF EndSlot, EndFind, ScanSpawns, EndSpawns, ScanRefs, EndRefs
  <2>2. P = Passed
    BY <2>1 DEF Passed
  <2> HIDE DEF P
  <2>3. QED
    BY <2>1, <2>2 DEF SitesInv, Swept
<1>10. QED
  BY <1>4, <1>5, <1>6, <1>7, <1>8, <1>9 DEF Next

-----------------------------------------------------------------------------
(* What is resolved for a spawn.                                           *)

\* Two instructions do not begin four bytes apart where the first has eight.
LEMMA NoStartInside ==
  ASSUME NEW x \in Input, NEW m \in DOMAIN x.program, NEW d \in Nat, 0 < d, d < Size(x.arch, x.program[m].op)
  PROVE  \A k \in DOMAIN x.program : Starts(x)[k] # Starts(x)[m] + d
<1> DEFINE s == Starts(x)
           n == Len(x.program)
<1>1. n \in Nat /\ DOMAIN x.program = 1 .. n
  BY InputFacts
<1> SUFFICES ASSUME NEW k \in DOMAIN x.program, s[k] = s[m] + d PROVE FALSE
  OBVIOUS
<1> DEFINE zk == Size(x.arch, x.program[k].op)
           zm == Size(x.arch, x.program[m].op)
<1>2. s[k] \in Nat /\ s[m] \in Nat /\ zk \in Nat /\ zm \in Nat
  BY <1>1, StartsTyped, InstrSize
<1>3. k < m => s[k] + zk <= s[m]
  BY <1>1, StartsApart
<1>4. m < k => s[m] + zm <= s[k]
  BY <1>1, StartsApart
<1> HIDE DEF s, zk, zm
<1>5. ~(k < m)
  BY <1>2, <1>3
<1>6. ~(m < k)
  BY <1>2, <1>4 DEF zm
<1>7. k = m
  BY <1>1, <1>5, <1>6
<1>8. QED
  BY <1>2, <1>7

\* The funcval loaded right before offset i.
LoadedBy(m) ==
    /\ m \in DOMAIN in.program
    /\ Starts(in)[m] + Size(in.arch, in.program[m].op) = i
    /\ in.program[m].op = "lea"
    /\ Amd64 \/ m > 1

\* The adjacent load is the nearest candidate, and reads the address it names.
LEMMA AdjacentCandidate ==
  ASSUME Ground, i \in Nat, NEW m, LoadedBy(m)
  PROVE  \E j \in {1, 2} : /\ j \in Candidates
                            /\ Loaded(j) = in.program[m].to
                            /\ \A k \in Candidates : j <= k
<1> DEFINE p == Starts(in)[m]
           e == Plain(in, m, p)
<1>1. in \in Input /\ in.arch \in {"amd64", "arm64"} /\ m \in DOMAIN in.program /\ DOMAIN in.program = 1 .. Len(in.program) /\ Len(in.program) \in Nat
  BY TableTypes, InputFacts DEF LoadedBy
<1>2. m \in Visible(in) /\ in.program[m].to \in Nat /\ in.program[m].op = "lea" /\ "lea" \in Ops
  BY <1>1, InputFacts DEF LoadedBy, Visible, HiddenOps, Ops
<1>3. p \in Nat /\ text[p] = e /\ p \in 0 .. End(in) - 1
  BY <1>1, <1>2, ByteKinds, StartsTyped DEF Ground
<1>4. /\ e.op = "lea" /\ e.disp \in Int
      /\ in.arch = "amd64" => TextStart + p + Size(in.arch, "lea") + e.disp = in.program[m].to
      /\ in.arch = "arm64" => TextStart + p + e.disp = in.program[m].to
  BY <1>1, <1>2, <1>3, EncodeFacts DEF Plain
<1>5. Size("amd64", "lea") = 7 /\ Size("arm64", "lea") = 8
  BY DEF Size
<1>6. p + Size(in.arch, "lea") = i /\ (Amd64 \/ m > 1)
  BY DEF LoadedBy
<1>7. DOMAIN Back = 1 .. 8 /\ (Amd64 => Back[1] = 7) /\ (~Amd64 => Back[1] = 4 /\ Back[2] = 8)
  BY BackFacts
<1>8. TextStart \in Nat
  BY TableTypes
<1>9. Candidates \subseteq 1 .. 8
  BY <1>7 DEF Candidates
<1> HIDE DEF p, e
<1>10. CASE in.arch = "amd64"
  <2>1. Amd64 /\ i - Back[1] = p /\ Back[1] <= i /\ 1 \in DOMAIN Back
    BY <1>3, <1>5, <1>6, <1>7, <1>10 DEF Amd64
  <2>2. 1 \in Candidates
    BY <1>3, <1>4, <2>1 DEF Candidates, InReach
  <2>3. Loaded(1) = in.program[m].to
    BY <1>3, <1>4, <1>5, <1>8, <1>10, <2>1 DEF Loaded
  <2>4. \A k \in Candidates : 1 <= k
    BY <1>9
  <2>5. QED
    BY <2>2, <2>3, <2>4
<1>11. CASE in.arch = "arm64"
  <2>1. ~Amd64 /\ i - Back[2] = p /\ i - Back[1] = p + 4 /\ 2 \in DOMAIN Back
    BY <1>3, <1>5, <1>6, <1>7, <1>11 DEF Amd64
  <2>2. p >= 4
    <3>1. 1 \in DOMAIN in.program /\ 1 < m
      BY <1>1, <1>6, <2>1
    <3>2. Starts(in)[1] + Size(in.arch, in.program[1].op) <= p
      BY <1>1, <3>1, StartsApart DEF p
    <3>3. Size(in.arch, in.program[1].op) \in {4, 8} /\ Starts(in)[1] = 0
      BY <1>1, <1>11, <3>1, InstrSize, StartsStep
    <3>4. QED
      BY <1>3, <3>2, <3>3
  <2>3. InReach(2)
    BY <1>3, <1>5, <1>6, <1>7, <1>11, <2>1, <2>2 DEF InReach
  <2>4. 2 \in Candidates
    BY <1>3, <1>4, <2>1, <2>3 DEF Candidates
  <2>5. Loaded(2) = in.program[m].to
    BY <1>3, <1>4, <1>8, <1>11, <2>1 DEF Loaded
  <2>6. 1 \notin Candidates
    <3>1. SUFFICES ASSUME text[p + 4].op \in {"lea", "leax"} PROVE FALSE
      BY <2>1 DEF Candidates
    <3>2. p + 4 \in 0 .. End(in) - 1
      <4>1. p + Size(in.arch, in.program[m].op) <= End(in)
        BY <1>1, StartsApart DEF End, p
      <4>2. End(in) \in Nat
        BY <1>1, ByteKinds
      <4>3. QED
        BY <1>2, <1>3, <1>5, <1>11, <4>1, <4>2
    <3>3. \E k \in Visible(in) : Starts(in)[k] = p + 4
      BY <1>1, <3>1, <3>2, ByteFacts DEF Ground
    <3>4. \A k \in DOMAIN in.program : Starts(in)[k] # p + 4
      <4>1. 4 \in Nat /\ 0 < 4 /\ 4 < Size(in.arch, in.program[m].op)
        BY <1>2, <1>5, <1>11
      <4>2. QED
        BY <1>1, <4>1, NoStartInside DEF p
    <3>5. QED
      BY <3>3, <3>4 DEF Visible
  <2>7. \A k \in Candidates : 2 <= k
    BY <1>9, <2>6
  <2>8. QED
    BY <2>4, <2>5, <2>7
<1>12. QED
  BY <1>1, <1>10, <1>11

LEMMA AdjacentResolved ==
  ASSUME Ground, i \in Nat, NEW m, LoadedBy(m), NEW f \in in.funcvals, f.at = in.program[m].to
  PROVE  Resolve = [resolution |-> "resolved", target |-> f.entry]
<1> DEFINE J == {j \in Candidates : Readable(j)}
<1>1. PICK j \in {1, 2} : j \in Candidates /\ Loaded(j) = in.program[m].to /\ \A k \in Candidates : j <= k
  BY AdjacentCandidate
<1>2. j \in J /\ (\A k \in J : j <= k) /\ J \subseteq Nat
  BY <1>1, BackFacts DEF Readable, Candidates
<1>3. Nearest(J) = j
  <2> HIDE DEF J
  <2>1. J # {}
    BY <1>2
  <2>2. Nearest(J) \in J /\ \A k \in J : Nearest(J) <= k
    BY <1>2, <2>1, NearestIn
  <2>3. Nearest(J) <= j /\ j <= Nearest(J) /\ Nearest(J) \in Nat /\ j \in Nat
    BY <1>2, <2>2
  <2>4. QED
    BY <2>3
<1>4. \A g \in in.funcvals : g.at = Loaded(j) => g = f
  BY <1>1, SweepAssumption DEF Ground
<1>5. (CHOOSE g \in in.funcvals : g.at = Loaded(j)) = f
  BY <1>1, <1>4
<1>6. J # {}
  BY <1>2
<1>7. Resolve = [resolution |-> "resolved", target |-> (CHOOSE g \in in.funcvals : g.at = Loaded(Nearest(J))).entry]
  BY <1>6 DEF Resolve
<1> HIDE DEF J
<1>8. QED
  BY <1>3, <1>5, <1>7

\* AdjacentSpawnResolved, of one spawn.
Adjacent(e) ==
    \A m \in DOMAIN Program :
      /\ At(m) + Size(in.arch, Program[m].op) = e.site
      /\ Program[m].op = "lea"
      /\ Amd64 \/ m > 1
      => \A f \in in.funcvals : f.at = Program[m].to =>
           e.found = [resolution |-> "resolved", target |-> f.entry]

SpawnSites(q) == {q[k].site : k \in DOMAIN q}
SpawnsPassed == IF phase = "spawns" THEN CallsBelow(in, i) ELSE AllCalls(in)

SpawnsInv ==
    /\ phase \in {"calls", "direct", "slots"} => spawns = <<>>
    /\ phase \in {"spawns", "refs", "done"} => SpawnSites(spawns) = SpawnsOf(SpawnsPassed)
    /\ \A k \in DOMAIN spawns : Adjacent(spawns[k])

LEMMA SpawnSitesGrow ==
  ASSUME NEW q \in Seq(SpawnType), NEW e \in SpawnType
  PROVE  SpawnSites(Append(q, e)) = SpawnSites(q) \cup {e.site}
<1>1. \A r : SpawnSites(r) = {f.site : f \in Elements(r)}
  BY DEF SpawnSites, Elements
<1>2. Elements(Append(q, e)) = Elements(q) \cup {e}
  BY ElementsGrow
<1>3. QED
  BY <1>1, <1>2

LEMMA SpawnsLater ==
  ASSUME Fixed
  PROVE  LET P == IF phase' = "spawns" THEN CallsBelow(in, i') ELSE AllCalls(in)
         IN  SpawnsInv' <=>
              /\ phase' \in {"calls", "direct", "slots"} => spawns' = <<>>
              /\ phase' \in {"spawns", "refs", "done"} => SpawnSites(spawns') = SpawnsOf(P)
              /\ \A k \in DOMAIN spawns' : Adjacent(spawns'[k])
<1> DEFINE P == IF phase' = "spawns" THEN CallsBelow(in, i') ELSE AllCalls(in)
<1>1. in' = in /\ SpawnerAddrs' = SpawnerAddrs /\ (Amd64' <=> Amd64)
  BY FixedFacts DEF Fixed
<1>2. (SpawnsOf(SpawnsPassed))' = SpawnsOf(P)
  BY <1>1 DEF SpawnsOf, SpawnsPassed
<1>3. (\A k \in DOMAIN spawns : Adjacent(spawns[k]))' <=> (\A k \in DOMAIN spawns' : Adjacent(spawns'[k]))
  BY <1>1 DEF Adjacent, Program, At
<1> HIDE DEF P
<1>4. QED
  BY <1>2, <1>3 DEF SpawnsInv, SpawnSites, P

LEMMA SpawnsStep ==
  ASSUME Types, SpawnsInv, Next
  PROVE  SpawnsInv'
<1>1. Fixed /\ in' = in /\ Ground
  BY NextFixed DEF Fixed, Types
<1>2. i \in Nat /\ CallWidth \in Nat /\ TextLen \in Nat /\ TextStart \in Nat /\ spawns \in Seq(SpawnType)
  BY ReadFacts, TableTypes DEF Types, Typed, CallWidth
<1> DEFINE P == IF phase' = "spawns" THEN CallsBelow(in, i') ELSE AllCalls(in)
<1>3. SUFFICES /\ phase' \in {"calls", "direct", "slots"} => spawns' = <<>>
               /\ phase' \in {"spawns", "refs", "done"} => SpawnSites(spawns') = SpawnsOf(P)
               /\ \A k \in DOMAIN spawns' : Adjacent(spawns'[k])
  BY <1>1, SpawnsLater
<1>4. CASE ScanCalls \/ StartFind \/ ScanDirect \/ EndDirect \/ ScanSlot \/ EndSlot
  <2>1. phase \in {"calls", "direct", "slots"} /\ phase' \in {"calls", "direct", "slots"} /\ spawns' = spawns
    BY <1>4 DEF ScanCalls, StartFind, ScanDirect, EndDirect, ScanSlot, EndSlot
  <2>2. QED
    BY <2>1 DEF SpawnsInv
<1>5. CASE EndFind
  <2>1. spawns = <<>> /\ spawns' = <<>> /\ i' = 0 /\ phase' = "spawns"
    BY <1>5 DEF EndFind, SpawnsInv
  <2>2. P = {}
    BY <2>1, CallsStart
  <2> HIDE DEF P
  <2>3. SpawnSites(spawns') = {} /\ SpawnsOf(P) = {}
    BY <2>1, <2>2 DEF SpawnSites, SpawnsOf
  <2>4. QED
    BY <2>1, <2>3
<1>6. CASE ScanSpawns
  <2>1. OnGrid(in, i) /\ phase = "spawns" /\ phase' = "spawns" /\ i' = i + CallStride
        /\ SpawnTarget = CallTarget /\ (IsSpawn <=> ReadsCall /\ CallTarget \in SpawnerAddrs)
    BY <1>6, LoopsReadAlike DEF ScanSpawns, Types
  <2>2. P = SpawnsPassed \cup NewCall
    BY <2>1, SweepStep DEF SpawnsPassed
  <2> HIDE DEF P
  <2>3. SpawnsOf(P) = SpawnsOf(SpawnsPassed) \cup SpawnsOf(NewCall)
    BY <2>2, ReportsOfUnion
  <2>4. CASE IsSpawn
    <3> DEFINE e == [site |-> Here, spawner |-> SpawnTarget, found |-> Resolve]
    <3>1. SpawnsOf(NewCall) = {Here}
      BY <2>1, <2>4, SweepStep DEF SpawnsOf
    <3>2. spawns' = Append(spawns, e)
      BY <1>6, <2>4 DEF ScanSpawns
    <3>3. e \in SpawnType
      BY <2>4, NewTypes
    <3>4. e.site = Here /\ e.found = Resolve
      OBVIOUS
    <3> HIDE DEF e
    <3>5. SpawnSites(spawns') = SpawnSites(spawns) \cup {Here}
      BY <1>2, <3>2, <3>3, <3>4, SpawnSitesGrow
    <3>6. Adjacent(e)
      <4> SUFFICES ASSUME NEW m \in DOMAIN Program, At(m) + Size(in.arch, Program[m].op) = e.site,
                          Program[m].op = "lea", Amd64 \/ m > 1,
                          NEW f \in in.funcvals, f.at = Program[m].to
                   PROVE  e.found = [resolution |-> "resolved", target |-> f.entry]
        BY DEF Adjacent
      <4>1. Starts(in)[m] + Size(in.arch, in.program[m].op) = i
        <5>1. in \in Input /\ m \in 1 .. Len(in.program) /\ Len(in.program) \in Nat
          BY <1>1, TableTypes, InputFacts DEF Program
        <5>2. Starts(in)[m] \in Nat
          BY <5>1, StartsTyped
        <5>3. Size(in.arch, in.program[m].op) \in Nat
          BY <5>1, InputFacts, InstrSize
        <5>4. Here = TextStart + i
          BY <2>1, SweepStep
        <5>5. TextStart + Starts(in)[m] + Size(in.arch, in.program[m].op) = TextStart + i
          BY <3>4, <5>4 DEF At, Program
        <5> DEFINE a == Starts(in)[m]
                   z == Size(in.arch, in.program[m].op)
        <5>6. a \in Nat /\ z \in Nat /\ TextStart + a + z = TextStart + i
          BY <5>2, <5>3, <5>5
        <5> HIDE DEF a, z
        <5>7. a + z = i
          BY <1>2, <5>6
        <5>8. QED
          BY <5>7 DEF a, z
      <4>2. LoadedBy(m)
        BY <4>1 DEF LoadedBy, Program
      <4>3. QED
        BY <1>1, <1>2, <3>4, <4>2, AdjacentResolved DEF Program
    <3>7. \A k \in DOMAIN spawns' : Adjacent(spawns'[k])
      <4>1. \A g \in Elements(spawns') : Adjacent(g)
        <5>1. Elements(spawns') = Elements(spawns) \cup {e}
          BY <1>2, <3>2, <3>3, ElementsGrow
        <5>2. \A g \in Elements(spawns) : Adjacent(g)
          BY DEF SpawnsInv, Elements
        <5>3. QED
          BY <3>6, <5>1, <5>2
      <4>2. QED
        BY <4>1 DEF Elements
    <3>8. QED
      BY <2>1, <2>3, <3>1, <3>5, <3>7 DEF SpawnsInv
  <2>5. CASE ~IsSpawn
    <3>1. SpawnsOf(NewCall) = {}
      <4>1. \A q \in NewCall : Dest(in, q) \notin SpawnerAddrs
        BY <2>1, <2>5, SweepStep
      <4>2. QED
        BY <4>1 DEF SpawnsOf
    <3>2. spawns' = spawns
      BY <1>6, <2>5 DEF ScanSpawns
    <3>3. QED
      BY <2>1, <2>3, <3>1, <3>2 DEF SpawnsInv
  <2>6. QED
    BY <2>4, <2>5
<1>7. CASE EndSpawns
  <2>1. OnGrid(in, i) /\ phase = "spawns" /\ phase' \in {"refs", "done"} /\ spawns' = spawns
    BY <1>7 DEF EndSpawns, Types
  <2>2. P = AllCalls(in)
    BY <2>1
  <2>3. SpawnsOf(P) = SpawnsOf(SpawnsPassed)
    <3>1. CASE SpawnerAddrs = {}
      BY <3>1 DEF SpawnsOf
    <3>2. CASE SpawnerAddrs # {}
      <4>1. ~(i + CallWidth <= TextLen)
        BY <1>2, <1>7, <3>2, LoopsReadAlike DEF EndSpawns
      <4>2. SpawnsPassed = AllCalls(in)
        BY <2>1, <4>1, SweepStep DEF SpawnsPassed
      <4>3. QED
        BY <2>2, <4>2
    <3>3. QED
      BY <3>1, <3>2
  <2> HIDE DEF P
  <2>4. QED
    BY <2>1, <2>3 DEF SpawnsInv
<1>8. CASE ScanRefs \/ EndRefs
  <2>1. spawns' = spawns /\ phase \in {"refs", "done"} /\ phase' \in {"refs", "done"}
    BY <1>8 DEF ScanRefs, EndRefs
  <2>2. P = SpawnsPassed
    BY <2>1 DEF SpawnsPassed
  <2> HIDE DEF P
  <2>3. QED
    BY <2>1, <2>2 DEF SpawnsInv
<1>9. QED
  BY <1>4, <1>5, <1>6, <1>7, <1>8 DEF Next

-----------------------------------------------------------------------------
(* What --data-xref has found.                                             *)

Pcs(q) == {q[k].pc : k \in DOMAIN q}

\* The references that must be reported, of those that begin before offset j.
Due(j) == {m \in RefSites : Starts(in)[m] + 7 <= TextLen /\ ~Covered(m) /\ Starts(in)[m] < j}

\* What may be reported: references, and immediates that read as one.
Reportable == {At(m) : m \in RefSites} \cup {At(m) + HiddenAt[Program[m].op] : m \in HiddenRefs}

RefsInv ==
    /\ phase \notin {"refs", "done"} => refs = <<>>
    /\ phase = "refs" => \A m \in Due(i) : At(m) \in Pcs(refs)
    /\ phase = "done" /\ Amd64 => \A m \in Due(TextLen) : At(m) \in Pcs(refs)
    /\ Pcs(refs) \subseteq Reportable

LEMMA RefLengths ==
  ASSUME NEW op \in Ops
  PROVE  /\ RefLength(op) \in Nat /\ RefLength(op) >= 1
         /\ RefLength(op) > 1 => RefLength(op) = Size("amd64", op) /\ op # "nop"
         /\ op \in Kinds => RefLength(op) > 1 /\ op \notin HiddenOps
         /\ RefLength("call") = 1 /\ RefLength("load") = 7 /\ RefLength("dispatch") = 6 /\ RefLength("nop") = 1
  BY DEF RefLength, Size, Ops, Kinds, HiddenOps

\* Where an encoding of the program is read, it is a hit exactly when it names the data.
LEMMA ReadAsWritten ==
  ASSUME Types, Amd64, NEW k \in DOMAIN in.program, NEW op \in Ops, text[i] = Encode(in.arch, op, in.program[k].to, i)
  PROVE  /\ text[i].op = op
         /\ ReadsRef <=> NamesData(k, op)
<1>1. in \in Input /\ in.arch = "amd64" /\ i \in Nat /\ TextStart \in Nat
  BY TableTypes DEF Types, Typed, Amd64
<1>2. in.program[k].to \in Nat
  BY <1>1, InputFacts
<1> DEFINE to == in.program[k].to
<1>3. text[i].op = op /\ TextStart + i + Size("amd64", op) + text[i].disp = to
  <2> HIDE DEF to
  <2>1. to \in Nat /\ text[i] = Encode(in.arch, op, to, i)
    BY <1>2 DEF to
  <2> DEFINE e == Encode(in.arch, op, to, i)
  <2>2. e.op = op /\ (in.arch = "amd64" => TextStart + i + Size(in.arch, op) + e.disp = to)
    BY <1>1, <2>1, EncodeFacts
  <2> HIDE DEF e
  <2>3. text[i] = e
    BY <2>1 DEF e
  <2>4. QED
    BY <1>1, <2>2, <2>3
<1>4. op \in Kinds => RefLength(op) = Size("amd64", op)
  BY RefLengths
<1>5. QED
  BY <1>3, <1>4 DEF ReadsRef, NamesData, Here, Program

\* What is reported is a reference, or an immediate that reads as one.
LEMMA HitIsNamed ==
  ASSUME Types, Amd64, i + 7 <= TextLen, ReadsRef
  PROVE  Here \in Reportable
<1>1. Ground /\ in \in Input /\ i \in 0 .. End(in) - 1 /\ text = Bytes(in) /\ TextStart \in Nat
  BY TableTypes, ReadFacts DEF Types, Typed, Ground
<1>2. text[i].op \in Kinds
  BY DEF ReadsRef
<1>3. CASE \E k \in Visible(in) : Starts(in)[k] = i /\ text[i] = Plain(in, k, i)
  <2>1. PICK k \in Visible(in) : Starts(in)[k] = i /\ text[i] = Plain(in, k, i)
    BY <1>3
  <2>2. k \in DOMAIN in.program /\ in.program[k].op \in Ops
    BY <1>1, InputFacts DEF Visible
  <2>3. NamesData(k, in.program[k].op)
    BY <2>1, <2>2, ReadAsWritten DEF Plain
  <2>4. k \in RefSites /\ At(k) = Here
    BY <2>1, <2>2, <2>3 DEF RefSites, Program, At, Here
  <2>5. QED
    BY <2>4 DEF Reportable
<1>4. CASE \E k \in DOMAIN in.program \ Visible(in) :
             Starts(in)[k] + HiddenAt[in.program[k].op] = i /\ text[i] = Covert(in, k, i)
  <2>1. PICK k \in DOMAIN in.program \ Visible(in) :
               Starts(in)[k] + HiddenAt[in.program[k].op] = i /\ text[i] = Covert(in, k, i)
    BY <1>4
  <2>2. in.program[k].op \in HiddenOps /\ Hidden[in.program[k].op] \in Ops
    BY <2>1, HiddenFacts DEF Visible
  <2>3. NamesData(k, Hidden[in.program[k].op])
    BY <2>1, <2>2, ReadAsWritten DEF Covert
  <2>4. k \in HiddenRefs
    BY <2>1, <2>2, <2>3, HiddenFacts DEF HiddenRefs, Program
  <2>5. At(k) + HiddenAt[Program[k].op] = Here
    <3>1. Starts(in)[k] \in Nat
      BY <1>1, <2>1, InputFacts, StartsTyped
    <3>2. HiddenAt[in.program[k].op] \in Nat
      BY <2>2 DEF HiddenAt, HiddenOps
    <3>3. QED
      BY <1>1, <2>1, <3>1, <3>2 DEF At, Here, Program
  <2>6. QED
    BY <2>4, <2>5 DEF Reportable
<1>5. CASE text[i] = [op |-> "nop", disp |-> 0]
  BY <1>2, <1>5 DEF Kinds
<1>6. QED
  BY <1>1, <1>3, <1>4, <1>5, ByteKinds

\* What is stepped over holds the beginning of no instruction that is due, save the one
\* the sweep stands at.
LEMMA NoneSkipped ==
  ASSUME Types, Amd64, i + 7 <= TextLen, NEW m \in DOMAIN in.program, ~Covered(m),
         i < Starts(in)[m], Starts(in)[m] < i + RefLength(text[i].op)
  PROVE  FALSE
<1> DEFINE L == RefLength(text[i].op)
           sm == Starts(in)[m]
<1>1. Ground /\ in \in Input /\ in.arch = "amd64" /\ i \in 0 .. End(in) - 1 /\ i \in Nat /\ text = Bytes(in) /\ text[i].op \in Ops
  BY TableTypes, ReadFacts, NewTypes DEF Types, Typed, Ground, Amd64
<1>2. L \in Nat /\ (L > 1 => L = Size("amd64", text[i].op))
  BY <1>1, RefLengths
<1>3. \A k \in DOMAIN in.program : Starts(in)[k] \in Nat
  BY <1>1, InputFacts, StartsTyped
<1>4. L > 1 /\ sm \in Nat /\ i < sm /\ sm < i + L
  BY <1>1, <1>2, <1>3
<1>5. ASSUME NEW k \in DOMAIN in.program, NEW d \in Nat, 0 < d, d < Size("amd64", in.program[k].op) PROVE sm # Starts(in)[k] + d
  BY <1>1, <1>5, NoStartInside
<1>6. CASE \E k \in Visible(in) : Starts(in)[k] = i /\ text[i] = Plain(in, k, i)
  <2>1. PICK k \in Visible(in) : Starts(in)[k] = i /\ text[i] = Plain(in, k, i)
    BY <1>6
  <2>2. k \in DOMAIN in.program /\ in.program[k].op \in Ops
    BY <1>1, InputFacts DEF Visible
  <2>3. text[i].op = in.program[k].op
    BY <2>1, <2>2, ReadAsWritten DEF Plain
  <2> DEFINE d == sm - i
  <2>4. d \in Nat /\ 0 < d /\ d < Size("amd64", in.program[k].op) /\ sm = i + d
    BY <1>1, <1>2, <1>4, <2>3
  <2> HIDE DEF d, sm, L
  <2>5. QED
    BY <1>5, <2>1, <2>2, <2>4
<1>7. CASE \E k \in DOMAIN in.program \ Visible(in) :
             Starts(in)[k] + HiddenAt[in.program[k].op] = i /\ text[i] = Covert(in, k, i)
  <2>1. PICK k \in DOMAIN in.program \ Visible(in) :
               Starts(in)[k] + HiddenAt[in.program[k].op] = i /\ text[i] = Covert(in, k, i)
    BY <1>7
  <2> DEFINE o == in.program[k].op
             sk == Starts(in)[k]
  <2>2. o \in HiddenOps /\ Hidden[o] \in Ops /\ sk \in Nat
    BY <1>3, <2>1, HiddenFacts DEF Visible
  <2>3. text[i].op = Hidden[o]
    BY <2>1, <2>2, ReadAsWritten DEF Covert
  <2>4. CASE o = "immcall"
    BY <1>4, <2>3, <2>4, HiddenFacts, RefLengths DEF Ops
  <2>5. CASE o = "immload"
    <3>1. L = 7 /\ sk + 2 = i
      BY <2>1, <2>3, <2>5, HiddenFacts, RefLengths DEF Ops
    <3>2. Size("amd64", o) = 10
      BY <2>5 DEF Size
    <3> DEFINE d == sm - sk
    <3> HIDE DEF sm, sk, L
    <3>3. d \in Nat /\ 0 < d /\ d < 10 /\ sm = sk + d
      BY <1>1, <1>4, <2>2, <3>1
    <3> HIDE DEF d
    <3>4. QED
      BY <1>5, <3>2, <3>3 DEF sk
  <2>6. CASE o = "spill"
    <3>1. L = 6 /\ sk + 8 = i
      BY <2>1, <2>3, <2>6, HiddenFacts, RefLengths DEF Ops
    <3>2. Size("amd64", o) = 10
      BY <2>6 DEF Size
    <3> DEFINE d == sm - sk
    <3>0. d = Starts(in)[m] - Starts(in)[k]
      OBVIOUS
    <3>3. d \notin 10 .. 13
      BY <2>1, <2>6, <3>0 DEF Covered, Program
    <3> HIDE DEF sm, sk, L
    <3>4. d \in Nat /\ 0 < d /\ d < 14 /\ sm = sk + d
      BY <1>1, <1>4, <2>2, <3>1
    <3> HIDE DEF d
    <3>5. d < 10
      BY <3>3, <3>4
    <3>6. QED
      BY <1>5, <3>2, <3>4, <3>5 DEF sk
  <2>7. QED
    BY <2>2, <2>4, <2>5, <2>6 DEF HiddenOps
<1>8. CASE text[i] = [op |-> "nop", disp |-> 0]
  BY <1>4, <1>8, RefLengths DEF Ops
<1>9. QED
  BY <1>1, <1>6, <1>7, <1>8, ByteKinds

\* One step of the sweep leaves nothing behind that is due.
LEMMA RefsAdvance ==
  ASSUME Types, Amd64, i + 7 <= TextLen, NEW m \in Due(i + RefLength(text[i].op)), m \notin Due(i)
  PROVE  ReadsRef /\ At(m) = Here
<1>1. Ground /\ in \in Input /\ i \in Nat /\ text = Bytes(in)
  BY TableTypes DEF Types, Typed, Ground
<1>2. m \in DOMAIN in.program /\ NamesData(m, in.program[m].op) /\ m \in RefSites
  BY DEF Due, RefSites, Program
<1>3. Starts(in)[m] \in Nat
  BY <1>1, <1>2, InputFacts, StartsTyped
<1>4. ~(Starts(in)[m] < i)
  BY DEF Due
<1>5. ~(i < Starts(in)[m])
  BY <1>2, NoneSkipped DEF Due
<1>6. Starts(in)[m] = i
  BY <1>1, <1>3, <1>4, <1>5
<1>7. in.program[m].op \in Ops /\ in.program[m].op \notin HiddenOps
  BY <1>1, <1>2, InputFacts, RefLengths DEF NamesData
<1>8. text[i] = Plain(in, m, i)
  BY <1>1, <1>2, <1>6, <1>7, ByteKinds DEF Visible
<1>9. ReadsRef
  BY <1>2, <1>7, <1>8, ReadAsWritten DEF Plain
<1>10. QED
  BY <1>6, <1>9 DEF At, Here

\* Past the last place where a match may begin nothing is due.
LEMMA RefsAtEnd ==
  ASSUME Types, ~(i + 7 <= TextLen)
  PROVE  Due(TextLen) \subseteq Due(i)
<1>1. i \in Nat /\ TextLen \in Nat /\ in \in Input
  BY TableTypes, ReadFacts DEF Types, Typed
<1>2. \A m \in DOMAIN in.program : Starts(in)[m] \in Nat
  BY <1>1, InputFacts, StartsTyped
<1>3. QED
  BY <1>1, <1>2 DEF Due, RefSites, Program

LEMMA RefsLater ==
  ASSUME Fixed
  PROVE  RefsInv' <=>
           /\ phase' \notin {"refs", "done"} => refs' = <<>>
           /\ phase' = "refs" => \A m \in Due(i') : At(m) \in Pcs(refs')
           /\ phase' = "done" /\ Amd64 => \A m \in Due(TextLen) : At(m) \in Pcs(refs')
           /\ Pcs(refs') \subseteq Reportable
<1>1. in' = in /\ (Amd64' <=> Amd64) /\ TextLen' = TextLen /\ Program' = Program
  BY FixedFacts DEF Fixed, TextLen, Program
<1>2. \A op : Wants(op)' <=> Wants(op)
  BY <1>1 DEF Wants
<1>3. \A m, op : (NamesData(m, op)' <=> NamesData(m, op))
  BY <1>1, <1>2 DEF NamesData
<1>4. \A m : At(m)' = At(m) /\ (Covered(m)' <=> Covered(m))
  BY <1>1 DEF At, Covered
<1>5. RefSites' = RefSites /\ HiddenRefs' = HiddenRefs
  BY <1>1, <1>3 DEF RefSites, HiddenRefs
<1>6. Due(i)' = Due(i') /\ Due(TextLen)' = Due(TextLen)
  BY <1>1, <1>4, <1>5 DEF Due
<1>7. Reportable' = Reportable
  BY <1>1, <1>4, <1>5 DEF Reportable
<1>8. Pcs(refs)' = Pcs(refs')
  BY DEF Pcs
<1>9. QED
  BY <1>1, <1>4, <1>6, <1>7, <1>8 DEF RefsInv

LEMMA RefsStep ==
  ASSUME Types, RefsInv, Next
  PROVE  RefsInv'
<1>1. Fixed
  BY NextFixed
<1>2. SUFFICES /\ phase' \notin {"refs", "done"} => refs' = <<>>
               /\ phase' = "refs" => \A m \in Due(i') : At(m) \in Pcs(refs')
               /\ phase' = "done" /\ Amd64 => \A m \in Due(TextLen) : At(m) \in Pcs(refs')
               /\ Pcs(refs') \subseteq Reportable
  BY <1>1, RefsLater
<1>3. i \in Nat /\ TextLen \in Nat /\ refs \in Seq(RefType)
  BY ReadFacts DEF Types, Typed
<1>4. CASE ScanCalls \/ StartFind \/ ScanDirect \/ EndDirect \/ ScanSlot \/ EndSlot \/ EndFind \/ ScanSpawns
  <2>1. refs' = refs /\ phase \notin {"refs", "done"} /\ phase' \notin {"refs", "done"}
    BY <1>4 DEF ScanCalls, StartFind, ScanDirect, EndDirect, ScanSlot, EndSlot, EndFind, ScanSpawns
  <2>2. QED
    BY <2>1 DEF RefsInv
<1>5. CASE EndSpawns
  <2>1. refs = <<>> /\ refs' = <<>> /\ i' = 0 /\ (phase' = "refs" \/ (phase' = "done" /\ ~Amd64))
    BY <1>5 DEF EndSpawns, RefsInv
  <2>2. Due(0) = {}
    <3>1. \A m \in DOMAIN in.program : Starts(in)[m] \in Nat
      BY TableTypes, InputFacts, StartsTyped DEF Types
    <3>2. QED
      BY <3>1 DEF Due, RefSites, Program
  <2>3. Pcs(refs') = {}
    BY <2>1 DEF Pcs
  <2>4. QED
    BY <2>1, <2>2, <2>3
<1>6. CASE ScanRefs
  <2>1. phase = "refs" /\ phase' = "refs" /\ Amd64 /\ i + 7 <= TextLen /\ i' = i + RefLength(text[i].op)
    BY <1>6 DEF ScanRefs, Types
  <2> DEFINE e == [pc |-> Here, kind |-> text[i].op]
  <2>2. e \in RefType /\ e.pc = Here
    BY <2>1, NewTypes
  <2>3. refs' = IF ReadsRef THEN Append(refs, e) ELSE refs
    BY <1>6 DEF ScanRefs
  <2> HIDE DEF e
  <2>4. Pcs(refs') = Pcs(refs) \cup (IF ReadsRef THEN {Here} ELSE {})
    <3>1. \A q : Pcs(q) = {f.pc : f \in Elements(q)}
      BY DEF Pcs, Elements
    <3>2. Elements(Append(refs, e)) = Elements(refs) \cup {e}
      BY <1>3, <2>2, ElementsGrow
    <3>3. Pcs(Append(refs, e)) = Pcs(refs) \cup {Here}
      BY <2>2, <3>1, <3>2
    <3>4. QED
      BY <2>3, <3>3
  <2>5. ASSUME NEW m \in Due(i') PROVE At(m) \in Pcs(refs')
    <3>1. CASE m \in Due(i)
      BY <2>1, <2>4, <3>1 DEF RefsInv
    <3>2. CASE m \notin Due(i)
      <4>1. ReadsRef /\ At(m) = Here
        BY <2>1, <2>5, <3>2, RefsAdvance
      <4>2. QED
        BY <2>4, <4>1
    <3>3. QED
      BY <3>1, <3>2
  <2>6. Pcs(refs') \subseteq Reportable
    <3>1. ReadsRef => Here \in Reportable
      BY <2>1, HitIsNamed
    <3>2. QED
      BY <2>4, <3>1 DEF RefsInv
  <2>7. QED
    BY <2>1, <2>5, <2>6
<1>7. CASE EndRefs
  <2>1. phase = "refs" /\ phase' = "done" /\ refs' = refs /\ ~(i + 7 <= TextLen)
    BY <1>3, <1>7 DEF EndRefs
  <2>2. QED
    BY <2>1, RefsAtEnd DEF RefsInv
<1>8. QED
  BY <1>4, <1>5, <1>6, <1>7 DEF Next

-----------------------------------------------------------------------------
(* All sweeps together.                                                    *)

Inv == Types /\ EdgesInv /\ SitesInv /\ SpawnsInv /\ RefsInv

LEMMA InitInv == Init => Inv
<1> SUFFICES ASSUME Init PROVE Inv
  OBVIOUS
<1>1. Types
  BY InitTypes
<1>2. CallsBelow(in, 0) = {}
  BY CallsStart
<1>3. EdgesInv
  BY <1>2, ElementsNone DEF Init, EdgesInv, EdgesOf
<1>4. SitesInv
  BY DEF Init, SitesInv, Swept, InOrder
<1>5. SpawnsInv
  BY DEF Init, SpawnsInv
<1>6. RefsInv
  <2>1. Pcs(refs) = {}
    BY DEF Init, Pcs
  <2>2. QED
    BY <2>1 DEF Init, RefsInv
<1>7. QED
  BY <1>1, <1>3, <1>4, <1>5, <1>6 DEF Inv

LEMMA StepInv == Inv /\ [Next]_vars => Inv'
<1> SUFFICES ASSUME Inv, [Next]_vars PROVE Inv'
  OBVIOUS
<1>1. CASE Next
  BY <1>1, StepTypes, EdgesStep, SitesStep, SpawnsStep, RefsStep DEF Inv
<1>2. CASE vars' = vars
  <2>1. Fixed /\ UNCHANGED <<i, edges, sites, todo, spawns, refs, failed, phase>>
    BY <1>2 DEF vars, Fixed
  <2>2. Types'
    BY <2>1, FixedFacts DEF Inv, Types, Typed, Fixed
  <2>3. EdgesInv'
    BY <2>1, EdgesLater DEF Inv, EdgesInv
  <2>4. SitesInv'
    BY <2>1, SitesLater DEF Inv, SitesInv, Swept, Passed
  <2>5. SpawnsInv'
    BY <2>1, SpawnsLater DEF Inv, SpawnsInv, SpawnsPassed
  <2>6. RefsInv'
    BY <2>1, RefsLater DEF Inv, RefsInv
  <2>7. QED
    BY <2>2, <2>3, <2>4, <2>5, <2>6 DEF Inv
<1>3. QED
  BY <1>1, <1>2

LEMMA InvIsInductive == Spec => []Inv
  BY InitInv, StepInv, PTL DEF Spec

-----------------------------------------------------------------------------

\* Every variable of the sweeps keeps its type, for every program, whatever its
\* immediates look like, and every question (find_calls, find, find_spawns, find_refs).
THEOREM TypeCorrect == Spec => []TypeOK
<1>1. Inv => TypeOK
  BY TypedIsTypeOK DEF Inv, Types
<1>2. QED
  BY <1>1, InvIsInductive, PTL

\* --xref reports every direct call of its target once and in address order, and nothing
\* else where no immediate looks like a call (callsites::find, scan_direct).
THEOREM DirectSitesFound == Spec => []DirectSitesRight
<1>1. Inv => DirectSitesRight
  <2> SUFFICES ASSUME Inv, phase = "done", in.target.kind # "itab", ~failed
               PROVE  /\ CallsTo(TargetAddr) \subseteq {e.site : e \in DirectSites}
                      /\ NoHidden => {e.site : e \in DirectSites} = CallsTo(TargetAddr)
                      /\ \A k, m \in DOMAIN sites :
                           k < m /\ sites[k].slot = <<>> /\ sites[m].slot = <<>> => sites[k].site < sites[m].site
    BY DEF DirectSitesRight
  <2>1. in \in Input
    BY TableTypes DEF Inv, Types
  <2>2. DirectSites = SitesOf(AllCalls(in))
    <3>1. Swept /\ Passed = AllCalls(in)
      BY DEF Inv, SitesInv, Swept, Passed
    <3>2. QED
      BY <3>1 DEF Inv, SitesInv, DirectSites, DirectOf, Elements
  <2>3. {e.site : e \in DirectSites} = {TextStart + p : p \in {q \in AllCalls(in) : Dest(in, q) = TargetAddr}}
    <3> DEFINE Q == {q \in AllCalls(in) : Dest(in, q) = TargetAddr}
    <3>1. DirectSites = {SiteOf(p) : p \in Q}
      BY <2>2 DEF SitesOf
    <3> HIDE DEF Q
    <3>2. {e.site : e \in {SiteOf(p) : p \in Q}} = {SiteOf(p).site : p \in Q}
      OBVIOUS
    <3>3. \A p : SiteOf(p).site = TextStart + p
      BY DEF SiteOf
    <3>4. QED
      BY <3>1, <3>2, <3>3 DEF Q
  <2>4. ASSUME NEW a \in CallsTo(TargetAddr) PROVE a \in {e.site : e \in DirectSites}
    <3>1. PICK m \in DOMAIN in.program : in.program[m].op = "call" /\ in.program[m].to = TargetAddr /\ a = TextStart + Starts(in)[m]
      BY <2>4 DEF CallsTo, Program, At
    <3>2. Starts(in)[m] \in AllCalls(in) /\ Dest(in, Starts(in)[m]) = TargetAddr
      BY <2>1, <3>1, CallsFound
    <3>3. QED
      BY <2>3, <3>1, <3>2
  <2>5. ASSUME NoHidden, NEW a \in {e.site : e \in DirectSites} PROVE a \in CallsTo(TargetAddr)
    <3>1. PICK p \in AllCalls(in) : Dest(in, p) = TargetAddr /\ a = TextStart + p
      BY <2>3, <2>5
    <3>2. AllVisible(in)
      BY <2>5, HiddenFacts DEF NoHidden, AllVisible, Visible, Program
    <3>3. PICK k \in DOMAIN in.program : in.program[k].op = "call" /\ Starts(in)[k] = p
      BY <2>1, <3>2, CallsFound
    <3>4. in.program[k].to = TargetAddr
      BY <2>1, <3>1, <3>3, CallsFound
    <3>5. QED
      BY <3>1, <3>3, <3>4 DEF CallsTo, Program, At
  <2>6. QED
    BY <2>4, <2>5 DEF Inv, SitesInv, InOrder
<1>2. QED
  BY <1>1, InvIsInductive, PTL

\* The three sweeps for calls agree: the call graph, --xref and the goroutine report
\* (find_calls, scan_direct, find_spawns).
THEOREM SweepsAlwaysAgree == Spec => []SweepsAgree
<1>1. Inv => SweepsAgree
  <2> SUFFICES ASSUME Inv, phase = "done" PROVE SweepsAgree
    BY DEF SweepsAgree
  <2>1. Elements(edges) = EdgesOf(AllCalls(in))
    BY DEF Inv, EdgesInv
  <2>2. SpawnSites(spawns) = SpawnsOf(AllCalls(in))
    BY DEF Inv, SpawnsInv, SpawnsPassed
  <2>3. TargetAddr \in Entries => DirectSites = SitesOf(AllCalls(in))
    <3>1. TargetAddr \in Entries => Swept
      BY TableTypes, SweepAssumption DEF Swept, Inv, Types
    <3>2. Passed = AllCalls(in)
      BY DEF Passed
    <3>3. QED
      BY <3>1, <3>2 DEF Inv, SitesInv, DirectSites, DirectOf, Elements
  <2>4. ASSUME TargetAddr \in Entries
        PROVE  {<<e.site, e.caller>> : e \in {x \in Elements(edges) : x.callee = TargetAddr}}
               = {<<e.site, e.caller>> : e \in {x \in DirectSites : x.caller # NoAddr}}
    <3> DEFINE Q == {q \in AllCalls(in) : Dest(in, q) = TargetAddr /\ Lookup(TextStart + q) # NoAddr}
    <3>1. {x \in Elements(edges) : x.callee = TargetAddr} = {EdgeOf(p) : p \in Q}
      BY <2>1, <2>4 DEF EdgesOf, EdgeOf
    <3>2. {x \in DirectSites : x.caller # NoAddr} = {SiteOf(p) : p \in Q}
      BY <2>3, <2>4 DEF SitesOf, SiteOf
    <3> HIDE DEF Q
    <3>3. {<<e.site, e.caller>> : e \in {EdgeOf(p) : p \in Q}} = {<<EdgeOf(p).site, EdgeOf(p).caller>> : p \in Q}
      OBVIOUS
    <3>4. {<<e.site, e.caller>> : e \in {SiteOf(p) : p \in Q}} = {<<SiteOf(p).site, SiteOf(p).caller>> : p \in Q}
      OBVIOUS
    <3>5. \A p : EdgeOf(p).site = SiteOf(p).site /\ EdgeOf(p).caller = SiteOf(p).caller
      BY DEF EdgeOf, SiteOf
    <3>6. QED
      BY <3>1, <3>2, <3>3, <3>4, <3>5
  <2>5. {a \in SpawnSites(spawns) : Lookup(a) # NoAddr} = {e.site : e \in {x \in Elements(edges) : x.callee \in SpawnerAddrs}}
    <3> DEFINE Q == {q \in AllCalls(in) : Dest(in, q) \in SpawnerAddrs /\ Lookup(TextStart + q) # NoAddr}
    <3>0. SpawnerAddrs \subseteq Entries
      BY TargetTypes DEF Inv, Types
    <3>1. {x \in Elements(edges) : x.callee \in SpawnerAddrs} = {EdgeOf(p) : p \in Q}
      BY <2>1, <3>0 DEF EdgesOf, EdgeOf
    <3>2. {a \in SpawnSites(spawns) : Lookup(a) # NoAddr} = {TextStart + p : p \in Q}
      BY <2>2 DEF SpawnsOf
    <3> HIDE DEF Q
    <3>3. {e.site : e \in {EdgeOf(p) : p \in Q}} = {EdgeOf(p).site : p \in Q}
      OBVIOUS
    <3>4. \A p : EdgeOf(p).site = TextStart + p
      BY DEF EdgeOf
    <3>5. QED
      BY <3>1, <3>2, <3>3, <3>4
  <2>6. QED
    BY <2>4, <2>5 DEF SweepsAgree, Elements, SpawnSites
<1>2. QED
  BY <1>1, InvIsInductive, PTL

\* A spawn whose funcval is loaded by the instruction before it is resolved to that
\* funcval's function (resolve_amd64_target, resolve_arm64_target).
THEOREM AdjacentIsResolved == Spec => []AdjacentSpawnResolved
<1>1. Inv => AdjacentSpawnResolved
  BY DEF Inv, SpawnsInv, AdjacentSpawnResolved, Adjacent
<1>2. QED
  BY <1>1, InvIsInductive, PTL

\* Stepping over what it matches does not make --data-xref lose its place, not even when
\* what it matches lies in an immediate: it reports every reference far enough from the end
\* that no false match runs over, and only references and immediates that read as one
\* (find_refs).
THEOREM AllReferencesFound == Spec => []ReferencesFound
<1>1. Inv => ReferencesFound
  <2> SUFFICES ASSUME Inv, phase = "done", Amd64
               PROVE  /\ \A m \in RefSites : Starts(in)[m] + 7 <= TextLen /\ ~Covered(m) => At(m) \in Pcs(refs)
                      /\ Pcs(refs) \subseteq Reportable
    BY DEF ReferencesFound, Pcs, Reportable
  <2>1. TextLen \in Nat
    BY ReadFacts DEF Inv, Types, Typed
  <2>2. \A m \in RefSites : Starts(in)[m] \in Nat
    BY TableTypes, InputFacts, StartsTyped DEF Inv, Types, RefSites, Program
  <2>3. \A m \in RefSites : Starts(in)[m] + 7 <= TextLen /\ ~Covered(m) => m \in Due(TextLen)
    BY <2>1, <2>2 DEF Due
  <2>4. QED
    BY <2>3 DEF Inv, RefsInv
<1>2. QED
  BY <1>1, InvIsInductive, PTL
=============================================================================
