------------------------------ MODULE LocateProofs ------------------------------
(* Opening a binary finds the right table, the right module data and the right
   chain, for every file.  Each search is a loop that stops at its first hit; its
   invariant says what the places it has passed do not hold. *)
EXTENDS Locate, FiniteSetTheorems, Basics

Position == (1 .. 3) \X (DOMAIN ScanKinds) \X (DOMAIN sections)
Located == {"refine", "locate", "chain", "no module data", "done"}

\* What locate_all lists.
Entry == [off : Offsets, layout : Layouts]

\* The types of TypeOK and what the phases add to them.
Types ==
    /\ bin \in Inputs
    /\ sections \in Seq(Section) /\ DOMAIN sections = DOMAIN bin.sections
    /\ m \in 1 .. Len(Magics) + 1
    /\ from \in 0 .. Len0(bin)
    /\ best \in {None} \cup Offsets
    /\ s \in 1 .. Len(sections) + 1
    /\ phase = "shape" => off \in Nat
    /\ found # None <=> phase \in Located
    /\ found # None => found \in [off : Offsets, addr : Nat]
    /\ at \in Position
    /\ out \in Seq(Entry)
    /\ idx \in 1 .. Len(out) + 1
    /\ phase \in Ended \cup {"magic", "shape", "finish", "refine", "locate", "chain"}
    /\ phase \in {"magic", "shape", "none", "unsupported"} => bin.named = None /\ sections = bin.sections
    /\ phase \in {"finish", "bad"} => sections = bin.sections
    /\ phase = "finish" /\ bin.named = None => best # None
    /\ phase \in {"chain", "done"} <=> out # <<>>

-----------------------------------------------------------------------------
\* The fields of a file have the types of Binary.
LEMMA BinFacts ==
  ASSUME bin \in Inputs
  PROVE  /\ bin.words \in Seq(Word)
         /\ bin.sections \in Seq(Section)
         /\ bin.sections # <<>>
         /\ bin.named \in {None} \cup [off : Nat, size : Nat, addr : Nat]
         /\ bin.sound \in Seq(SUBSET Layouts) /\ DOMAIN bin.sound = DOMAIN bin.words
         /\ bin.text \in Seq(Nat) /\ DOMAIN bin.text = DOMAIN bin.words
         /\ DOMAIN bin.words = 1 .. Len0(bin)
         /\ Len0(bin) \in Nat
         /\ None \notin Nat
<1>1. bin \in Binary
  BY LocateAssumption
<1>2. bin.words \in Seq(Word) /\ bin.sections \in Seq(Section)
      /\ bin.named \in {None} \cup [off : Nat, size : Nat, addr : Nat]
      /\ bin.sound \in Seq(SUBSET Layouts) /\ bin.text \in Seq(Nat)
  BY <1>1 DEF Binary
<1>3. DOMAIN bin.words = 1 .. Len0(bin) /\ Len0(bin) \in Nat
  BY <1>2 DEF Len0
<1>4. QED
  BY <1>1, <1>2, <1>3, LocateAssumption

\* No table found is told from a table.
LEMMA NoneIsNoTable == None \notin [off : Offsets, addr : Nat]
<1>1. [off : Offsets, addr : Nat] \subseteq [off : Nat, addr : Nat]
  BY DEF Offsets
<1>2. QED
  BY <1>1, LocateAssumption

\* A word inside the file is a word, and a pointer points at a number.
LEMMA WordFacts ==
  ASSUME bin \in Inputs, NEW o \in Offsets
  PROVE  /\ WordAt(o) \in Word
         /\ WordAt(o).is = "pointer" => WordAt(o).to \in Nat
         /\ o + 1 \in 1 .. Len0(bin)
         /\ bin.sound[o + 1] \subseteq Layouts
         /\ bin.text[o + 1] \in Nat
<1>1. o \in Nat /\ o + 1 \in 1 .. Len0(bin) /\ o + 1 \in DOMAIN bin.words
  BY BinFacts DEF Offsets
<1>2. WordAt(o) \in Word
  BY <1>1, BinFacts DEF WordAt
<1>3. WordAt(o).is = "pointer" => WordAt(o).to \in Nat
  BY <1>2 DEF Word, Header
<1>4. bin.sound[o + 1] \subseteq Layouts /\ bin.text[o + 1] \in Nat
  BY <1>1, BinFacts
<1>5. QED
  BY <1>1, <1>2, <1>3, <1>4

\* Least picks the least member of a set of numbers.
LEMMA LeastFacts ==
  ASSUME NEW S, S \subseteq Nat, S # {}
  PROVE  Least(S) \in S /\ \A y \in S : Least(S) <= y
<1>1. \E x \in S : \A y \in S : x <= y
  BY LeastNumber
<1>2. QED
  BY <1>1 DEF Least

\* Every layout tried is one of the four, and there are one or two.
LEMMA LayoutFacts ==
  /\ Len(layouts) \in 1 .. 2
  /\ DOMAIN layouts = 1 .. Len(layouts)
  /\ \A l \in DOMAIN layouts : layouts[l] \in Layouts
<1>1. layouts = <<"V118">> \/ layouts = <<"Pre118">> \/ layouts = <<"V120", "V126">>
  BY DEF layouts
<1>2. CASE layouts = <<"V118">>
  BY <1>2 DEF Layouts
<1>3. CASE layouts = <<"Pre118">>
  BY <1>3 DEF Layouts
<1>4. CASE layouts = <<"V120", "V126">>
  BY <1>4 DEF Layouts
<1>5. QED
  BY <1>1, <1>2, <1>3, <1>4

\* A section of the map has numbers for its bounds.
LEMMA SectionFacts ==
  ASSUME sections \in Seq(Section), NEW k \in DOMAIN sections
  PROVE  /\ sections[k].off \in Nat /\ sections[k].size \in Nat
         /\ sections[k].addr \in Nat /\ sections[k].vmsize \in Nat
         /\ End(sections[k]) \in Nat
<1>1. sections[k] \in Section
  OBVIOUS
<1>2. QED
  BY <1>1 DEF Section, End

\* The first aligned offset of a section is even, and nothing even lies between.
LEMMA AlignedFacts ==
  ASSUME bin \in Inputs, sections \in Seq(Section), NEW k \in DOMAIN sections
  PROVE  /\ Aligned(sections[k]) \in Nat
         /\ Aligned(sections[k]) % PointerWords = 0
         /\ \A o \in Offsets : sections[k].off <= o /\ o % PointerWords = 0 => Aligned(sections[k]) <= o
<1> DEFINE start == Smaller(sections[k].off, Len0(bin))
<1>1. start \in Nat /\ Len0(bin) \in Nat /\ sections[k].off \in Nat
  BY BinFacts, SectionFacts DEF Smaller
<1>2. ASSUME NEW o \in Offsets, sections[k].off <= o PROVE start <= o /\ o \in Nat
  BY <1>1, <1>2 DEF Smaller, Offsets
<1> HIDE DEF start
<1>3. Aligned(sections[k]) = IF start % 2 = 0 THEN start ELSE start + 2 - (start % 2)
  BY DEF Aligned, start, PointerWords
<1>4. QED
  BY <1>1, <1>2, <1>3 DEF PointerWords

LEMMA InitTypes == Init => Types
<1> SUFFICES ASSUME Init PROVE Types
  OBVIOUS
<1>1. bin \in Inputs /\ sections \in Seq(Section) /\ sections # <<>> /\ Len(sections) \in Nat \ {0}
      /\ DOMAIN sections = 1 .. Len(sections)
  BY BinFacts DEF Init
<1>2. at \in Position
  BY <1>1 DEF Init, Position, ScanKinds
<1>3. QED
  BY <1>1, <1>2, BinFacts DEF Init, Types, Magics, Located, Ended

-----------------------------------------------------------------------------
\* Where scan_section finds a module's first field.
FieldsIn(sec, layout) == {o \in Offsets : sec.off <= o /\ InBytes(sec, o) /\ Parses(o, layout)}

\* scan_section finds one exactly when there is one.
LEMMA ScannedFacts ==
  ASSUME bin \in Inputs, NEW sec, NEW layout
  PROVE  /\ FieldsIn(sec, layout) = {} => Scanned(sec, layout) = None
         /\ FieldsIn(sec, layout) # {} =>
              Scanned(sec, layout) \in FieldsIn(sec, layout) /\ Scanned(sec, layout) # None
<1> DEFINE parse == FieldsIn(sec, layout)
           even == {o \in parse : (o - sec.off) % PointerWords = 0}
<1>1. parse \subseteq Nat /\ even \subseteq parse /\ None \notin Nat
  BY BinFacts DEF FieldsIn, Offsets
<1>2. Scanned(sec, layout) = IF even # {} THEN Least(even) ELSE IF parse # {} THEN Least(parse) ELSE None
  BY DEF Scanned, FieldsIn
<1> HIDE DEF parse, even
<1>3. even # {} => Least(even) \in parse
  BY <1>1, LeastFacts
<1>4. parse # {} => Least(parse) \in parse
  BY <1>1, LeastFacts
<1>5. QED
  BY <1>1, <1>2, <1>3, <1>4 DEF parse

\* What it finds is aligned before it is not, and then the least.
LEMMA ScannedFirst ==
  ASSUME bin \in Inputs, NEW sec, sec.off \in Nat, NEW layout, NEW o \in FieldsIn(sec, layout)
  PROVE  LET x == Scanned(sec, layout)
             mis(y) == (y - sec.off) % PointerWords
         IN  x = o \/ mis(x) < mis(o) \/ (mis(x) = mis(o) /\ x < o)
<1> DEFINE parse == FieldsIn(sec, layout)
           even == {y \in parse : (y - sec.off) % PointerWords = 0}
           x == Scanned(sec, layout)
<1>1. parse \subseteq Nat /\ even \subseteq parse /\ o \in parse /\ \A y \in parse : sec.off <= y
  BY BinFacts DEF FieldsIn, Offsets
<1>2. x = IF even # {} THEN Least(even) ELSE Least(parse)
  BY <1>1 DEF Scanned, FieldsIn
<1>3. \A y \in parse : (y - sec.off) % 2 \in {0, 1} /\ ((y - sec.off) % 2 = 0 <=> y \in even)
  BY <1>1 DEF PointerWords
<1> HIDE DEF parse, even, x
<1>4. CASE even # {}
  <2>1. x \in even /\ \A y \in even : x <= y
    BY <1>1, <1>2, <1>4, LeastFacts
  <2>2. x \in Nat /\ o \in Nat /\ (x - sec.off) % 2 = 0
    BY <1>1, <1>3, <2>1
  <2>3. o \in even => x = o \/ x < o
    BY <2>1, <2>2
  <2>4. QED
    BY <1>1, <1>3, <2>2, <2>3 DEF PointerWords, x
<1>5. CASE even = {}
  <2>1. x \in parse /\ x <= o
    BY <1>1, <1>2, <1>5, LeastFacts
  <2>2. x \in Nat /\ o \in Nat /\ (x - sec.off) % 2 = 1 /\ (o - sec.off) % 2 = 1
    BY <1>1, <1>3, <1>5, <2>1
  <2>3. QED
    BY <2>1, <2>2 DEF PointerWords, x
<1>6. QED
  BY <1>4, <1>5

\* The same as Here, at any position.
HereAt(l, k, j) ==
    IF found.addr # 0 /\ l <= Len(layouts) /\ sections[j].kind = ScanKinds[k]
    THEN Scanned(sections[j], layouts[l]) ELSE None

LEMMA HereIsHereAt == Here = HereAt(at[1], at[2], at[3])
  BY DEF Here, HereAt

\* A hit is a first field inside the file, under a layout that is tried.
LEMMA HereFacts ==
  ASSUME Types, found # None, NEW l \in 1 .. 3, NEW k, NEW j, HereAt(l, k, j) # None
  PROVE  /\ found.addr # 0
         /\ l \in DOMAIN layouts /\ layouts[l] \in Layouts
         /\ sections[j].kind = ScanKinds[k]
         /\ HereAt(l, k, j) \in FieldsIn(sections[j], layouts[l])
         /\ HereAt(l, k, j) \in Offsets
<1>1. found.addr # 0 /\ l <= Len(layouts) /\ sections[j].kind = ScanKinds[k]
      /\ HereAt(l, k, j) = Scanned(sections[j], layouts[l])
  BY DEF HereAt
<1>2. l \in DOMAIN layouts /\ layouts[l] \in Layouts
  BY <1>1, LayoutFacts
<1>3. HereAt(l, k, j) \in FieldsIn(sections[j], layouts[l])
  BY <1>1, ScannedFacts DEF Types
<1>4. QED
  BY <1>1, <1>2, <1>3 DEF FieldsIn

\* An address that is in the file is at an offset of it.
LEMMA FileOffsetFacts ==
  ASSUME Types, NEW a \in Nat, FileOffset(a) # None
  PROVE  FileOffset(a) \in Offsets
<1> DEFINE holds == {k \in DOMAIN sections :
                       /\ sections[k].addr <= a /\ a < sections[k].addr + sections[k].vmsize
                       /\ a - sections[k].addr + sections[k].off < Len0(bin)}
<1>1. holds \subseteq Nat /\ \A k \in holds : k \in DOMAIN sections
  BY DEF Types
<1>2. FileOffset(a) = IF holds = {} THEN None ELSE a - sections[Least(holds)].addr + sections[Least(holds)].off
  BY DEF FileOffset
<1>3. ASSUME NEW k \in holds PROVE a - sections[k].addr + sections[k].off \in Offsets
  <2>1. k \in DOMAIN sections /\ sections \in Seq(Section) /\ bin \in Inputs
    BY DEF Types
  <2>2. sections[k].addr \in Nat /\ sections[k].off \in Nat
    BY <2>1, SectionFacts
  <2>3. Len0(bin) \in Nat
    BY <2>1, BinFacts
  <2>4. QED
    BY <2>2, <2>3 DEF Offsets
<1>4. holds # {} => Least(holds) \in holds
  <2> HIDE DEF holds
  <2> QED  BY <1>1, LeastFacts
<1> HIDE DEF holds
<1>5. QED
  BY <1>2, <1>3, <1>4

\* A word of a tail is inside the file.
LEMMA TailFacts ==
  ASSUME bin \in Inputs, NEW o \in Nat, NEW w \in TailOf(o)
  PROVE  w \in Offsets
  BY BinFacts, LocateAssumption DEF TailOf, Offsets, Smaller, PointerWords

\* A word that continues the chain leads to a module that is not listed yet.
LEMMA FollowsFacts ==
  ASSUME Types, NEW o \in Nat, NEW w \in TailOf(o), Follows(w)
  PROVE  LET q == FileOffset(WordAt(w).to) IN
         /\ q \in Offsets /\ q = PointsTo(w) /\ q # None
         /\ ~Visited(q) /\ AsModule(q)
         /\ FirstLayout(q) \in DOMAIN layouts
         /\ layouts[FirstLayout(q)] \in Layouts
<1> DEFINE q == FileOffset(WordAt(w).to)
           fit == {l \in DOMAIN layouts : Parses(q, layouts[l])}
<1>1. w \in Offsets /\ WordAt(w).to \in Nat
  BY TailFacts, WordFacts DEF Types, Follows
<1>2. q \in Offsets /\ q # None /\ ~Visited(q) /\ AsModule(q)
  BY <1>1, FileOffsetFacts DEF Follows
<1>3. q = PointsTo(w)
  BY DEF Follows, PointsTo
<1>4. fit \subseteq Nat /\ fit # {} /\ fit \subseteq DOMAIN layouts
  BY <1>2, LayoutFacts DEF AsModule
<1>5. Least(fit) \in DOMAIN layouts
  <2> HIDE DEF fit
  <2> QED  BY <1>4, LeastFacts
<1>6. QED
  BY <1>2, <1>3, <1>5, LayoutFacts DEF FirstLayout

-----------------------------------------------------------------------------
\* Every step keeps the types: the two scans and the offsets they stop at,
LEMMA SearchTypes ==
  ASSUME Types, MagicHit \/ MagicExhausted \/ EndMagic \/ ShapeStep \/ NextSection \/ NotFound
  PROVE  Types'
<1>1. bin' = bin /\ found' = found /\ at' = at /\ out' = out /\ idx' = idx /\ sections' = sections
  BY DEF MagicHit, MagicExhausted, EndMagic, ShapeStep, NextSection, NotFound, modules, searching
<1>2. Len0(bin) \in Nat /\ bin.sections # <<>> /\ None \notin Nat
  BY BinFacts DEF Types
<1>3. Len(sections) \in Nat \ {0} /\ DOMAIN sections = 1 .. Len(sections)
  BY <1>2, BinFacts DEF Types
<1>4. CASE MagicHit
  <2>1. Hits \subseteq Nat /\ Hits # {} /\ \A o \in Hits : o \in Offsets
    BY <1>4, <1>2 DEF MagicHit, Hits, Types, Offsets
  <2> DEFINE o == Least(Hits)
  <2>2. o \in Offsets /\ o \in Nat /\ o + 1 <= Len0(bin)
    <3>1. o \in Hits
      BY <2>1, LeastFacts
    <3> HIDE DEF o
    <3>2. o \in Offsets
      BY <2>1, <3>1
    <3>3. QED
      BY <3>2, <1>2 DEF Offsets
  <2>3. Better(o) \in Offsets
    BY <2>2 DEF Better, Smaller, Types
  <2>4. best' \in {best, Better(o)} /\ m' \in {m, m + 1} /\ from' \in {0, o + 1} /\ phase' = phase
        /\ s' = s /\ off' = off /\ m <= Len(Magics) /\ phase = "magic"
    BY <1>4 DEF MagicHit
  <2> HIDE DEF o
  <2>5. QED
    BY <1>1, <1>2, <2>2, <2>3, <2>4 DEF Types, Entry, Offsets, Position, Magics, Located
<1>5. CASE MagicExhausted
  BY <1>1, <1>2, <1>5 DEF MagicExhausted, Types, Entry, Offsets, Position, Magics, Located
<1>6. CASE EndMagic
  <2>1. Aligned(sections[1]) \in Nat
    BY <1>3, AlignedFacts DEF Types
  <2>2. QED
    BY <1>1, <1>2, <1>6, <2>1 DEF EndMagic, Types, Entry, Offsets, Position, Magics, Located
<1>7. CASE ShapeStep
  <2>1. off \in Nat /\ s \in DOMAIN sections
    BY <1>3, <1>7 DEF ShapeStep, Types
  <2>2. off \in Offsets
    BY <1>2, <1>7, <2>1, SectionFacts DEF ShapeStep, InBytes, Smaller, Offsets, PointerWords, Types
  <2>3. off' \in Nat /\ best' \in {best, off} /\ phase = "shape" /\ s' = s /\ m' = m /\ from' = from
        /\ (phase' = "shape" \/ (phase' = "finish" /\ best' = off))
    BY <1>7, <2>1 DEF ShapeStep, PointerWords
  <2>4. QED
    BY <1>1, <1>2, <2>2, <2>3 DEF Types, Entry, Offsets, Position, Located, Ended
<1>8. CASE NextSection
  <2>1. s # Len(sections) => s + 1 \in DOMAIN sections
    BY <1>3, <1>8 DEF NextSection, Types
  <2>2. s # Len(sections) => Aligned(sections[s + 1]) \in Nat
    BY <2>1, AlignedFacts DEF Types
  <2>3. off' \in Nat /\ s' = s + 1 /\ s \in 1 .. Len(sections) /\ phase' = phase /\ phase = "shape"
        /\ m' = m /\ from' = from /\ best' = best
    BY <1>3, <1>8, <2>2 DEF NextSection, Types
  <2>4. QED
    BY <1>1, <1>2, <1>3, <2>3 DEF Types, Entry, Offsets, Position, Located, Ended
<1>9. CASE NotFound
  BY <1>1, <1>2, <1>9 DEF NotFound, Types, Entry, Offsets, Position, Located, Ended, searching
<1>10. QED
  BY <1>4, <1>5, <1>6, <1>7, <1>8, <1>9

\* finish, which clamps the section map to the file,
LEMMA FinishTypes ==
  ASSUME Types, Finish
  PROVE  Types'
<1>1. bin \in Inputs /\ bin' = bin /\ Len0(bin) \in Nat /\ None \notin Nat
  BY BinFacts DEF Types, Finish
<1>2. Len(sections) \in Nat \ {0} /\ DOMAIN sections = 1 .. Len(sections)
  BY <1>1, BinFacts DEF Types
<1>3. m' = m /\ from' = from /\ best' = best /\ s' = s /\ off' = off /\ at' = at /\ out' = out /\ idx' = idx
      /\ phase = "finish" /\ found = None
  BY DEF Finish, searching, modules, Types, Located
<1>4. CASE ~InFile
  <2>1. found' = None /\ sections' = sections /\ phase' = "bad"
    BY <1>3, <1>4 DEF Finish
  <2>2. QED
    BY <1>1, <1>3, <2>1 DEF Types, Entry, Offsets, Position, Located, Ended
<1>5. CASE InFile
  <2>1. found' = Table /\ sections' = [k \in DOMAIN sections |-> Clamped(sections[k])]
        /\ phase' \in {"refine", "locate"}
    BY <1>5 DEF Finish
  <2>2. ASSUME NEW k \in DOMAIN sections PROVE Clamped(sections[k]) \in Section
    <3> DEFINE sec == sections[k]
               o == Smaller(sec.off, Len0(bin))
               size == Smaller(sec.size, Len0(bin) - o)
    <3>1. sec \in Section /\ sec.off \in Nat /\ sec.size \in Nat
      BY SectionFacts DEF Types
    <3>2. o \in Nat /\ Len0(bin) - o \in Nat
      BY <3>1, <1>1 DEF Smaller
    <3>3. size \in Nat
      BY <3>1, <3>2 DEF Smaller
    <3>4. Clamped(sec) = [sec EXCEPT !.off = o, !.size = size]
      BY DEF Clamped
    <3> HIDE DEF sec, o, size
    <3>5. Clamped(sec) \in Section
      BY <3>1, <3>2, <3>3, <3>4 DEF Section
    <3>6. QED
      BY <3>5 DEF sec
  <2>3. sections' \in Seq(Section) /\ DOMAIN sections' = DOMAIN sections /\ Len(sections') = Len(sections)
    <3>1. sections' \in [1 .. Len(sections) -> Section]
      BY <1>2, <2>1, <2>2
    <3>2. QED
      BY <1>2, <3>1
  <2>4. Table \in [off : Offsets, addr : Nat] /\ Table # None
    <3>1. CASE bin.named = None
      <4> DEFINE holds == {k \in DOMAIN sections : sections[k].off <= best /\ best < End(sections[k])}
      <4>1. best \in Offsets /\ best \in Nat
        BY <1>3, <3>1 DEF Types, Offsets
      <4>2. ASSUME NEW k \in holds PROVE sections[k].addr + best - sections[k].off \in Nat
        <5>1. sections[k].addr \in Nat /\ sections[k].off \in Nat
          BY SectionFacts DEF Types
        <5>2. QED
          BY <4>1, <5>1
      <4>3. holds # {} => Least(holds) \in holds
        <5>1. holds \subseteq Nat
          BY <1>2
        <5> HIDE DEF holds
        <5>2. QED
          BY <5>1, LeastFacts
      <4>4. AddrOf(best) = IF holds = {} THEN 0
                           ELSE sections[Least(holds)].addr + best - sections[Least(holds)].off
        BY DEF AddrOf
      <4> HIDE DEF holds
      <4>5. AddrOf(best) \in Nat
        BY <4>2, <4>3, <4>4
      <4>6. Table = [off |-> best, addr |-> AddrOf(best)]
        BY <3>1 DEF Table
      <4>7. QED
        BY <4>1, <4>5, <4>6, NoneIsNoTable
    <3>2. CASE bin.named # None
      <4>1. bin.named \in [off : Nat, size : Nat, addr : Nat] /\ bin.named.off < Len0(bin)
        BY <1>1, <1>5, <3>2, BinFacts DEF InFile
      <4>2. bin.named.off \in Offsets /\ bin.named.addr \in Nat
        BY <4>1, <1>1 DEF Offsets
      <4>3. QED
        BY <3>2, <4>2, NoneIsNoTable DEF Table
    <3>3. QED
      BY <3>1, <3>2
  <2>5. QED
    BY <1>1, <1>2, <1>3, <2>1, <2>3, <2>4 DEF Types, Entry, Offsets, Position, Located, Ended
<1>6. QED
  BY <1>4, <1>5

\* the search for the module data,
LEMMA AnchorTypes ==
  ASSUME Types, ScanNext \/ Refine \/ RefineFails \/ Anchor \/ NoAnchor
  PROVE  Types'
<1>1. bin' = bin /\ sections' = sections /\ found' = found /\ idx' = idx
      /\ m' = m /\ from' = from /\ best' = best /\ s' = s /\ off' = off
  BY DEF ScanNext, Refine, RefineFails, Anchor, NoAnchor, searching, modules
<1>2. Len(sections) \in Nat \ {0} /\ DOMAIN sections = 1 .. Len(sections)
  BY BinFacts DEF Types
<1>3. <<1, 1, 1>> \in Position
  BY <1>2 DEF Position, ScanKinds
<1>4. at[1] \in 1 .. 3 /\ at[2] \in 1 .. 3 /\ at[3] \in 1 .. Len(sections) /\ at = <<at[1], at[2], at[3]>>
  BY <1>2 DEF Types, Position, ScanKinds
<1>5. CASE ScanNext
  <2>1. at' = Advance(at) /\ at[1] <= 2 /\ out' = out /\ phase' = phase
    BY <1>5, <1>4, LayoutFacts DEF ScanNext
  <2>2. at' \in Position
    BY <1>2, <1>4, <2>1 DEF Advance, Position, ScanKinds
  <2>3. QED
    BY <1>1, <2>1, <2>2 DEF Types, Entry, Offsets, Position, Located
<1>6. CASE Refine \/ RefineFails
  <2>1. at' \in Position /\ out' = out /\ phase = "refine" /\ phase' = "locate"
    BY <1>3, <1>6 DEF Refine, RefineFails
  <2>2. QED
    BY <1>1, <2>1 DEF Types, Entry, Offsets, Position, Located, Ended
<1>7. CASE Anchor
  <2>1. Here \in Offsets /\ layouts[at[1]] \in Layouts
    BY <1>4, <1>7, HereFacts, HereIsHereAt DEF Anchor, Types, Located
  <2>2. out' = <<[off |-> Here, layout |-> layouts[at[1]]]>> /\ phase' = "chain" /\ at' = at /\ phase = "locate"
    BY <1>7 DEF Anchor
  <2> DEFINE e == [off |-> Here, layout |-> layouts[at[1]]]
  <2>3. e \in Entry
    BY <2>1 DEF Entry
  <2> HIDE DEF e
  <2>4. out' \in Seq(Entry) /\ Len(out') = 1 /\ out' # <<>>
    BY <2>2, <2>3 DEF e
  <2>5. out = <<>> /\ idx = 1
    BY <2>2 DEF Types
  <2>6. QED
    BY <1>1, <2>2, <2>4, <2>5 DEF Types, Entry, Offsets, Position, Located, Ended
<1>8. CASE NoAnchor
  <2>1. at' = at /\ out' = out /\ phase = "locate" /\ phase' = "no module data"
    BY <1>8 DEF NoAnchor, modules
  <2>2. QED
    BY <1>1, <2>1 DEF Types, Entry, Offsets, Position, Located, Ended
<1>9. QED
  BY <1>5, <1>6, <1>7, <1>8

\* and the chain.
LEMMA ChainTypes ==
  ASSUME Types, Chain \/ ChainEnds
  PROVE  Types'
<1>1. bin' = bin /\ sections' = sections /\ found' = found /\ at' = at
      /\ m' = m /\ from' = from /\ best' = best /\ s' = s /\ off' = off /\ phase = "chain"
  BY DEF Chain, ChainEnds, searching, modules
<1>2. out # <<>> /\ Len(out) \in Nat /\ DOMAIN out = 1 .. Len(out)
  BY <1>1 DEF Types
<1>3. CASE Chain
  <2> DEFINE nexts == {w \in TailOf(out[idx].off) : Follows(w)}
             q == FileOffset(WordAt(Least(nexts)).to)
             e == [off |-> q, layout |-> layouts[FirstLayout(q)]]
  <2>1. out' = (IF nexts = {} THEN out ELSE Append(out, e)) /\ idx' = idx + 1 /\ phase' = phase /\ idx <= Len(out)
    BY <1>3 DEF Chain
  <2>2. idx \in DOMAIN out /\ out[idx].off \in Nat
    <3>1. idx \in DOMAIN out /\ out \in Seq(Entry)
      BY <1>2, <2>1 DEF Types
    <3>2. out[idx] \in Entry
      BY <3>1, ElementFacts
    <3>3. out[idx].off \in Offsets
      BY <3>2 DEF Entry
    <3>4. QED
      BY <3>1, <3>3 DEF Offsets
  <2>3. nexts # {} => e \in Entry
    <3>1. nexts \subseteq Nat
      BY <2>2, TailFacts DEF Types, Offsets
    <3>2. nexts # {} => Least(nexts) \in nexts
      <4> HIDE DEF nexts
      <4> QED  BY <3>1, LeastFacts
    <3>3. ASSUME nexts # {} PROVE q \in Offsets /\ layouts[FirstLayout(q)] \in Layouts
      BY <2>2, <3>2, <3>3, FollowsFacts
    <3>4. QED
      BY <3>3 DEF Entry
  <2> HIDE DEF nexts, q, e
  <2>4. out' \in Seq(Entry) /\ Len(out') \in {Len(out), Len(out) + 1} /\ out' # <<>>
    BY <1>2, <2>1, <2>3 DEF Types
  <2>5. idx' \in 1 .. Len(out') + 1
    BY <1>2, <2>1, <2>4 DEF Types
  <2>6. QED
    BY <1>1, <2>1, <2>4, <2>5 DEF Types, Entry, Offsets, Position, Located, Ended
<1>4. CASE ChainEnds
  <2>1. out' = out /\ idx' = idx /\ phase' = "done"
    BY <1>4 DEF ChainEnds, modules
  <2>2. QED
    BY <1>1, <2>1 DEF Types, Entry, Offsets, Position, Located, Ended
<1>5. QED
  BY <1>3, <1>4

LEMMA NextTypes == Types /\ [Next]_vars => Types'
<1>1. ASSUME Types, UNCHANGED vars PROVE Types'
  BY <1>1 DEF vars, Types, Entry, Offsets, Position, Located, Ended
<1>2. QED
  BY <1>1, SearchTypes, FinishTypes, AnchorTypes, ChainTypes DEF Next

-----------------------------------------------------------------------------
\* b is the least of T, and None when T is empty.
LeastOf(b, T) == IF T = {} THEN b = None ELSE b \in T /\ \A y \in T : b <= y

\* The valid headers with one of the first n magics.
Official(n) == {o \in Offsets : ValidHeader(o) /\ \E j \in 1 .. n : WordAt(o).magic = Magics[j]}

\* The magics tried leave the least of their headers, and nothing behind from is one of the
\* magic in hand.
MagicsPassed ==
    phase = "magic" =>
      /\ LeastOf(best, Official(m - 1))
      /\ s = 1
      /\ m <= Len(Magics) =>
           \A o \in Offsets : o < from /\ WordAt(o).magic = Magics[m] => ~ValidHeader(o)

\* Aligned offsets of a section up to end hold no header.
NoHeader(sec, end) ==
    \A o \in Offsets :
      Bearing(sec) /\ sec.off <= o /\ InBytes(sec, o) /\ o % PointerWords = 0 /\ o < end
        => ~ValidHeader(o)

\* The structural scan begins when there is no released magic.
ShapesPassed ==
    phase \in {"shape", "none", "unsupported"} =>
      /\ best = None
      /\ Official(3) = {}
      /\ \A k \in 1 .. s - 1 : NoHeader(sections[k], Len0(bin))
      /\ phase = "shape" /\ s <= Len(sections) => NoHeader(sections[s], off) /\ off % PointerWords = 0
      /\ phase # "shape" => s > Len(sections)

\* What either scan hands to finish.
BestIsRight ==
    phase = "finish" /\ bin.named = None =>
      ValidHeader(best) /\ (Official(3) # {} => LeastOf(best, Official(3)))

UnsupportedIsOld ==
    phase = "unsupported" => \E o \in Offsets : WordAt(o).is = "header" /\ WordAt(o).magic = "1.2"

\* What finish takes.
FoundIsRight ==
    found # None /\ bin.named = None =>
      ValidHeader(found.off) /\ (Official(3) # {} => LeastOf(found.off, Official(3)))

SearchInv ==
    /\ MagicsPassed
    /\ ShapesPassed
    /\ BestIsRight
    /\ UnsupportedIsOld
    /\ FoundIsRight

\* A header that the least of T passed to is still the least with a further one.
LEMMA LeastOfMore ==
  ASSUME bin \in Inputs, NEW b, NEW T, NEW U, T \subseteq Nat, U \subseteq T, LeastOf(b, U),
         NEW o \in T, \A y \in T \ U : o <= y
  PROVE  LeastOf(IF b = None THEN o ELSE Smaller(b, o), T)
<1>1. CASE U = {}
  BY <1>1 DEF LeastOf
<1>2. CASE U # {}
  <2>1. b \in U /\ b \in Nat /\ o \in Nat /\ b # None /\ \A y \in U : b <= y
    BY <1>2, LocateAssumption DEF LeastOf
  <2> DEFINE e == Smaller(b, o)
  <2>2. e \in T /\ e <= b /\ e <= o /\ e \in Nat
    BY <2>1 DEF Smaller
  <2> HIDE DEF e
  <2>3. \A y \in T : e <= y
    BY <2>1, <2>2
  <2>4. QED
    BY <2>1, <2>2, <2>3 DEF LeastOf, e
<1>3. QED
  BY <1>1, <1>2

LEMMA LeastIsLeastOf ==
  ASSUME NEW b, NEW T, T \subseteq Nat, T # {}, LeastOf(b, T)
  PROVE  b = Least(T)
<1>1. Least(T) \in T /\ \A y \in T : Least(T) <= y
  BY LeastFacts
<1>2. b \in T /\ \A y \in T : b <= y
  BY DEF LeastOf
<1>3. b <= Least(T) /\ Least(T) <= b /\ b \in Nat /\ Least(T) \in Nat
  BY <1>1, <1>2
<1>4. QED
  BY <1>3

\* Official depends on the file alone.
LEMMA OfficialStable ==
  ASSUME bin' = bin
  PROVE  /\ Offsets' = Offsets
         /\ \A o : ValidHeader(o)' <=> ValidHeader(o)
         /\ \A o : WordAt(o)' = WordAt(o)
         /\ \A n : Official(n)' = Official(n)
  BY DEF Offsets, ValidHeader, WordAt, Official

\* The least header of the magics tried, one step later.
LEMMA OfficialNext ==
  ASSUME bin' = bin, NEW n, m' - 1 = n, LeastOf(best', Official(n))
  PROVE  LeastOf(best, Official(m - 1))'
  BY DEF Offsets, ValidHeader, WordAt, Official, LeastOf

LEMMA OfficialGrows ==
  ASSUME bin \in Inputs, NEW n \in 1 .. 3
  PROVE  /\ Official(n - 1) \subseteq Official(n) /\ Official(n) \subseteq Nat
         /\ \A o \in Offsets : ValidHeader(o) /\ WordAt(o).magic = Magics[n] => o \in Official(n)
         /\ \A o \in Official(n) \ Official(n - 1) : ValidHeader(o) /\ WordAt(o).magic = Magics[n]
  BY DEF Official, Offsets

LEMMA InitSearch == Init => SearchInv
<1> SUFFICES ASSUME Init PROVE SearchInv
  OBVIOUS
<1>1. Official(0) = {}
  BY DEF Official
<1>2. m = 1 /\ s = 1 /\ from = 0 /\ best = None /\ found = None /\ bin \in Inputs /\ m - 1 = 0
      /\ phase = IF bin.named = None THEN "magic" ELSE "finish"
  BY DEF Init
<1>3. \A o \in Offsets : ~(o < from)
  BY <1>2 DEF Offsets
<1>4. QED
  BY <1>1, <1>2, <1>3 DEF SearchInv, MagicsPassed, ShapesPassed, BestIsRight, UnsupportedIsOld, FoundIsRight, LeastOf

\* scan_for_magic keeps the least header of the magics it has tried.
LEMMA MagicHitKeeps ==
  ASSUME Types, SearchInv, MagicHit
  PROVE  MagicsPassed'
<1> DEFINE o == Least(Hits)
<1>1. bin \in Inputs /\ bin' = bin /\ m \in 1 .. 3 /\ phase = "magic" /\ Len0(bin) \in Nat /\ from \in Nat /\ Len(Magics) = 3
  BY BinFacts DEF Types, MagicHit, Magics
<1>0. s' = 1
  BY <1>1 DEF MagicHit, SearchInv, MagicsPassed
<1>2. LeastOf(best, Official(m - 1))
      /\ \A q \in Offsets : q < from /\ WordAt(q).magic = Magics[m] => ~ValidHeader(q)
  BY <1>1 DEF SearchInv, MagicsPassed
<1>3. o \in Hits /\ \A q \in Hits : o <= q
  <2>1. Hits \subseteq Nat /\ Hits # {}
    BY <1>1 DEF MagicHit, Hits
  <2>2. QED
    BY <2>1, LeastFacts
<1>4. o \in Offsets /\ WordAt(o).magic = Magics[m] /\ o \in Nat
  BY <1>1, <1>3 DEF Hits, Offsets
<1>5. ASSUME NEW q \in Offsets, ValidHeader(q), WordAt(q).magic = Magics[m] PROVE o <= q
  <2>1. ~(q < from) /\ WordAt(q).is = "header"
    BY <1>2, <1>5 DEF ValidHeader
  <2>2. q \in Hits
    BY <1>1, <1>5, <2>1 DEF Hits, Offsets
  <2>3. QED
    BY <1>3, <2>2
<1>6. CASE ValidHeader(o)
  <2>1. best' = Better(o) /\ m' = m + 1 /\ from' = 0
    BY <1>6 DEF MagicHit
  <2>2. o \in Official(m) /\ \A y \in Official(m) \ Official(m - 1) : o <= y
    BY <1>1, <1>4, <1>5, <1>6, OfficialGrows DEF Official
  <2> HIDE DEF o
  <2>3. LeastOf(Better(o), Official(m))
    BY <1>1, <1>2, <2>2, OfficialGrows, LeastOfMore DEF Better
  <2>4. LeastOf(best, Official(m - 1))'
    BY <1>1, <2>1, <2>3, OfficialNext
  <2>5. \A q \in Offsets : ~(q < from')
    BY <2>1 DEF Offsets
  <2>6. QED
    BY <1>0, <1>1, <2>4, <2>5, OfficialStable DEF MagicsPassed
<1>7. CASE ~ValidHeader(o)
  <2>1. best' = best /\ m' = m /\ from' = o + 1
    BY <1>7 DEF MagicHit
  <2>2. ASSUME NEW q \in Offsets, q < o + 1, WordAt(q).magic = Magics[m] PROVE ~ValidHeader(q)
    <3>1. q <= o /\ q \in Nat
      BY <1>1, <1>4, <2>2 DEF Offsets
    <3>2. ValidHeader(q) => o <= q
      BY <1>5, <2>2
    <3>3. QED
      BY <1>4, <1>7, <3>1, <3>2
  <2>3. QED
    BY <1>0, <1>1, <1>2, <2>1, <2>2, OfficialStable DEF MagicsPassed, LeastOf
<1>8. QED
  BY <1>6, <1>7

LEMMA MagicExhaustedKeeps ==
  ASSUME Types, SearchInv, MagicExhausted
  PROVE  MagicsPassed'
<1>1. bin \in Inputs /\ bin' = bin /\ m \in 1 .. 3 /\ phase = "magic" /\ Len0(bin) \in Nat /\ from \in Nat /\ Len(Magics) = 3
      /\ best' = best /\ m' = m + 1 /\ from' = 0 /\ Hits = {}
  BY BinFacts DEF Types, MagicExhausted, Magics
<1>0. s' = 1
  BY <1>1 DEF MagicExhausted, SearchInv, MagicsPassed
<1>2. LeastOf(best, Official(m - 1))
      /\ \A q \in Offsets : q < from /\ WordAt(q).magic = Magics[m] => ~ValidHeader(q)
  BY <1>1 DEF SearchInv, MagicsPassed
<1>3. ASSUME NEW q \in Offsets, ValidHeader(q), WordAt(q).magic = Magics[m] PROVE FALSE
  <2>1. ~(q < from) /\ WordAt(q).is = "header"
    BY <1>2, <1>3 DEF ValidHeader
  <2>2. q \in Hits
    BY <1>1, <1>3, <2>1 DEF Hits, Offsets
  <2>3. QED
    BY <1>1, <2>2
<1>4. Official(m) = Official(m - 1)
  <2>1. ASSUME NEW q \in Official(m) \ Official(m - 1) PROVE FALSE
    <3>1. q \in Offsets /\ ValidHeader(q) /\ WordAt(q).magic = Magics[m]
      BY <1>1, OfficialGrows DEF Official
    <3>2. QED
      BY <1>3, <3>1
  <2>2. Official(m - 1) \subseteq Official(m)
    BY <1>1, OfficialGrows
  <2>3. QED
    BY <2>1, <2>2
<1>5. LeastOf(best, Official(m - 1))'
  BY <1>1, <1>2, <1>4, OfficialNext
<1>6. \A q \in Offsets : ~(q < from')
  BY <1>1 DEF Offsets
<1>7. QED
  BY <1>0, <1>1, <1>5, <1>6, OfficialStable DEF MagicsPassed

LEMMA ScanForMagicKeeps ==
  ASSUME Types, SearchInv, MagicHit \/ MagicExhausted
  PROVE  SearchInv'
<1>1. phase = "magic" /\ phase' = phase /\ found' = found /\ found = None
  BY DEF MagicHit, MagicExhausted, Types, Located
<1>2. QED
  BY <1>1, MagicHitKeeps, MagicExhaustedKeeps
  DEF SearchInv, ShapesPassed, BestIsRight, UnsupportedIsOld, FoundIsRight

LEMMA EndMagicKeeps ==
  ASSUME Types, SearchInv, EndMagic
  PROVE  SearchInv'
<1>1. bin \in Inputs /\ bin' = bin /\ sections' = sections /\ best' = best /\ s' = s /\ found' = found /\ found = None
      /\ m = 4 /\ m - 1 = 3 /\ off' = Aligned(sections[1]) /\ Len(sections) \in Nat \ {0} /\ 1 \in DOMAIN sections
  BY BinFacts DEF Types, EndMagic, Magics, Located
<1>2. LeastOf(best, Official(3)) /\ Official(3) \subseteq Nat
  BY <1>1, OfficialGrows DEF EndMagic, SearchInv, MagicsPassed
<1>3. CASE best = None
  <2>1. phase' = "shape" /\ Official(3) = {}
    BY <1>2, <1>3, LocateAssumption DEF EndMagic, LeastOf
  <2>2. s = 1
    BY DEF EndMagic, SearchInv, MagicsPassed
  <2>3. off' % PointerWords = 0 /\ NoHeader(sections[1], off')
    <3>1. off' \in Nat /\ off' % PointerWords = 0
      BY <1>1, AlignedFacts DEF Types
    <3>2. ASSUME NEW o \in Offsets, sections[1].off <= o, o % PointerWords = 0 PROVE ~(o < off')
      <4>1. off' <= o /\ o \in Nat
        BY <1>1, <3>2, AlignedFacts DEF Types, Offsets
      <4>2. QED
        BY <3>1, <4>1
    <3>3. ASSUME NEW o \in Offsets, sections[1].off <= o, o % PointerWords = 0, o < off' PROVE ~ValidHeader(o)
      BY <3>2, <3>3
    <3>4. NoHeader(sections[1], off')
      BY <3>3, Zenon DEF NoHeader
    <3>5. QED
      BY <3>1, <3>4
  <2>4. QED
    BY <1>1, <1>3, <2>1, <2>2, <2>3, OfficialStable
    DEF SearchInv, MagicsPassed, ShapesPassed, BestIsRight, UnsupportedIsOld, FoundIsRight, NoHeader, InBytes
<1>4. CASE best # None
  <2>1. phase' = "finish"
    BY <1>4 DEF EndMagic
  <2>2. ValidHeader(best)
    BY <1>2, <1>4 DEF LeastOf, Official
  <2>3. QED
    BY <1>1, <1>2, <2>1, <2>2, OfficialStable
    DEF SearchInv, MagicsPassed, ShapesPassed, BestIsRight, UnsupportedIsOld, FoundIsRight, LeastOf
<1>5. QED
  BY <1>3, <1>4

\* scan_for_pcheader passes no aligned header of a section that bears data.
LEMMA ShapeStepKeeps ==
  ASSUME Types, SearchInv, ShapeStep
  PROVE  SearchInv'
<1>1. bin \in Inputs /\ bin' = bin /\ sections' = sections /\ s' = s /\ found' = found /\ found = None
      /\ phase = "shape" /\ off \in Nat /\ s <= Len(sections)
  BY DEF Types, ShapeStep, Located
<1>2. best = None /\ Official(3) = {} /\ NoHeader(sections[s], off) /\ off % PointerWords = 0
      /\ \A k \in 1 .. s - 1 : NoHeader(sections[k], Len0(bin))
  BY <1>1 DEF SearchInv, ShapesPassed
<1>3. CASE ValidHeader(off)
  <2>1. best' = off /\ phase' = "finish"
    BY <1>3 DEF ShapeStep
  <2>2. QED
    BY <1>1, <1>2, <1>3, <2>1, OfficialStable
    DEF SearchInv, MagicsPassed, ShapesPassed, BestIsRight, UnsupportedIsOld, FoundIsRight
<1>4. CASE ~ValidHeader(off)
  <2>1. off' = off + 2 /\ best' = best /\ phase' = phase
    BY <1>4 DEF ShapeStep, PointerWords
  <2>2. off' % PointerWords = 0
    BY <1>1, <1>2, <2>1 DEF PointerWords
  <2>3. ASSUME NEW o \in Offsets, o % PointerWords = 0, o < off' PROVE o < off \/ o = off
    BY <1>1, <1>2, <2>1, <2>3 DEF PointerWords, Offsets
  <2>4. ASSUME NEW o \in Offsets, Bearing(sections[s]), sections[s].off <= o, InBytes(sections[s], o),
               o % PointerWords = 0, o < off'
        PROVE  ~ValidHeader(o)
    BY <1>2, <1>4, <2>3, <2>4 DEF NoHeader
  <2>5. NoHeader(sections[s], off)'
    BY <1>1, <2>4, OfficialStable DEF NoHeader, InBytes, Len0
  <2>6. \A k \in 1 .. s' - 1 : NoHeader(sections[k], Len0(bin))'
    BY <1>1, <1>2, OfficialStable DEF NoHeader, InBytes, Len0
  <2>7. QED
    BY <1>1, <1>2, <2>1, <2>2, <2>5, <2>6, OfficialStable
    DEF SearchInv, MagicsPassed, ShapesPassed, BestIsRight, UnsupportedIsOld, FoundIsRight
<1>5. QED
  BY <1>3, <1>4

LEMMA NextSectionKeeps ==
  ASSUME Types, SearchInv, NextSection
  PROVE  SearchInv'
<1>1. bin \in Inputs /\ bin' = bin /\ sections' = sections /\ s' = s + 1 /\ found' = found /\ found = None
      /\ phase = "shape" /\ phase' = phase /\ off \in Nat /\ s \in 1 .. Len(sections) /\ best' = best
      /\ sections \in Seq(Section) /\ Len0(bin) \in Nat
  BY BinFacts DEF Types, NextSection, Located
<1>2. best = None /\ Official(3) = {} /\ NoHeader(sections[s], off) /\ off % PointerWords = 0
      /\ \A k \in 1 .. s - 1 : NoHeader(sections[k], Len0(bin))
  BY <1>1 DEF SearchInv, ShapesPassed
<1>3. NoHeader(sections[s], Len0(bin))
  <2>1. ASSUME NEW o \in Offsets, Bearing(sections[s]), sections[s].off <= o, InBytes(sections[s], o),
               o % PointerWords = 0
        PROVE  o < off
    <3>1. ~InBytes(sections[s], off)
      BY <2>1 DEF NextSection
    <3>2. End(sections[s]) \in Nat /\ o \in Nat
      BY <1>1, SectionFacts DEF Offsets
    <3> DEFINE end == Smaller(End(sections[s]), Len0(bin))
    <3>3. end \in Nat /\ ~(off + 2 <= end) /\ o + 2 <= end
      BY <1>1, <2>1, <3>1, <3>2 DEF InBytes, Smaller, PointerWords
    <3> HIDE DEF end
    <3>4. QED
      BY <1>1, <3>2, <3>3
  <2>2. QED
    BY <1>2, <2>1 DEF NoHeader
<1>4. ASSUME s # Len(sections) PROVE off' % PointerWords = 0 /\ NoHeader(sections[s + 1], off')
  <2>1. s + 1 \in DOMAIN sections /\ off' = Aligned(sections[s + 1])
    BY <1>1, <1>4 DEF NextSection
  <2>2. off' \in Nat /\ off' % PointerWords = 0
        /\ \A o \in Offsets : sections[s + 1].off <= o /\ o % PointerWords = 0 => off' <= o
    BY <1>1, <2>1, AlignedFacts
  <2>3. \A o \in Offsets : o \in Nat
    BY DEF Offsets
  <2>4. ASSUME NEW o \in Offsets, sections[s + 1].off <= o, o % PointerWords = 0, o < off' PROVE FALSE
    BY <2>2, <2>3, <2>4
  <2>5. QED
    BY <2>2, <2>4 DEF NoHeader
<1>5. \A k \in 1 .. s : NoHeader(sections[k], Len0(bin))
  BY <1>1, <1>2, <1>3
<1>6. \A k \in 1 .. s' - 1 : NoHeader(sections[k], Len0(bin))'
  BY <1>1, <1>5, OfficialStable DEF NoHeader, InBytes, Len0
<1>7. s' <= Len(sections') => NoHeader(sections[s], off)' /\ off' % PointerWords = 0
  BY <1>1, <1>4, OfficialStable DEF NoHeader, InBytes, Len0
<1>8. QED
  BY <1>1, <1>2, <1>6, <1>7, OfficialStable
  DEF SearchInv, MagicsPassed, ShapesPassed, BestIsRight, UnsupportedIsOld, FoundIsRight

LEMMA NotFoundKeeps ==
  ASSUME Types, SearchInv, NotFound
  PROVE  SearchInv'
<1>1. bin \in Inputs /\ bin' = bin /\ sections' = sections /\ s' = s /\ best' = best /\ found' = found /\ found = None
      /\ phase = "shape" /\ s > Len(sections) /\ phase' = (IF OldTable THEN "unsupported" ELSE "none")
  BY DEF Types, NotFound, Located, searching
<1>2. best = None /\ Official(3) = {} /\ \A k \in 1 .. s - 1 : NoHeader(sections[k], Len0(bin))
  BY <1>1 DEF SearchInv, ShapesPassed
<1>3. \A k \in 1 .. s' - 1 : NoHeader(sections[k], Len0(bin))'
  BY <1>1, <1>2, OfficialStable DEF NoHeader, InBytes, Len0
<1>4. OldTable => \E o \in Offsets : WordAt(o).is = "header" /\ WordAt(o).magic = "1.2"
  BY DEF OldTable
<1>5. UnsupportedIsOld'
  BY <1>1, <1>4, OfficialStable DEF UnsupportedIsOld
<1>6. QED
  BY <1>1, <1>2, <1>3, <1>5, OfficialStable
  DEF SearchInv, MagicsPassed, ShapesPassed, BestIsRight, FoundIsRight

\* finish takes the table the scans found.
LEMMA FinishKeeps ==
  ASSUME Types, SearchInv, Finish
  PROVE  SearchInv'
<1>1. bin \in Inputs /\ bin' = bin /\ phase = "finish" /\ best' = best /\ found = None
      /\ phase' \in {"bad", "refine", "locate"}
  BY DEF Types, Finish, Located, searching
<1>2. bin.named = None => ValidHeader(best) /\ (Official(3) # {} => LeastOf(best, Official(3)))
  BY <1>1 DEF SearchInv, BestIsRight
<1>3. ASSUME bin.named = None, found' # None PROVE found'.off = best
  BY <1>1, <1>3 DEF Finish, Table
<1>4. FoundIsRight'
  BY <1>1, <1>2, <1>3, OfficialStable DEF FoundIsRight, LeastOf
<1>5. QED
  BY <1>1, <1>4 DEF SearchInv, MagicsPassed, ShapesPassed, BestIsRight, UnsupportedIsOld

\* The table stays the one that was found.
LEMMA LaterKeepsTable ==
  ASSUME Types, SearchInv,
         ScanNext \/ Refine \/ RefineFails \/ Anchor \/ NoAnchor \/ Chain \/ ChainEnds \/ UNCHANGED vars
  PROVE  SearchInv'
<1>1. CASE UNCHANGED vars
  <2>1. /\ bin' = bin /\ sections' = sections /\ m' = m /\ from' = from /\ best' = best /\ s' = s
        /\ off' = off /\ found' = found /\ phase' = phase
    BY <1>1 DEF vars
  <2>2. MagicsPassed'
    BY <2>1, OfficialStable DEF SearchInv, MagicsPassed, LeastOf
  <2>3. ShapesPassed'
    BY <2>1, OfficialStable DEF SearchInv, ShapesPassed, NoHeader, InBytes, Len0
  <2>4. QED
    BY <2>1, <2>2, <2>3, OfficialStable DEF SearchInv, BestIsRight, UnsupportedIsOld, FoundIsRight, LeastOf
<1>2. CASE ScanNext \/ Refine \/ RefineFails \/ Anchor \/ NoAnchor \/ Chain \/ ChainEnds
  <2>1. bin' = bin /\ found' = found /\ phase' \in {"refine", "locate", "chain", "no module data", "done"}
    BY <1>2 DEF ScanNext, Refine, RefineFails, Anchor, NoAnchor, Chain, ChainEnds, Locating
  <2>2. FoundIsRight'
    BY <2>1, OfficialStable DEF SearchInv, FoundIsRight, LeastOf
  <2>3. QED
    BY <2>1, <2>2 DEF SearchInv, MagicsPassed, ShapesPassed, BestIsRight, UnsupportedIsOld
<1>3. QED
  BY <1>1, <1>2

LEMMA NextSearch == Types /\ SearchInv /\ [Next]_vars => SearchInv'
  BY ScanForMagicKeeps, EndMagicKeeps, ShapeStepKeeps, NextSectionKeeps, NotFoundKeeps, FinishKeeps, LaterKeepsTable
  DEF Next

LEMMA SearchIsRight == Types /\ SearchInv => TableSearchRight
<1> SUFFICES ASSUME Types, SearchInv PROVE TableSearchRight
  OBVIOUS
<1>1. bin \in Inputs
  BY DEF Types
<1> DEFINE official == {o \in Offsets : ValidHeader(o) /\ WordAt(o).magic \in {"1.20", "1.18", "1.16"}}
<1>2. official = Official(3) /\ official \subseteq Nat
  BY DEF Official, Magics, Offsets
<1>3. LeastOfficialHeader
  <2> HIDE DEF official
  <2>1. ASSUME found # None, bin.named = None, official # {} PROVE found.off = Least(official)
    BY <1>2, <2>1, LeastIsLeastOf DEF SearchInv, FoundIsRight
  <2>2. QED
    BY <2>1 DEF LeastOfficialHeader, SearchInv, FoundIsRight, official
<1>4. ASSUME phase \in {"none", "unsupported"} PROVE NeverDowngraded
  <2>1. official = {} /\ \A k \in 1 .. s - 1 : NoHeader(sections[k], Len0(bin))
    BY <1>2, <1>4 DEF SearchInv, ShapesPassed
  <2>2. s - 1 \in Nat /\ s > Len(sections) /\ DOMAIN sections = 1 .. Len(sections) /\ Len(sections) \in Nat
    BY <1>4 DEF SearchInv, ShapesPassed, Types
  <2>3. ASSUME NEW k \in DOMAIN sections, NEW o \in Offsets, Bearing(sections[k]),
               sections[k].off <= o, InBytes(sections[k], o), o % PointerWords = 0
        PROVE  ~ValidHeader(o)
    <3>1. k \in 1 .. s - 1
      BY <2>2 DEF Types
    <3>2. o < Len0(bin)
      BY <1>1, BinFacts DEF Offsets
    <3>3. QED
      BY <2>1, <2>3, <3>1, <3>2 DEF NoHeader
  <2>4. ASSUME NEW o \in Offsets, ValidHeader(o) PROVE WordAt(o).magic \in {"1.2", "random"}
    <3>1. WordAt(o) \in Word /\ WordAt(o).is = "header"
      BY <1>1, <2>4, WordFacts DEF ValidHeader
    <3>2. WordAt(o).magic \in {"1.20", "1.18", "1.16", "1.2", "random"}
      BY <3>1 DEF Word, Header
    <3>3. QED
      BY <2>1, <2>4, <3>2
  <2>5. QED
    BY <1>4, <2>3, <2>4 DEF NeverDowngraded, SearchInv, UnsupportedIsOld
<1>5. QED
  BY <1>3, <1>4 DEF TableSearchRight, NeverDowngraded

-----------------------------------------------------------------------------
(* The search for the module data tries layouts, kinds and sections in that
   nesting.  It runs twice over a stripped file, with the same outcome. *)

Before(l, k, j, a) == l < a[1] \/ (l = a[1] /\ (k < a[2] \/ (k = a[2] /\ j < a[3])))

NoHitBefore(a) ==
    \A l \in 1 .. 3, k \in DOMAIN ScanKinds, j \in DOMAIN sections : Before(l, k, j, a) => HereAt(l, k, j) = None

FirstHit(l, k, j) == HereAt(l, k, j) # None /\ NoHitBefore(<<l, k, j>>)

\* Wherever the first hit is, text_addr is its text address.
TextIsOfFirst ==
    \A l \in 1 .. 3, k \in DOMAIN ScanKinds, j \in DOMAIN sections :
      FirstHit(l, k, j) /\ bin.text[HereAt(l, k, j) + 1] # 0 => text_addr = bin.text[HereAt(l, k, j) + 1]

AnchorInv ==
    /\ phase \in {"magic", "shape", "finish"} => at = <<1, 1, 1>>
    /\ Locating => NoHitBefore(at)
    /\ phase = "locate" /\ bin.stripped => TextIsOfFirst
    /\ AnchorIsFirst

\* What a hit is depends on the file, its map and the table.
LEMMA HereStable ==
  ASSUME bin' = bin, sections' = sections, found' = found
  PROVE  /\ layouts' = layouts
         /\ \A l, k, j : HereAt(l, k, j)' = HereAt(l, k, j)
         /\ Places' = Places
         /\ \A p, q : Precedes(p, q)' <=> Precedes(p, q)
         /\ \A a : NoHitBefore(a)' <=> NoHitBefore(a)
<1>1. layouts' = layouts
  BY DEF layouts, WordAt
<1>2. ASSUME NEW l, NEW k, NEW j PROVE HereAt(l, k, j)' = HereAt(l, k, j)
  BY DEF HereAt, layouts, Scanned, Parses, InBytes, WordAt, Offsets, Len0, End
<1>3. Places' = Places
  <2>1. \A o, lay : Parses(o, lay)' <=> Parses(o, lay)
    BY DEF Parses, WordAt
  <2>2. \A sec, o : InBytes(sec, o)' <=> InBytes(sec, o)
    BY DEF InBytes, Len0, End
  <2>3. Offsets' = Offsets
    BY DEF Offsets, Len0
  <2>4. QED
    BY <1>1, <2>1, <2>2, <2>3 DEF Places
<1>4. \A p, q : Precedes(p, q)' <=> Precedes(p, q)
  BY DEF Precedes, Rank
<1>5. ASSUME NEW a PROVE NoHitBefore(a)' <=> NoHitBefore(a)
  BY <1>2 DEF NoHitBefore, Before
<1>6. QED
  BY <1>1, <1>2, <1>3, <1>4, <1>5

\* Nothing lies between a position and the next one.
LEMMA AdvanceFacts ==
  ASSUME sections \in Seq(Section), at \in Position, NEW l \in 1 .. 3, NEW k \in DOMAIN ScanKinds, NEW j \in DOMAIN sections,
         Before(l, k, j, Advance(at))
  PROVE  Before(l, k, j, at) \/ (l = at[1] /\ k = at[2] /\ j = at[3])
  BY DEF Before, Advance, Position, ScanKinds

\* Two different positions are one before the other, so there is one first hit.
LEMMA OneFirstHit ==
  ASSUME sections \in Seq(Section),
         NEW l \in 1 .. 3, NEW k \in DOMAIN ScanKinds, NEW j \in DOMAIN sections, FirstHit(l, k, j),
         NEW l2 \in 1 .. 3, NEW k2 \in DOMAIN ScanKinds, NEW j2 \in DOMAIN sections, FirstHit(l2, k2, j2)
  PROVE  l = l2 /\ k = k2 /\ j = j2
<1>1. ~Before(l, k, j, <<l2, k2, j2>>) /\ ~Before(l2, k2, j2, <<l, k, j>>)
  BY DEF FirstHit, NoHitBefore
<1>2. k \in 1 .. 3 /\ k2 \in 1 .. 3 /\ j \in Nat /\ j2 \in Nat
  BY DEF ScanKinds
<1>3. QED
  BY <1>1, <1>2 DEF Before

\* Where a module may be found the search hits.
LEMMA PlaceHits ==
  ASSUME Types, found # None, found.addr # 0, NEW p \in Places
  PROVE  /\ p[1] \in DOMAIN layouts /\ p[1] \in 1 .. 2 /\ p[2] \in DOMAIN ScanKinds /\ p[3] \in DOMAIN sections
         /\ p[4] \in FieldsIn(sections[p[3]], layouts[p[1]])
         /\ HereAt(p[1], p[2], p[3]) = Scanned(sections[p[3]], layouts[p[1]])
         /\ HereAt(p[1], p[2], p[3]) # None
<1>1. /\ p[1] \in DOMAIN layouts /\ p[2] \in DOMAIN ScanKinds /\ p[3] \in DOMAIN sections /\ p[4] \in Offsets
      /\ sections[p[3]].kind = ScanKinds[p[2]]
      /\ p[4] \in FieldsIn(sections[p[3]], layouts[p[1]])
  BY DEF Places, FieldsIn
<1>2. p[1] \in 1 .. 2 /\ p[1] <= Len(layouts)
  BY <1>1, LayoutFacts
<1>3. HereAt(p[1], p[2], p[3]) = Scanned(sections[p[3]], layouts[p[1]])
  BY <1>1, <1>2 DEF HereAt
<1>4. Scanned(sections[p[3]], layouts[p[1]]) # None
  BY <1>1, ScannedFacts DEF Types
<1>5. QED
  BY <1>1, <1>2, <1>3, <1>4

\* One place precedes another by the first of its coordinates that differs.
LEMMA PrecedesBy ==
  ASSUME NEW p, NEW q,
         LET mis(x) == (x[4] - sections[x[3]].off) % PointerWords
         IN  \/ p[1] < q[1]
             \/ p[1] = q[1] /\ p[2] < q[2]
             \/ p[1] = q[1] /\ p[2] = q[2] /\ p[3] < q[3]
             \/ p[1] = q[1] /\ p[2] = q[2] /\ p[3] = q[3] /\ mis(p) < mis(q)
             \/ p[1] = q[1] /\ p[2] = q[2] /\ p[3] = q[3] /\ mis(p) = mis(q) /\ p[4] < q[4]
  PROVE  Precedes(p, q)
<1> DEFINE mis(x) == (x[4] - sections[x[3]].off) % PointerWords
           R(x) == <<x[1], x[2], x[3], mis(x), x[4]>>
<1>1. \A x : R(x)[1] = x[1] /\ R(x)[2] = x[2] /\ R(x)[3] = x[3] /\ R(x)[4] = mis(x) /\ R(x)[5] = x[4]
  OBVIOUS
<1>2. \A x : Rank(x) = R(x)
  BY DEF Rank
<1>3. \/ p[1] < q[1]
      \/ p[1] = q[1] /\ p[2] < q[2]
      \/ p[1] = q[1] /\ p[2] = q[2] /\ p[3] < q[3]
      \/ p[1] = q[1] /\ p[2] = q[2] /\ p[3] = q[3] /\ mis(p) < mis(q)
      \/ p[1] = q[1] /\ p[2] = q[2] /\ p[3] = q[3] /\ mis(p) = mis(q) /\ p[4] < q[4]
  OBVIOUS
<1> HIDE DEF R, mis
<1>4. \E n \in 1 .. 5 : R(p)[n] < R(q)[n] /\ \A k \in 1 .. n - 1 : R(p)[k] = R(q)[k]
  <2>1. /\ 1 \in 1 .. 5 /\ 2 \in 1 .. 5 /\ 3 \in 1 .. 5 /\ 4 \in 1 .. 5 /\ 5 \in 1 .. 5
        /\ 1 .. 1 - 1 = {} /\ 1 .. 2 - 1 = {1} /\ 1 .. 3 - 1 = {1, 2} /\ 1 .. 4 - 1 = {1, 2, 3} /\ 1 .. 5 - 1 = {1, 2, 3, 4}
    OBVIOUS
  <2>2. CASE p[1] < q[1]
    <3>1. R(p)[1] < R(q)[1] /\ \A k \in 1 .. 1 - 1 : R(p)[k] = R(q)[k]
      BY <1>1, <2>1, <2>2
    <3>2. QED
      BY <2>1, <3>1
  <2>3. CASE p[1] = q[1] /\ p[2] < q[2]
    <3>1. R(p)[2] < R(q)[2] /\ \A k \in 1 .. 2 - 1 : R(p)[k] = R(q)[k]
      BY <1>1, <2>1, <2>3
    <3>2. QED
      BY <2>1, <3>1
  <2>4. CASE p[1] = q[1] /\ p[2] = q[2] /\ p[3] < q[3]
    <3>1. R(p)[3] < R(q)[3] /\ \A k \in 1 .. 3 - 1 : R(p)[k] = R(q)[k]
      BY <1>1, <2>1, <2>4
    <3>2. QED
      BY <2>1, <3>1
  <2>5. CASE p[1] = q[1] /\ p[2] = q[2] /\ p[3] = q[3] /\ mis(p) < mis(q)
    <3>1. R(p)[4] < R(q)[4] /\ \A k \in 1 .. 4 - 1 : R(p)[k] = R(q)[k]
      BY <1>1, <2>1, <2>5
    <3>2. QED
      BY <2>1, <3>1
  <2>6. CASE p[1] = q[1] /\ p[2] = q[2] /\ p[3] = q[3] /\ mis(p) = mis(q) /\ p[4] < q[4]
    <3>1. R(p)[5] < R(q)[5] /\ \A k \in 1 .. 5 - 1 : R(p)[k] = R(q)[k]
      BY <1>1, <2>1, <2>6
    <3>2. QED
      BY <2>1, <3>1
  <2>7. QED
    BY <1>3, <2>2, <2>3, <2>4, <2>5, <2>6
<1>5. QED
  BY <1>2, <1>4 DEF Precedes

\* Before the search begins nothing has been looked at.
LEMMA EarlierAnchor ==
  ASSUME Types, AnchorInv,
         MagicHit \/ MagicExhausted \/ EndMagic \/ ShapeStep \/ NextSection \/ NotFound \/ Finish
  PROVE  AnchorInv'
<1>1. /\ at = <<1, 1, 1>> /\ at' = at
      /\ phase' \in {"magic", "shape", "finish", "none", "unsupported", "bad", "refine", "locate"}
      /\ phase' = "locate" => ~bin'.stripped
      /\ Types'
  BY SearchTypes, FinishTypes
  DEF MagicHit, MagicExhausted, EndMagic, ShapeStep, NextSection, NotFound, Finish, searching, modules, AnchorInv
<1>2. NoHitBefore(at)'
  <2>1. ASSUME NEW l \in 1 .. 3, NEW k \in DOMAIN ScanKinds, NEW j \in DOMAIN sections'
        PROVE  ~Before(l, k, j, <<1, 1, 1>>)
    <3>1. k \in 1 .. 3
      BY DEF ScanKinds
    <3>4. sections' \in Seq(Section)
      BY <1>1 DEF Types
    <3>2. j \in 1 .. Len(sections') /\ Len(sections') \in Nat
      BY <3>4
    <3>3. QED
      BY <3>1, <3>2 DEF Before
  <2>2. QED
    BY <1>1, <2>1 DEF NoHitBefore, Before
<1>3. QED
  BY <1>1, <1>2 DEF AnchorInv, AnchorIsFirst

\* A position without a hit is passed.
LEMMA ScanNextAnchor ==
  ASSUME Types, AnchorInv, ScanNext
  PROVE  AnchorInv'
<1>1. /\ bin' = bin /\ sections' = sections /\ found' = found /\ text_addr' = text_addr /\ phase' = phase
      /\ at' = Advance(at) /\ HereAt(at[1], at[2], at[3]) = None /\ Locating
  BY HereIsHereAt DEF ScanNext
<1>2. NoHitBefore(Advance(at))
  BY <1>1, AdvanceFacts DEF NoHitBefore, AnchorInv, Types
<1>3. NoHitBefore(at)'
  BY <1>1, <1>2, HereStable DEF NoHitBefore, Before
<1>4. phase = "locate" /\ bin.stripped => TextIsOfFirst'
  <2>1. phase = "locate" /\ bin.stripped => TextIsOfFirst
    BY DEF AnchorInv
  <2>2. \A l, k, j : FirstHit(l, k, j)' <=> FirstHit(l, k, j)
    BY <1>1, HereStable DEF FirstHit
  <2>3. QED
    BY <1>1, <2>1, <2>2, HereStable DEF TextIsOfFirst
<1>5. QED
  BY <1>1, <1>3, <1>4 DEF AnchorInv, AnchorIsFirst, Locating

\* The position in hand is the first that hits when it hits.
LEMMA HereIsFirst ==
  ASSUME Types, AnchorInv, Locating, Here # None
  PROVE  /\ at[1] \in 1 .. 3 /\ at[2] \in DOMAIN ScanKinds /\ at[3] \in DOMAIN sections
         /\ FirstHit(at[1], at[2], at[3]) /\ Here = HereAt(at[1], at[2], at[3])
<1>1. at[1] \in 1 .. 3 /\ at[2] \in DOMAIN ScanKinds /\ at[3] \in DOMAIN sections /\ at = <<at[1], at[2], at[3]>>
  BY DEF Types, Position
<1>2. QED
  BY <1>1, HereIsHereAt DEF FirstHit, AnchorInv

\* finish takes the text address of the first hit,
LEMMA RefineAnchor ==
  ASSUME Types, AnchorInv, Refine
  PROVE  AnchorInv'
<1>1. /\ bin' = bin /\ sections' = sections /\ found' = found /\ phase' = "locate" /\ at' = <<1, 1, 1>> /\ Locating
      /\ Here # None /\ text_addr' = (IF bin.text[Here + 1] # 0 THEN bin.text[Here + 1] ELSE text_addr)
  BY DEF Refine, Locating
<1>2. NoHitBefore(at)'
  <2>1. ASSUME NEW l \in 1 .. 3, NEW k \in DOMAIN ScanKinds, NEW j \in DOMAIN sections
        PROVE  ~Before(l, k, j, <<1, 1, 1>>)
    BY DEF Before, ScanKinds, Types
  <2>2. QED
    BY <1>1, <2>1 DEF NoHitBefore, Before
<1>3. ASSUME NEW l \in 1 .. 3, NEW k \in DOMAIN ScanKinds, NEW j \in DOMAIN sections,
             FirstHit(l, k, j), bin.text[HereAt(l, k, j) + 1] # 0
      PROVE  text_addr' = bin.text[HereAt(l, k, j) + 1]
  <2>1. HereAt(l, k, j) = Here
    BY <1>1, <1>3, HereIsFirst, OneFirstHit DEF Types
  <2>2. QED
    BY <1>1, <1>3, <2>1
<1>4. TextIsOfFirst'
  <2>1. \A l, k, j : FirstHit(l, k, j)' <=> FirstHit(l, k, j)
    BY <1>1, HereStable DEF FirstHit
  <2>2. QED
    BY <1>1, <1>3, <2>1, HereStable DEF TextIsOfFirst
<1>5. QED
  BY <1>1, <1>2, <1>4 DEF AnchorInv, AnchorIsFirst

\* and none when there is none.
LEMMA RefineFailsAnchor ==
  ASSUME Types, AnchorInv, RefineFails
  PROVE  AnchorInv'
<1>1. /\ bin' = bin /\ sections' = sections /\ found' = found /\ phase' = "locate" /\ at' = <<1, 1, 1>> /\ Locating
      /\ found.addr = 0 \/ at[1] > Len(layouts)
  BY DEF RefineFails, Locating
<1>2. NoHitBefore(at)'
  <2>1. ASSUME NEW l \in 1 .. 3, NEW k \in DOMAIN ScanKinds, NEW j \in DOMAIN sections
        PROVE  ~Before(l, k, j, <<1, 1, 1>>)
    BY DEF Before, ScanKinds, Types
  <2>2. QED
    BY <1>1, <2>1 DEF NoHitBefore, Before
<1>3. ASSUME NEW l \in 1 .. 3, NEW k \in DOMAIN ScanKinds, NEW j \in DOMAIN sections PROVE HereAt(l, k, j) = None
  <2>1. CASE found.addr = 0 \/ l > Len(layouts)
    BY <2>1, LayoutFacts DEF HereAt
  <2>2. CASE at[1] > Len(layouts) /\ l <= Len(layouts)
    <3>1. l < at[1]
      BY <2>2, LayoutFacts DEF Types, Position
    <3>2. QED
      BY <1>1, <3>1 DEF AnchorInv, NoHitBefore, Before
  <2>3. QED
    BY <1>1, <2>1, <2>2, LayoutFacts
<1>4. TextIsOfFirst'
  BY <1>1, <1>3, HereStable DEF TextIsOfFirst, FirstHit
<1>5. QED
  BY <1>1, <1>2, <1>4 DEF AnchorInv, AnchorIsFirst

LEMMA AnchorAnchor ==
  ASSUME Types, AnchorInv, Anchor
  PROVE  AnchorInv'
<1> DEFINE l == at[1]
<1>1. /\ bin' = bin /\ sections' = sections /\ found' = found /\ phase = "locate" /\ phase' = "chain" /\ Locating
      /\ Here # None /\ out' = <<[off |-> Here, layout |-> layouts[l]]>> /\ text_addr' = text_addr /\ found # None
  BY DEF Anchor, Locating, Types, Located
<1>2. l \in 1 .. 3 /\ at[2] \in DOMAIN ScanKinds /\ at[3] \in DOMAIN sections
      /\ FirstHit(l, at[2], at[3]) /\ Here = HereAt(l, at[2], at[3])
  BY <1>1, HereIsFirst
<1>3. l \in DOMAIN layouts /\ found.addr # 0 /\ sections[at[3]].kind = ScanKinds[at[2]]
      /\ Here \in FieldsIn(sections[at[3]], layouts[l])
  BY <1>1, <1>2, HereFacts
<1> DEFINE k0 == at[2]
           j0 == at[3]
           p == <<l, k0, j0, Here>>
<1>4. p \in Places
  BY <1>2, <1>3 DEF Places, FieldsIn
<1>5. ASSUME NEW q \in Places PROVE q = p \/ Precedes(p, q)
  <2>1. /\ q[1] \in DOMAIN layouts /\ q[1] \in 1 .. 3 /\ q[2] \in DOMAIN ScanKinds /\ q[3] \in DOMAIN sections
        /\ q[4] \in FieldsIn(sections[q[3]], layouts[q[1]]) /\ HereAt(q[1], q[2], q[3]) # None
        /\ q = <<q[1], q[2], q[3], q[4]>>
    <3>1. q = <<q[1], q[2], q[3], q[4]>>
      BY DEF Places
    <3>2. q[1] \in 1 .. 2 => q[1] \in 1 .. 3
      OBVIOUS
    <3>3. QED
      BY <1>1, <1>3, <1>5, <3>1, <3>2, PlaceHits
  <2>2. ~Before(q[1], q[2], q[3], <<l, k0, j0>>)
    BY <1>2, <2>1 DEF FirstHit, NoHitBefore
  <2>3. q[2] \in Nat /\ q[3] \in Nat /\ k0 \in Nat /\ j0 \in Nat /\ l \in Nat /\ q[1] \in Nat
    <3>1. \A k \in DOMAIN ScanKinds : k \in Nat
      BY DEF ScanKinds
    <3>2. sections \in Seq(Section)
      BY DEF Types
    <3>3. \A k \in DOMAIN sections : k \in Nat
      BY <3>2
    <3>4. QED
      BY <1>2, <2>1, <3>1, <3>3
  <2>4. \/ l < q[1]
        \/ l = q[1] /\ k0 < q[2]
        \/ l = q[1] /\ k0 = q[2] /\ j0 < q[3]
        \/ l = q[1] /\ k0 = q[2] /\ j0 = q[3]
    BY <2>2, <2>3 DEF Before
  <2>5. p[1] = l /\ p[2] = k0 /\ p[3] = j0 /\ p[4] = Here
    OBVIOUS
  <2>6. CASE l = q[1] /\ k0 = q[2] /\ j0 = q[3]
    <3>1. Here = Scanned(sections[j0], layouts[l]) /\ q[4] \in FieldsIn(sections[j0], layouts[l]) /\ sections[j0].off \in Nat
      BY <1>1, <1>2, <1>3, <2>1, <2>6, LayoutFacts, SectionFacts DEF HereAt, Types
    <3> DEFINE mis(x) == (x - sections[j0].off) % PointerWords
    <3>2. Here = q[4] \/ mis(Here) < mis(q[4]) \/ (mis(Here) = mis(q[4]) /\ Here < q[4])
      BY <3>1, ScannedFirst DEF Types
    <3>3. CASE Here = q[4]
      BY <2>1, <2>6, <3>3
    <3>4. CASE Here # q[4]
      <4> HIDE DEF p
      <4>1. QED
        BY <2>5, <2>6, <3>2, <3>4, PrecedesBy
    <3>5. QED
      BY <3>3, <3>4
  <2>7. CASE ~(l = q[1] /\ k0 = q[2] /\ j0 = q[3])
    <3> HIDE DEF p
    <3>1. QED
      BY <2>4, <2>5, <2>7, PrecedesBy
  <2>8. QED
    BY <2>6, <2>7
<1>6. bin.stripped /\ bin.text[Here + 1] # 0 => text_addr = bin.text[Here + 1]
  BY <1>1, <1>2 DEF AnchorInv, TextIsOfFirst
<1>7. p[1] = l /\ p[4] = Here
  OBVIOUS
<1> HIDE DEF l, p
<1>8. AnchorIsFirst'
  <2>1. out'[1] = [off |-> p[4], layout |-> layouts[p[1]]]
    BY <1>1, <1>7
  <2>2. bin.stripped /\ bin.text[p[4] + 1] # 0 => text_addr = bin.text[p[4] + 1]
    BY <1>6, <1>7
  <2>3. phase' # "no module data" /\ bin' = bin /\ text_addr' = text_addr /\ layouts' = layouts /\ Places' = Places
        /\ \A x, y : Precedes(x, y)' <=> Precedes(x, y)
    BY <1>1, HereStable
  <2>4. PICK z : z = p
    OBVIOUS
  <2>5. /\ z \in Places'
        /\ out'[1] = [off |-> z[4], layout |-> layouts'[z[1]]]
        /\ \A q \in Places' : q = z \/ Precedes(z, q)'
        /\ bin'.stripped /\ bin'.text[z[4] + 1] # 0 => text_addr' = bin'.text[z[4] + 1]
    BY <1>4, <1>5, <2>1, <2>2, <2>3, <2>4
  <2>6. QED
    BY <2>3, <2>5 DEF AnchorIsFirst
<1>9. QED
  BY <1>1, <1>8 DEF AnchorInv, Locating

LEMMA NoAnchorAnchor ==
  ASSUME Types, AnchorInv, NoAnchor
  PROVE  AnchorInv'
<1>1. /\ bin' = bin /\ sections' = sections /\ found' = found /\ phase = "locate" /\ phase' = "no module data"
      /\ Locating
      /\ found.addr = 0 \/ at[1] > Len(layouts)
      /\ found # None
  BY DEF NoAnchor, Locating, Types, Located
<1>2. ASSUME found.addr # 0, NEW p \in Places PROVE FALSE
  <2>1. at[1] \in 1 .. 3 /\ at[1] > Len(layouts)
    BY <1>1, <1>2 DEF Types, Position
  <2>2. /\ p[1] \in 1 .. 3 /\ p[1] < at[1] /\ p[2] \in DOMAIN ScanKinds /\ p[3] \in DOMAIN sections
        /\ HereAt(p[1], p[2], p[3]) # None
    <3>1. p[1] \in DOMAIN layouts /\ p[1] \in 1 .. 2
      BY <1>1, <1>2, PlaceHits
    <3>2. p[1] \in 1 .. 3 /\ p[1] < at[1]
      BY <2>1, <3>1, LayoutFacts
    <3>3. QED
      BY <1>1, <1>2, <3>2, PlaceHits
  <2>3. Before(p[1], p[2], p[3], at)
    BY <2>2 DEF Before
  <2>4. QED
    BY <1>1, <2>2, <2>3 DEF AnchorInv, NoHitBefore
<1>3. AnchorIsFirst'
  BY <1>1, <1>2, HereStable DEF AnchorIsFirst
<1>4. QED
  BY <1>1, <1>3 DEF AnchorInv, Locating

\* The chain grows behind the first module.
LEMMA ChainAnchor ==
  ASSUME Types, AnchorInv, Chain \/ ChainEnds \/ UNCHANGED vars
  PROVE  AnchorInv'
<1>1. CASE Chain \/ ChainEnds
  <2>1. /\ bin' = bin /\ sections' = sections /\ found' = found /\ text_addr' = text_addr
        /\ phase = "chain" /\ phase' \in {"chain", "done"}
    BY <1>1 DEF Chain, ChainEnds
  <2>2. out # <<>> /\ out \in Seq(Entry)
    BY <2>1 DEF Types
  <2>3. out' = out \/ \E e : out' = Append(out, e)
    BY <1>1 DEF Chain, ChainEnds, modules
  <2>4. out'[1] = out[1]
    BY <2>2, <2>3
  <2>5. AnchorIsFirst'
    BY <2>1, <2>4, HereStable DEF AnchorIsFirst, AnchorInv
  <2>6. QED
    BY <2>1, <2>5 DEF AnchorInv, Locating
<1>2. CASE UNCHANGED vars
  <2>1. /\ bin' = bin /\ sections' = sections /\ found' = found /\ text_addr' = text_addr /\ at' = at
        /\ out' = out /\ phase' = phase
    BY <1>2 DEF vars
  <2>2. \A l, k, j : FirstHit(l, k, j)' <=> FirstHit(l, k, j)
    BY <2>1, HereStable DEF FirstHit
  <2>3. TextIsOfFirst' <=> TextIsOfFirst
    BY <2>1, <2>2, HereStable DEF TextIsOfFirst
  <2>4. NoHitBefore(at)' <=> NoHitBefore(at)
    BY <2>1, HereStable DEF NoHitBefore, Before
  <2>5. AnchorIsFirst' <=> AnchorIsFirst
    BY <2>1, HereStable DEF AnchorIsFirst
  <2>6. QED
    BY <2>1, <2>3, <2>4, <2>5 DEF AnchorInv, Locating
<1>3. QED
  BY <1>1, <1>2

LEMMA NextAnchor == Types /\ AnchorInv /\ [Next]_vars => AnchorInv'
  BY EarlierAnchor, ScanNextAnchor, RefineAnchor, RefineFailsAnchor, AnchorAnchor, NoAnchorAnchor, ChainAnchor DEF Next

-----------------------------------------------------------------------------
(* The chain: each module listed is read once, in the order of the list. *)

OnceEach == \A j, k \in DOMAIN out : out[j].off = out[k].off => j = k

LedTo == \A k \in DOMAIN out \ {1} : AsModule(out[k].off) /\ LeadsFirst(k - 1, out[k].off)

\* Every module but the last has been read, and the last, once read, leads to nothing new.
LastSpent ==
    /\ Len(out) <= idx
    /\ idx > Len(out) => \A w \in TailOf(out[Len(out)].off) :
         PointsTo(w) # None /\ AsModule(PointsTo(w)) => Visited(PointsTo(w))

ChainInv ==
    /\ OnceEach
    /\ LedTo
    /\ out # <<>> => LastSpent
    /\ phase = "done" => idx > Len(out)

\* Where a tail leads depends on the file, its map and the table.
LEMMA LeadsStable ==
  ASSUME bin' = bin, sections' = sections, found' = found
  PROVE  /\ \A o : AsModule(o)' <=> AsModule(o)
         /\ \A o : TailOf(o)' = TailOf(o)
         /\ \A w : PointsTo(w)' = PointsTo(w)
<1>1. \A o : WordAt(o)' = WordAt(o)
  BY DEF WordAt
<1>2. \A a : FileOffset(a)' = FileOffset(a)
  BY DEF FileOffset, Len0
<1>3. layouts' = layouts
  BY DEF layouts, WordAt
<1>4. ASSUME NEW o PROVE AsModule(o)' <=> AsModule(o)
  <2>1. LooksLikeModule(o)' <=> LooksLikeModule(o)
    BY <1>1, <1>2 DEF LooksLikeModule
  <2>2. \A lay : Parses(o, lay)' <=> Parses(o, lay)
    BY DEF Parses, WordAt
  <2>3. QED
    BY <1>3, <2>1, <2>2 DEF AsModule
<1>5. \A o : TailOf(o)' = TailOf(o)
  BY DEF TailOf, Len0
<1>6. \A w : PointsTo(w)' = PointsTo(w)
  BY <1>1, <1>2 DEF PointsTo
<1>7. QED
  BY <1>4, <1>5, <1>6

\* and so does what led to a module already listed, however the list grows.
LEMMA LedToStable ==
  ASSUME bin' = bin, sections' = sections, found' = found, out \in Seq(Entry),
         \A k \in DOMAIN out : out'[k] = out[k],
         NEW j \in DOMAIN out, NEW o, LeadsFirst(j, o)
  PROVE  LeadsFirst(j, o)'
<1>1. \A k \in 1 .. j : out'[k] = out[k]
  <2>1. 1 .. j \subseteq DOMAIN out
    OBVIOUS
  <2>2. QED
    BY <2>1
<1>2. out'[j] = out[j]
  OBVIOUS
<1>3. PICK w \in TailOf(out[j].off) :
        /\ PointsTo(w) = o
        /\ \A v \in TailOf(out[j].off) :
             v < w /\ PointsTo(v) # None /\ AsModule(PointsTo(v)) => \E k \in 1 .. j : out[k].off = PointsTo(v)
  BY DEF LeadsFirst
<1>4. TailOf(out[j].off)' = TailOf(out[j].off)
  BY <1>2, LeadsStable
<1>5. w \in TailOf(out[j].off)' /\ PointsTo(w)' = o
  BY <1>3, <1>4, LeadsStable
<1>6. ASSUME NEW v \in TailOf(out[j].off)', v < w, PointsTo(v)' # None, AsModule(PointsTo(v))'
      PROVE  \E k \in 1 .. j : out'[k].off = PointsTo(v)'
  <2>1. v \in TailOf(out[j].off) /\ PointsTo(v)' = PointsTo(v) /\ PointsTo(v) # None
    BY <1>4, <1>6, LeadsStable
  <2>2. AsModule(PointsTo(v))
    BY <1>6, <2>1, LeadsStable
  <2>3. QED
    BY <1>1, <1>3, <1>6, <2>1, <2>2
<1>7. QED
  BY <1>5, <1>6, Zenon DEF LeadsFirst

LEMMA ListedStable ==
  ASSUME bin' = bin, sections' = sections, found' = found, out \in Seq(Entry), ChainInv,
         \A k \in DOMAIN out : out'[k] = out[k],
         NEW k \in DOMAIN out, k # 1, k - 1 \in DOMAIN out
  PROVE  AsModule(out[k].off)' /\ LeadsFirst(k - 1, out[k].off)'
<1>1. PICK x : x = out[k].off
  OBVIOUS
<1>2. AsModule(x) /\ LeadsFirst(k - 1, x)
  BY <1>1 DEF ChainInv, LedTo
<1>3. AsModule(x)' /\ LeadsFirst(k - 1, x)'
  BY <1>2, LeadsStable, LedToStable
<1>4. out'[k].off = x
  BY <1>1
<1>5. QED
  BY <1>3, <1>4

\* The module in hand is the last of the list: what its tail leads to is appended to it.
LEMMA ChainKeeps ==
  ASSUME Types, ChainInv, Chain
  PROVE  ChainInv'
<1> DEFINE here == out[idx].off
           nexts == {w \in TailOf(here) : Follows(w)}
           w0 == Least(nexts)
           q0 == FileOffset(WordAt(w0).to)
           e == [off |-> q0, layout |-> layouts[FirstLayout(q0)]]
<1>1. /\ bin' = bin /\ sections' = sections /\ found' = found /\ phase = "chain" /\ phase' = "chain"
      /\ idx' = idx + 1 /\ idx \in 1 .. Len(out) /\ out' = (IF nexts = {} THEN out ELSE Append(out, e))
      /\ out \in Seq(Entry) /\ Len(out) \in Nat /\ DOMAIN out = 1 .. Len(out) /\ out # <<>>
  BY DEF Chain, Types
<1>2. idx = Len(out)
  <2> HIDE DEF nexts, e
  <2>1. Len(out) <= idx
    BY <1>1 DEF ChainInv, LastSpent
  <2>2. Len(out) \in Nat /\ idx \in 1 .. Len(out)
    BY <1>1
  <2>3. QED
    BY <2>1, <2>2
<1>3. here \in Nat
  <2>1. out[idx] \in Entry
    BY <1>1, ElementFacts
  <2>2. QED
    BY <2>1 DEF Entry, Offsets
<1>4. \A k \in DOMAIN out : k \in DOMAIN out' /\ out'[k] = out[k]
  <2> HIDE DEF nexts, e
  <2> QED  BY <1>1
<1>5. ASSUME NEW w \in TailOf(here), PointsTo(w) # None, AsModule(PointsTo(w)), ~Visited(PointsTo(w))
      PROVE  w \in nexts
  <2>1. WordAt(w).is = "pointer" /\ WordAt(w).to # 0 /\ PointsTo(w) = FileOffset(WordAt(w).to)
    BY <1>5 DEF PointsTo
  <2>2. Follows(w)
    BY <1>5, <2>1 DEF Follows
  <2>3. QED
    BY <2>2
<1>6. CASE nexts = {}
  <2>1. out' = out
    BY <1>1, <1>6
  <2>2. OnceEach'
    BY <2>1 DEF ChainInv, OnceEach
  <2>3. LedTo'
    <3>1. ASSUME NEW k \in DOMAIN out' \ {1} PROVE AsModule(out[k].off)' /\ LeadsFirst(k - 1, out[k].off)'
      <4> HIDE DEF nexts, e
      <4>1. DOMAIN out = 1 .. Len(out) /\ Len(out) \in Nat /\ k \in DOMAIN out /\ k # 1
        BY <1>1, <2>1, <3>1
      <4>2. k - 1 \in DOMAIN out
        BY <4>1
      <4>3. QED
        BY <1>1, <1>4, <4>1, <4>2, ListedStable
    <3>2. QED
      BY <3>1 DEF LedTo
  <2>4. LastSpent'
    <3>1. ASSUME NEW w \in TailOf(out[Len(out)].off), PointsTo(w) # None, AsModule(PointsTo(w))
          PROVE  Visited(PointsTo(w))
      <4> HIDE DEF nexts
      <4>1. w \in TailOf(here)
        BY <1>2, <3>1
      <4>2. QED
        BY <1>5, <1>6, <3>1, <4>1
    <3>2. \A o : Visited(o)' <=> Visited(o)
      BY <2>1 DEF Visited
    <3>3. Len(out') <= idx'
      <4> HIDE DEF nexts, e
      <4>1. idx' = Len(out) + 1 /\ Len(out) \in Nat /\ Len(out') = Len(out)
        BY <1>1, <1>2, <2>1
      <4>2. QED
        BY <4>1
    <3>4. \A w \in TailOf(out[Len(out)].off)' :
            PointsTo(w)' # None /\ AsModule(PointsTo(w))' => Visited(PointsTo(w))'
      <4>1. TailOf(out[Len(out)].off)' = TailOf(out[Len(out)].off)
        BY <1>1, <2>1, LeadsStable
      <4>2. ASSUME NEW w \in TailOf(out[Len(out)].off)', PointsTo(w)' # None, AsModule(PointsTo(w))'
            PROVE  Visited(PointsTo(w))'
        <5>1. PointsTo(w)' = PointsTo(w)
          BY <1>1, LeadsStable
        <5>2. AsModule(PointsTo(w))
          BY <1>1, <4>2, <5>1, LeadsStable
        <5>3. Visited(PointsTo(w))
          BY <3>1, <4>1, <4>2, <5>1, <5>2
        <5>4. QED
          BY <3>2, <5>1, <5>3
      <4>3. QED
        BY <4>2
    <3>5. QED
      BY <3>3, <3>4 DEF LastSpent
  <2>5. QED
    BY <1>1, <2>2, <2>3, <2>4 DEF ChainInv
<1>7. CASE nexts # {}
  <2>1. w0 \in TailOf(here) /\ Follows(w0) /\ \A v \in nexts : w0 <= v
    <3>1. nexts \subseteq Nat
      BY <1>3, TailFacts DEF Types, Offsets
    <3>2. w0 \in nexts /\ \A v \in nexts : w0 <= v
      <4> HIDE DEF nexts
      <4> QED  BY <1>7, <3>1, LeastFacts
    <3>3. QED
      BY <3>2
  <2>2. q0 = PointsTo(w0) /\ q0 # None /\ ~Visited(q0) /\ AsModule(q0)
    BY <1>3, <2>1, FollowsFacts
  <2>3. out' = Append(out, e) /\ e.off = q0
    BY <1>1, <1>7
  <2>4. \A k \in DOMAIN out : out[k].off # q0
    BY <2>2 DEF Visited
  <2>5. LeadsFirst(idx, q0)
    <3>1. ASSUME NEW v \in TailOf(here), v < w0, PointsTo(v) # None, AsModule(PointsTo(v))
          PROVE  \E k \in 1 .. idx : out[k].off = PointsTo(v)
      <4>1. v \in Nat /\ w0 \in Nat
        BY <1>3, <2>1, TailFacts DEF Types, Offsets
      <4> HIDE DEF nexts, w0
      <4>2. v \notin nexts
        BY <2>1, <3>1, <4>1
      <4>3. Visited(PointsTo(v))
        BY <1>5, <3>1, <4>2
      <4>4. QED
        BY <1>1, <1>2, <4>3 DEF Visited
    <3> HIDE DEF w0, q0, nexts
    <3>2. w0 \in TailOf(out[idx].off) /\ PointsTo(w0) = q0
      BY <2>1, <2>2
    <3>3. QED
      BY <3>1, <3>2 DEF LeadsFirst
  <2> HIDE DEF e, q0, nexts
  <2>6. DOMAIN out' = 1 .. Len(out) + 1 /\ out'[Len(out) + 1] = e /\ Len(out') = Len(out) + 1
    BY <1>1, <2>3
  <2>7. OnceEach'
    <3>1. ASSUME NEW j \in DOMAIN out', NEW k \in DOMAIN out', out'[j].off = out'[k].off PROVE j = k
      <4>1. (j \in DOMAIN out \/ j = Len(out) + 1) /\ (k \in DOMAIN out \/ k = Len(out) + 1)
        BY <1>1, <2>6
      <4>2. QED
        BY <1>4, <2>3, <2>4, <2>6, <3>1, <4>1 DEF ChainInv, OnceEach
    <3>2. QED
      BY <3>1 DEF OnceEach
  <2>8. LedTo'
    <3>1. ASSUME NEW k \in DOMAIN out' \ {1} PROVE AsModule(out[k].off)' /\ LeadsFirst(k - 1, out[k].off)'
      <4>1. CASE k \in DOMAIN out
        <5>1. k - 1 \in DOMAIN out
          BY <1>1, <3>1, <4>1
        <5>2. QED
          BY <1>1, <1>4, <3>1, <4>1, <5>1, ListedStable
      <4>2. CASE k = Len(out) + 1
        <5>1. out'[k].off = q0 /\ k - 1 = idx /\ idx \in DOMAIN out
          BY <1>1, <1>2, <2>3, <2>6, <4>2
        <5>2. PICK x : x = q0
          OBVIOUS
        <5>3. LeadsFirst(k - 1, x) /\ k - 1 \in DOMAIN out
          BY <2>5, <5>1, <5>2
        <5>4. LeadsFirst(k - 1, x)'
          BY <1>1, <1>4, <5>3, LedToStable
        <5>5. AsModule(x)' /\ out'[k].off = x
          BY <1>1, <2>2, <5>1, <5>2, LeadsStable
        <5>6. QED
          BY <5>4, <5>5
      <4>3. QED
        BY <1>1, <2>6, <3>1, <4>1, <4>2
    <3>2. QED
      BY <3>1 DEF LedTo
  <2>9. LastSpent'
    BY <1>1, <1>2, <2>6 DEF LastSpent
  <2>10. QED
    BY <1>1, <2>7, <2>8, <2>9 DEF ChainInv
<1>8. QED
  BY <1>6, <1>7

\* A list of at most one module, not read yet, is a chain.
LEMMA ShortChain ==
  ASSUME Types', idx' = 1, Len(out') <= 1, phase' # "done"
  PROVE  ChainInv'
<1>1. DOMAIN out' = 1 .. Len(out') /\ Len(out') \in Nat
  BY DEF Types
<1>2. \A k \in DOMAIN out' : k = 1
  BY <1>1
<1>3. OnceEach' /\ LedTo'
  BY <1>2 DEF OnceEach, LedTo
<1>4. out' # <<>> => LastSpent'
  <2>1. out' # <<>> => Len(out') # 0
    BY DEF Types
  <2>2. out' # <<>> => Len(out') = 1
    BY <1>1, <2>1
  <2>3. QED
    BY <2>2 DEF LastSpent
<1>5. QED
  BY <1>3, <1>4 DEF ChainInv

\* A step that lists and reads nothing keeps the chain.
LEMMA SameChain ==
  ASSUME Types, ChainInv, bin' = bin, sections' = sections, found' = found, out' = out, idx' = idx,
         phase' = "done" => phase = "done" \/ idx > Len(out)
  PROVE  ChainInv'
<1>1. OnceEach'
  BY DEF ChainInv, OnceEach
<1>2. LedTo'
  <2>1. ASSUME NEW k \in DOMAIN out' \ {1} PROVE AsModule(out[k].off)' /\ LeadsFirst(k - 1, out[k].off)'
    <3>1. out \in Seq(Entry) /\ \A j \in DOMAIN out : out'[j] = out[j]
      BY DEF Types
    <3>2. k \in DOMAIN out /\ k - 1 \in DOMAIN out /\ k # 1
      BY <2>1, <3>1
    <3>3. QED
      BY <3>1, <3>2, ListedStable
  <2>2. QED
    BY <2>1 DEF LedTo
<1>3. out # <<>> => LastSpent'
  <2>1. \A o : Visited(o)' <=> Visited(o)
    BY DEF Visited
  <2>2. TailOf(out[Len(out)].off)' = TailOf(out[Len(out)].off)
    BY LeadsStable
  <2>3. ASSUME out # <<>>, idx > Len(out), NEW w \in TailOf(out[Len(out)].off)', PointsTo(w)' # None,
               AsModule(PointsTo(w))'
        PROVE  Visited(PointsTo(w))'
    <3>1. PointsTo(w)' = PointsTo(w)
      BY LeadsStable
    <3>2. AsModule(PointsTo(w))
      BY <2>3, <3>1, LeadsStable
    <3>3. Visited(PointsTo(w))
      BY <2>2, <2>3, <3>1, <3>2 DEF ChainInv, LastSpent
    <3>4. QED
      BY <2>1, <3>1, <3>3
  <2>4. out # <<>> => Len(out') <= idx'
    BY DEF ChainInv, LastSpent
  <2>5. QED
    BY <2>3, <2>4 DEF LastSpent
<1>4. QED
  BY <1>1, <1>2, <1>3 DEF ChainInv

LEMMA NextChain == Types /\ ChainInv /\ [Next]_vars => ChainInv'
<1> SUFFICES ASSUME Types, ChainInv, [Next]_vars PROVE ChainInv'
  OBVIOUS
<1>1. CASE MagicHit \/ MagicExhausted \/ EndMagic \/ ShapeStep \/ NextSection \/ NotFound \/ Finish
           \/ ScanNext \/ Refine \/ RefineFails \/ Anchor \/ NoAnchor
  <2>1. Types' /\ phase \notin {"chain", "done"} /\ phase' # "done" /\ idx' = idx
    BY <1>1, SearchTypes, FinishTypes, AnchorTypes
    DEF MagicHit, MagicExhausted, EndMagic, ShapeStep, NextSection, NotFound, Finish, ScanNext, Refine, RefineFails,
        Anchor, NoAnchor, searching, modules, Locating
  <2>2. out = <<>> /\ idx = 1
    BY <2>1 DEF Types
  <2>3. out' = out \/ \E e : out' = <<e>>
    BY <1>1
    DEF MagicHit, MagicExhausted, EndMagic, ShapeStep, NextSection, NotFound, Finish, ScanNext, Refine, RefineFails,
        Anchor, NoAnchor, searching, modules
  <2>4. Len(out') <= 1
    <3>1. CASE out' = <<>>
      BY <3>1
    <3>2. CASE \E e : out' = <<e>>
      <4>1. PICK e : out' = <<e>>
        BY <3>2
      <4>2. QED
        BY <4>1
    <3>3. QED
      BY <2>2, <2>3, <3>1, <3>2
  <2>5. QED
    BY <2>1, <2>2, <2>4, ShortChain
<1>2. CASE ChainEnds
  <2>1. /\ bin' = bin /\ sections' = sections /\ found' = found /\ out' = out /\ idx' = idx /\ idx > Len(out)
    BY <1>2 DEF ChainEnds, modules
  <2>2. QED
    BY <2>1, SameChain
<1>3. CASE UNCHANGED vars
  <2>1. /\ bin' = bin /\ sections' = sections /\ found' = found /\ out' = out /\ idx' = idx /\ phase' = phase
    BY <1>3 DEF vars
  <2>2. QED
    BY <2>1, SameChain
<1>4. QED
  BY <1>1, <1>2, <1>3, ChainKeeps DEF Next

\* A chain that lists no module twice is no longer than the file.
LEMMA ChainFits ==
  ASSUME bin \in Inputs, out \in Seq(Entry), OnceEach
  PROVE  Len(out) <= Len0(bin)
<1> DEFINE size == Len0(bin)
           n == Len(out)
           f == [k \in 1 .. n |-> out[k].off]
<1>1. size \in Nat /\ n \in Nat /\ DOMAIN out = 1 .. n
  BY BinFacts
<1>2. \A k \in 1 .. n : out[k].off \in 0 .. size - 1
  <2>1. ASSUME NEW k \in 1 .. n PROVE out[k] \in Entry
    BY <1>1, ElementFacts
  <2>2. QED
    BY <2>1 DEF Entry, Offsets
<1>3. \A j, k \in 1 .. n : out[j].off = out[k].off => j = k
  BY <1>1 DEF OnceEach
<1>4. f \in [1 .. n -> 0 .. size - 1] /\ \A j, k \in 1 .. n : f[j] = f[k] => j = k
  BY <1>2, <1>3
<1> HIDE DEF size, n, f
<1>5. IsFiniteSet(0 .. size - 1) /\ Cardinality(0 .. size - 1) = size
  BY <1>1, FS_Interval
<1>6. IsFiniteSet(1 .. n) /\ Cardinality(1 .. n) = n
  BY <1>1, FS_Interval
<1>7. ~(size < n)
  BY <1>1, <1>4, <1>5, <1>6, FS_PigeonHole
<1>8. QED
  BY <1>1, <1>7 DEF size, n

Inv == Types /\ SearchInv /\ AnchorInv /\ ChainInv

LEMMA InvIsInductive == Spec => []Inv
<1>1. Init => Inv
  <2>1. Init => AnchorInv
    BY DEF Init, AnchorInv, AnchorIsFirst, Locating
  <2>2. Init => ChainInv
    BY DEF Init, ChainInv, OnceEach, LedTo
  <2>3. QED
    BY <2>1, <2>2, InitTypes, InitSearch DEF Inv
<1>2. Inv /\ [Next]_vars => Inv'
  BY NextTypes, NextSearch, NextAnchor, NextChain DEF Inv
<1>3. QED
  BY <1>1, <1>2, PTL DEF Spec

\* Every variable keeps its type, and the chain is no longer than the file.
THEOREM TypeCorrect == Spec => []TypeOK
<1>1. Inv => TypeOK
  <2> SUFFICES ASSUME Inv PROVE TypeOK
    OBVIOUS
  <2>1. Len(out) <= Len0(bin)
    BY ChainFits DEF Inv, Types, ChainInv
  <2>2. out \in Seq(Module)
    <3>1. Entry \subseteq Module
      BY DEF Entry, Module, Offsets
    <3>2. QED
      BY <3>1 DEF Inv, Types
  <2>3. at[1] \in 1 .. 3 /\ at[2] \in DOMAIN ScanKinds /\ at[3] \in DOMAIN sections
    BY DEF Inv, Types, Position
  <2>4. found = None \/ found.off \in Offsets
    BY DEF Inv, Types
  <2>5. QED
    BY <2>1, <2>2, <2>3, <2>4 DEF Inv, Types, TypeOK
<1>2. QED
  BY <1>1, InvIsInductive, PTL

\* The three searches of locate_pclntab find the least header with a released magic,
\* and the answer that there is none, or only an old one, hides none they could take.
THEOREM TableFound == Spec => []TableSearchRight
<1>1. Inv => TableSearchRight
  BY SearchIsRight DEF Inv
<1>2. QED
  BY <1>1, InvIsInductive, PTL

\* ModuleData::locate returns the first module of this table in the order of layouts,
\* section kinds, sections, aligned offsets and other offsets, and fails only when there is
\* none; finish has taken the text address of the same module.
THEOREM AnchorFirst == Spec => []AnchorIsFirst
<1>1. Inv => AnchorIsFirst
  BY DEF Inv, AnchorInv
<1>2. QED
  BY <1>1, InvIsInductive, PTL

\* locate_all lists no module twice, each as the first new one that the tail of the one
\* before leads to, and ends only where the tail of the last leads to none that is not listed.
THEOREM ChainRight == Spec => []ChainExact
<1>1. Inv => ChainExact
  <2> SUFFICES ASSUME Inv PROVE ChainExact
    OBVIOUS
  <2>1. OnceEach /\ LedTo
    BY DEF Inv, ChainInv
  <2>2. ASSUME phase = "done", NEW o \in Leads(out[Len(out)].off), AsModule(o)
        PROVE  Visited(o)
    <3>1. idx > Len(out) /\ out # <<>> /\ LastSpent
      BY <2>2 DEF Inv, ChainInv, Types
    <3>2. PICK w \in TailOf(out[Len(out)].off) : o = PointsTo(w) /\ o # None
      BY <2>2 DEF Leads
    <3>3. QED
      BY <2>2, <3>1, <3>2 DEF LastSpent
  <2>3. QED
    BY <2>1, <2>2 DEF ChainExact, OnceEach, LedTo
<1>2. QED
  BY <1>1, InvIsInductive, PTL
=============================================================================
