-------------------------------- MODULE Locate --------------------------------
(***************************************************************************)
(* Opening a binary: GoBinary::parse finds the pclntab (src/src/gobin),    *)
(* ModuleData::locate and locate_all find the module data that points at   *)
(* it (src/src/moduledata).  A file is a row of half-pointer words.  A     *)
(* word may begin a pcHeader, hold a pointer, or neither.                  *)
(***************************************************************************)
EXTENDS Integers, Sequences

CONSTANTS
    Inputs,     \* binaries to consider
    Window,     \* WINDOW, in words
    None        \* no header, no section table entry, no address

PointerWords == 2                                 \* words per pointer: the alignment

\* Mutant of Magics: Go 1.16 is left to the structural scan.
MagicsBefore116 == <<"1.20", "1.18">>
Magics == <<"1.20", "1.18", "1.16">>              \* candidates of scan_for_magic

Layouts == {"V118", "V120", "V126", "Pre118"}
Kinds == {"text", "rodata", "data", "noptrdata", "bss", "pclntab", "other"}
ScanKinds == <<"noptrdata", "data", "rodata">>    \* scan_kinds of ModuleData::locate

\* climbs: the table offsets increase and stay inside the file; text: textStart.
Header == [is : {"header"}, magic : {"1.20", "1.18", "1.16", "1.2", "random"},
           pads : BOOLEAN, climbs : BOOLEAN, text : {"zero", "mapped", "stray"}]
Word == Header \cup [is : {"pointer"}, to : Nat] \cup [is : {"data"}]
Section == [kind : Kinds, off : Nat, size : Nat, addr : Nat, vmsize : Nat]

\* named: where a .gopclntab section says the table is; sound: the layouts under which
\* the fields behind a first field at that offset pass the other checks of try_parse,
\* against the table the first field points at;
\* text: the text field read there; stripped: the section map is from program headers.
Binary == [words : Seq(Word), sections : Seq(Section),
           named : {None} \cup [off : Nat, size : Nat, addr : Nat],
           sound : Seq(SUBSET Layouts), text : Seq(Nat), coarse : Nat, stripped : BOOLEAN]

ASSUME LocateAssumption ==
    /\ Inputs \subseteq Binary
    /\ \A b \in Inputs : /\ DOMAIN b.sound = DOMAIN b.words
                         /\ DOMAIN b.text = DOMAIN b.words
                         /\ b.sections # <<>>
    /\ Window \in Nat
    /\ None \notin Nat \cup [off : Nat, addr : Nat]

VARIABLES
    bin,        \* the file
    sections,   \* its section map, clamped by finish
    m, from,    \* scan_for_magic: the magic tried and where its search goes on
    best,       \* the least valid offset so far
    s, off,     \* scan_for_pcheader: the section and the offset in the file
    found,      \* the pclntab: offset and address
    text_addr,  \* where text begins
    at,         \* ModuleData::locate: the layout, kind and section tried
    out,        \* locate_all: the modules, with their layouts
    idx,        \* the module whose tail is scanned next
    phase

vars == <<bin, sections, m, from, best, s, off, found, text_addr, at, out, idx, phase>>
searching == <<m, from, best, s, off>>
modules == <<at, out, idx>>

Len0(b) == Len(b.words)
Least(S) == CHOOSE x \in S : \A y \in S : x <= y
\* Offsets count from 0.
WordAt(o) == bin.words[o + 1]
Offsets == 0 .. Len0(bin) - 1
End(sec) == sec.off + sec.size
Smaller(a, b) == IF a < b THEN a ELSE b

Init ==
    /\ bin \in Inputs
    /\ sections = bin.sections
    /\ m = 1
    /\ from = 0
    /\ best = None
    /\ s = 1
    /\ off = None
    /\ found = None
    /\ text_addr = bin.coarse
    /\ at = <<1, 1, 1>>
    /\ out = <<>>
    /\ idx = 1
    /\ phase = IF bin.named = None THEN "magic" ELSE "finish"

-----------------------------------------------------------------------------
(* Finding the pclntab.                                                    *)

\* pcheader_at: a 1.16 header has no textStart to check.
ValidHeader(o) ==
    LET w == WordAt(o)
    IN  /\ w.is = "header"
        /\ w.pads
        /\ w.climbs
        /\ w.magic = "1.16" \/ w.text \in {"zero", "mapped"}

Hits == {o \in from .. Len0(bin) - 1 : WordAt(o).is = "header" /\ WordAt(o).magic = Magics[m]}

\* Mutant of Better: the magic tried first wins.
BetterFirst(o) == IF best = None THEN o ELSE best

Better(o) == IF best = None THEN o ELSE Smaller(best, o)

\* scan_for_magic: the next occurrence of the magic, and on to the next magic when valid.
MagicHit ==
    /\ phase = "magic"
    /\ m <= Len(Magics)
    /\ Hits # {}
    /\ LET o == Least(Hits)
       IN  IF ValidHeader(o)
           THEN /\ best' = Better(o)
                /\ m' = m + 1
                /\ from' = 0
           ELSE from' = o + 1 /\ UNCHANGED <<best, m>>
    /\ UNCHANGED <<bin, sections, s, off, found, text_addr, modules, phase>>

MagicExhausted ==
    /\ phase = "magic"
    /\ m <= Len(Magics)
    /\ Hits = {}
    /\ m' = m + 1
    /\ from' = 0
    /\ UNCHANGED <<bin, sections, best, s, off, found, text_addr, modules, phase>>

\* Sections scan_for_pcheader and detect_pre118_magic look at.
Bearing(sec) == sec.kind \notin {"text", "bss"}

\* The first pointer-aligned offset of the file at or behind the section's start.
Aligned(sec) ==
    LET start == Smaller(sec.off, Len0(bin))
    IN  IF start % PointerWords = 0 THEN start ELSE start + PointerWords - (start % PointerWords)

EndMagic ==
    /\ phase = "magic"
    /\ m > Len(Magics)
    /\ phase' = IF best = None THEN "shape" ELSE "finish"
    /\ off' = Aligned(sections[1])
    /\ UNCHANGED <<bin, sections, m, from, best, s, found, text_addr, modules>>

InBytes(sec, o) == o + PointerWords <= Smaller(End(sec), Len0(bin))

\* scan_for_pcheader: one aligned offset, whatever its magic.
ShapeStep ==
    /\ phase = "shape"
    /\ s <= Len(sections)
    /\ Bearing(sections[s])
    /\ InBytes(sections[s], off)
    /\ IF ValidHeader(off)
       THEN best' = off /\ phase' = "finish" /\ UNCHANGED off
       ELSE off' = off + PointerWords /\ UNCHANGED <<best, phase>>
    /\ UNCHANGED <<bin, sections, m, from, s, found, text_addr, modules>>

NextSection ==
    /\ phase = "shape"
    /\ s <= Len(sections)
    /\ ~Bearing(sections[s]) \/ ~InBytes(sections[s], off)
    /\ s' = s + 1
    /\ off' = IF s = Len(sections) THEN off ELSE Aligned(sections[s + 1])
    /\ UNCHANGED <<bin, sections, m, from, best, found, text_addr, modules, phase>>

\* detect_pre118_magic: a prefix of Go 1.2 to 1.15 in a section that bears data.
OldTable ==
    \E k \in DOMAIN sections, o \in Offsets :
      /\ Bearing(sections[k])
      /\ sections[k].off <= o /\ o < End(sections[k]) /\ o + PointerWords <= Len0(bin)
      /\ WordAt(o).is = "header" /\ WordAt(o).magic = "1.2" /\ WordAt(o).pads

NotFound ==
    /\ phase = "shape"
    /\ s > Len(sections)
    /\ phase' = IF OldTable THEN "unsupported" ELSE "none"
    /\ UNCHANGED <<bin, sections, searching, found, text_addr, modules>>

\* addr_for_offset: the first section that holds the offset; 0 when none does.
AddrOf(o) ==
    LET holds == {k \in DOMAIN sections : sections[k].off <= o /\ o < End(sections[k])}
    IN  IF holds = {} THEN 0 ELSE sections[Least(holds)].addr + o - sections[Least(holds)].off

Table == IF bin.named = None THEN [off |-> best, addr |-> AddrOf(best)]
         ELSE [off |-> bin.named.off, addr |-> bin.named.addr]

\* finish refuses a table that a named section puts outside the file.
InFile == \/ bin.named = None
          \/ /\ bin.named.off < Len0(bin)
             /\ bin.named.off + bin.named.size <= Len0(bin)

Clamped(sec) ==
    LET o == Smaller(sec.off, Len0(bin))
    IN  [sec EXCEPT !.off = o, !.size = Smaller(sec.size, Len0(bin) - o)]

Finish ==
    /\ phase = "finish"
    /\ IF InFile
       THEN /\ found' = Table
            /\ sections' = [k \in DOMAIN sections |-> Clamped(sections[k])]
            /\ phase' = IF bin.stripped THEN "refine" ELSE "locate"
       ELSE phase' = "bad" /\ UNCHANGED <<found, sections>>
    /\ UNCHANGED <<bin, searching, text_addr, modules>>

-----------------------------------------------------------------------------
(* Finding the module data.                                                *)

\* layouts_for: chosen by the magic the table begins with.
layouts ==
    LET w == WordAt(found.off)
    IN  IF w.is = "header" /\ w.magic = "1.18" THEN <<"V118">>
        ELSE IF w.is = "header" /\ w.magic = "1.16" THEN <<"Pre118">>
        ELSE <<"V120", "V126">>

Locating == phase \in {"refine", "locate"}

\* The first field must be the address of this binary's pclntab.
Parses(o, layout) ==
    /\ WordAt(o).is = "pointer"
    /\ WordAt(o).to = found.addr
    /\ layout \in bin.sound[o + 1]

\* Mutant of Scanned: the offsets are tried in order, aligned or not.
ScannedInOrder(sec, layout) ==
    LET parse == {o \in Offsets : sec.off <= o /\ InBytes(sec, o) /\ Parses(o, layout)}
    IN  IF parse # {} THEN Least(parse) ELSE None

\* scan_section: aligned to the section's start first, then every other offset.
Scanned(sec, layout) ==
    LET parse == {o \in Offsets : sec.off <= o /\ InBytes(sec, o) /\ Parses(o, layout)}
        even  == {o \in parse : (o - sec.off) % PointerWords = 0}
    IN  IF even # {} THEN Least(even) ELSE IF parse # {} THEN Least(parse) ELSE None

\* The next section, kind and layout, in that nesting.
Advance(a) ==
    IF a[3] < Len(sections) THEN <<a[1], a[2], a[3] + 1>>
    ELSE IF a[2] < Len(ScanKinds) THEN <<a[1], a[2] + 1, 1>>
    ELSE <<a[1] + 1, 1, 1>>

\* The sections of the kind whose turn it is; the rest of the map is filtered out.
Here == IF found.addr # 0 /\ at[1] <= Len(layouts) /\ sections[at[3]].kind = ScanKinds[at[2]]
        THEN Scanned(sections[at[3]], layouts[at[1]])
        ELSE None

ScanNext ==
    /\ Locating
    /\ found.addr # 0
    /\ at[1] <= Len(layouts)
    /\ Here = None
    /\ at' = Advance(at)
    /\ UNCHANGED <<bin, sections, searching, found, text_addr, out, idx, phase>>

\* finish takes the text address of the module it finds, and starts the search afresh.
Refine ==
    /\ phase = "refine"
    /\ Here # None
    /\ text_addr' = IF bin.text[Here + 1] # 0 THEN bin.text[Here + 1] ELSE text_addr
    /\ at' = <<1, 1, 1>>
    /\ phase' = "locate"
    /\ UNCHANGED <<bin, sections, searching, found, out, idx>>

RefineFails ==
    /\ phase = "refine"
    /\ found.addr = 0 \/ at[1] > Len(layouts)
    /\ at' = <<1, 1, 1>>
    /\ phase' = "locate"
    /\ UNCHANGED <<bin, sections, searching, found, text_addr, out, idx>>

Anchor ==
    /\ phase = "locate"
    /\ Here # None
    /\ out' = <<[off |-> Here, layout |-> layouts[at[1]]]>>
    /\ phase' = "chain"
    /\ UNCHANGED <<bin, sections, searching, found, text_addr, at, idx>>

NoAnchor ==
    /\ phase = "locate"
    /\ found.addr = 0 \/ at[1] > Len(layouts)
    /\ phase' = "no module data"
    /\ UNCHANGED <<bin, sections, searching, found, text_addr, modules>>

\* vaddr_to_file_offset: by the size in memory, so that an address may have no bytes.
FileOffset(a) ==
    LET holds == {k \in DOMAIN sections :
                    /\ sections[k].addr <= a /\ a < sections[k].addr + sections[k].vmsize
                    /\ a - sections[k].addr + sections[k].off < Len0(bin)}
    IN  IF holds = {} THEN None ELSE a - sections[Least(holds)].addr + sections[Least(holds)].off

\* looks_like_moduledata: its first field points at one of the two modern magics.
LooksLikeModule(o) ==
    /\ WordAt(o).is = "pointer"
    /\ WordAt(o).to # 0
    /\ LET h == FileOffset(WordAt(o).to)
       IN  h # None /\ WordAt(h).is = "header" /\ WordAt(h).magic \in {"1.20", "1.18"}

FirstLayout(o) == Least({l \in DOMAIN layouts : Parses(o, layouts[l])})
AsModule(o) == LooksLikeModule(o) /\ \E l \in DOMAIN layouts : Parses(o, layouts[l])
Visited(o) == \E k \in DOMAIN out : out[k].off = o

\* The aligned words of the window behind a module's first field.
TailOf(o) ==
    LET end == Smaller(o + PointerWords + Window, Len0(bin))
    IN  {w \in o + PointerWords .. end - PointerWords : (w - o) % PointerWords = 0}

\* Mutant of Follows: modules already listed are accepted again.
FollowsAny(w) ==
    /\ WordAt(w).is = "pointer" /\ WordAt(w).to # 0
    /\ FileOffset(WordAt(w).to) # None
    /\ AsModule(FileOffset(WordAt(w).to))

\* A word of the tail that points at a module not listed yet.
Follows(w) ==
    /\ WordAt(w).is = "pointer" /\ WordAt(w).to # 0
    /\ FileOffset(WordAt(w).to) # None
    /\ ~Visited(FileOffset(WordAt(w).to))
    /\ AsModule(FileOffset(WordAt(w).to))

\* locate_all: the first such word of a module's tail is its next pointer.
Chain ==
    /\ phase = "chain"
    /\ idx <= Len(out)
    /\ LET nexts == {w \in TailOf(out[idx].off) : Follows(w)}
           o == FileOffset(WordAt(Least(nexts)).to)
       IN  out' = IF nexts = {} THEN out
                  ELSE Append(out, [off |-> o, layout |-> layouts[FirstLayout(o)]])
    /\ idx' = idx + 1
    /\ UNCHANGED <<bin, sections, searching, found, text_addr, at, phase>>

ChainEnds ==
    /\ phase = "chain"
    /\ idx > Len(out)
    /\ phase' = "done"
    /\ UNCHANGED <<bin, sections, searching, found, text_addr, modules>>

Next ==
    \/ MagicHit
    \/ MagicExhausted
    \/ EndMagic
    \/ ShapeStep
    \/ NextSection
    \/ NotFound
    \/ Finish
    \/ ScanNext
    \/ Refine
    \/ RefineFails
    \/ Anchor
    \/ NoAnchor
    \/ Chain
    \/ ChainEnds

Spec == Init /\ [][Next]_vars

-----------------------------------------------------------------------------
Ended == {"none", "unsupported", "bad", "no module data", "done"}
Module == [off : Nat, layout : Layouts]

\* Every variable keeps its type; bin never changes.
TypeOK ==
    /\ DOMAIN sections = DOMAIN bin.sections
    /\ m \in 1 .. Len(Magics) + 1
    /\ from \in 0 .. Len0(bin)
    /\ best \in {None} \cup Offsets
    /\ s \in 1 .. Len(sections) + 1
    /\ found = None \/ found.off \in Offsets
    /\ at[1] \in 1 .. 3 /\ at[2] \in DOMAIN ScanKinds /\ at[3] \in DOMAIN sections
    /\ out \in Seq(Module) /\ Len(out) <= Len0(bin)
    /\ idx \in 1 .. Len(out) + 1
    /\ phase \in Ended \cup {"magic", "shape", "finish", "refine", "locate", "chain"}

\* Three searches, each stopping at its first hit, still find the least header with a
\* released magic, and never one that fails the structural check, when no section names
\* the table (scan_for_magic, scan_for_pcheader).
LeastOfficialHeader ==
    found # None /\ bin.named = None =>
      /\ ValidHeader(found.off)
      /\ LET official == {o \in Offsets : ValidHeader(o) /\ WordAt(o).magic \in {"1.20", "1.18", "1.16"}}
         IN  official # {} => found.off = Least(official)

\* An answer of "no pclntab" or "unsupported version" never hides a table the scans could
\* have parsed (locate_pclntab: "it never downgrades a binary the real scans could parse").
NeverDowngraded ==
    phase \in {"none", "unsupported"} =>
      /\ \A o \in Offsets : ValidHeader(o) => WordAt(o).magic \in {"1.2", "random"}
      /\ \A k \in DOMAIN sections, o \in Offsets :
           /\ Bearing(sections[k])
           /\ sections[k].off <= o /\ InBytes(sections[k], o)
           /\ o % PointerWords = 0
           => ~ValidHeader(o)
      /\ phase = "unsupported" => \E o \in Offsets : WordAt(o).is = "header" /\ WordAt(o).magic = "1.2"

\* locate_pclntab answers with the right table, or with none only where there is none it can
\* take, a header without a textStart and one with a stray textStart included.
TableSearchRight == LeastOfficialHeader /\ NeverDowngraded

\* Where ModuleData::locate may find a module: a layout, a kind, a section and an offset.
Places ==
    {p \in (DOMAIN layouts) \X (DOMAIN ScanKinds) \X (DOMAIN sections) \X Offsets :
       /\ sections[p[3]].kind = ScanKinds[p[2]]
       /\ sections[p[3]].off <= p[4] /\ InBytes(sections[p[3]], p[4])
       /\ Parses(p[4], layouts[p[1]])}

\* Earlier layouts, kinds and sections first, then what is aligned to its section's start,
\* then the lesser offset.
Rank(p) == <<p[1], p[2], p[3], (p[4] - sections[p[3]].off) % PointerWords, p[4]>>
Precedes(p, q) == \E n \in 1 .. 5 : Rank(p)[n] < Rank(q)[n] /\ \A k \in 1 .. n - 1 : Rank(p)[k] = Rank(q)[k]

\* The module data taken belongs to this pclntab and is, of all a whole search would find,
\* the first in the order of layouts, kinds, sections and offsets; the search fails only
\* when there is nothing to find, and the text address of a stripped file is that of the
\* module returned later (ModuleData::locate, finish).
AnchorIsFirst ==
    /\ phase \in {"chain", "done"} =>
         \E p \in Places :
           /\ out[1] = [off |-> p[4], layout |-> layouts[p[1]]]
           /\ \A q \in Places : q = p \/ Precedes(p, q)
           /\ bin.stripped /\ bin.text[p[4] + 1] # 0 => text_addr = bin.text[p[4] + 1]
    /\ phase = "no module data" /\ found.addr # 0 => Places = {}

PointsTo(w) == IF WordAt(w).is = "pointer" /\ WordAt(w).to # 0 THEN FileOffset(WordAt(w).to) ELSE None
Leads(o) == {PointsTo(w) : w \in TailOf(o)} \ {None}

\* The first word of module j's tail that points at a module, but for those that point at
\* one of modules 1 to j, points at o.
LeadsFirst(j, o) ==
    \E w \in TailOf(out[j].off) :
      /\ PointsTo(w) = o
      /\ \A v \in TailOf(out[j].off) :
           v < w /\ PointsTo(v) # None /\ AsModule(PointsTo(v)) => \E k \in 1 .. j : out[k].off = PointsTo(v)

\* The list is one chain: no module twice, although a tail may point backwards or at itself,
\* each the first new module the tail of the one before leads to, and it ends only at a
\* module whose tail leads to no module that is not listed (locate_all).
ChainExact ==
    /\ \A j, k \in DOMAIN out : out[j].off = out[k].off => j = k
    /\ \A k \in DOMAIN out \ {1} : AsModule(out[k].off) /\ LeadsFirst(k - 1, out[k].off)
    /\ phase = "done" => \A o \in Leads(out[Len(out)].off) : AsModule(o) => Visited(o)

\* What the doc of locate_all says of plugins and shared libraries, whose modules have
\* tables of their own: a module that begins with a pointer to a pclntab, whichever, whose
\* fields are sound, and that a tail alone leads to, is listed.
ChainSurfaces ==
    phase = "done" =>
      \A k \in DOMAIN out :
        LET fits == {o \in Leads(out[k].off) : LooksLikeModule(o) /\ \E l \in DOMAIN layouts : layouts[l] \in bin.sound[o + 1]}
        IN  \A o \in fits : (\A q \in fits : q = o) => Visited(o)
=============================================================================
