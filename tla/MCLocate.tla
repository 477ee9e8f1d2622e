------------------------------- MODULE MCLocate -------------------------------
(* Ten words.  First family: headers of every kind in three section maps, which the
   searches must tell apart.  Second family: a table, a second table, and module data
   whose first fields and tails point at either table and at each other.  Third family:
   module data at odd offsets and in two sections of a kind. *)
EXTENDS Locate

CONSTANT Size   \* words in a file

Data == [is |-> "data"]
Ptr(a) == [is |-> "pointer", to |-> a]
Hdr(magic, climbs, text) == [is |-> "header", magic |-> magic, pads |-> TRUE, climbs |-> climbs, text |-> text]
Sec(kind, o, size, vmsize) == [kind |-> kind, off |-> o, size |-> size, addr |-> 10 + o, vmsize |-> vmsize]

File(word) == [k \in 1 .. Size |-> IF k - 1 \in DOMAIN word THEN word[k - 1] ELSE Data]
Whole == [k \in 1 .. Size |-> {}]
NoText == [k \in 1 .. Size |-> 0]

Headers == {Data, Hdr("1.20", TRUE, "mapped"), Hdr("1.20", TRUE, "stray"), Hdr("1.18", TRUE, "zero"),
            Hdr("1.16", TRUE, "stray"), Hdr("random", TRUE, "mapped"),
            Hdr("1.2", FALSE, "zero")}
Maps == {<<Sec("text", 0, 3, 3), Sec("rodata", 3, 3, 3), Sec("data", 6, 9, 9)>>,
         <<Sec("other", 1, 7, 7)>>, <<Sec("text", 0, 5, 5), Sec("bss", 5, 0, 5)>>}

SearchInputs ==
    {[words |-> File([o \in {6} \cup DOMAIN w |-> IF o = 6 THEN last ELSE w[o]]), sections |-> map, named |-> None, sound |-> Whole, text |-> NoText,
      coarse |-> 10, stripped |-> FALSE] :
        w \in [{1, 3, 4} -> Headers] , last \in {Data, Hdr("random", TRUE, "zero")}, map \in Maps}

ModuleMap == <<Sec("rodata", 0, 2, 2), Sec("data", 2, 4, 4), Sec("noptrdata", 6, 4, 6)>>
TableA == 10
TableB == 11
Field(o) ==
    CASE o = 2 -> {Data, Ptr(TableA)}
      [] o = 4 -> {Data, Ptr(TableA), Ptr(TableB), Ptr(12), Ptr(19)}
      [] o = 6 -> {Data, Ptr(TableA), Ptr(TableB), Ptr(12), Ptr(18)}
      [] o = 8 -> {Data, Ptr(TableA), Ptr(14), Ptr(12), Ptr(16)}
Fields == {w \in [{2, 4, 6, 8} -> UNION {Field(o) : o \in {2, 4, 6, 8}}] : \A o \in DOMAIN w : w[o] \in Field(o)}
Sound(f) == [k \in 1 .. Size |-> IF k - 1 \in DOMAIN f THEN f[k - 1] ELSE {"V120"}]
Sounds == {Sound(<<>>), Sound([o \in {6} |-> {"V126"}]), Sound([o \in {2, 6} |-> {"V126"}]),
           Sound([o \in {2, 4} |-> {"V118", "Pre118"}])}
Texts == [k \in 1 .. Size |-> IF k > 6 THEN 10 + k ELSE 0]
Tables == {Hdr("1.20", TRUE, "zero"), Hdr("1.18", TRUE, "zero"), Hdr("1.16", TRUE, "zero"), Hdr("random", TRUE, "zero")}
InFileName == [off |-> 0, size |-> 2, addr |-> 10]
BadName == [off |-> 8, size |-> 4, addr |-> 18]
Cases ==
    {c \in Tables \X Sounds \X {None, InFileName, BadName} :
       c[3] = BadName => c[1].magic = "1.20" /\ c[2] = Sound(<<>>)}

Linked(t, w) ==
    File([o \in {0, 1} \cup DOMAIN w |->
            IF o = 0 THEN t ELSE IF o = 1 THEN Hdr("1.20", TRUE, "zero") ELSE w[o]])

Built(t, w, q, n) ==
    [words |-> Linked(t, w), sections |-> ModuleMap, named |-> n, sound |-> q, text |-> Texts,
     coarse |-> 10, stripped |-> n = None]

ModuleInputs == {Built(c[1], w, c[2], c[3]) : c \in Cases, w \in Fields}

\* Module data at odd offsets of its section, and two sections of a kind, the later first.
OddMaps == {<<Sec("rodata", 0, 2, 2), Sec("data", 2, 8, 8)>>,
            <<Sec("rodata", 0, 2, 2), Sec("data", 5, 5, 5), Sec("data", 2, 3, 3)>>}
OddInputs ==
    {[Built(Hdr("1.20", TRUE, "zero"), w, q, None) EXCEPT !.sections = map] :
       w \in [{3, 6, 8} -> {Data, Ptr(TableA)}], map \in OddMaps,
       q \in {Sound(<<>>), Sound([o \in {3} |-> {"V126"}]), Sound([o \in {6} |-> {"V126"}])}}

MCInputs == SearchInputs \cup ModuleInputs \cup OddInputs
=============================================================================
