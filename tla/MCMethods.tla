------------------------------- MODULE MCMethods -------------------------------
(* Programs with a struct (1), two interfaces (2, 3), two func types (4, 5), a type (6) of
   some other kind and a func type (7) that mentions what is no type, as 8 and 9 are.
   Code lies at 100 and up. *)
EXTENDS Methods

MCAbsent == -1
Plain(kind, word) ==
    [kind |-> kind, stars |-> 0, word |-> word, named |-> TRUE, extra_star |-> FALSE,
     uncommon |-> FALSE, table |-> <<>>, table_mapped |-> TRUE, ins |-> <<>>, outs |-> <<>>,
     variadic |-> FALSE, imethods |-> <<>>, whole |-> TRUE, inside |-> TRUE]

Entry(name, mtyp, tfn) == [name |-> name, mtyp |-> mtyp, tfn |-> tfn]
With(t, table) == [t EXCEPT !.uncommon = TRUE, !.table = table]
Declares(t, ms) == [t EXCEPT !.imethods = ms]
Slot(name, typ) == [name |-> name, typ |-> typ]

Struct(table) == With(Plain("Struct", "main.T"), table)
Iface(word, ms) == Declares([Plain("Interface", word) EXCEPT !.stars = 1, !.extra_star = TRUE], ms)
F == [Plain("Func", "func(T)") EXCEPT !.ins = <<1>>, !.outs = <<2>>]
G == [Plain("Func", "func(...T)") EXCEPT !.ins = <<1>>, !.outs = <<1, 2>>, !.variadic = TRUE]
U == [Plain("Func", "func(U)") EXCEPT !.ins = <<8>>, !.outs = <<1, 0>>]

Tables == {<<>>, <<Entry("A", 4, 100)>>, <<Entry("A", 5, 100), Entry("B", 4, 104)>>,
           <<Entry("A", MCAbsent, 100), Entry("B", 4, MCAbsent)>>, <<Entry("A", 8, 100), Entry("B", 1, 104)>>,
           <<Entry("A", 7, 100), Entry("B", 4, 104)>>,
           <<Entry("A", 5, 100), Entry("B", 5, 100), Entry("C", 4, 104)>>,
           <<Entry("A", 4, 100), Entry("B", 4, 104), Entry("C", 4, 108), Entry("D", 4, 112)>>}
Slots == {<<>>, <<Slot("A", 4)>>, <<Slot("A", 7), Slot("B", 4)>>, <<Slot("A", 5), Slot("B", 4)>>, <<Slot("A", 9), Slot("B", 5)>>,
          <<Slot("A", 4), Slot("B", 5), Slot("C", 4)>>,
          <<Slot("A", 4), Slot("B", 4), Slot("C", 5), Slot("D", 5)>>}
Funs == {<<>>, <<100>>, <<0, 104>>, <<100, 104>>, <<100, 108, 104, 112>>}
Others == {Plain("Map", "map[T]T"), With(Plain("Map", "main.M"), <<Entry("A", 4, 108)>>),
           With(Plain("Pointer", "*main.T"), <<Entry("A", 4, 108)>>),
           [With(Plain("Int", "main.N"), <<Entry("A", 4, 108)>>) EXCEPT !.table_mapped = FALSE]}

Program(table, ms, ns, fun, o, other, recovered, links, stray) ==
    [types |-> <<Struct(table), Iface("main.I", ms), [Iface(o.name, ns) EXCEPT !.named = o.named,
                  !.inside = o.inside, !.whole = o.whole], F, G, other, U>>,
     recovered |-> recovered, links |-> links,
     itab |-> [a \in {20, 21} |-> IF a = 20 THEN [inter |-> 2, typ |-> 1, fun |-> fun]
                                  ELSE [inter |-> 3, typ |-> 6, fun |-> <<104>>]],
     stray |-> stray]

Odd(name, named, inside, whole) == [name |-> name, named |-> named, inside |-> inside, whole |-> whole]
Oddities == {Odd("main.J", TRUE, TRUE, TRUE), Odd("main.I", TRUE, TRUE, TRUE),
             Odd("main.J", FALSE, TRUE, TRUE), Odd("main.J", TRUE, FALSE, TRUE),
             Odd("main.J", TRUE, TRUE, FALSE)}
Usual == Odd("main.J", TRUE, TRUE, TRUE)
Strays == {<<>>, <<Entry("x", 5, 104)>>}

MCPrograms ==
    {Program(t, ms, <<Slot("A", 5)>>, fun, Usual, Plain("Map", "map[T]T"), <<1, 2, 3, 4, 5, 6>>, <<20, 21>>, <<>>) :
        t \in Tables, ms \in Slots, fun \in Funs}
    \cup {Program(t, <<Slot("A", 4)>>, ns, <<100>>, o, other, r, l, stray) :
        t \in {<<Entry("A", 5, 100), Entry("B", 4, 104)>>}, ns \in Slots, o \in Oddities, other \in Others,
        r \in {<<>>, <<2, 1, 6>>, <<4, 2, 3, 6, 1>>, <<3, 2>>}, l \in {<<20, 21>>, <<21, 0, 22, 20>>},
        stray \in Strays}

\* A named func type with a method, as http.HandlerFunc is.
FuncPrograms ==
    {Program(t, <<Slot("A", 4)>>, <<>>, <<100>>, Usual,
             With(Plain("Func", "main.HandlerFunc"), <<Entry("Serve", 4, 116)>>),
             <<1, 2, 3, 4, 5, 6>>, <<20>>, stray) : t \in Tables, stray \in Strays}
=============================================================================
