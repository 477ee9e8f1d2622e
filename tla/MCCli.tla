---------------------------------- MODULE MCCli ----------------------------------
(* Sessions of one or two commands, each a start of the program.  Builds for --diff: tables of up to three functions,
   over two names and two signatures, a function without a signature and tables that give an
   address twice included.  Programs for the signatures: those of MCMethods.  Populations of
   names around each of garble's thresholds; dictionaries between other headers; ELF and PE
   files of several alignments, sound and not; and every mode with each of its failures. *)
EXTENDS Cli

MCName == {"main.f", "main.g", "main.long"}
MCNameLen == [n \in MCName |-> IF n = "main.long" THEN 9 ELSE 6]
MCSig == {"s1", "s2"}
MCAddress == 1 .. 3
MCAbsent == -1
MCIdentifier == 1 .. 9
MCSibling == ("in" :> "in.symbols") @@ ("out" :> "out.symbols") @@ ("old" :> "old.symbols")
               @@ ("in.symbols" :> "in.symbols.symbols") @@ ("none" :> "none.symbols")

P == INSTANCE MCMethods

-----------------------------------------------------------------------------
Fn(n, a, s) == [name |-> n, address |-> a, sig |-> s]

\* Tables in address order: which addresses, and the name and signature at each.
Tables(spots, shapes) ==
    UNION {{[k \in DOMAIN s |-> Fn(shape[k][1], s[k], shape[k][2])] : shape \in [DOMAIN s -> shapes]} :
             s \in spots}

Spots == {<<>>, <<1>>, <<2>>, <<3>>, <<1, 2>>, <<1, 3>>, <<2, 3>>, <<1, 2, 3>>}
Twice == {<<Fn("main.f", 1, "s1"), Fn("main.g", 1, "s1")>>, <<Fn("main.f", 1, "s1"), Fn("main.f", 1, "s1")>>}
Small == Tables({s \in Spots : Len(s) <= 2 /\ \A k \in DOMAIN s : s[k] <= 2},
                {"main.f", "main.g"} \X {"s1", "s2", NoSig})
           \cup Twice
Large == Tables(Spots, {<<"main.f", "s1">>, <<"main.g", "s1">>, <<"main.f", NoSig>>}) \cup Twice

-----------------------------------------------------------------------------
Shape(family, pkg, base, mixed, slash) ==
    [family |-> family, pkg |-> pkg, base |-> base, letter |-> TRUE, plain |-> TRUE,
     mixed |-> mixed, slash |-> slash, dots |-> FALSE]

Population(hashes, ordinary, dotted, long) ==
    (Shape("other", -1, 6, TRUE, FALSE) :> hashes) @@ (Shape("main", 4, 14, TRUE, FALSE) :> ordinary)
      @@ (Shape("other", 3, 5, TRUE, FALSE) :> dotted) @@ (Shape("other", -1, 15, FALSE, FALSE) :> long)
      @@ (Shape("runtime.", 7, 9, TRUE, FALSE) :> 30) @@ (Shape("github", 20, 6, TRUE, TRUE) :> 3)
      @@ (Shape("sync.", 4, 6, TRUE, FALSE) :> 4)

Go == [NoGo EXCEPT !.magic = "1.20", !.versions = <<8>>,
                   !.functions = <<Fn("main.f", 1, NoSig), Fn("main.long", 2, NoSig), Fn("main.g", 3, NoSig)>>]

Word == (0 :> "") @@ (1 :> ".text") @@ (7 :> ".gopclntab") @@ (18 :> ".shstrtab")
Section(name, exec, o, size) ==
    [name |-> name, type |-> "PROGBITS", exec |-> exec, off |-> o, size |-> size, link |-> 0]

\* Four sections; the tail is what the section table leaves in front of the end.
Elf(go, execs, tail) ==
    [container |-> "Elf", little_endian |-> TRUE, header |-> TRUE, shentsize |-> 64,
     size |-> 384 + tail, shoff |-> 128, shnum |-> 4, shstrndx |-> 3, go |-> go,
     at |-> (64 :> "code") @@ (80 :> "pclntab") @@ (96 :> Word)
              @@ (128 :> <<Section(0, FALSE, 0, 0), Section(1, execs[1], 64, 16),
                           Section(7, execs[2], 80, 16), Section(18, FALSE, 96, 28)>>)]

\* A PE file's first section is at address 1.
Pe(go, execs, base, tail) ==
    [container |-> "Pe", vas |-> [k \in DOMAIN execs |-> k], little_endian |-> TRUE, header |-> TRUE, opt_magic |-> "0x20b", base |-> base,
     execs |-> execs, symptr |-> 0, nsyms |-> 0, size |-> 400 + tail, go |-> go, at |-> (64 :> "code")]

MachO(go) == [container |-> "MachO", little_endian |-> TRUE, go |-> go]

Of(go) == Elf(go, <<TRUE, FALSE>>, 0)
Plain == Of(Go)
Input1(f) == "in" :> f

Cmd(opts) ==
    [opts |-> opts, format |-> "text", binary |-> "in", other |-> "old", output |-> None,
     in_place |-> FALSE, yes |-> FALSE, target |-> "elf", flags |-> {}]
List == Cmd({})
Do(mode) == Cmd({mode})

DiffSession(old, new, signed) ==
    Begin(Input1(Of([Go EXCEPT !.functions = new])) @@ ("old" :> Of([Go EXCEPT !.functions = old])),
          <<[Do("diff") EXCEPT !.flags = IF signed THEN {"relift"} ELSE {}]>>)

DiffSessions ==
    \/ \E old \in Large, new \in Large : DiffSession(old, new, TRUE)
    \/ \E old \in Small, new \in Small, signed \in BOOLEAN : DiffSession(old, new, signed)

MethodSessions == \E p \in P!MCPrograms : Begin(Input1(Of([Go EXCEPT !.program = p])), <<List>>)

GarbleSessions ==
    \E h \in {0, 10, 30, 60}, o \in {0, 12, 40}, d \in {0, 15, 45}, l \in {0, 5},
       v \in {<<>>, <<5, 8>>, <<8>>, <<3, 25, 7>>}, m \in {"1.20", "1.16", "other"} :
      \E s \in {<<Do("detect_garble"), Do("info")>>, <<Do("buildinfo"), Do("detect_garble")>>} :
        Begin(Input1(Of([Go EXCEPT !.counts = Population(h, o, d, l), !.versions = v, !.magic = m])), s)

-----------------------------------------------------------------------------
Headers(ranks) == [k \in 1 .. 2 * Len(ranks) |-> IF k % 2 = 1 THEN ranks[(k + 1) \div 2] ELSE G!Length]
Flat(pairs) == [k \in 1 .. 2 * Len(pairs) |-> pairs[(k + 1) \div 2][2 - (k % 2)]]

Dictionaries == {<<<<2, 11>>, <<4, 7>>>>, <<<<2, 3>>, <<4, 1>>, <<6, 10>>>>, <<<<3, 12>>>>}
Before == {<<>>, <<G!Other>>, <<5>>, <<G!Other, 5>>} \cup {Headers(r) : r \in {<<5>>, <<1>>, <<1, 3>>, <<10, 6>>, <<1, 12, 9>>}}
After == {<<>>, <<G!Other>>} \cup {Headers(r) : r \in {<<5>>, <<6, 8>>, <<10>>, <<8, 1, 9, 1, 1>>}}
Beside == {<<>>, Headers(<<1, 2, 3, 4>>), Headers(<<10, 1, 2, 3, 4>>), Headers(<<1, 1, 2, 2, 3, 3, 4, 4>>)}

NameSessions ==
    \E d \in Dictionaries, b \in Before, a \in After, beside \in Beside, first \in BOOLEAN :
      \E c \in {Do("reflect_names"), [List EXCEPT !.flags = {"degarble", "no_signatures"}]} :
        LET here == b \o Headers(Flat(d)) \o a
        IN  Begin(Input1(Of([Go EXCEPT !.data = IF first THEN <<beside, here>> ELSE <<here, beside>>,
                                       !.planted = [sec |-> IF first THEN 2 ELSE 1, off |-> Len(b) + 1,
                                                    pairs |-> d]])), <<c>>)

-----------------------------------------------------------------------------
Sound(go) ==
    {Elf(go, e, t) : e \in {<<TRUE, FALSE>>, <<FALSE, TRUE>>, <<FALSE, FALSE>>}, t \in {0, 1, 5}}
    \cup {Pe(go, e, b, t) : e \in {<<TRUE>>, <<FALSE, TRUE>>, <<>>}, b \in {0, 2}, t \in 0 .. 2}
Unsound ==
    {[Plain EXCEPT !.little_endian = FALSE], [Plain EXCEPT !.header = FALSE], [Plain EXCEPT !.shentsize = 40],
     [Plain EXCEPT !.shnum = 5], [Plain EXCEPT !.shstrndx = 4], [Plain EXCEPT !.at[128][4].size = 400],
     [Pe(Go, <<TRUE>>, 0, 0) EXCEPT !.little_endian = FALSE], [Pe(Go, <<TRUE>>, 0, 0) EXCEPT !.header = FALSE],
     [Pe(Go, <<TRUE>>, 0, 0) EXCEPT !.opt_magic = "0x107"], Torn}

Symbols == Do("symbols_as")
For(f, c) == [c EXCEPT !.target = IF f.container = "Pe" THEN "pe" ELSE "elf"]
Places == {Symbols, [Symbols EXCEPT !.output = "out"], [Symbols EXCEPT !.output = "in"],
           [Symbols EXCEPT !.in_place = TRUE], [Symbols EXCEPT !.in_place = TRUE, !.yes = TRUE],
           [Symbols EXCEPT !.in_place = TRUE, !.yes = TRUE, !.output = "out"]}
Afterwards(f, c) ==
    {[For(f, c) EXCEPT !.binary = OutPath(c)], For(f, Symbols), [Do("detect_garble") EXCEPT !.binary = OutPath(c)],
     [Do("diff") EXCEPT !.other = "in", !.binary = OutPath(c)]}

RewriteSessions ==
    \/ \E f \in Sound([Go EXCEPT !.counts = Population(60, 12, 15, 0), !.magic = "other"])
               \cup Sound([Go EXCEPT !.functions = <<>>]), c \in Places :
         \E d \in Afterwards(f, c) : Begin(Input1(f), <<For(f, c), d>>)
    \/ \E f \in Unsound, c \in Places : Begin(Input1(f), <<For(f, c)>>)
    \/ \E f \in {Plain, Pe(Go, <<TRUE>>, 0, 0), MachO(Go)}, c \in Places, t \in {"elf", "pe", "macho"} :
         Begin(Input1(f), <<[c EXCEPT !.target = t]>>)

-----------------------------------------------------------------------------
Modes == {Order[k] : k \in DOMAIN Order}
Facts == {"functions", "moduledata", "types", "itabs", "text", "refs", "range", "buildinfo"}
Flags == {{}, {"quiet"}, {"bad_pc"}, {"bad_target"}, {"degarble"}, {"no_signatures"}, {"callgraph"}, {"from"},
          {"from", "to"}, {"port"}, {"port", "bad_target"}}
Trial(opts, format, flags, fails, magic) ==
    Begin(Input1(Of([Go EXCEPT !.fails = fails, !.magic = magic, !.counts = Population(60, 12, 15, 0)]))
            @@ ("old" :> Plain),
          <<[Cmd(opts) EXCEPT !.format = format, !.flags = flags]>>)

ModeSessions ==
    \/ \E m \in Modes, f \in {"text", "ida"}, g \in Flags : Trial({m}, f, g, {}, "1.20")
    \/ \E f \in {"text", "ida"}, g \in Flags : Trial({}, f, g, {}, "1.20")
    \/ \E m \in Modes, x \in Facts, magic \in {"1.20", "1.16"} : Trial({m}, "json", {}, {x}, magic)
    \/ \E x \in Facts : Trial({}, "json", {}, {x}, "1.20")
    \/ \E m, n \in Modes : Trial({m, n}, "text", {}, {}, "1.20")
    \/ \E old \in {Torn, NoFile, Of([Go EXCEPT !.fails = {"functions"}])} :
         Begin(Input1(Plain) @@ ("old" :> old), <<Do("diff")>>)
    \/ Begin(Input1(Plain), <<[List EXCEPT !.binary = "none"]>>)
    \/ \E m \in Modes : Begin(Input1(MachO(Go)), <<Do(m)>>)

MCInit ==
    DiffSessions \/ MethodSessions \/ GarbleSessions \/ NameSessions \/ RewriteSessions \/ ModeSessions

MCSpec == MCInit /\ Runs
RewriteSpec == RewriteSessions /\ Runs
=============================================================================
