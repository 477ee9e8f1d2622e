----------------------------------- MODULE Cli -----------------------------------
(***************************************************************************)
(* The unstrip program (run in src/src/bin/unstrip.rs) over the files it   *)
(* is given: a script of commands, each of which opens a binary, chooses   *)
(* one mode, runs the recoveries that mode needs, and exits; --symbols-as  *)
(* writes.  The matching of --diff, the signatures, the obfuscation        *)
(* verdict, the name dictionary and the rewriting are the modules of those *)
(* components.  What a mode prints is left out, except what those modules  *)
(* compute; a recovery that yields an error is in the binary's fails.      *)
(***************************************************************************)
EXTENDS DiffMatch, FiniteSets, FiniteSetsExt, TLC

CONSTANTS
    Sibling,        \* from a path to the same with .symbols behind it
    NameLen,        \* a name's bytes
    Programs, MaxParams, MaxIMethods, MaxSlots, MaxMethods, Absent,
    MIN_SAMPLE, MinUser, MIN_NAME_PAIRS, Identifier,
    ShnumRange, ValueRange

\* A path with .symbols behind it is another path.
ASSUME SiblingAssumption == \A p \in DOMAIN Sibling : Sibling[p] # p

\* The itab reader gives up before the declaration of an interface does.
ASSUME CapsAssumption ==
    /\ {MaxParams, MaxIMethods, MaxSlots, MaxMethods} \subseteq Nat
    /\ MaxSlots <= MaxIMethods
    /\ Absent \notin Nat

\* Addresses are numbers and a name has a length; e_shnum and the value of a COFF symbol are
\* fields of some bits.
ASSUME FormatAssumption ==
    /\ Address \subseteq Nat
    /\ NameLen \in [Name -> Nat]
    /\ {ShnumRange, ValueRange} \subseteq Nat \ {0}

\* A dictionary is told by more than no names at all.
ASSUME NamePairsAssumption == MIN_NAME_PAIRS \in Nat \ {0}

VARIABLES
    files,      \* from path to file
    script,     \* the commands still to run, the one in hand first
    bin,        \* the binary as it was read
    at,         \* how far the command is
    todo,       \* the components it has still to run
    image,      \* the bytes to write
    warned,     \* a warning was printed
    log,        \* the commands that ended
    prog, mi, methods, itabs, merged, sigs, stage,
    data, sec, off, best

M == INSTANCE Methods
G == INSTANCE Garble
R == INSTANCE Rewrite

session == <<files, script, bin, at, todo, image, warned, log>>
methodVars == <<prog, mi, methods, itabs, merged, sigs, stage>>
nameVars == <<data, sec, off, best>>
cliVars == <<session, vars, methodVars, nameVars>>

NoGo == [functions |-> <<>>, fails |-> {}, counts |-> <<>>, magic |-> "none", versions |-> <<>>,
         data |-> <<>>, planted |-> [sec |-> 0, off |-> 0, pairs |-> <<>>], program |-> M!NoProgram]
Nothing(container) == [container |-> container, go |-> NoGo]
NoFile == Nothing("none")
Torn == Nothing("torn")         \* a file cut short in the writing, which no longer parses

\* The files as they are, and the commands to come.
Begin(fs, commands) ==
    /\ files = fs
    /\ script = commands
    /\ bin = NoFile
    /\ at = "open"
    /\ todo = <<>>
    /\ image = NoFile
    /\ warned = FALSE
    /\ log = <<>>
    /\ Init
    /\ M!Init
    /\ G!Idle

cmd == Head(script)
Order == <<"help", "usage", "install_plugin", "symbols_as", "detect_garble", "info", "addr_file", "addr", "fingerprint",
           "data_at", "xref", "xref_refs", "strings", "capabilities", "reflect_names",
           "dispatch_resolver", "diff", "xrefs", "goroutines", "itabs", "types", "buildinfo">>

\* The options are tested in this order, and the first settles the mode; "usage" stands for
\* arguments that clap does not accept.
Mode(c) ==
    LET O == {k \in DOMAIN Order : Order[k] \in c.opts}
    IN  IF O = {} THEN "list" ELSE Order[Min(O)]

Idle == UNCHANGED <<vars, methodVars, nameVars>>

\* The command ends with an exit code.
Exit(code) ==
    /\ log' = Append(log, [mode |-> Mode(cmd), format |-> cmd.format, quiet |-> "quiet" \in cmd.flags,
                           go |-> bin.go, exit |-> code, warned |-> warned'])
    /\ script' = Tail(script)
    /\ at' = "open"
    /\ bin' = NoFile
    /\ todo' = <<>>
    /\ image' = NoFile
    /\ UNCHANGED files

-----------------------------------------------------------------------------
\* main answers -h, and clap ends the program on arguments it does not accept, before run.
Arguments ==
    /\ at = "open"
    /\ script # <<>>
    /\ Mode(cmd) \in {"help", "usage"}
    /\ warned' = FALSE
    /\ Exit(IF Mode(cmd) = "help" THEN 0 ELSE 2)
    /\ Idle

InstallPlugin ==
    /\ at = "open"
    /\ script # <<>>
    /\ Mode(cmd) = "install_plugin"
    /\ warned' = FALSE
    /\ \E installed \in BOOLEAN : Exit(IF installed /\ "bad_target" \notin cmd.flags THEN 0 ELSE 1)
    /\ Idle

Parses(f) == f.container \in {"Elf", "Pe", "MachO"}

\* The whole file is read, and nothing of it later.
OpenBinary ==
    /\ at = "open"
    /\ script # <<>>
    /\ Mode(cmd) \notin {"help", "usage", "install_plugin"}
    /\ warned' = FALSE
    /\ IF cmd.binary \in DOMAIN files /\ Parses(files[cmd.binary])
       THEN /\ bin' = files[cmd.binary]
            /\ at' = "mode"
            /\ UNCHANGED <<files, script, todo, image, log>>
       ELSE Exit(1)
    /\ Idle

Fails(facts) == bin.go.fails \cap facts # {}

-----------------------------------------------------------------------------
(* --symbols-as                                                            *)
OutPath(c) ==
    IF c.output # None THEN c.output ELSE IF c.in_place THEN c.binary ELSE Sibling[c.binary]

\* Mutant of Unconfirmed: --in-place is its own confirmation.
NeverUnconfirmed(c) == c.output # None /\ c.in_place

\* The two ways not to say where to write.
Unconfirmed(c) == IF c.output # None THEN c.in_place ELSE c.in_place /\ ~c.yes

FunctionsOf(f) ==
    [k \in DOMAIN f.go.functions |->
       [name |-> f.go.functions[k].name, len |-> NameLen[f.go.functions[k].name],
        address |-> f.go.functions[k].address]]

Rewritten ==
    CASE cmd.target = "elf" /\ bin.container = "Elf" -> R!write_symbols_as_elf(bin, FunctionsOf(bin))
      [] cmd.target = "pe" /\ bin.container = "Pe" -> R!write_symbols_as_pe(bin, FunctionsOf(bin))
      [] OTHER -> R!Refused

SymbolsAs ==
    /\ UNCHANGED warned
    /\ at = "mode"
    /\ Mode(cmd) = "symbols_as"
    /\ IF Fails({"functions"}) \/ Unconfirmed(cmd) \/ Rewritten.tag = "Refused"
       THEN Exit(1)
       ELSE IF Rewritten.tag = "Panicked" THEN Exit(101)
       ELSE /\ image' = Rewritten.file
            /\ at' = "create"
            /\ UNCHANGED <<files, script, bin, todo, log>>
    /\ Idle

\* fs::write: a file that cannot be created is not touched; one that is created is empty
\* until the bytes are there, and stays cut short when they do not all get there.
Create ==
    /\ UNCHANGED warned
    /\ at = "create"
    /\ \/ Exit(1)
       \/ /\ files' = [p \in DOMAIN files \cup {OutPath(cmd)} |-> IF p = OutPath(cmd) THEN Torn ELSE files[p]]
          /\ at' = "write"
          /\ UNCHANGED <<script, bin, todo, image, log>>
    /\ Idle

Write ==
    /\ UNCHANGED warned
    /\ at = "write"
    /\ \/ Exit(1)
       \/ /\ files' = [files EXCEPT ![OutPath(cmd)] = image]
          /\ at' = "chmod"
          /\ UNCHANGED <<script, bin, todo, image, log>>
    /\ Idle

\* The mode of the input, as far as that can be set: nothing comes of an error.
Chmod ==
    /\ UNCHANGED warned
    /\ at = "chmod"
    /\ Exit(0)
    /\ Idle

-----------------------------------------------------------------------------
(* The modes that read.                                                    *)
Counts == IF Fails({"functions"}) THEN <<>> ELSE bin.go.counts
Version == G!detect_go_version(bin.go.versions)
Official == bin.go.magic \in {"1.20", "1.18", "1.16"}
Assessed == G!assess(Counts, Version, Official)
Structural == G!detect_garble(Counts, Version, Official)

DetectGarble ==
    /\ UNCHANGED warned
    /\ at = "mode"
    /\ Mode(cmd) = "detect_garble"
    /\ Exit(IF cmd.format \in {"text", "json"} THEN G!exit_code(Assessed) ELSE 1)
    /\ Idle

\* What a mode asks for: the recoveries it cannot do without, whether its arguments turn it
\* back before it computes, the components it runs, and whether it then has no answer.
Ask(needs, rejected, runs, refused) ==
    [needs |-> needs, rejected |-> rejected, runs |-> runs, refused |-> refused]

BadPc(c) == "bad_pc" \in c.flags
BadTarget(c) == "bad_target" \in c.flags
Unprintable(c) == c.format \notin {"text", "json"}

Degarbled(c) == IF "degarble" \in c.flags THEN <<"names">> ELSE <<>>

\* Signatures are a best effort: without moduledata there are none.
Signing(c) ==
    IF "no_signatures" \in c.flags \/ Fails({"moduledata"}) THEN <<>> ELSE <<"methods">>

OtherReads(c) ==
    /\ c.other \in DOMAIN files
    /\ Parses(files[c.other])
    /\ "functions" \notin files[c.other].go.fails

info_mode(c) == Ask({}, FALSE, <<>>, Unprintable(c))
addr_file_mode(c) == Ask({}, BadPc(c), <<>>, FALSE)
addr_mode(c) == Ask({}, BadPc(c), Signing(c), FALSE)
fingerprint_mode(c) == Ask({}, FALSE, <<>>, Unprintable(c))
data_at_mode(c) == Ask({"range"}, BadPc(c), <<>>, Unprintable(c))
xref_mode(c) == Ask({"functions", "text"}, BadPc(c), <<>>, Unprintable(c))
xref_refs_mode(c) == Ask({"refs"}, BadPc(c), <<>>, Unprintable(c))
strings_mode(c) == Ask({}, FALSE, <<>>, Unprintable(c))
capabilities_mode(c) == Ask({}, FALSE, <<>>, Unprintable(c))
reflect_names_mode(c) == Ask({}, FALSE, <<"names">>, best # <<>> /\ Unprintable(c))
dispatch_resolver_mode(c) == Ask({"moduledata", "itabs"}, BadTarget(c), <<>>, FALSE)
diff_mode(c) ==
    Ask({"functions"}, ~OtherReads(c), <<"match">>,
        IF "port" \in c.flags THEN BadTarget(c) ELSE Unprintable(c))
xrefs_mode(c) ==
    IF "callgraph" \in c.flags THEN Ask({"functions", "text"}, FALSE, <<>>, FALSE)
    ELSE Ask({"functions", "text"}, Unprintable(c), Signing(c), {"from", "to"} \subseteq c.flags)
goroutines_mode(c) == Ask({"functions", "text"}, FALSE, <<>>, Unprintable(c))
itabs_mode(c) == Ask({"moduledata", "itabs"}, FALSE, Degarbled(c), Unprintable(c))
types_mode(c) == Ask({"moduledata", "types"}, FALSE, Degarbled(c), Unprintable(c))

\* Without build information, the version comes from a magic that tells it.
buildinfo_mode(c) ==
    Ask(IF bin.go.magic \in {"1.20", "1.18"} THEN {} ELSE {"buildinfo"}, FALSE, <<>>, Unprintable(c))
list_mode(c) == Ask({"functions"}, FALSE, Degarbled(c) \o Signing(c), FALSE)

Asked(c) ==
    CASE Mode(c) = "info" -> info_mode(c)
      [] Mode(c) = "addr_file" -> addr_file_mode(c)
      [] Mode(c) = "addr" -> addr_mode(c)
      [] Mode(c) = "fingerprint" -> fingerprint_mode(c)
      [] Mode(c) = "data_at" -> data_at_mode(c)
      [] Mode(c) = "xref" -> xref_mode(c)
      [] Mode(c) = "xref_refs" -> xref_refs_mode(c)
      [] Mode(c) = "strings" -> strings_mode(c)
      [] Mode(c) = "capabilities" -> capabilities_mode(c)
      [] Mode(c) = "reflect_names" -> reflect_names_mode(c)
      [] Mode(c) = "dispatch_resolver" -> dispatch_resolver_mode(c)
      [] Mode(c) = "diff" -> diff_mode(c)
      [] Mode(c) = "xrefs" -> xrefs_mode(c)
      [] Mode(c) = "goroutines" -> goroutines_mode(c)
      [] Mode(c) = "itabs" -> itabs_mode(c)
      [] Mode(c) = "types" -> types_mode(c)
      [] Mode(c) = "buildinfo" -> buildinfo_mode(c)
      [] OTHER -> list_mode(c)

\* --info and --buildinfo warn before they can fail.
Analyse ==
    /\ at = "mode"
    /\ Mode(cmd) \notin {"symbols_as", "detect_garble"}
    /\ warned' = (Mode(cmd) \in {"info", "buildinfo"} /\ "quiet" \notin cmd.flags /\ G!Warns(Assessed))
    /\ IF Asked(cmd).rejected \/ Fails(Asked(cmd).needs) THEN Exit(1)
       ELSE /\ todo' = Asked(cmd).runs
            /\ at' = "ready"
            /\ UNCHANGED <<files, script, bin, image, log>>
    /\ Idle

Busy(machine) == at = "ready" /\ todo # <<>> /\ Head(todo) = machine

\* One component, from its start to its end.
Turn(machine) ==
    /\ Busy(machine)
    /\ at' = machine
    /\ UNCHANGED <<files, script, bin, todo, image, warned, log>>

Return(machine) ==
    /\ at = machine
    /\ at' = "ready"
    /\ todo' = Tail(todo)
    /\ UNCHANGED <<files, script, bin, image, warned, log>>

CollectNames ==
    /\ Turn("names")
    /\ G!Start(bin.go.data)
    /\ UNCHANGED <<vars, methodVars>>

ScanNames ==
    /\ at = "names"
    /\ G!Scan
    /\ UNCHANGED <<session, vars, methodVars>>

NamesCollected == Return("names") /\ G!Scanned /\ Idle

\* The program leaves signatures to relift, whose call is the same with signatures.
Compare ==
    /\ Turn("match")
    /\ Start([old |-> files[cmd.other].go.functions, new |-> bin.go.functions,
              signed |-> "relift" \in cmd.flags])
    /\ UNCHANGED <<methodVars, nameVars>>

MatchStep ==
    /\ at = "match"
    /\ Step
    /\ UNCHANGED <<session, methodVars, nameVars>>

Matched == Return("match") /\ phase = "done" /\ Idle

\* compute_signatures, over whatever of the types and the itabs was recovered.
Sign ==
    /\ Turn("methods")
    /\ M!Start([bin.go.program EXCEPT !.recovered = IF Fails({"types"}) THEN <<>> ELSE @,
                                      !.links = IF Fails({"itabs"}) THEN <<>> ELSE @])
    /\ UNCHANGED <<vars, nameVars>>

SignStep ==
    /\ at = "methods"
    /\ M!Step
    /\ UNCHANGED <<session, vars, nameVars>>

Signed == Return("methods") /\ stage = "done" /\ Idle

Answer ==
    /\ UNCHANGED warned
    /\ at = "ready"
    /\ todo = <<>>
    /\ Exit(IF Asked(cmd).refused THEN 1 ELSE 0)
    /\ Idle

CliNext ==
    \/ Arguments
    \/ InstallPlugin
    \/ OpenBinary
    \/ SymbolsAs
    \/ Create
    \/ Write
    \/ Chmod
    \/ DetectGarble
    \/ Analyse
    \/ CollectNames
    \/ ScanNames
    \/ NamesCollected
    \/ Compare
    \/ MatchStep
    \/ Matched
    \/ Sign
    \/ SignStep
    \/ Signed
    \/ Answer

\* One thread runs a command from beginning to end, and no call it makes blocks for ever.
Runs == [][CliNext]_cliVars /\ WF_cliVars(CliNext)

-----------------------------------------------------------------------------
Stages == {"open", "mode", "create", "write", "chmod", "ready", "names", "match", "methods"}

\* A file waits to be written only while one is written and a binary is held only while its
\* command runs; of the exit codes, 2 is for arguments that are not accepted and never for a
\* verdict, although garble keeps it for an indeterminate one (the magic and the version can
\* always be judged), and only a rewriting command can panic.
TypeOK ==
    /\ at \in Stages
    /\ todo \in {<<>>, <<"names">>, <<"match">>, <<"methods">>, <<"names", "methods">>}
    /\ warned \in BOOLEAN
    /\ script = <<>> => at = "open"
    /\ (image # NoFile) = (at \in {"create", "write", "chmod"})
    /\ (bin = NoFile) = (at = "open")
    /\ \A k \in DOMAIN log :
         /\ log[k].exit \in {0, 1, 2, 101}
         /\ log[k].exit = 2 => log[k].mode = "usage"
         /\ log[k].exit = 101 => log[k].mode = "symbols_as"

\* What the README says of malformed input: an error, and no panic.
NeverPanics == \A k \in DOMAIN log : log[k].exit # 101

\* The signatures of a build are those its own tables declare, every one of them and no other,
\* in whatever mode they are asked for (stated in Methods: compute_signatures).
SignaturesExact == M!SignaturesExact

\* No file changes but the one a rewriting command is told to write, and then only to an image
\* of the container that was read; the input only when --output names it or --in-place was
\* confirmed; a command that cannot end in a rewritten file has touched none.
FilesKept ==
    [][\A p \in DOMAIN files \cup DOMAIN files' :
         (p \notin DOMAIN files \/ files'[p] # files[p]) =>
           /\ Mode(cmd) = "symbols_as"
           /\ bin.container \in {"Elf", "Pe"} /\ image.container = bin.container
           /\ p = cmd.binary => cmd.output = p \/ (cmd.in_place /\ cmd.yes)
           /\ p # cmd.binary => p = cmd.output \/ p = Sibling[cmd.binary]]_cliVars

\* What docs/USAGE.md says of the input: only --in-place --yes changes it.
InputKept ==
    [][\A p \in DOMAIN files : files'[p] # files[p] /\ p = cmd.binary => cmd.in_place /\ cmd.yes]_cliVars

\* A rewrite that ends well has left, where it was told to, a file whose every old section is
\* as it was and whose new symbol table reads back as the recovered functions, but for the
\* addresses of a PE file (PeAddresses); also when the input is itself a rewritten file, or is
\* overwritten.
RoundTrip ==
    at = "chmod" => R!ReadsBack(bin, FunctionsOf(bin), files[OutPath(cmd)])

\* What is said of a rewritten PE file: its symbol table is built from the recovered functions,
\* for the tools that read such tables, and a symbol's address is its function's.
PeAddresses ==
    at = "chmod" /\ bin.container = "Pe" => R!PeAddressesRight(bin, FunctionsOf(bin), files[OutPath(cmd)])

\* The warning of --info and --buildinfo and the verdict of --detect-garble never disagree
\* about the same binary, and what --info reports as the structural verdict is never more
\* than either.
VerdictsAgree ==
    /\ \A j, k \in DOMAIN log :
         (/\ log[j].mode = "detect_garble" /\ log[j].format \in {"text", "json"}
          /\ log[k].mode \in {"info", "buildinfo"} /\ ~log[k].quiet
          /\ log[j].go = log[k].go)
         => log[k].warned = (log[j].exit = 0)
    /\ (at = "mode" /\ G!report_verdict(Structural)) => G!Warns(Assessed)

\* Every name of a dictionary that garble planted in the binary is recovered.
NamesRecovered == G!Scanned => G!TableRecovered(bin.go.planted)

\* Every command comes to an exit code.
RunEnds == <>(script = <<>>)
=============================================================================
