------------------------------- MODULE TextSweep -------------------------------
(***************************************************************************)
(* The four linear sweeps over .text: xrefs::find_calls, callsites::find,  *)
(* goroutines::find_spawns and dataxref::find_refs.  Each is a loop of its *)
(* own over the same bytes, with its own guard, stride and skip.  A        *)
(* program is a list of instructions; the sweeps do not see it, they see   *)
(* the bytes, where an immediate may look like an instruction.             *)
(***************************************************************************)
EXTENDS Integers, Sequences, FiniteSets

CONSTANTS
    Inputs,     \* programs, with what the binary's tables say of them
    TextStart,  \* address of the section
    Spawners,   \* SPAWNER_NAMES
    NoAddr      \* no function, no target

Arches == {"amd64", "arm64"}

\* dispatch: CALL [rip+disp32], or LDR and BLR through the register it loads.
\* lea: a funcval into an argument register; leax: another address, another register.
\* load: into one of the first eight registers; loadr: into one of the other eight, whose
\* prefix is another.  push: PUSH, INC or DEC of [rip+disp32], which begin as CALL does.
\* immcall, immload, spill: a move whose immediate holds, or ends in, an encoding.
Ops == {"call", "dispatch", "jump", "push", "lea", "leax", "load", "loadr", "store", "cmp", "nop",
        "immcall", "immload", "spill"}

\* to: the address the operand names (arm64 dispatch: the offset it loads from);
\* base: the itab in the base register of an arm64 dispatch when it runs.
Instr == [op : Ops, to : Nat, base : Nat]

Target == [kind : {"function"}, name : STRING] \cup [kind : {"address"}, addr : Nat]
          \cup [kind : {"itab"}, addr : Nat, method : Nat]

Input == [arch : Arches, program : Seq(Instr),
          fns : Seq([name : STRING, addr : Nat]),      \* the functions() of the table
          torn : SUBSET Nat, fence : Nat,              \* its undecodable entries, and its sentinel
          itabs : Seq([addr : Nat, methods : Seq(Nat)]),
          target : Target, funcvals : SUBSET [at : Nat, entry : Nat],
          data : Nat, direction : {"readers", "writers", "both"}]

ASSUME SweepAssumption ==
    /\ Inputs \subseteq Input
    /\ TextStart \in Nat
    /\ NoAddr \notin Nat
    /\ \A x \in Inputs : \A f, g \in x.funcvals : f.at = g.at => f = g

-----------------------------------------------------------------------------
(* The instruction set: what the bytes of a program are.                   *)

Size(arch, op) ==
    IF arch = "arm64" THEN IF op \in {"lea", "leax", "dispatch"} THEN 8 ELSE 4
    ELSE CASE op = "call" -> 5
           [] op \in {"dispatch", "jump", "push"} -> 6
           [] op \in {"lea", "leax", "load", "loadr", "store", "cmp"} -> 7
           [] op = "nop" -> 2
           [] OTHER -> 10

\* Starts(in)[k]: the offset at which instruction k begins; the last entry is the end.
Starts(in) ==
    LET s[k \in 1 .. Len(in.program) + 1] ==
          IF k = 1 THEN 0 ELSE s[k - 1] + Size(in.arch, in.program[k - 1].op)
    IN s

\* What the operand field holds: a displacement from the end of the instruction,
\* on arm64 from its start, or the offset an arm64 load adds to its base.
Encode(arch, op, to, i) ==
    [op |-> op,
     disp |-> IF arch = "amd64" THEN to - (TextStart + i + Size(arch, op))
              ELSE IF op = "dispatch" THEN to ELSE to - (TextStart + i)]

Hidden == [immcall |-> "call", immload |-> "load", spill |-> "dispatch"]
HiddenAt == [immcall |-> 2, immload |-> 2, spill |-> 8]

\* What reads as an instruction at offset i.
Bytes(in) ==
    LET s == Starts(in)
        p == in.program
    IN  [i \in 0 .. s[Len(p) + 1] - 1 |->
          IF \E k \in DOMAIN p : s[k] = i /\ p[k].op \notin DOMAIN Hidden
          THEN LET k == CHOOSE k \in DOMAIN p : s[k] = i
               IN  Encode(in.arch, p[k].op, p[k].to, i)
          ELSE IF \E k \in DOMAIN p : p[k].op \in DOMAIN Hidden /\ s[k] + HiddenAt[p[k].op] = i
          THEN LET k == CHOOSE k \in DOMAIN p :
                          p[k].op \in DOMAIN Hidden /\ s[k] + HiddenAt[p[k].op] = i
               IN  Encode(in.arch, Hidden[p[k].op], p[k].to, i)
          ELSE [op |-> "nop", disp |-> 0]]

-----------------------------------------------------------------------------
VARIABLES
    in,         \* the binary and the question
    text,       \* its bytes
    i,          \* the offset the sweep in progress has reached
    edges,      \* find_calls
    sites,      \* callsites::find
    todo,       \* the itab slots still to be swept for: a set of <<itab, method>>
    spawns,     \* find_spawns
    refs,       \* find_refs
    failed,     \* callsites::find has returned an error
    phase

vars == <<in, text, i, edges, sites, todo, spawns, refs, failed, phase>>

Init ==
    /\ in \in Inputs
    /\ text = Bytes(in)
    /\ i = 0
    /\ edges = <<>>
    /\ sites = <<>>
    /\ todo = {}
    /\ spawns = <<>>
    /\ refs = <<>>
    /\ failed = FALSE
    /\ phase = "calls"

TextLen == Cardinality(DOMAIN text)
Amd64 == in.arch = "amd64"
Entries == {in.fns[k].addr : k \in DOMAIN in.fns}

\* Pclntab::lookup: the last entry at or below pc, when pc is below the next one, the
\* sentinel behind the last, and the entry decodes.
Lookup(pc) ==
    LET table == Entries \cup in.torn
        below == {a \in table : a <= pc}
        last == CHOOSE a \in below : \A b \in below : b <= a
    IN  IF below = {} \/ (below = table /\ pc >= in.fence) \/ last \in in.torn THEN NoAddr ELSE last

\* The first function of that name, which is the one find_spawns and find use.
Named(name) == LET K == {k \in DOMAIN in.fns : in.fns[k].name = name}
               IN  IF K = {} THEN NoAddr
                   ELSE in.fns[CHOOSE k \in K : \A m \in K : k <= m].addr
SpawnerAddrs == {Named(name) : name \in Spawners} \ {NoAddr}

CallWidth == IF Amd64 THEN 5 ELSE 4
CallStride == IF Amd64 THEN 1 ELSE 4

Here == TextStart + i

-----------------------------------------------------------------------------
(* xrefs::find_calls.                                                      *)
EdgesLeft == i + CallWidth <= TextLen

\* E8 rel32 or BL imm26, and where it leads.
EdgeTarget == IF Amd64 THEN Here + 5 + text[i].disp ELSE Here + text[i].disp

\* Mutant of IsEdge: the caller need not be known.
IsEdgeAnyCaller == text[i].op = "call" /\ EdgeTarget \in Entries

IsEdge == text[i].op = "call" /\ EdgeTarget \in Entries /\ Lookup(Here) # NoAddr

ScanCalls ==
    /\ phase = "calls"
    /\ EdgesLeft
    /\ edges' = IF IsEdge
                THEN Append(edges, [site |-> Here, caller |-> Lookup(Here), callee |-> EdgeTarget])
                ELSE edges
    /\ i' = i + CallStride
    /\ UNCHANGED <<in, text, sites, todo, spawns, refs, failed, phase>>

-----------------------------------------------------------------------------
(* callsites::find.                                                        *)

\* The address the target names; for a slot there is no direct sweep.
TargetAddr == CASE in.target.kind = "function" -> Named(in.target.name)
                [] in.target.kind = "address" -> in.target.addr
                [] OTHER -> NoAddr

\* The slots that hold the address.
Slots ==
    UNION {{<<t, m - 1>> : m \in {n \in DOMAIN in.itabs[t].methods :
                                    in.itabs[t].methods[n] = TargetAddr}} : t \in DOMAIN in.itabs}

TargetItab == {t \in DOMAIN in.itabs : in.itabs[t].addr = in.target.addr}

StartFind ==
    /\ phase = "calls"
    /\ ~EdgesLeft
    /\ i' = 0
    /\ IF in.target.kind = "itab"
       THEN /\ failed' = (TargetItab = {})
            /\ todo' = IF TargetItab = {} THEN {}
                       ELSE {<<CHOOSE t \in TargetItab : \A u \in TargetItab : t <= u,
                               in.target.method>>}
            /\ phase' = "slots"
       ELSE /\ failed' = (TargetAddr = NoAddr)
            /\ todo' = IF TargetAddr = NoAddr THEN {} ELSE Slots
            /\ phase' = IF TargetAddr = NoAddr THEN "slots" ELSE "direct"
    /\ UNCHANGED <<in, text, edges, sites, spawns, refs>>

\* Mutant of DirectLeft: the last instruction of the section is not looked at.
DirectBeforeEnd == i + CallWidth < TextLen

\* scan_direct: a sweep like that of find_calls, for one target and any caller.
DirectLeft == i + CallWidth <= TextLen
DirectTarget == IF Amd64 THEN Here + 5 + text[i].disp ELSE Here + text[i].disp
IsSite == text[i].op = "call" /\ DirectTarget = TargetAddr

ScanDirect ==
    /\ phase = "direct"
    /\ DirectLeft
    /\ sites' = IF IsSite
                THEN Append(sites, [site |-> Here, caller |-> Lookup(Here), slot |-> <<>>])
                ELSE sites
    /\ i' = i + CallStride
    /\ UNCHANGED <<in, text, edges, todo, spawns, refs, failed, phase>>

EndDirect ==
    /\ phase = "direct"
    /\ ~DirectLeft
    /\ i' = 0
    /\ phase' = "slots"
    /\ UNCHANGED <<in, text, edges, sites, todo, spawns, refs, failed>>

ITAB_HEADER_BYTES == 40
ITAB_SLOT_BYTES == 8

\* The slot swept for: the first of those left, in table order.
Slot == CHOOSE e \in todo : \A f \in todo : e[1] < f[1] \/ (e[1] = f[1] /\ e[2] <= f[2])
SlotOffset == ITAB_HEADER_BYTES + Slot[2] * ITAB_SLOT_BYTES
SlotWidth == IF Amd64 THEN 6 ELSE 8

\* FF 15 disp32 whose effective address is the slot's; on arm64 a load from the
\* slot's offset off any base, and a call through the register loaded.
ReadsDispatch ==
    /\ text[i].op = "dispatch"
    /\ IF Amd64
       THEN TextStart + i + 6 + text[i].disp = in.itabs[Slot[1]].addr + SlotOffset
       ELSE text[i].disp = SlotOffset

ScanSlot ==
    /\ phase = "slots"
    /\ todo # {}
    /\ i + SlotWidth <= TextLen
    /\ sites' = IF ReadsDispatch
                THEN LET site == IF Amd64 THEN Here ELSE Here + 4
                     IN  Append(sites, [site |-> site, caller |-> Lookup(site), slot |-> Slot])
                ELSE sites
    /\ i' = IF Amd64 THEN i + 1 ELSE IF ReadsDispatch THEN i + 8 ELSE i + 4
    /\ UNCHANGED <<in, text, edges, todo, spawns, refs, failed, phase>>

EndSlot ==
    /\ phase = "slots"
    /\ todo # {}
    /\ i + SlotWidth > TextLen
    /\ i' = 0
    /\ todo' = todo \ {Slot}
    /\ UNCHANGED <<in, text, edges, sites, spawns, refs, failed, phase>>

EndFind ==
    /\ phase = "slots"
    /\ todo = {}
    /\ i' = 0
    /\ phase' = "spawns"
    /\ UNCHANGED <<in, text, edges, sites, todo, spawns, refs, failed>>

-----------------------------------------------------------------------------
(* goroutines::find_spawns.                                                *)

\* How far before the call a load may begin, in the order tried.
Back == IF Amd64 THEN <<7, 9, 11, 13, 16, 19, 22, 25>>
        ELSE [j \in 1 .. 8 |-> 4 * j]

\* An arm64 pair is not looked for at the very first offset: the loop stops below 8.
InReach(j) == IF Amd64 THEN Back[j] <= i ELSE Back[j] + 4 <= i

Candidates == {j \in DOMAIN Back : InReach(j) /\ text[i - Back[j]].op \in {"lea", "leax"}}
Loaded(j) == LET pos == i - Back[j]
             IN  TextStart + pos + text[pos].disp + (IF Amd64 THEN 7 ELSE 0)
Readable(j) == \E f \in in.funcvals : f.at = Loaded(j)

\* Mutant of Nearest: the candidates are tried from the far end.
NearestReversed(J) == CHOOSE j \in J : \A k \in J : k <= j

Nearest(J) == CHOOSE j \in J : \A k \in J : j <= k

\* The entry read through the nearest load that can be read.
Resolve ==
    LET J == {j \in Candidates : Readable(j)}
    IN  IF J # {}
        THEN [resolution |-> "resolved",
              target |-> (CHOOSE f \in in.funcvals : f.at = Loaded(Nearest(J))).entry]
        ELSE [resolution |-> IF Candidates = {} THEN "no-lea-pattern" ELSE "funcval-unmapped",
              target |-> NoAddr]

\* Mutant of SpawnsLeft: a call that ends the section is not looked at.
SpawnsBeforeEnd == i + CallWidth < TextLen

SpawnsLeft == i + CallWidth <= TextLen
SpawnTarget == IF Amd64 THEN Here + 5 + text[i].disp ELSE Here + text[i].disp
IsSpawn == text[i].op = "call" /\ SpawnTarget \in SpawnerAddrs

ScanSpawns ==
    /\ phase = "spawns"
    /\ SpawnerAddrs # {}
    /\ SpawnsLeft
    /\ spawns' = IF IsSpawn
                 THEN Append(spawns, [site |-> Here, spawner |-> SpawnTarget, found |-> Resolve])
                 ELSE spawns
    /\ i' = i + CallStride
    /\ UNCHANGED <<in, text, edges, sites, todo, refs, failed, phase>>

EndSpawns ==
    /\ phase = "spawns"
    /\ SpawnerAddrs = {} \/ ~SpawnsLeft
    /\ i' = 0
    /\ phase' = IF Amd64 THEN "refs" ELSE "done"
    /\ UNCHANGED <<in, text, edges, sites, todo, spawns, refs, failed>>

-----------------------------------------------------------------------------
(* dataxref::find_refs, amd64 only.                                        *)

Wants(op) == CASE in.direction = "readers" -> op # "store"
               [] in.direction = "writers" -> op = "store"
               [] OTHER -> TRUE

\* The kinds of hit.
Kinds == {"dispatch", "jump", "lea", "leax", "load", "store", "cmp"}

\* Mutant of RefLength: the six-byte forms are stepped over as if they had seven.
RefLengthLong(op) == IF op \in Kinds \cup {"push"} THEN 7 ELSE 1

\* What the sweep takes an encoding's length to be; it steps over a match, even one
\* that does not name the target, or that is no hit at all.
RefLength(op) ==
    CASE op \in {"dispatch", "jump", "push"} -> 6
      [] op \in {"lea", "leax", "load", "store", "cmp"} -> 7
      [] OTHER -> 1

ReadsRef == LET op == text[i].op
            IN  /\ op \in Kinds
                /\ Here + RefLength(op) + text[i].disp = in.data
                /\ Wants(op)

\* The loop wants seven bytes, the six-byte forms included.
ScanRefs ==
    /\ phase = "refs"
    /\ i + 7 <= TextLen
    /\ refs' = IF ReadsRef THEN Append(refs, [pc |-> Here, kind |-> text[i].op]) ELSE refs
    /\ i' = i + RefLength(text[i].op)
    /\ UNCHANGED <<in, text, edges, sites, todo, spawns, failed, phase>>

EndRefs ==
    /\ phase = "refs"
    /\ i + 7 > TextLen
    /\ phase' = "done"
    /\ UNCHANGED <<in, text, i, edges, sites, todo, spawns, refs, failed>>

Next ==
    \/ ScanCalls
    \/ StartFind
    \/ ScanDirect
    \/ EndDirect
    \/ ScanSlot
    \/ EndSlot
    \/ EndFind
    \/ ScanSpawns
    \/ EndSpawns
    \/ ScanRefs
    \/ EndRefs

Spec == Init /\ [][Next]_vars

-----------------------------------------------------------------------------
TypeOK ==
    /\ in \in Input
    /\ i \in Nat
    /\ edges \in Seq([site : Nat, caller : Nat, callee : Nat])
    /\ sites \in Seq([site : Nat, caller : Nat \cup {NoAddr}, slot : Seq(Nat)])
    /\ todo \subseteq (DOMAIN in.itabs) \X Nat
    /\ spawns \in Seq([site : Nat, spawner : Nat,
                       found : [resolution : {"resolved", "no-lea-pattern", "funcval-unmapped"},
                                target : Nat \cup {NoAddr}]])
    /\ refs \in Seq([pc : Nat, kind : Ops])
    /\ failed \in BOOLEAN
    /\ phase \in {"calls", "direct", "slots", "spawns", "refs", "done"}

Program == in.program
At(k) == TextStart + Starts(in)[k]
NoHidden == \A k \in DOMAIN Program : Program[k].op \notin DOMAIN Hidden
DirectSites == {e \in {sites[k] : k \in DOMAIN sites} : e.slot = <<>>}
CallsTo(a) == {At(k) : k \in {m \in DOMAIN Program : Program[m].op = "call" /\ Program[m].to = a}}

\* --xref reports every direct call of its target, the last instruction of the section
\* and callers outside the function table included, each once and in address order;
\* and where no immediate looks like a call it reports nothing else.
DirectSitesRight ==
    phase = "done" /\ in.target.kind # "itab" /\ ~failed =>
      /\ CallsTo(TargetAddr) \subseteq {e.site : e \in DirectSites}
      /\ NoHidden => {e.site : e \in DirectSites} = CallsTo(TargetAddr)
      /\ \A k, m \in DOMAIN sites :
           k < m /\ sites[k].slot = <<>> /\ sites[m].slot = <<>> => sites[k].site < sites[m].site

\* The three sweeps that look for direct calls agree: the call graph's edges to a
\* function are its --xref sites with a known caller, and the goroutine spawns with a
\* known caller are the edges to the spawners.
SweepsAgree ==
    phase = "done" =>
      LET E == {edges[k] : k \in DOMAIN edges}
          known(S) == {s \in S : Lookup(s) # NoAddr}
      IN  /\ TargetAddr \in Entries =>
               {<<e.site, e.caller>> : e \in {x \in E : x.callee = TargetAddr}}
               = {<<e.site, e.caller>> : e \in {x \in DirectSites : x.caller # NoAddr}}
          /\ known({spawns[k].site : k \in DOMAIN spawns})
             = {e.site : e \in {x \in E : x.callee \in SpawnerAddrs}}

\* A spawn whose argument is loaded by the instruction before it, from a funcval that
\* can be read, is resolved to that funcval's function, whatever else was loaded before.
\* On arm64 a pair that begins the section is left out: the scan never reads it.
AdjacentSpawnResolved ==
    phase = "done" =>
      \A k \in DOMAIN spawns : \A m \in DOMAIN Program :
        /\ At(m) + Size(in.arch, Program[m].op) = spawns[k].site
        /\ Program[m].op = "lea"
        /\ Amd64 \/ m > 1
        => \A f \in in.funcvals : f.at = Program[m].to =>
             spawns[k].found = [resolution |-> "resolved", target |-> f.entry]

\* The encoding op of instruction m names the data asked about.
NamesData(m, op) == op \in Kinds /\ Program[m].to = in.data /\ Wants(op)
RefSites == {m \in DOMAIN Program : NamesData(m, Program[m].op)}
HiddenRefs == {m \in DOMAIN Program :
                 Program[m].op \in DOMAIN Hidden /\ NamesData(m, Hidden[Program[m].op])}

\* An encoding that the end of an immediate begins runs over what follows it.
Covered(m) == \E k \in DOMAIN Program :
                Program[k].op = "spill" /\ Starts(in)[m] - Starts(in)[k] \in 10 .. 13

\* Stepping over what it matches does not make --data-xref lose its place, not even when
\* what it matches lies in an immediate or is no hit: it reports every reference that begins
\* seven bytes or more before the end of the section, save what a false match runs over, and
\* nothing but references and immediates that read as one.  A load into r8 to r15, whose
\* prefix is not 0x48, is no reference to it.
ReferencesFound ==
    phase = "done" /\ Amd64 =>
      LET reported == {refs[k].pc : k \in DOMAIN refs}
      IN  /\ \A m \in RefSites : Starts(in)[m] + 7 <= TextLen /\ ~Covered(m) => At(m) \in reported
          /\ reported \subseteq {At(m) : m \in RefSites}
                                \cup {At(m) + HiddenAt[Program[m].op] : m \in HiddenRefs}

\* itabs::recover_all reads method m of an itab behind a header of two pointers and eight
\* bytes.
FunBase == 24
MethodOffset(m) == FunBase + m * ITAB_SLOT_BYTES

\* A site that --xref reports for a method of an itab is, on arm64, a call of a method of
\* that number, or at least one through that itab: "The failure mode is "misses real indirect
\* calls," never "false positive."" (src/src/callsites/mod.rs:22-23).
SiteIsOfMethodOrItab ==
    \A k \in DOMAIN sites : sites[k].slot # <<>> /\ ~Amd64 =>
      \E m \in DOMAIN Program :
        /\ Program[m].op = "dispatch"
        /\ At(m) + 4 = sites[k].site
        /\ \/ Program[m].to = MethodOffset(sites[k].slot[2])
           \/ Program[m].base = in.itabs[sites[k].slot[1]].addr
=============================================================================
