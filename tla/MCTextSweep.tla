------------------------------ MODULE MCTextSweep ------------------------------
(* Programs of up to three instructions on amd64 and four on arm64.  The caller's
   function begins at the first instruction or at the second, so that a call may lie
   in no function; a call to it is a recursive one.  The spawners lie behind the section or
   in front of it; then the table ends at the second instruction, or has at the first an
   entry that does not decode. *)
EXTENDS TextSweep

MCTextStart == 100
MCItabA == 500
MCItabB == 600
MCFuncval == 700
MCData == 800

CONSTANTS
    Own,        \* stands for the caller's function in a program
    Newproc     \* and this for the spawner's

Op(op, to) == [op |-> op, to |-> to, base |-> 0]
Through(off, itab) == [op |-> "dispatch", to |-> off, base |-> itab]

Amd64Alphabet ==
    {Op("call", Own), Op("call", Newproc), Op("lea", MCFuncval), Op("leax", MCData),
     Op("dispatch", MCItabA + 40), Op("jump", MCItabA + 40), Op("load", MCItabA + 40),
     Op("push", MCItabA + 40), Op("loadr", MCItabA + 40),
     Op("store", MCData), Op("nop", 0), Op("immcall", Own),
     Op("immload", MCData), Op("spill", 0)}
Arm64Alphabet ==
    {Op("call", Own), Op("call", Newproc), Op("lea", MCFuncval), Op("leax", MCData),
     Through(40, MCItabA), Through(40, MCItabB), Op("nop", 0)}

Strings(A, n) == UNION {[1 .. k -> A] : k \in 1 .. n}

OwnEntry(arch, p, split) ==
    MCTextStart + (IF split = 1 THEN 0 ELSE Size(arch, p[1].op))

NewprocEntry(front) == IF front THEN 60 ELSE 300

Linked(p, own, newproc) ==
    [k \in DOMAIN p |-> [p[k] EXCEPT !.to = IF @ = Own THEN own ELSE IF @ = Newproc THEN newproc ELSE @]]

MCItabs(own, newproc) == <<[addr |-> MCItabA, methods |-> <<own, 0, newproc>>],
                           [addr |-> MCItabB, methods |-> <<newproc, newproc, newproc>>]>>

MCSpawner == [kind |-> "address", addr |-> Newproc]

Case(arch, p, split, front, target, data) ==
    LET own == OwnEntry(arch, p, split)
        newproc == NewprocEntry(front)
        main == <<[name |-> "main.main", addr |-> own]>>
        spawners == <<[name |-> "runtime.newproc", addr |-> newproc],
                      [name |-> "runtime.newproc", addr |-> newproc + 20]>>
    IN  [arch |-> arch, program |-> Linked(p, own, newproc),
         fns |-> IF front THEN spawners \o main ELSE main \o spawners,
         torn |-> IF front /\ split = 2 THEN {MCTextStart} ELSE {},
         fence |-> IF front /\ split = 1 THEN OwnEntry(arch, p, 2) ELSE 400,
         itabs |-> MCItabs(own, newproc),
         target |-> IF target = MCSpawner THEN [kind |-> "address", addr |-> newproc] ELSE target,
         funcvals |-> {[at |-> MCFuncval, entry |-> own], [at |-> MCData, entry |-> 999]},
         data |-> data, direction |-> IF data = MCData THEN "writers" ELSE "both"]

MCMain == [kind |-> "function", name |-> "main.main"]
MCTargets == {MCMain, MCSpawner,
              [kind |-> "function", name |-> "main.gone"],
              [kind |-> "itab", addr |-> MCItabA, method |-> 0]}

\* Every question is put to the short programs, under every table, and two to all.
AmdInputs ==
    {Case("amd64", p, s, f, t, d) : p \in Strings(Amd64Alphabet, 2), s \in {1, 2}, f \in BOOLEAN,
                                    t \in MCTargets, d \in {MCData, MCItabA + 40}}
    \cup {Case("amd64", p, s, FALSE, MCMain, IF s = 1 THEN MCData ELSE MCItabA + 40) :
             p \in Strings(Amd64Alphabet, 3), s \in {1, 2}}
ArmInputs ==
    {Case("arm64", p, s, f, t, MCData) : p \in Strings(Arm64Alphabet, 2), s \in {1, 2}, f \in BOOLEAN,
                                         t \in MCTargets}
    \cup {Case("arm64", p, s, s = 1, MCMain, MCData) : p \in Strings(Arm64Alphabet, 3), s \in {1, 2}}
    \cup {Case("arm64", p, 2, FALSE, MCMain, MCData) : p \in Strings(Arm64Alphabet, 4)}
MCInputs == AmdInputs \cup ArmInputs
=============================================================================
