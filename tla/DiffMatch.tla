------------------------------- MODULE DiffMatch -------------------------------
(***************************************************************************)
(* diff::compute (src/src/diff/mod.rs): pairing the functions of two       *)
(* builds.  The first pass goes by name and address, the second by name,   *)
(* the third by masked-code signature, each over what is left; the rest is *)
(* removed or added.  Passes two and three walk a HashMap, whose order is  *)
(* any order.  The counters are the numbers of pairings of each kind.      *)
(***************************************************************************)
EXTENDS Integers, Sequences

CONSTANTS
    Name,       \* recovered names
    Sig,        \* masked-code signatures
    Address,    \* entry addresses
    NoSig,      \* the caller has no signature for a function
    None        \* the side of a pairing that has no function

Function == [name : Name, address : Address, sig : Sig \cup {NoSig}]

\* The functions of one build, in table order; signed: the caller supplies signatures.
Input == [old : Seq(Function), new : Seq(Function), signed : BOOLEAN]

ASSUME DiffAssumption ==
    /\ NoSig \notin Sig
    /\ None \notin Address

VARIABLES
    in,             \* the two builds
    matched_old,    \* addresses paired so far
    matched_new,
    i,              \* the place of a pass that walks a table
    left,           \* keys the pass in hand has still to look at
    old_by, new_by, \* its indexes, from key to function, fixed when it begins
    pairings,       \* what has been reported, in order
    phase

vars == <<in, matched_old, matched_new, i, left, old_by, new_by, pairings, phase>>

Pairing(kind, o, n) == [kind |-> kind, old |-> o, new |-> n]

NoBuilds == [old |-> <<>>, new |-> <<>>, signed |-> FALSE]

Init ==
    /\ in = NoBuilds
    /\ matched_old = {}
    /\ matched_new = {}
    /\ i = 1
    /\ left = {}
    /\ old_by = <<>>
    /\ new_by = <<>>
    /\ pairings = <<>>
    /\ phase = "idle"

\* A call of compute.
Start(builds) ==
    /\ phase \in {"idle", "done"}
    /\ in' = builds
    /\ matched_old' = {}
    /\ matched_new' = {}
    /\ i' = 1
    /\ left' = {}
    /\ old_by' = <<>>
    /\ new_by' = <<>>
    /\ pairings' = <<>>
    /\ phase' = "identical"

In(fns, f) == \E k \in DOMAIN fns : fns[k] = f
Twin(f) == \E k \in DOMAIN in.new : in.new[k].name = f.name /\ in.new[k].address = f.address

\* Mutant of TakesTwin: the same name is enough.
TakesNamesake(f) == (\E k \in DOMAIN in.new : in.new[k].name = f.name) /\ f.address \notin matched_new

\* Pass 1: a function with f's name and address that no other has taken.
TakesTwin(f) == Twin(f) /\ f.address \notin matched_new

Identical ==
    /\ phase = "identical"
    /\ i <= Len(in.old)
    /\ LET f == in.old[i]
       IN  IF TakesTwin(f)
           THEN /\ matched_new' = matched_new \cup {f.address}
                /\ matched_old' = matched_old \cup {f.address}
                /\ pairings' = Append(pairings, Pairing("Identical", f.address, f.address))
           ELSE UNCHANGED <<matched_new, matched_old, pairings>>
    /\ i' = i + 1
    /\ UNCHANGED <<in, left, old_by, new_by, phase>>

\* Mutant of Open: a pass looks at functions an earlier one has paired.
OpenAll(fns, matched) == DOMAIN fns

\* The functions a pass may still pair.
Open(fns, matched) == {k \in DOMAIN fns : fns[k].address \notin matched}

\* unique_name_index and unique_sig_index: from the keys that belong to exactly one
\* unmatched function to its address.
Index(fns, matched, field) ==
    LET open == {k \in Open(fns, matched) : fns[k][field] # NoSig}
        sole == {k \in open : \A m \in open \ {k} : fns[m][field] # fns[k][field]}
    IN  [key \in {fns[k][field] : k \in sole} |->
           fns[CHOOSE k \in sole : fns[k][field] = key].address]

BeginMoved ==
    /\ phase = "identical"
    /\ i > Len(in.old)
    /\ old_by' = Index(in.old, matched_old, "name")
    /\ new_by' = Index(in.new, matched_new, "name")
    /\ left' = DOMAIN old_by'
    /\ phase' = "moved"
    /\ UNCHANGED <<in, matched_old, matched_new, i, pairings>>

\* One turn of pass 2 or 3, whichever key the HashMap yields.
Match(kind) ==
    \E key \in left :
      /\ left' = left \ {key}
      /\ IF key \in DOMAIN new_by
         THEN /\ matched_old' = matched_old \cup {old_by[key]}
              /\ matched_new' = matched_new \cup {new_by[key]}
              /\ pairings' = Append(pairings, Pairing(kind, old_by[key], new_by[key]))
         ELSE UNCHANGED <<matched_old, matched_new, pairings>>
      /\ UNCHANGED <<in, i, old_by, new_by, phase>>

Moved == phase = "moved" /\ Match("Moved")

BeginRenamed ==
    /\ phase = "moved"
    /\ left = {}
    /\ IF in.signed
       THEN /\ old_by' = Index(in.old, matched_old, "sig")
            /\ new_by' = Index(in.new, matched_new, "sig")
            /\ left' = DOMAIN old_by'
       ELSE UNCHANGED <<old_by, new_by, left>>
    /\ phase' = "renamed"
    /\ UNCHANGED <<in, matched_old, matched_new, i, pairings>>

Renamed == phase = "renamed" /\ Match("Renamed")

BeginRemoved ==
    /\ phase = "renamed"
    /\ left = {}
    /\ i' = 1
    /\ phase' = "removed"
    /\ UNCHANGED <<in, matched_old, matched_new, left, old_by, new_by, pairings>>

Removed ==
    /\ phase = "removed"
    /\ i <= Len(in.old)
    /\ pairings' = IF in.old[i].address \in matched_old THEN pairings
                   ELSE Append(pairings, Pairing("Removed", in.old[i].address, None))
    /\ i' = i + 1
    /\ UNCHANGED <<in, matched_old, matched_new, left, old_by, new_by, phase>>

BeginAdded ==
    /\ phase = "removed"
    /\ i > Len(in.old)
    /\ i' = 1
    /\ phase' = "added"
    /\ UNCHANGED <<in, matched_old, matched_new, left, old_by, new_by, pairings>>

Added ==
    /\ phase = "added"
    /\ i <= Len(in.new)
    /\ pairings' = IF in.new[i].address \in matched_new THEN pairings
                   ELSE Append(pairings, Pairing("Added", None, in.new[i].address))
    /\ i' = i + 1
    /\ UNCHANGED <<in, matched_old, matched_new, left, old_by, new_by, phase>>

Finish ==
    /\ phase = "added"
    /\ i > Len(in.new)
    /\ phase' = "done"
    /\ UNCHANGED <<in, matched_old, matched_new, i, left, old_by, new_by, pairings>>

Step ==
    \/ Identical
    \/ BeginMoved
    \/ Moved
    \/ BeginRenamed
    \/ Renamed
    \/ BeginRemoved
    \/ Removed
    \/ BeginAdded
    \/ Added
    \/ Finish

Next == (\E builds \in Input : Start(builds)) \/ Step

Spec == Init /\ [][Next]_vars

-----------------------------------------------------------------------------
Distinct(fns) == \A k, m \in DOMAIN fns : fns[k].address = fns[m].address => k = m

\* Every function of either build is in a pairing, so that none is left out of the report,
\* even where a table gives an address twice; and where it gives each once, in exactly one,
\* so that the five counters add up to both totals and the port script names none twice.
Accounted ==
    phase = "done" =>
      \A side \in {"old", "new"} :
        \A k \in DOMAIN in[side] :
          LET its == {m \in DOMAIN pairings : pairings[m][side] = in[side][k].address}
          IN  /\ its # {}
              /\ Distinct(in.old) /\ Distinct(in.new) => \A m, n \in its : m = n

\* What the report comes to, whatever way the passes take to it.
Abstract ==
    INSTANCE Matching WITH
      builds <- in,
      report <- {pairings[k] : k \in DOMAIN pairings},
      complete <- phase \in {"idle", "done"}

\* The module's doc promises pairings that are a function of the two builds: the passes
\* implement the matching that has no order, no index and no addresses set aside.
ImplementsMatching == Abstract!Spec
=============================================================================
