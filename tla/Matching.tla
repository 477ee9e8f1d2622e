-------------------------------- MODULE Matching --------------------------------
(***************************************************************************)
(* What the doc of diff (src/src/diff/mod.rs) promises of the pairing of   *)
(* two builds, with no order in it: the same name at the same address is   *)
(* identical; a name that is left in exactly one function of either build  *)
(* has moved; a signature left in exactly one, renamed; the rest is        *)
(* removed or added.  A report grows only by pairings that belong to it,   *)
(* and is complete when it has them all.  Tables that give an address      *)
(* twice are promised nothing.                                             *)
(***************************************************************************)
EXTENDS Integers, Sequences

CONSTANTS NoSig, None

VARIABLES
    builds,     \* the builds compared: two tables, and whether signatures are at hand
    report,     \* the set of pairings
    complete

vars == <<builds, report, complete>>

Pairing(kind, o, n) == [kind |-> kind, old |-> o, new |-> n]

Distinct(fns) == \A k, m \in DOMAIN fns : fns[k].address = fns[m].address => k = m
Promised(b) == Distinct(b.old) /\ Distinct(b.new)

Funs(fns) == {fns[k] : k \in DOMAIN fns}
SameSpot(f, g) == f.name = g.name /\ f.address = g.address
Unspotted(A, B) == {f \in A : \A g \in B : ~SameSpot(f, g)}
Only(A, f, field) == \A g \in A : g[field] = f[field] => g = f

\* f and g are each the only function of its side, among those left, with their key.
Pairs(A, B, field) ==
    {e \in A \X B : /\ e[1][field] = e[2][field]
                    /\ e[1][field] # NoSig
                    /\ Only(A, e[1], field)
                    /\ Only(B, e[2], field)}

Expected(b) ==
    LET O == Funs(b.old)
        N == Funs(b.new)
        O1 == Unspotted(O, N)
        N1 == Unspotted(N, O)
        moved == Pairs(O1, N1, "name")
        O2 == {f \in O1 : \A e \in moved : e[1] # f}
        N2 == {g \in N1 : \A e \in moved : e[2] # g}
        renamed == IF b.signed THEN Pairs(O2, N2, "sig") ELSE {}
    IN  {Pairing("Identical", f.address, f.address) : f \in O \ O1}
        \cup {Pairing("Moved", e[1].address, e[2].address) : e \in moved}
        \cup {Pairing("Renamed", e[1].address, e[2].address) : e \in renamed}
        \cup {Pairing("Removed", f.address, None) : f \in {x \in O2 : \A e \in renamed : e[1] # x}}
        \cup {Pairing("Added", None, g.address) : g \in {x \in N2 : \A e \in renamed : e[2] # x}}

Init ==
    /\ Expected(builds) = {}
    /\ report = {}
    /\ complete = TRUE

Compare ==
    /\ complete = TRUE
    /\ report' = {}
    /\ complete' = FALSE

Report ==
    /\ ~complete
    /\ UNCHANGED <<builds, complete>>
    /\ report \subseteq report'
    /\ Promised(builds) => report' \subseteq Expected(builds)

Complete ==
    /\ ~complete
    /\ complete' = TRUE
    /\ UNCHANGED <<builds, report>>
    /\ Promised(builds) => report = Expected(builds)

Next == Compare \/ Report \/ Complete

Spec == Init /\ [][Next]_vars
=============================================================================
