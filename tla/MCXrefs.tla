------------------------------- MODULE MCXrefs -------------------------------
(* --xrefs in one run: the searches of callers_of and callees_from, and the sweeps of
   .text that find the edges they search.  Each meets all of its inputs while the
   other rests on its least one. *)
EXTENDS MCXrefBfs, MCTextSweep

NoSearch == calls = <<>> /\ direction = "callees" /\ root = "a" /\ depth = 0 /\ max_nodes = 0
AnInput  == CHOOSE c \in MCInputs : c.program = <<Op("nop", 0)>>

XrefsInit ==
    \/ NoSearch /\ BfsInit /\ Init
    \/ in = AnInput /\ Init /\ BfsInit

XrefsNext ==
    \/ BfsNext /\ UNCHANGED vars
    \/ NoSearch /\ Next /\ UNCHANGED bfsVars

XrefsSpec == XrefsInit /\ [][XrefsNext]_<<bfsVars, vars>> /\ WF_bfsVars(BfsNext)
=============================================================================
