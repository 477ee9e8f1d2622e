----------------------------- MODULE MCModuledata -----------------------------
(* From a file to its types in one run: Locate finds the table and the module data whose
   region TypeWalk follows.  Each meets all of its inputs while the other rests on its
   least one. *)
EXTENDS MCTypeWalk, MCLocate

RefusedTypes == CHOOSE t \in MCTypeInputs : t.refused

\* A file whose named section ends behind it.
TornFile ==
    [words |-> File(<<>>), sections |-> <<Sec("data", 0, 5, 5)>>, named |-> BadName,
     sound |-> Whole, text |-> NoText, coarse |-> 0, stripped |-> FALSE]
MCFiles == MCInputs \cup {TornFile}

NoTypes == data = RefusedTypes

ModuledataInit ==
    \/ NoTypes /\ RecoverInit /\ Init
    \/ bin = TornFile /\ Init /\ RecoverInit

ModuledataNext ==
    \/ RecoverNext /\ UNCHANGED vars
    \/ NoTypes /\ Next /\ UNCHANGED recoverVars

ModuledataSpec ==
    /\ ModuledataInit
    /\ [][ModuledataNext]_<<recoverVars, vars>>
    /\ WF_recoverVars(RecoverNext)
=============================================================================
