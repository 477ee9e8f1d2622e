------------------------------ MODULE MCFunctab ------------------------------
(* A model instance for Functab: every table of up to MaxFuncs entries and a sentinel,
   sorted or not, every claimed nfunc, and every query. One _func record may
   fail to decode. *)
EXTENDS Functab

MCInit ==
    /\ textStart \in {0, 1}
    /\ layout \in Layouts
    /\ gofunc \in BOOLEAN
    /\ ~gofunc => layout = "modern" /\ textStart = 0
    /\ avail \in 0 .. MaxFuncs + 1
    /\ \E i \in 0 .. avail : decodable = (0 .. avail - 1) \ {i}
    /\ Init

MCSpec == MCInit /\ [][Next]_vars /\ WF_vars(Next)
=============================================================================
