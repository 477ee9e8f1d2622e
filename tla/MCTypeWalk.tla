------------------------------ MODULE MCTypeWalk ------------------------------
(* A region with room for three headers, at 2, 4 and 6; a pointer into the middle
   of one (5) and to either side of the region (0, 9); self-referential, cyclic
   and repeated children. *)
EXTENDS TypeWalk

MCAddr == {0, 9} \cup types .. etypes
Kids == {<<>>, <<2>>, <<6>>, <<5>>, <<4, 6>>, <<6, 6, 4>>, <<9, 6, 4>>, <<0, 4, 4, 4, 6>>}

Binaries(full, scannable, plausible) ==
    [refused : {FALSE},
     typelinks : {<<>>, <<2>>, <<4>>, <<4, 2>>, <<9, 2>>, <<2, 2, 4, 0>>},
     parses : {{2, 4, 6}, {2, 4, 5, 6, 9}, {2, 6}},
     children : {[a \in MCAddr |-> CASE a = 2 -> k [] a = 4 -> l [] a = 5 -> m [] OTHER -> <<>>] :
                    k, l \in Kids, m \in {<<>>, <<2, 6>>}},
     plausible : plausible, scannable : {scannable}, full : {full}]

MCTypeInputs ==
    Binaries(FALSE, TRUE, {{}}) \cup Binaries(TRUE, TRUE, {{2, 4, 6}, {3, 5, 6, 7}})
        \cup {[b EXCEPT !.scannable = FALSE] : b \in Binaries(TRUE, TRUE, {{4}})}
        \cup {[b EXCEPT !.refused = TRUE] : b \in Binaries(TRUE, TRUE, {{6}})}
=============================================================================
