---------------------------- MODULE MCInlineWalk ----------------------------
(* Streams of up to three records, trees of up to three entries with call sites
   anywhere in or just past the function: cycles, self-parents, terminators in
   the middle, short arrays and an index at the cap all occur. *)
EXTENDS InlineWalk

MCRecords == [dv : -2 .. 2, dpc : 1 .. 2]
MCStreams == {<<>>} \cup {<<a>> : a \in MCRecords} \cup {<<a, b>> : a, b \in MCRecords}
               \cup {<<a, b, c>> : a, b, c \in [dv : -2 .. 2, dpc : {1}]}
MCTrees   == {<<>>} \cup {<<a, b, c>> : a, b, c \in -1 .. 3} \cup {<<a>> : a \in -1 .. 3}
               \cup {<<-1, 0, 1, a>> : a \in -1 .. 3}
=============================================================================
