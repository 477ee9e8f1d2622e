------------------------------- MODULE PcValue -------------------------------
(***************************************************************************)
(* Go's pc-value tables, and the three readers the code has of them:       *)
(* pcvalue_at and first_pcvalue (src/src/pclntab/mod.rs) and max_pcvalue   *)
(* (src/src/inline/mod.rs).                                                *)
(*                                                                         *)
(* A stream is a sequence of records [dv, dpc], what the two varints of a  *)
(* record decode to.  Bytes that stop early or do not decode end the       *)
(* sequence: every reader treats both the same way, and a value delta      *)
(* whose pc delta is missing is not a record to any of them.               *)
(***************************************************************************)
EXTENDS Integers, Sequences, FiniteSetsExt

CONSTANT Wrap       \* 2^32: pcs are u32 and wrap

ASSUME WrapAssumption == Wrap \in Nat \ {0}

\* Value and pc after each record; the value starts at -1, the pc at 0.
ValueAfter(s) ==
    LET v[k \in 0 .. Len(s)] == IF k = 0 THEN -1 ELSE v[k - 1] + s[k].dv IN v

PcAfter(s) ==
    LET p[k \in 0 .. Len(s)] ==
          IF k = 0 THEN 0 ELSE (p[k - 1] + s[k].dpc) % Wrap
    IN p

\* A zero value delta ends the stream, except in the first run, at pc 0.
Terminators(s) == LET pc == PcAfter(s) IN {k \in DOMAIN s : s[k].dv = 0 /\ pc[k - 1] # 0}

\* The records before the terminator.
Records(s) == LET ends == Terminators(s) IN {k \in DOMAIN s : \A j \in ends : k < j}

\* The value of the first run whose end lies past target, -1 when there is none.
\* pc deltas count as they stand: the code's quantum is the constant 1.
pcvalue_at(s, target) ==
    LET pc       == PcAfter(s)
        covering == {k \in Records(s) : target < pc[k]}
    IN IF covering = {} THEN -1 ELSE ValueAfter(s)[Min(covering)]

\* The value at function entry, as the set of it; {} is None, for a first delta 0.
first_pcvalue(s) == {-1 + s[k].dv : k \in {j \in {1} \cap DOMAIN s : s[j].dv # 0}}

\* Mutant of max_pcvalue: the limit is applied before the run's value counts.
max_pcvalue_early(s, limit) ==
    LET pc   == PcAfter(s)
        v    == ValueAfter(s)
        read == {k \in Records(s) : \A j \in 1 .. k : pc[j] < limit}
    IN Max({-1} \cup {v[k] : k \in read})

\* The greatest value up to and including the first record that reaches limit.
max_pcvalue(s, limit) ==
    LET pc   == PcAfter(s)
        v    == ValueAfter(s)
        read == {k \in Records(s) : \A j \in 1 .. k - 1 : pc[j] < limit}
    IN Max({-1} \cup {v[k] : k \in read})

-----------------------------------------------------------------------------
\* Reference, from the format the comment above pcvalue_at states: each record
\* advances pc by its delta times the header's quantum, and its value holds from
\* the end of the run before it to the end of its own.
RunEnd(s, quantum) ==
    LET e[k \in 0 .. Len(s)] == IF k = 0 THEN 0 ELSE e[k - 1] + quantum * s[k].dpc
    IN e

RuntimeValueAt(s, target, quantum) ==
    LET end == RunEnd(s, quantum)
        run == {k \in DOMAIN s : end[k - 1] <= target /\ target < end[k]
                                 /\ \A j \in 2 .. k : s[j].dv # 0}
    IN IF run = {} THEN -1 ELSE ValueAfter(s)[CHOOSE k \in run : TRUE]

\* A stream as the Go linker writes it: non-empty runs, each with a new value.
WellFormedStream(s) ==
    \A k \in DOMAIN s : s[k].dpc > 0 /\ (k > 1 => s[k].dv # 0)
=============================================================================
