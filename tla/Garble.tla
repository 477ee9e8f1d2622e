--------------------------------- MODULE Garble ---------------------------------
(***************************************************************************)
(* garble (src/src/garble/mod.rs) with the structural detector it fuses    *)
(* (src/src/output/mod.rs): is a binary obfuscated, told from the pclntab  *)
(* magic, the version string and the shapes of its names; and garble's own *)
(* dictionary of reflected names, found in the data sections.  Names come  *)
(* as shapes with a count for each; the dictionary's strings as ranks in   *)
(* byte order.  Ratios are compared in integers: f32 rounding is left out. *)
(***************************************************************************)
EXTENDS Integers, Sequences, FiniteSets, FiniteSetsExt

CONSTANTS
    MIN_SAMPLE,         \* names detect wants to see
    MinUser,            \* names detect_garble wants to see
    MIN_NAME_PAIRS,
    Identifier          \* ranks of the strings that can be a key

VARIABLES
    data,       \* the data sections as eight-byte cells: the rank of the string a cell
                \* points to, Length for a cell that is a string's length, or Other;
                \* none of a 32-bit binary, which the search turns away
    sec, off,   \* where the scan for the dictionary stands
    best        \* the dictionary found so far, as pairs

garbleVars == <<data, sec, off, best>>

Length == 0
Other == -1

-----------------------------------------------------------------------------
(* A name's shape: the family its prefix puts it in; the length of the     *)
(* package before the last dot, -1 without a dot; the length of the rest,  *)
(* whether that is [A-Za-z0-9_] only, begins like an identifier, and mixes *)
(* cases or has an underscore; whether there is a slash or a double dot.   *)
Runtime == {"runtime.", "reflect.", "type:", "type..", "go:", "go.", "gcWriteBarrier", "$f64.", "$f32."}
Standard == {"runtime.", "internal/", "sync.", "syscall.", "type:", "go:"}

is_user_space(n) == n.family \notin Runtime /\ ~n.slash /\ ~n.dots

Dotless(n) == n.pkg = -1
looks_like_garbled_identifier(n) == n.base \in 3 .. 9 /\ n.letter /\ n.plain /\ n.mixed
looks_garbled(n) == n.base <= 10 /\ n.plain /\ ~n.slash /\ n.pkg < 16 /\ n.base < 8

Total(S, counts) == MapThenSumSet(LAMBDA n : counts[n], S)

\* mean in [3, 9] and standard deviation below 2.5
Uniform(S, counts) ==
    LET n == Total(S, counts)
        sum == MapThenSumSet(LAMBDA m : counts[m] * m.base, S)
        squares == MapThenSumSet(LAMBDA m : counts[m] * m.base * m.base, S)
    IN  /\ n > 0
        /\ 3 * n <= sum
        /\ sum <= 9 * n
        /\ 4 * (n * squares - sum * sum) < 25 * n * n

\* detect: H1 and H2 decide; H3 only adds to a confidence, here in hundredths.
detect(counts) ==
    LET user == {n \in DOMAIN counts : is_user_space(n)}
        dotless == {n \in user : Dotless(n)}
        total == Total(user, counts)
        bare == Total(dotless, counts)
        short == Total({n \in dotless : looks_like_garbled_identifier(n)}, counts)
        h1 == 2 * bare >= total
    IN  IF total < MIN_SAMPLE THEN [is_garbled |-> FALSE, confidence |-> 0]
        ELSE IF h1 /\ Uniform(dotless, counts)
        THEN [is_garbled |-> TRUE, confidence |-> IF 10 * short >= 6 * bare THEN 95 ELSE 90]
        ELSE [is_garbled |-> FALSE,
              confidence |-> IF 50 * bare < 49 * total THEN (50 * bare) \div total ELSE 49]

\* detect_go_version: the first place that reads "go1." and runs on for 5 to 20
\* characters; given the lengths such places run to.
NoVersion == 0
detect_go_version(runs) ==
    LET ok == {k \in DOMAIN runs : runs[k] \in 5 .. 20}
    IN  IF ok = {} THEN NoVersion ELSE runs[Min(ok)]

\* output::detect_garble; without enough names there is no hashed ratio.
detect_garble(counts, version, official) ==
    LET user == {n \in DOMAIN counts : n.family \notin Standard}
    IN  [magic_rewritten |-> ~official,
         version_overwritten |-> version < 6,
         evaluated |-> Total(user, counts) >= MinUser,
         hashed |-> Total({n \in user : looks_garbled(n)}, counts),
         user |-> Total(user, counts)]

HashedRatio(r) == r.evaluated /\ r.user > 0 /\ r.hashed * 5 > r.user * 2

\* GarbleReport::verdict: the magic counts double.
report_verdict(r) ==
    (IF r.magic_rewritten THEN 2 ELSE 0) + (IF r.version_overwritten THEN 1 ELSE 0)
      + (IF HashedRatio(r) THEN 1 ELSE 0) >= 2

Assessment(verdict, confidence) == [verdict |-> verdict, confidence |-> confidence]

\* Mutant of assess: two signals are not enough to warn.
AssessMeekly(counts, version, official) ==
    LET r == detect_garble(counts, version, official)
        votes == <<r.magic_rewritten, r.version_overwritten, HashedRatio(r), detect(counts).is_garbled>>
        fired == Cardinality({k \in 1 .. 4 : votes[k]})
    IN  IF r.magic_rewritten THEN Assessment("Garbled", 100)
        ELSE IF fired >= 2 THEN Assessment("Garbled", IF fired = 2 THEN 70 ELSE 90)
        ELSE Assessment("Clean", 100 - 20 * fired)

\* Mutant of assess: the magic and the version do not count as evaluated.
AssessByNames(counts, version, official) ==
    LET r == detect_garble(counts, version, official)
        votes == <<r.magic_rewritten, r.version_overwritten, HashedRatio(r), detect(counts).is_garbled>>
        fired == Cardinality({k \in 1 .. 4 : votes[k]})
        evaluable == IF r.evaluated THEN 2 ELSE 1
    IN  IF r.magic_rewritten THEN Assessment("Garbled", 100)
        ELSE IF fired >= 2 THEN Assessment("Garbled", 75)
        ELSE IF evaluable < 2 THEN Assessment("Indeterminate", 0)
        ELSE Assessment("Clean", 100 - 20 * fired)

assess(counts, version, official) ==
    LET r == detect_garble(counts, version, official)
        votes == <<r.magic_rewritten, r.version_overwritten, HashedRatio(r), detect(counts).is_garbled>>
        fired == Cardinality({k \in 1 .. 4 : votes[k]})
        evaluable == IF r.evaluated THEN 4 ELSE 3
    IN  IF r.magic_rewritten THEN Assessment("Garbled", 100)
        ELSE IF fired >= 2
        THEN Assessment("Garbled", IF fired = 2 THEN 75 ELSE IF fired = 3 THEN 90 ELSE 95)
        ELSE IF evaluable < 2 THEN Assessment("Indeterminate", 0)
        ELSE Assessment("Clean", 100 - 20 * fired)

exit_code(a) == CASE a.verdict = "Garbled" -> 0 [] a.verdict = "Clean" -> 1 [] OTHER -> 2

\* maybe_warn_garbled, unless it is suppressed
Warns(a) == a.verdict = "Garbled" /\ a.confidence >= 75

-----------------------------------------------------------------------------
(* recover_reflect_names: runs of string headers, and in each the longest  *)
(* stretch of pairs whose keys are identifiers in ascending order.         *)
Idle == data = <<>> /\ sec = 1 /\ off = 1 /\ best = <<>>
Start(cells) == data' = cells /\ sec' = 1 /\ off' = 1 /\ best' = <<>>

Header(s, o) == o + 1 <= Len(data[s]) /\ data[s][o] > 0 /\ data[s][o + 1] = Length

\* The one run of headers that begins at o, as the ranks of its strings.
Runs(s, o) ==
    {[k \in 1 .. n |-> data[s][o + 2 * (k - 1)]] :
       n \in {n \in 1 .. Len(data[s]) \div 2 :
               (\A k \in 0 .. n - 1 : Header(s, o + 2 * k)) /\ ~Header(s, o + 2 * n)}}

Pairs(run, align) ==
    [k \in 1 .. (Len(run) - align) \div 2 |-> <<run[align + 2 * k - 1], run[align + 2 * k]>>]

IsKey(p) == p[1] \in Identifier

\* A stretch goes on at k: from a key to one above it.
GoesOn(pairs, k) == IsKey(pairs[k]) /\ IsKey(pairs[k + 1]) /\ pairs[k][1] < pairs[k + 1][1]

Ascends(pairs, j, k) == IsKey(pairs[j]) /\ \A m \in j .. k - 1 : GoesOn(pairs, m)

\* The stretches of one alignment the walk stops at: as far as they go, and of length enough.
Stretches(run, align) ==
    LET pairs == Pairs(run, align)
        stops == {e \in (1 .. Len(pairs)) \X (1 .. Len(pairs)) :
                    /\ e[2] - e[1] + 1 >= MIN_NAME_PAIRS
                    /\ e[1] = 1 \/ ~GoesOn(pairs, e[1] - 1)
                    /\ e[2] = Len(pairs) \/ ~GoesOn(pairs, e[2])
                    /\ Ascends(pairs, e[1], e[2])}
    IN  {<<align, e[1], e[2]>> : e \in stops}

\* Mutant of Found: only the even alignment is tried.
FoundAligned(run) == Stretches(run, 0)

\* What pairs_from_run has to choose from.
Found(run) == Stretches(run, 0) \cup Stretches(run, 1)

Size(e) == e[3] - e[2] + 1

\* It takes the longest, the first of the longest.
Preferred(e, f) ==
    \/ Size(e) > Size(f)
    \/ Size(e) = Size(f) /\ (e[1] < f[1] \/ (e[1] = f[1] /\ e[2] <= f[2]))

NextSection ==
    /\ sec <= Len(data)
    /\ off + 1 > Len(data[sec])
    /\ sec' = sec + 1
    /\ off' = 1
    /\ UNCHANGED <<data, best>>

NoHeader ==
    /\ sec <= Len(data)
    /\ off + 1 <= Len(data[sec])
    /\ ~Header(sec, off)
    /\ off' = off + 1
    /\ UNCHANGED <<data, sec, best>>

\* Mutant of Past: the last header is looked at again.
PastAllButLast(o, run) == o + 2 * (Len(run) - 1)

\* Where the scan goes on behind a run.
Past(o, run) == o + 2 * Len(run)

TakeRun ==
    /\ sec <= Len(data)
    /\ \E run \in Runs(sec, off) :
         /\ \/ \E e \in Found(run) :
                 /\ Size(e) > Len(best)
                 /\ \A f \in Found(run) : Preferred(e, f)
                 /\ best' = SubSeq(Pairs(run, e[1]), e[2], e[3])
            \/ /\ \A e \in Found(run) : Size(e) <= Len(best)
               /\ UNCHANGED best
         /\ off' = Past(off, run)
    /\ UNCHANGED <<data, sec>>

Scan == NextSection \/ NoHeader \/ TakeRun
Scanned == sec > Len(data)

\* relabel: each token of a name the dictionary knows gives way to its original.
relabel(tokens, dictionary) ==
    [k \in DOMAIN tokens |->
        LET known == {m \in DOMAIN dictionary : dictionary[m][1] = tokens[k]}
        IN  IF known = {} THEN tokens[k] ELSE dictionary[Min(known)][2]]

-----------------------------------------------------------------------------
\* What the dictionary's finder relies on: nothing else in the data sections reads as a
\* climbing column of that many identifiers.  A window of headers that overlaps none of the
\* planted table's own pairings, or pairs them wrongly, is a rival.
Rival(s, o, n) ==
    /\ \A k \in 0 .. 2 * n - 1 : Header(s, o + 2 * k)
    /\ Ascends([k \in 1 .. n |-> <<data[s][o + 4 * (k - 1)], 0>>], 1, n)

\* The place of a table: its section, its first cell and its pairs.
Planted(t) ==
    /\ t.sec \in DOMAIN data /\ t.off \in DOMAIN data[t.sec]
    /\ Len(t.pairs) >= MIN_NAME_PAIRS
    /\ \A k \in DOMAIN t.pairs :
         LET o == t.off + 4 * (k - 1)
         IN  /\ Header(t.sec, o) /\ data[t.sec][o] = t.pairs[k][1]
             /\ Header(t.sec, o + 2) /\ data[t.sec][o + 2] = t.pairs[k][2]
    /\ Ascends(t.pairs, 1, Len(t.pairs))

Unrivalled(t) ==
    \A s \in DOMAIN data : \A o \in 1 .. Len(data[s]) :
      ~(/\ s # t.sec \/ (o - t.off) % 4 # 0 \/ o + 4 * Len(t.pairs) <= t.off
             \/ o >= t.off + 4 * Len(t.pairs)
        /\ Rival(s, o, Len(t.pairs)))

\* Every name of a table garble planted is recovered, whatever headers lie around it and
\* however its section is aligned, as long as no other stretch of the data is as long.
TableRecovered(t) ==
    Planted(t) /\ Unrivalled(t) => \A k \in DOMAIN t.pairs : \E m \in DOMAIN best : best[m] = t.pairs[k]
=============================================================================
