------------------------------- MODULE CliProofs -------------------------------
(* The program's commands: what --diff pairs, for all builds it can be given, and
   what a session of commands does to files, for all scripts. *)
EXTENDS Cli, Basics, SequenceTheorems, FiniteSetTheorems

-----------------------------------------------------------------------------
(* The matching of --diff.  Where the tables of both builds give each address
   once, the passes compute the matching that has no order. *)

\* What the matching leaves unpaired of either build after its three rounds.
Old(b) == Abstract!Funs(b.old)
New(b) == Abstract!Funs(b.new)
Old1(b) == Abstract!Unspotted(Old(b), New(b))
New1(b) == Abstract!Unspotted(New(b), Old(b))
MovedPairs(b) == Abstract!Pairs(Old1(b), New1(b), "name")
Old2(b) == {f \in Old1(b) : \A e \in MovedPairs(b) : e[1] # f}
New2(b) == {g \in New1(b) : \A e \in MovedPairs(b) : e[2] # g}
RenamedPairs(b) == IF b.signed THEN Abstract!Pairs(Old2(b), New2(b), "sig") ELSE {}
Old3(b) == {f \in Old2(b) : \A e \in RenamedPairs(b) : e[1] # f}
New3(b) == {g \in New2(b) : \A e \in RenamedPairs(b) : e[2] # g}

Addresses(S) == {f.address : f \in S}
Firsts(P) == {e[1] : e \in P}
Seconds(P) == {e[2] : e \in P}

\* What each round reports.
SameReport(S) == {Pairing("Identical", f.address, f.address) : f \in S}
PairReport(kind, P) == {Pairing(kind, e[1].address, e[2].address) : e \in P}
RemovedReport(S) == {Pairing("Removed", f.address, None) : f \in S}
AddedReport(S) == {Pairing("Added", None, g.address) : g \in S}

After1(b) == SameReport(Old(b) \ Old1(b))
After2(b) == After1(b) \cup PairReport("Moved", MovedPairs(b))
After3(b) == After2(b) \cup PairReport("Renamed", RenamedPairs(b))

LEMMA ExpectedParts ==
  ASSUME NEW b
  PROVE  Abstract!Expected(b) = After3(b) \cup RemovedReport(Old3(b)) \cup AddedReport(New3(b))
  BY DEF Abstract!Expected, Abstract!Pairing, Pairing, Old, New, Old1, New1, MovedPairs, Old2, New2, RenamedPairs, Old3, New3,
     SameReport, PairReport, RemovedReport, AddedReport, After1, After2, After3

\* In a table that gives each address once, the address tells the function.
LEMMA AddressTells ==
  ASSUME NEW fns \in Seq(Function), Distinct(fns),
         NEW f \in Abstract!Funs(fns), NEW g \in Abstract!Funs(fns), f.address = g.address
  PROVE  f = g
  BY DEF Distinct, Abstract!Funs

-----------------------------------------------------------------------------
(* The indexes of passes 2 and 3.                                          *)

\* The functions of S that are the only ones with their key.
Sole(S, field) == {f \in S : f[field] # NoSig /\ Abstract!Only(S, f, field)}

IsIndex(by, S, field) ==
    /\ DOMAIN by = {f[field] : f \in Sole(S, field)}
    /\ \A f \in Sole(S, field) : by[f[field]] = f.address

\* unique_name_index and unique_sig_index hold the functions that are alone with their key.
LEMMA IndexFacts ==
  ASSUME NEW fns \in Seq(Function), Distinct(fns), NEW matched, NEW field,
         NEW S, S = {f \in Abstract!Funs(fns) : f.address \notin matched}
  PROVE  IsIndex(Index(fns, matched, field), S, field)
<1> DEFINE open == {k \in Open(fns, matched) : fns[k][field] # NoSig}
           sole == {k \in open : \A m \in open \ {k} : fns[m][field] # fns[k][field]}
<1>1. Index(fns, matched, field) =
        [key \in {fns[k][field] : k \in sole} |-> fns[CHOOSE k \in sole : fns[k][field] = key].address]
  BY DEF Index
<1>2. \A k \in DOMAIN fns : fns[k] \in Abstract!Funs(fns)
  BY DEF Abstract!Funs
<1>3. \A k \in open : fns[k] \in S /\ fns[k][field] # NoSig
  BY <1>2 DEF Open
<1>4. \A f \in S : f[field] # NoSig => \E k \in open : fns[k] = f
  BY DEF Open, Abstract!Funs
<1>5. \A k, m \in open : fns[k] = fns[m] => k = m
  BY DEF Open, Distinct
<1>6. ASSUME NEW k \in sole PROVE fns[k] \in Sole(S, field)
  <2>1. ASSUME NEW g \in S, g[field] = fns[k][field] PROVE g = fns[k]
    <3>1. PICK m \in open : fns[m] = g
      BY <1>3, <1>4, <2>1
    <3>2. QED
      BY <2>1, <3>1
  <2>2. QED
    BY <1>3, <2>1 DEF Sole, Abstract!Only
<1>7. ASSUME NEW f \in Sole(S, field) PROVE \E k \in sole : fns[k] = f
  <2>1. PICK k \in open : fns[k] = f
    BY <1>4 DEF Sole
  <2>2. ASSUME NEW m \in open \ {k}, fns[m][field] = fns[k][field] PROVE FALSE
    <3>1. fns[m] = f
      BY <1>3, <2>1, <2>2 DEF Sole, Abstract!Only
    <3>2. QED
      BY <1>5, <2>1, <2>2, <3>1
  <2>3. QED
    BY <2>1, <2>2
<1> HIDE DEF sole
<1>8. ASSUME NEW f \in Sole(S, field) PROVE fns[CHOOSE k \in sole : fns[k][field] = f[field]] = f
  <2> DEFINE c == CHOOSE k \in sole : fns[k][field] = f[field]
  <2>1. \E k \in sole : fns[k][field] = f[field]
    BY <1>7
  <2>2. c \in sole /\ fns[c][field] = f[field]
    BY <2>1
  <2> HIDE DEF c
  <2>3. fns[c] \in Sole(S, field)
    BY <1>6, <2>2
  <2>4. fns[c] = f
    BY <2>2, <2>3 DEF Sole, Abstract!Only
  <2>5. QED
    BY <2>4 DEF c
<1>9. {fns[k][field] : k \in sole} = {f[field] : f \in Sole(S, field)}
  BY <1>6, <1>7
<1> DEFINE by == Index(fns, matched, field)
           keys == {fns[k][field] : k \in sole}
<1>10. by = [key \in keys |-> fns[CHOOSE k \in sole : fns[k][field] = key].address]
  BY <1>1
<1> HIDE DEF by
<1>11. ASSUME NEW f \in Sole(S, field) PROVE by[f[field]] = f.address
  <2>1. f[field] \in keys
    BY <1>9
  <2> HIDE DEF keys
  <2>2. by[f[field]] = fns[CHOOSE k \in sole : fns[k][field] = f[field]].address
    BY <1>10, <2>1
  <2>3. QED
    BY <1>8, <2>2
<1>12. DOMAIN by = keys
  BY <1>10
<1>13. QED
  BY <1>9, <1>11, <1>12 DEF IsIndex, by

\* The pairs of a pass whose keys have been looked at.
Looked(A, B, field, D) == {e \in Abstract!Pairs(A, B, field) : e[1][field] \in D}

\* A key in both indexes stands for one pair, a key in one for none.
LEMMA KeyPair ==
  ASSUME NEW A, NEW B, NEW field, NEW ob, NEW nb, IsIndex(ob, A, field), IsIndex(nb, B, field), NEW key \in DOMAIN ob
  PROVE  /\ key \in DOMAIN nb =>
              \E f \in A, g \in B : /\ f[field] = key /\ g[field] = key
                                    /\ ob[key] = f.address /\ nb[key] = g.address
                                    /\ Looked(A, B, field, {key}) = {<<f, g>>}
         /\ key \notin DOMAIN nb => Looked(A, B, field, {key}) = {}
<1>1. PICK f \in Sole(A, field) : f[field] = key /\ ob[key] = f.address
  BY DEF IsIndex
<1>2. \A e \in Looked(A, B, field, {key}) :
        /\ e \in A \X B /\ e[1][field] = key /\ e[2][field] = key /\ e = <<e[1], e[2]>>
        /\ e[1] \in Sole(A, field) /\ e[2] \in Sole(B, field)
  BY DEF Looked, Abstract!Pairs, Sole
<1>3. \A x \in Sole(A, field) : x[field] = key => x = f
  BY <1>1 DEF Sole, Abstract!Only
<1>4. ASSUME key \in DOMAIN nb
      PROVE  \E x \in A, g \in B : /\ x[field] = key /\ g[field] = key
                                   /\ ob[key] = x.address /\ nb[key] = g.address
                                   /\ Looked(A, B, field, {key}) = {<<x, g>>}
  <2>1. PICK g \in Sole(B, field) : g[field] = key /\ nb[key] = g.address
    BY <1>4 DEF IsIndex
  <2>2. \A x \in Sole(B, field) : x[field] = key => x = g
    BY <2>1 DEF Sole, Abstract!Only
  <2> DEFINE p == <<f, g>>
  <2>3. p \in A \X B /\ p[1] = f /\ p[2] = g
    BY <1>1, <2>1 DEF Sole
  <2>4. p \in Looked(A, B, field, {key})
    <3> HIDE DEF p
    <3> QED  BY <1>1, <2>1, <2>3 DEF Looked, Abstract!Pairs, Sole
  <2>5. \A e \in Looked(A, B, field, {key}) : e = p
    BY <1>2, <1>3, <2>2
  <2>6. Looked(A, B, field, {key}) = {p}
    BY <2>4, <2>5
  <2>7. QED
    BY <1>1, <2>1, <2>6 DEF Sole
<1>5. ASSUME key \notin DOMAIN nb PROVE Looked(A, B, field, {key}) = {}
  <2>1. ASSUME NEW e \in Looked(A, B, field, {key}) PROVE FALSE
    <3>1. e[2] \in Sole(B, field) /\ e[2][field] = key
      BY <1>2
    <3>2. QED
      BY <1>5, <3>1 DEF IsIndex
  <2>2. QED
    BY <2>1
<1>6. QED
  BY <1>4, <1>5

-----------------------------------------------------------------------------
(* The types of compute's state.                                           *)
Kind == {"Identical", "Moved", "Renamed", "Removed", "Added"}
PairingType == [kind : Kind, old : Address \cup {None}, new : Address \cup {None}]

\* An index holds addresses.
Addressed(by) == \A key \in DOMAIN by : by[key] \in Address

DiffTypes ==
    /\ in \in Input
    /\ pairings \in Seq(PairingType)
    /\ matched_old \subseteq Address /\ matched_new \subseteq Address
    /\ left \subseteq DOMAIN old_by /\ Addressed(old_by) /\ Addressed(new_by)
    /\ phase \in {"idle", "identical", "moved", "renamed", "removed", "added", "done"}
    /\ phase \in {"identical", "removed"} => i \in 1 .. Len(in.old) + 1
    /\ phase = "added" => i \in 1 .. Len(in.new) + 1

\* The builds are two tables.
LEMMA InputFacts ==
  ASSUME NEW b \in Input
  PROVE  /\ b.old \in Seq(Function) /\ b.new \in Seq(Function)
         /\ Len(b.old) \in Nat /\ Len(b.new) \in Nat
         /\ DOMAIN b.old = 1 .. Len(b.old) /\ DOMAIN b.new = 1 .. Len(b.new)
         /\ \A k \in DOMAIN b.old : b.old[k] \in Function /\ b.old[k].address \in Address
         /\ \A k \in DOMAIN b.new : b.new[k] \in Function /\ b.new[k].address \in Address
<1>1. b.old \in Seq(Function) /\ b.new \in Seq(Function)
  BY DEF Input
<1>2. \A f \in Function : f.address \in Address
  BY DEF Function
<1>3. \A k \in DOMAIN b.old : b.old[k] \in Function
  BY <1>1
<1>4. \A k \in DOMAIN b.new : b.new[k] \in Function
  BY <1>1
<1>5. QED
  BY <1>1, <1>2, <1>3, <1>4

\* What an index holds comes from its table.
LEMMA IndexTypes ==
  ASSUME NEW fns \in Seq(Function), NEW matched, NEW field
  PROVE  Addressed(Index(fns, matched, field))
<1> DEFINE open == {k \in Open(fns, matched) : fns[k][field] # NoSig}
           sole == {k \in open : \A m \in open \ {k} : fns[m][field] # fns[k][field]}
           keys == {fns[k][field] : k \in sole}
           by == Index(fns, matched, field)
<1>1. by = [key \in keys |-> fns[CHOOSE k \in sole : fns[k][field] = key].address]
  BY DEF Index
<1>2. \A k \in sole : fns[k].address \in Address
  <2>1. sole \subseteq DOMAIN fns
    BY DEF Open
  <2>2. \A k \in DOMAIN fns : fns[k] \in Function
    OBVIOUS
  <2>3. \A f \in Function : f.address \in Address
    BY DEF Function
  <2>4. QED
    BY <2>1, <2>2, <2>3
<1> HIDE DEF sole, by
<1>3. ASSUME NEW key \in keys PROVE by[key] \in Address
  <2> DEFINE c == CHOOSE k \in sole : fns[k][field] = key
  <2>1. c \in sole
    BY <1>3
  <2>2. by[key] = fns[c].address
    <3> HIDE DEF keys
    <3> QED  BY <1>1, <1>3
  <2> HIDE DEF c
  <2>3. QED
    BY <1>2, <2>1, <2>2
<1>4. DOMAIN by = keys
  BY <1>1
<1>5. QED
  BY <1>3, <1>4 DEF Addressed, by

\* The report as a set, and its two columns.
Report == {pairings[k] : k \in DOMAIN pairings}
Olds == {pairings[k].old : k \in DOMAIN pairings}
News == {pairings[k].new : k \in DOMAIN pairings}

Once ==
    \A k, n \in DOMAIN pairings :
      /\ pairings[k].old = pairings[n].old /\ pairings[k].old # None => k = n
      /\ pairings[k].new = pairings[n].new /\ pairings[k].new # None => k = n

\* A pairing more.
LEMMA OneMore ==
  ASSUME pairings \in Seq(PairingType), NEW p \in PairingType, pairings' = Append(pairings, p)
  PROVE  /\ pairings' \in Seq(PairingType)
         /\ Report' = Report \cup {p}
         /\ Olds' = Olds \cup {p.old}
         /\ News' = News \cup {p.new}
         /\ Once /\ (p.old = None \/ p.old \notin Olds) /\ (p.new = None \/ p.new \notin News) => Once'
<1> DEFINE n == Len(pairings)
<1>1. /\ pairings' \in Seq(PairingType) /\ n \in Nat /\ DOMAIN pairings = 1 .. n /\ DOMAIN pairings' = 1 .. n + 1
      /\ \A k \in 1 .. n : pairings'[k] = pairings[k]
      /\ pairings'[n + 1] = p
  BY AppendFacts
<1>2. \A k \in DOMAIN pairings' : k \in DOMAIN pairings \/ k = n + 1
  BY <1>1
<1>3. (\A k \in DOMAIN pairings : k \in DOMAIN pairings' /\ pairings'[k] = pairings[k]) /\ n + 1 \in DOMAIN pairings'
  BY <1>1
<1> HIDE DEF n
<1>4. Report' = Report \cup {p}
  BY <1>1, <1>2, <1>3 DEF Report
<1>5. Olds' = Olds \cup {p.old}
  BY <1>1, <1>2, <1>3 DEF Olds
<1>6. News' = News \cup {p.new}
  BY <1>1, <1>2, <1>3 DEF News
<1>7. ASSUME Once, p.old = None \/ p.old \notin Olds, p.new = None \/ p.new \notin News PROVE Once'
  BY <1>1, <1>2, <1>3, <1>7 DEF Once, Olds, News
<1>8. QED
  BY <1>1, <1>4, <1>5, <1>6, <1>7

\* The same pairings, the same report.
LEMMA NoMore ==
  ASSUME pairings' = pairings
  PROVE  Report' = Report /\ Olds' = Olds /\ News' = News /\ (Once => Once')
  BY DEF Report, Olds, News, Once

LEMMA PairingTypes ==
  ASSUME NEW kind \in Kind, NEW o \in Address \cup {None}, NEW n \in Address \cup {None}
  PROVE  Pairing(kind, o, n) \in PairingType
  BY DEF Pairing, PairingType

\* Every step of compute keeps the types.
LEMMA StepTypes ==
  ASSUME DiffTypes, Step
  PROVE  DiffTypes'
<1>1. in' = in /\ in.old \in Seq(Function) /\ in.new \in Seq(Function) /\ Len(in.old) \in Nat /\ Len(in.new) \in Nat
  BY InputFacts
  DEF DiffTypes, Step, Identical, BeginMoved, Moved, BeginRenamed, Renamed, BeginRemoved, Removed, BeginAdded, Added, Finish, Match
<1>2. CASE Identical
  <2> DEFINE f == in.old[i]
  <2>1. i \in 1 .. Len(in.old) /\ f.address \in Address
    BY <1>2, InputFacts DEF Identical, DiffTypes
  <2>2. /\ matched_new' \in {matched_new, matched_new \cup {f.address}} /\ matched_old' \in {matched_old, matched_old \cup {f.address}}
        /\ pairings' \in {pairings, Append(pairings, Pairing("Identical", f.address, f.address))}
        /\ i' = i + 1 /\ left' = left /\ old_by' = old_by /\ new_by' = new_by /\ phase' = phase /\ phase = "identical"
    BY <1>2 DEF Identical
  <2>3. Pairing("Identical", f.address, f.address) \in PairingType
    BY <2>1, PairingTypes DEF Kind
  <2> HIDE DEF f
  <2>4. pairings' \in Seq(PairingType)
    BY <2>2, <2>3, AppendFacts DEF DiffTypes
  <2>5. QED
    BY <1>1, <2>1, <2>2, <2>4 DEF DiffTypes
<1>3. CASE BeginMoved \/ BeginRenamed
  <2>1. Addressed(Index(in.old, matched_old, "name")) /\ Addressed(Index(in.new, matched_new, "name"))
        /\ Addressed(Index(in.old, matched_old, "sig")) /\ Addressed(Index(in.new, matched_new, "sig"))
    BY <1>1, IndexTypes
  <2>2. /\ left' \subseteq DOMAIN old_by' /\ Addressed(old_by') /\ Addressed(new_by') /\ phase' \in {"moved", "renamed"}
        /\ matched_old' = matched_old /\ matched_new' = matched_new /\ pairings' = pairings
    BY <1>3, <2>1 DEF BeginMoved, BeginRenamed, DiffTypes
  <2>3. QED
    BY <1>1, <2>2 DEF DiffTypes, Addressed
<1>4. ASSUME NEW kind \in Kind, Match(kind), phase \in {"moved", "renamed"} PROVE DiffTypes'
  <2>1. PICK key \in left :
          /\ left' = left \ {key}
          /\ IF key \in DOMAIN new_by
             THEN /\ matched_old' = matched_old \cup {old_by[key]}
                  /\ matched_new' = matched_new \cup {new_by[key]}
                  /\ pairings' = Append(pairings, Pairing(kind, old_by[key], new_by[key]))
             ELSE UNCHANGED <<matched_old, matched_new, pairings>>
          /\ UNCHANGED <<in, i, old_by, new_by, phase>>
    BY <1>4 DEF Match
  <2>2. key \in DOMAIN new_by => old_by[key] \in Address /\ new_by[key] \in Address
    BY DEF DiffTypes, Addressed
  <2>3. pairings' \in Seq(PairingType)
    <3>1. CASE key \in DOMAIN new_by
      BY <2>1, <2>2, <3>1, PairingTypes, AppendFacts DEF DiffTypes
    <3>2. CASE key \notin DOMAIN new_by
      BY <2>1, <3>2 DEF DiffTypes
    <3>3. QED
      BY <3>1, <3>2
  <2>4. QED
    BY <1>1, <1>4, <2>1, <2>2, <2>3 DEF DiffTypes, Addressed
<1>5. CASE BeginRemoved \/ BeginAdded \/ Finish
  BY <1>1, <1>5 DEF BeginRemoved, BeginAdded, Finish, DiffTypes, Addressed
<1>6. CASE Removed
  <2>1. i \in 1 .. Len(in.old) /\ in.old[i].address \in Address
    BY <1>6, InputFacts DEF Removed, DiffTypes
  <2>2. Pairing("Removed", in.old[i].address, None) \in PairingType
    BY <2>1, PairingTypes DEF Kind
  <2>3. pairings' \in Seq(PairingType)
    BY <1>6, <2>2, AppendFacts DEF Removed, DiffTypes
  <2>4. QED
    BY <1>1, <1>6, <2>1, <2>3 DEF Removed, DiffTypes, Addressed
<1>7. CASE Added
  <2>1. i \in 1 .. Len(in.new) /\ in.new[i].address \in Address
    BY <1>7, InputFacts DEF Added, DiffTypes
  <2>2. Pairing("Added", None, in.new[i].address) \in PairingType
    BY <2>1, PairingTypes DEF Kind
  <2>3. pairings' \in Seq(PairingType)
    BY <1>7, <2>2, AppendFacts DEF Added, DiffTypes
  <2>4. QED
    BY <1>1, <1>7, <2>1, <2>3 DEF Added, DiffTypes, Addressed
<1>8. QED
  BY <1>2, <1>3, <1>4, <1>5, <1>6, <1>7 DEF Step, Moved, Renamed, Kind

LEMMA StartTypes ==
  ASSUME NEW builds \in Input, Start(builds)
  PROVE  DiffTypes'
<1>1. in' = builds /\ matched_old' = {} /\ matched_new' = {} /\ i' = 1 /\ left' = {} /\ pairings' = <<>> /\ phase' = "identical"
      /\ old_by' = <<>> /\ new_by' = <<>>
  BY DEF Start
<1>2. DOMAIN old_by' = {} /\ DOMAIN new_by' = {} /\ pairings' \in Seq(PairingType)
  BY <1>1
<1>3. Addressed(old_by') /\ Addressed(new_by')
  BY <1>2 DEF Addressed
<1>4. QED
  BY <1>1, <1>2, <1>3, InputFacts DEF DiffTypes, Addressed

LEMMA InitDiffTypes == Init => DiffTypes
<1> SUFFICES ASSUME Init PROVE DiffTypes
  OBVIOUS
<1>1. DOMAIN old_by = {} /\ DOMAIN new_by = {} /\ pairings \in Seq(PairingType)
  BY DEF Init
<1>2. NoBuilds \in Input
  <2>1. <<>> \in Seq(Function)
    OBVIOUS
  <2>2. QED
    BY <2>1 DEF NoBuilds, Input
<1>3. QED
  BY <1>1, <1>2 DEF Init, DiffTypes, Addressed

-----------------------------------------------------------------------------
(* No function is left out, whatever the tables.                           *)
Passed(fns, n) == {fns[k].address : k \in 1 .. n - 1}
Whole(fns) == {fns[k].address : k \in DOMAIN fns}

\* What is reported of either build is what is set aside, and what a last pass has passed.
Sides ==
    /\ phase = "identical" => matched_old = matched_new
    /\ phase \in {"identical", "moved", "renamed"} => Olds = matched_old /\ News = matched_new
    /\ phase = "removed" => Olds = matched_old \cup Passed(in.old, i) /\ News \ {None} = matched_new
    /\ phase = "added" => Whole(in.old) \subseteq Olds /\ News \ {None} = matched_new \cup Passed(in.new, i)
    /\ phase = "done" => Whole(in.old) \subseteq Olds /\ Whole(in.new) \subseteq News

LEMMA PassedFacts ==
  ASSUME NEW fns \in Seq(Function)
  PROVE  /\ Passed(fns, 1) = {}
         /\ \A n \in 1 .. Len(fns) : Passed(fns, n + 1) = Passed(fns, n) \cup {fns[n].address}
         /\ \A n \in Nat : n > Len(fns) => Whole(fns) \subseteq Passed(fns, n)
<1>1. Passed(fns, 1) = {}
  BY DEF Passed
<1>2. ASSUME NEW n \in 1 .. Len(fns) PROVE Passed(fns, n + 1) = Passed(fns, n) \cup {fns[n].address}
  <2>1. \A k : k \in 1 .. n + 1 - 1 <=> (k \in 1 .. n - 1 \/ k = n)
    OBVIOUS
  <2>2. QED
    BY <2>1 DEF Passed
<1>3. ASSUME NEW n \in Nat, n > Len(fns) PROVE Whole(fns) \subseteq Passed(fns, n)
  <2>1. \A k \in DOMAIN fns : k \in 1 .. n - 1
    BY <1>3
  <2>2. QED
    BY <2>1 DEF Whole, Passed
<1>4. QED
  BY <1>1, <1>2, <1>3

LEMMA PairingSides ==
  ASSUME NEW kind, NEW o, NEW n
  PROVE  Pairing(kind, o, n).old = o /\ Pairing(kind, o, n).new = n
  BY DEF Pairing

LEMMA StartSides ==
  ASSUME NEW builds \in Input, Start(builds)
  PROVE  Sides' /\ Once'
<1>1. matched_old' = {} /\ matched_new' = {} /\ pairings' = <<>> /\ phase' = "identical"
  BY DEF Start
<1>2. DOMAIN pairings' = {}
  BY <1>1
<1>3. Olds' = {} /\ News' = {} /\ Once'
  BY <1>2 DEF Olds, News, Once
<1>4. QED
  BY <1>1, <1>3 DEF Sides

\* Pass 1 reports what it sets aside.
LEMMA IdenticalSides ==
  ASSUME DiffTypes, Sides, Identical
  PROVE  Sides' /\ (Once => Once')
<1> DEFINE f == in.old[i]
           p == Pairing("Identical", f.address, f.address)
<1>1. i \in 1 .. Len(in.old) /\ f.address \in Address /\ phase' = "identical" /\ phase = "identical"
  BY InputFacts DEF Identical, DiffTypes
<1>2. p \in PairingType /\ p.old = f.address /\ p.new = f.address
  BY <1>1, PairingTypes, PairingSides DEF Kind
<1>3. matched_old = matched_new /\ Olds = matched_old /\ News = matched_new
  BY <1>1 DEF Sides
<1>4. CASE TakesTwin(f)
  <2>1. /\ matched_new' = matched_new \cup {f.address} /\ matched_old' = matched_old \cup {f.address}
        /\ pairings' = Append(pairings, p) /\ f.address \notin matched_new
    BY <1>4 DEF Identical, TakesTwin
  <2> HIDE DEF f, p
  <2>2. Olds' = Olds \cup {p.old} /\ News' = News \cup {p.new} /\ (Once => Once')
    BY <1>2, <1>3, <2>1, OneMore DEF DiffTypes
  <2>3. QED
    BY <1>1, <1>2, <1>3, <2>1, <2>2 DEF Sides
<1>5. CASE ~TakesTwin(f)
  <2>1. matched_new' = matched_new /\ matched_old' = matched_old /\ pairings' = pairings
    BY <1>5 DEF Identical
  <2>2. QED
    BY <1>1, <1>3, <2>1, NoMore DEF Sides
<1>6. QED
  BY <1>4, <1>5

\* Passes 2 and 3 report what they set aside.
LEMMA MatchSides ==
  ASSUME DiffTypes, Sides, NEW kind \in Kind, Match(kind), phase \in {"moved", "renamed"}
  PROVE  Sides'
<1>1. PICK key \in left :
        /\ IF key \in DOMAIN new_by
           THEN /\ matched_old' = matched_old \cup {old_by[key]}
                /\ matched_new' = matched_new \cup {new_by[key]}
                /\ pairings' = Append(pairings, Pairing(kind, old_by[key], new_by[key]))
           ELSE UNCHANGED <<matched_old, matched_new, pairings>>
        /\ phase' = phase
  BY DEF Match
<1>2. Olds = matched_old /\ News = matched_new
  BY DEF Sides
<1>3. CASE key \in DOMAIN new_by
  <2> DEFINE p == Pairing(kind, old_by[key], new_by[key])
  <2>1. old_by[key] \in Address /\ new_by[key] \in Address
    BY <1>3 DEF DiffTypes, Addressed
  <2>2. p \in PairingType /\ p.old = old_by[key] /\ p.new = new_by[key]
    BY <2>1, PairingTypes, PairingSides
  <2>3. pairings' = Append(pairings, p)
    BY <1>1, <1>3
  <2> HIDE DEF p
  <2>4. Olds' = Olds \cup {p.old} /\ News' = News \cup {p.new}
    BY <2>2, <2>3, OneMore DEF DiffTypes
  <2>5. QED
    BY <1>1, <1>2, <1>3, <2>2, <2>4 DEF Sides
<1>4. CASE key \notin DOMAIN new_by
  BY <1>1, <1>2, <1>4, NoMore DEF Sides
<1>5. QED
  BY <1>3, <1>4

\* The steps between passes report nothing.
LEMMA BetweenSides ==
  ASSUME DiffTypes, Sides, BeginMoved \/ BeginRenamed \/ BeginRemoved \/ BeginAdded \/ Finish
  PROVE  Sides' /\ (Once => Once')
<1>1. pairings' = pairings /\ matched_old' = matched_old /\ matched_new' = matched_new /\ in' = in
  BY DEF BeginMoved, BeginRenamed, BeginRemoved, BeginAdded, Finish
<1>2. Olds' = Olds /\ News' = News /\ (Once => Once')
  BY <1>1, NoMore
<1>3. None \notin matched_old /\ None \notin matched_new
  BY DiffAssumption DEF DiffTypes
<1>4. in.old \in Seq(Function) /\ in.new \in Seq(Function) /\ Len(in.old) \in Nat /\ Len(in.new) \in Nat
  BY InputFacts DEF DiffTypes
<1>5. CASE BeginMoved \/ BeginRenamed
  BY <1>1, <1>2, <1>5 DEF BeginMoved, BeginRenamed, Sides
<1>6. CASE BeginRemoved
  BY <1>1, <1>2, <1>3, <1>4, <1>6, PassedFacts DEF BeginRemoved, Sides
<1>7. CASE BeginAdded
  <2>1. Whole(in.old) \subseteq Passed(in.old, i)
    BY <1>4, <1>7, PassedFacts DEF BeginAdded, DiffTypes
  <2>2. QED
    BY <1>1, <1>2, <1>4, <1>7, <2>1, PassedFacts DEF BeginAdded, Sides
<1>8. CASE Finish
  <2>1. Whole(in.new) \subseteq Passed(in.new, i)
    BY <1>4, <1>8, PassedFacts DEF Finish, DiffTypes
  <2>2. QED
    BY <1>1, <1>2, <1>8, <2>1 DEF Finish, Sides
<1>9. QED
  BY <1>5, <1>6, <1>7, <1>8

\* A function that is not set aside is reported as removed,
LEMMA RemovedSides ==
  ASSUME DiffTypes, Sides, Removed
  PROVE  /\ Sides'
         /\ Once /\ Distinct(in.old) => Once'
<1> DEFINE a == in.old[i].address
           p == Pairing("Removed", a, None)
<1>1. /\ i \in 1 .. Len(in.old) /\ a \in Address /\ phase' = "removed" /\ phase = "removed" /\ i' = i + 1 /\ in' = in
      /\ matched_old' = matched_old /\ matched_new' = matched_new
  BY InputFacts DEF Removed, DiffTypes
<1>2. p \in PairingType /\ p.old = a /\ p.new = None /\ a # None
  BY <1>1, PairingTypes, PairingSides, DiffAssumption DEF Kind
<1>3. Olds = matched_old \cup Passed(in.old, i) /\ News \ {None} = matched_new
  BY <1>1 DEF Sides
<1>4. Passed(in.old, i + 1) = Passed(in.old, i) \cup {a}
  BY <1>1, InputFacts, PassedFacts DEF DiffTypes
<1>5. CASE a \in matched_old
  <2>1. pairings' = pairings
    BY <1>5 DEF Removed
  <2>2. QED
    BY <1>1, <1>3, <1>4, <1>5, <2>1, NoMore DEF Sides
<1>6. CASE a \notin matched_old
  <2>1. pairings' = Append(pairings, p)
    BY <1>6 DEF Removed
  <2>2. Distinct(in.old) => a \notin Passed(in.old, i)
    <3>1. ASSUME Distinct(in.old), NEW k \in 1 .. i - 1, in.old[k].address = a PROVE FALSE
      <4>1. k \in DOMAIN in.old /\ i \in DOMAIN in.old /\ k # i
        BY <1>1, InputFacts DEF DiffTypes
      <4>2. QED
        BY <3>1, <4>1 DEF Distinct
    <3>2. QED
      BY <3>1 DEF Passed
  <2> HIDE DEF a, p
  <2>3. /\ Olds' = Olds \cup {p.old} /\ News' = News \cup {p.new}
        /\ Once /\ (p.old = None \/ p.old \notin Olds) /\ (p.new = None \/ p.new \notin News) => Once'
    BY <1>2, <2>1, OneMore DEF DiffTypes
  <2>4. QED
    BY <1>1, <1>2, <1>3, <1>4, <1>6, <2>2, <2>3 DEF Sides
<1>7. QED
  BY <1>5, <1>6

\* or as added.
LEMMA AddedSides ==
  ASSUME DiffTypes, Sides, Added
  PROVE  /\ Sides'
         /\ Once /\ Distinct(in.new) => Once'
<1> DEFINE a == in.new[i].address
           p == Pairing("Added", None, a)
<1>1. /\ i \in 1 .. Len(in.new) /\ a \in Address /\ phase' = "added" /\ phase = "added" /\ i' = i + 1 /\ in' = in
      /\ matched_old' = matched_old /\ matched_new' = matched_new
  BY InputFacts DEF Added, DiffTypes
<1>2. p \in PairingType /\ p.old = None /\ p.new = a /\ a # None
  BY <1>1, PairingTypes, PairingSides, DiffAssumption DEF Kind
<1>3. Whole(in.old) \subseteq Olds /\ News \ {None} = matched_new \cup Passed(in.new, i)
  BY <1>1 DEF Sides
<1>4. Passed(in.new, i + 1) = Passed(in.new, i) \cup {a}
  BY <1>1, InputFacts, PassedFacts DEF DiffTypes
<1>5. CASE a \in matched_new
  <2>1. pairings' = pairings
    BY <1>5 DEF Added
  <2>2. QED
    BY <1>1, <1>3, <1>4, <1>5, <2>1, NoMore DEF Sides
<1>6. CASE a \notin matched_new
  <2>1. pairings' = Append(pairings, p)
    BY <1>6 DEF Added
  <2>2. Distinct(in.new) => a \notin Passed(in.new, i)
    <3>1. ASSUME Distinct(in.new), NEW k \in 1 .. i - 1, in.new[k].address = a PROVE FALSE
      <4>1. k \in DOMAIN in.new /\ i \in DOMAIN in.new /\ k # i
        BY <1>1, InputFacts DEF DiffTypes
      <4>2. QED
        BY <3>1, <4>1 DEF Distinct
    <3>2. QED
      BY <3>1 DEF Passed
  <2> HIDE DEF a, p
  <2>3. /\ Olds' = Olds \cup {p.old} /\ News' = News \cup {p.new}
        /\ Once /\ (p.old = None \/ p.old \notin Olds) /\ (p.new = None \/ p.new \notin News) => Once'
    BY <1>2, <2>1, OneMore DEF DiffTypes
  <2>4. QED
    BY <1>1, <1>2, <1>3, <1>4, <1>6, <2>2, <2>3 DEF Sides
<1>7. QED
  BY <1>5, <1>6

-----------------------------------------------------------------------------
(* One pass over the keys of two indexes.                                  *)

\* A0 and B0 are the functions of the builds, A and B those that were left.
InPass(A0, B0, A, B, field, kind, base) ==
    LET P == Looked(A, B, field, DOMAIN old_by \ left)
    IN  /\ IsIndex(old_by, A, field) /\ IsIndex(new_by, B, field)
        /\ matched_old = Addresses(A0 \ A) \cup Addresses(Firsts(P))
        /\ matched_new = Addresses(B0 \ B) \cup Addresses(Seconds(P))
        /\ Report = base \cup PairReport(kind, P)

Tells(S) == \A f, g \in S : f.address = g.address => f = g

LEMMA PassStep ==
  ASSUME DiffTypes, NEW A0, NEW B0, NEW A, NEW B, NEW field, NEW kind \in Kind, NEW base,
         A \subseteq A0, B \subseteq B0, Match(kind), InPass(A0, B0, A, B, field, kind, base)
  PROVE  /\ InPass(A0, B0, A, B, field, kind, base)'
         /\ Tells(A0) /\ Tells(B0) /\ Olds = matched_old /\ News = matched_new /\ Once => Once'
<1> DEFINE D == DOMAIN old_by \ left
           P == Looked(A, B, field, D)
<1>1. PICK key \in left :
        /\ left' = left \ {key}
        /\ IF key \in DOMAIN new_by
           THEN /\ matched_old' = matched_old \cup {old_by[key]}
                /\ matched_new' = matched_new \cup {new_by[key]}
                /\ pairings' = Append(pairings, Pairing(kind, old_by[key], new_by[key]))
           ELSE UNCHANGED <<matched_old, matched_new, pairings>>
        /\ UNCHANGED <<old_by, new_by>>
  BY DEF Match
<1>2. /\ IsIndex(old_by, A, field) /\ IsIndex(new_by, B, field)
      /\ matched_old = Addresses(A0 \ A) \cup Addresses(Firsts(P))
      /\ matched_new = Addresses(B0 \ B) \cup Addresses(Seconds(P))
      /\ Report = base \cup PairReport(kind, P)
      /\ key \in DOMAIN old_by /\ key \notin D
  BY DEF InPass, DiffTypes
<1> DEFINE P2 == Looked(A, B, field, (DOMAIN old_by \ left)')
<1>3. P2 = P \cup Looked(A, B, field, {key})
  <2>1. (DOMAIN old_by \ left)' = D \cup {key}
    BY <1>1, <1>2
  <2>2. QED
    BY <2>1 DEF Looked
<1>4. IsIndex(old_by, A, field)' /\ IsIndex(new_by, B, field)'
  BY <1>1, <1>2 DEF IsIndex
<1>5. CASE key \notin DOMAIN new_by
  <2>0. Looked(A, B, field, {key}) = {}
    BY <1>2, <1>5, KeyPair
  <2>1. P2 = P
    <3> HIDE DEF P, P2
    <3> QED  BY <1>3, <2>0
  <2>2. matched_old' = matched_old /\ matched_new' = matched_new /\ Report' = Report /\ (Once => Once')
    BY <1>1, <1>5, NoMore
  <2> HIDE DEF P, P2
  <2>3. /\ matched_old' = Addresses(A0 \ A) \cup Addresses(Firsts(P2))
        /\ matched_new' = Addresses(B0 \ B) \cup Addresses(Seconds(P2))
        /\ Report' = base \cup PairReport(kind, P2)
    BY <1>2, <2>1, <2>2
  <2>4. InPass(A0, B0, A, B, field, kind, base)'
    BY <1>4, <2>3 DEF InPass, P2
  <2>5. QED
    BY <2>2, <2>4
<1>6. CASE key \in DOMAIN new_by
  <2>1. PICK f \in A, g \in B :
          /\ f[field] = key /\ g[field] = key
          /\ old_by[key] = f.address /\ new_by[key] = g.address
          /\ Looked(A, B, field, {key}) = {<<f, g>>}
    BY <1>2, <1>6, KeyPair
  <2> DEFINE e == <<f, g>>
             p == Pairing(kind, f.address, g.address)
  <2>2. e[1] = f /\ e[2] = g /\ P2 = P \cup {e}
    BY <1>3, <2>1
  <2>3. p \in PairingType /\ p.old = f.address /\ p.new = g.address
    <3>1. f.address \in Address /\ g.address \in Address
      BY <1>2, <1>6, <2>1 DEF DiffTypes, Addressed
    <3>2. QED
      BY <3>1, PairingTypes, PairingSides
  <2>4. /\ pairings' = Append(pairings, p)
        /\ matched_old' = matched_old \cup {f.address} /\ matched_new' = matched_new \cup {g.address}
    BY <1>1, <1>6, <2>1
  <2>5. p = Pairing(kind, e[1].address, e[2].address)
    BY <2>2
  <2> HIDE DEF p, e, P, P2
  <2>6. /\ Report' = Report \cup {p}
        /\ Once /\ (p.old = None \/ p.old \notin Olds) /\ (p.new = None \/ p.new \notin News) => Once'
    BY <2>3, <2>4, OneMore DEF DiffTypes
  <2>7. Addresses(Firsts(P2)) = Addresses(Firsts(P)) \cup {f.address}
    BY <2>2 DEF Addresses, Firsts
  <2>8. Addresses(Seconds(P2)) = Addresses(Seconds(P)) \cup {g.address}
    BY <2>2 DEF Addresses, Seconds
  <2>9. PairReport(kind, P2) = PairReport(kind, P) \cup {p}
    BY <2>2, <2>5 DEF PairReport
  <2>10. /\ matched_old' = Addresses(A0 \ A) \cup Addresses(Firsts(P2))
         /\ matched_new' = Addresses(B0 \ B) \cup Addresses(Seconds(P2))
         /\ Report' = base \cup PairReport(kind, P2)
    BY <1>2, <2>4, <2>6, <2>7, <2>8, <2>9
  <2>11. InPass(A0, B0, A, B, field, kind, base)'
    BY <1>4, <2>10 DEF InPass, P2
  <2>12. Tells(A0) => f.address \notin matched_old
    <3>1. ASSUME Tells(A0), f.address \in Addresses(A0 \ A) PROVE FALSE
      BY <2>1, <3>1 DEF Addresses, Tells
    <3>2. ASSUME Tells(A0), f.address \in Addresses(Firsts(P)) PROVE FALSE
      <4>1. PICK q \in P : q[1].address = f.address
        BY <3>2 DEF Addresses, Firsts
      <4>2. q[1] \in A /\ q[1][field] \in D
        BY DEF P, Looked, Abstract!Pairs
      <4>3. q[1] = f
        BY <2>1, <3>2, <4>1, <4>2 DEF Tells
      <4>4. QED
        BY <1>2, <2>1, <4>2, <4>3
    <3>3. QED
      BY <1>2, <3>1, <3>2
  <2>13. Tells(B0) => g.address \notin matched_new
    <3>1. ASSUME Tells(B0), g.address \in Addresses(B0 \ B) PROVE FALSE
      BY <2>1, <3>1 DEF Addresses, Tells
    <3>2. ASSUME Tells(B0), g.address \in Addresses(Seconds(P)) PROVE FALSE
      <4>1. PICK q \in P : q[2].address = g.address
        BY <3>2 DEF Addresses, Seconds
      <4>2. q[2] \in B /\ q[1][field] = q[2][field] /\ q[1][field] \in D
        BY DEF P, Looked, Abstract!Pairs
      <4>3. q[2] = g
        BY <2>1, <3>2, <4>1, <4>2 DEF Tells
      <4>4. QED
        BY <1>2, <2>1, <4>2, <4>3
    <3>3. QED
      BY <1>2, <3>1, <3>2
  <2>14. QED
    BY <2>3, <2>6, <2>11, <2>12, <2>13
<1>7. QED
  BY <1>5, <1>6

\* A pass begins with what is left,
LEMMA PassBegins ==
  ASSUME NEW A0, NEW B0, NEW A, NEW B, NEW field, NEW kind, NEW base,
         IsIndex(old_by', A, field), IsIndex(new_by', B, field), left' = DOMAIN old_by',
         matched_old' = Addresses(A0 \ A), matched_new' = Addresses(B0 \ B), Report' = base
  PROVE  InPass(A0, B0, A, B, field, kind, base)'
<1> DEFINE P2 == Looked(A, B, field, (DOMAIN old_by \ left)')
<1>1. P2 = {}
  BY DEF Looked
<1>2. Firsts(P2) = {} /\ Seconds(P2) = {} /\ PairReport(kind, P2) = {}
  BY <1>1 DEF Firsts, Seconds, PairReport
<1> HIDE DEF P2
<1>3. Addresses(Firsts(P2)) = {} /\ Addresses(Seconds(P2)) = {}
  BY <1>2 DEF Addresses
<1>4. IsIndex(old_by, A, field)' /\ IsIndex(new_by, B, field)'
  BY DEF IsIndex
<1>5. QED
  BY <1>2, <1>3, <1>4 DEF InPass, P2

\* What pairs leave of either side.
Unpaired(S, P) == {f \in S : \A e \in P : e[1] # f}
UnpairedNew(S, P) == {g \in S : \A e \in P : e[2] # g}

PassDone(A0, B0, A, B, field, kind, base) ==
    LET P == Abstract!Pairs(A, B, field)
    IN  /\ matched_old = Addresses(A0 \ Unpaired(A, P))
        /\ matched_new = Addresses(B0 \ UnpairedNew(B, P))
        /\ Report = base \cup PairReport(kind, P)

\* and ends with what its pairs leave.
LEMMA PassEnds ==
  ASSUME NEW A0, NEW B0, NEW A, NEW B, NEW field, NEW kind, NEW base,
         A \subseteq A0, B \subseteq B0, InPass(A0, B0, A, B, field, kind, base), left = {}
  PROVE  PassDone(A0, B0, A, B, field, kind, base)
<1> DEFINE P == Abstract!Pairs(A, B, field)
           Q == Looked(A, B, field, DOMAIN old_by \ left)
<1>1. Q = P
  <2>1. ASSUME NEW e \in P PROVE e[1][field] \in DOMAIN old_by
    <3>1. e[1] \in Sole(A, field)
      BY DEF Abstract!Pairs, Sole
    <3>2. QED
      BY <3>1 DEF InPass, IsIndex
  <2>2. QED
    BY <2>1 DEF Looked
<1>2. /\ matched_old = Addresses(A0 \ A) \cup Addresses(Firsts(Q))
      /\ matched_new = Addresses(B0 \ B) \cup Addresses(Seconds(Q))
      /\ Report = base \cup PairReport(kind, Q)
  BY DEF InPass
<1>3. \A e \in P : e[1] \in A /\ e[2] \in B
  BY DEF Abstract!Pairs
<1> HIDE DEF P, Q
<1>4. A0 \ Unpaired(A, P) = (A0 \ A) \cup Firsts(P)
  BY <1>3 DEF Firsts, Unpaired
<1>5. B0 \ UnpairedNew(B, P) = (B0 \ B) \cup Seconds(P)
  BY <1>3 DEF Seconds, UnpairedNew
<1>6. \A S, T : Addresses(S \cup T) = Addresses(S) \cup Addresses(T)
  BY DEF Addresses
<1>7. QED
  BY <1>1, <1>2, <1>4, <1>5, <1>6 DEF P, PassDone

-----------------------------------------------------------------------------
(* The passes, each against its round of the matching.                     *)
Apart == Distinct(in.old) /\ Distinct(in.new)

\* The functions before place n of a table.
Ahead(fns, n) == {fns[k] : k \in 1 .. n - 1}
Twins == Ahead(in.old, i) \ Old1(in)

Matches ==
    /\ phase = "identical" =>
         matched_old = Addresses(Twins) /\ matched_new = Addresses(Twins) /\ Report = SameReport(Twins)
    /\ phase = "moved" => InPass(Old(in), New(in), Old1(in), New1(in), "name", "Moved", After1(in))
    /\ phase = "renamed" /\ in.signed => InPass(Old(in), New(in), Old2(in), New2(in), "sig", "Renamed", After2(in))
    /\ phase = "renamed" /\ ~in.signed =>
         /\ left = {}
         /\ matched_old = Addresses(Old(in) \ Old2(in)) /\ matched_new = Addresses(New(in) \ New2(in))
         /\ Report = After2(in)
    /\ phase \in {"removed", "added"} =>
         matched_old = Addresses(Old(in) \ Old3(in)) /\ matched_new = Addresses(New(in) \ New3(in))
    /\ phase = "removed" => Report = After3(in) \cup RemovedReport(Ahead(in.old, i) \cap Old3(in))
    /\ phase = "added" =>
         Report = After3(in) \cup RemovedReport(Old3(in)) \cup AddedReport(Ahead(in.new, i) \cap New3(in))
    /\ phase = "done" => Report = Abstract!Expected(in)

LEMMA AheadFacts ==
  ASSUME NEW fns \in Seq(Function)
  PROVE  /\ Ahead(fns, 1) = {}
         /\ \A n \in 1 .. Len(fns) : Ahead(fns, n + 1) = Ahead(fns, n) \cup {fns[n]} /\ fns[n] \in Abstract!Funs(fns)
         /\ \A n \in 1 .. Len(fns) + 1 : Ahead(fns, n) \subseteq Abstract!Funs(fns)
         /\ Ahead(fns, Len(fns) + 1) = Abstract!Funs(fns)
<1>1. Ahead(fns, 1) = {}
  BY DEF Ahead
<1>2. ASSUME NEW n \in 1 .. Len(fns) PROVE Ahead(fns, n + 1) = Ahead(fns, n) \cup {fns[n]} /\ fns[n] \in Abstract!Funs(fns)
  <2>1. \A k : k \in 1 .. n + 1 - 1 <=> (k \in 1 .. n - 1 \/ k = n)
    OBVIOUS
  <2>2. QED
    BY <2>1 DEF Ahead, Abstract!Funs
<1>3. ASSUME NEW n \in 1 .. Len(fns) + 1 PROVE Ahead(fns, n) \subseteq Abstract!Funs(fns)
  <2>1. \A k \in 1 .. n - 1 : k \in DOMAIN fns
    OBVIOUS
  <2>2. QED
    BY <2>1 DEF Ahead, Abstract!Funs
<1>4. Ahead(fns, Len(fns) + 1) = Abstract!Funs(fns)
  <2>1. \A k : k \in 1 .. Len(fns) + 1 - 1 <=> k \in DOMAIN fns
    OBVIOUS
  <2>2. QED
    BY <2>1 DEF Ahead, Abstract!Funs
<1>5. QED
  BY <1>1, <1>2, <1>3, <1>4

\* In a table that gives each address once, what is not set aside is what is left.
LEMMA OpenIsLeft ==
  ASSUME NEW fns \in Seq(Function), Distinct(fns), NEW T, T \subseteq Abstract!Funs(fns)
  PROVE  {f \in Abstract!Funs(fns) : f.address \notin Addresses(Abstract!Funs(fns) \ T)} = T
<1> DEFINE F == Abstract!Funs(fns)
<1>1. \A f, g \in F : f.address = g.address => f = g
  BY AddressTells
<1> HIDE DEF F
<1>2. {f \in F : f.address \notin Addresses(F \ T)} = T
  <2>1. ASSUME NEW f \in F, f.address \notin Addresses(F \ T) PROVE f \in T
    BY <2>1 DEF Addresses
  <2>2. ASSUME NEW f \in T, f.address \in Addresses(F \ T) PROVE FALSE
    <3>1. PICK g \in F \ T : g.address = f.address
      BY <2>2 DEF Addresses
    <3>2. f \in F
      BY DEF F
    <3>3. QED
      BY <1>1, <2>2, <3>1, <3>2
  <2>3. T \subseteq F
    BY DEF F
  <2>4. QED
    BY <2>1, <2>2, <2>3
<1>3. QED
  BY <1>2 DEF F

\* What is left only gets less.
LEMMA RoundsNest ==
  ASSUME NEW b
  PROVE  /\ Old1(b) \subseteq Old(b) /\ New1(b) \subseteq New(b)
         /\ Old2(b) \subseteq Old1(b) /\ New2(b) \subseteq New1(b)
         /\ Old3(b) \subseteq Old2(b) /\ New3(b) \subseteq New2(b)
  BY DEF Old1, New1, Old2, New2, Old3, New3, Abstract!Unspotted

\* The same addresses are taken on both sides by pass 1.
LEMMA SpotAddresses ==
  ASSUME NEW b
  PROVE  Addresses(Old(b) \ Old1(b)) = Addresses(New(b) \ New1(b))
<1>1. ASSUME NEW f \in Old(b) \ Old1(b) PROVE \E g \in New(b) \ New1(b) : g.address = f.address
  <2>1. PICK g \in New(b) : Abstract!SameSpot(f, g)
    BY DEF Old1, Abstract!Unspotted
  <2>2. QED
    BY <2>1 DEF New1, Abstract!Unspotted, Abstract!SameSpot
<1>2. ASSUME NEW g \in New(b) \ New1(b) PROVE \E f \in Old(b) \ Old1(b) : g.address = f.address
  <2>1. PICK f \in Old(b) : Abstract!SameSpot(g, f)
    BY DEF New1, Abstract!Unspotted
  <2>2. QED
    BY <2>1 DEF Old1, Abstract!Unspotted, Abstract!SameSpot
<1>3. QED
  BY <1>1, <1>2 DEF Addresses

LEMMA InputTables ==
  ASSUME NEW b \in Input, Distinct(b.old), Distinct(b.new)
  PROVE  /\ Tells(Old(b)) /\ Tells(New(b))
  BY InputFacts, AddressTells DEF Tells, Old, New

\* Pass 1.
LEMMA IdenticalMatches ==
  ASSUME DiffTypes, Matches, Apart, Identical
  PROVE  Matches'
<1> DEFINE f == in.old[i]
           p == Pairing("Identical", f.address, f.address)
<1>1. /\ i \in 1 .. Len(in.old) /\ i' = i + 1 /\ in' = in /\ phase = "identical" /\ phase' = "identical"
      /\ in.old \in Seq(Function) /\ f.address \in Address
  BY InputFacts DEF Identical, DiffTypes
<1>2. matched_old = Addresses(Twins) /\ matched_new = Addresses(Twins) /\ Report = SameReport(Twins)
  BY <1>1 DEF Matches
<1>3. Ahead(in.old, i + 1) = Ahead(in.old, i) \cup {f} /\ f \in Old(in) /\ Ahead(in.old, i) \subseteq Old(in)
  BY <1>1, AheadFacts DEF Old
<1>4. Twin(f) <=> f \notin Old1(in)
  <2>1. f \notin Old1(in) <=> \E g \in New(in) : Abstract!SameSpot(f, g)
    BY <1>3 DEF Old1, Abstract!Unspotted
  <2>2. QED
    BY <2>1 DEF Twin, Abstract!SameSpot, New, Abstract!Funs
<1>5. f.address \notin Addresses(Twins)
  <2>1. ASSUME NEW k \in 1 .. i - 1, in.old[k].address = f.address PROVE FALSE
    <3>1. k \in DOMAIN in.old /\ i \in DOMAIN in.old /\ k # i
      BY <1>1
    <3>2. QED
      BY <2>1, <3>1 DEF Apart, Distinct
  <2>2. QED
    BY <2>1 DEF Addresses, Twins, Ahead
<1>6. Twins' = Ahead(in.old, i + 1) \ Old1(in)
  BY <1>1 DEF Twins
<1> DEFINE T2 == Twins'
<1>7. CASE f \notin Old1(in)
  <2>1. /\ matched_new' = matched_new \cup {f.address} /\ matched_old' = matched_old \cup {f.address}
        /\ pairings' = Append(pairings, p)
    BY <1>2, <1>4, <1>5, <1>7 DEF Identical, TakesTwin
  <2>2. p \in PairingType
    BY <1>1, PairingTypes DEF Kind
  <2>3. Report' = Report \cup {p}
    BY <2>1, <2>2, OneMore DEF DiffTypes
  <2>4. T2 = Twins \cup {f}
    BY <1>3, <1>6, <1>7 DEF Twins
  <2>5. SameReport(T2) = SameReport(Twins) \cup {p} /\ Addresses(T2) = Addresses(Twins) \cup {f.address}
    <3> HIDE DEF T2
    <3> QED  BY <2>4 DEF SameReport, Addresses
  <2> HIDE DEF p
  <2>6. matched_old' = Addresses(T2) /\ matched_new' = Addresses(T2) /\ Report' = SameReport(T2)
    BY <1>2, <2>1, <2>3, <2>5
  <2>7. QED
    BY <1>1, <2>6 DEF Matches, T2, Addresses, SameReport
<1>8. CASE f \in Old1(in)
  <2>1. matched_new' = matched_new /\ matched_old' = matched_old /\ pairings' = pairings
    BY <1>4, <1>8 DEF Identical, TakesTwin
  <2>2. Report' = Report
    BY <2>1, NoMore
  <2>3. T2 = Twins
    BY <1>3, <1>6, <1>8 DEF Twins
  <2>4. matched_old' = Addresses(T2) /\ matched_new' = Addresses(T2) /\ Report' = SameReport(T2)
    BY <1>2, <2>1, <2>2, <2>3
  <2>5. QED
    BY <1>1, <2>4 DEF Matches, T2, Addresses, SameReport
<1>9. QED
  BY <1>7, <1>8

\* The index of a pass, when what is left is what is not set aside.
LEMMA LeftIndex ==
  ASSUME NEW fns \in Seq(Function), Distinct(fns), NEW T, T \subseteq Abstract!Funs(fns), NEW field,
         NEW matched, matched = Addresses(Abstract!Funs(fns) \ T)
  PROVE  IsIndex(Index(fns, matched, field), T, field)
  BY OpenIsLeft, IndexFacts

\* A pass begins.
LEMMA BeginPass ==
  ASSUME DiffTypes, Apart, NEW A, NEW B, NEW field, NEW kind, NEW base, A \subseteq Old(in), B \subseteq New(in),
         matched_old = Addresses(Old(in) \ A), matched_new = Addresses(New(in) \ B), Report = base,
         in' = in, matched_old' = matched_old, matched_new' = matched_new, pairings' = pairings,
         old_by' = Index(in.old, matched_old, field), new_by' = Index(in.new, matched_new, field),
         left' = DOMAIN old_by'
  PROVE  InPass(Old(in), New(in), A, B, field, kind, base)'
<1>1. in.old \in Seq(Function) /\ in.new \in Seq(Function)
  BY InputFacts DEF DiffTypes
<1>2. IsIndex(old_by', A, field) /\ IsIndex(new_by', B, field)
  BY <1>1, LeftIndex DEF Apart, Old, New
<1>3. Report' = base
  BY NoMore
<1> DEFINE A0 == Old(in)
           B0 == New(in)
<1>4. matched_old' = Addresses(A0 \ A) /\ matched_new' = Addresses(B0 \ B)
  OBVIOUS
<1> HIDE DEF A0, B0
<1>5. \A a0, b0 : matched_old' = Addresses(a0 \ A) /\ matched_new' = Addresses(b0 \ B)
                   => InPass(a0, b0, A, B, field, kind, base)'
  BY <1>2, <1>3, PassBegins
<1>6. QED
  BY <1>4, <1>5 DEF A0, B0

LEMMA BeginMovedMatches ==
  ASSUME DiffTypes, Matches, Apart, BeginMoved
  PROVE  Matches'
<1>1. /\ i = Len(in.old) + 1 /\ in' = in /\ phase = "identical" /\ phase' = "moved" /\ matched_old' = matched_old
      /\ matched_new' = matched_new /\ pairings' = pairings /\ left' = DOMAIN old_by'
      /\ in.old \in Seq(Function) /\ in.new \in Seq(Function)
      /\ old_by' = Index(in.old, matched_old, "name") /\ new_by' = Index(in.new, matched_new, "name")
  BY InputFacts DEF BeginMoved, DiffTypes
<1>2. Twins = Old(in) \ Old1(in)
  BY <1>1, AheadFacts DEF Twins, Old
<1> DEFINE A == Old1(in)
           B == New1(in)
           base == After1(in)
<1>3. matched_old = Addresses(Old(in) \ A) /\ matched_new = Addresses(New(in) \ B) /\ Report = base
      /\ A \subseteq Old(in) /\ B \subseteq New(in)
  BY <1>1, <1>2, SpotAddresses, RoundsNest DEF Matches, After1
<1> HIDE DEF A, B, base
<1>4. \A x, y, r : /\ matched_old = Addresses(Old(in) \ x) /\ matched_new = Addresses(New(in) \ y) /\ Report = r
                   /\ x \subseteq Old(in) /\ y \subseteq New(in)
                   => InPass(Old(in), New(in), x, y, "name", "Moved", r)'
  BY <1>1, BeginPass
<1>5. InPass(Old(in), New(in), Old1(in), New1(in), "name", "Moved", After1(in))'
  BY <1>1, <1>3, <1>4 DEF A, B, base
<1>6. QED
  BY <1>1, <1>5 DEF Matches

\* Passes 2 and 3 go on.
LEMMA GoesOnMatches ==
  ASSUME DiffTypes, Matches, Moved \/ Renamed
  PROVE  /\ Matches'
         /\ Sides /\ Once /\ Apart => Once'
<1>1. /\ in' = in /\ phase' = phase
      /\ phase \in {"moved", "renamed"}
      /\ Sides => Olds = matched_old /\ News = matched_new
  BY DEF Moved, Renamed, Match, Sides
<1>2. Apart => Tells(Old(in)) /\ Tells(New(in))
  BY InputTables DEF Apart, DiffTypes
<1>3. ASSUME NEW A, NEW B, NEW field, NEW kind \in Kind, NEW base, A \subseteq Old(in), B \subseteq New(in),
             Match(kind), InPass(Old(in), New(in), A, B, field, kind, base)
      PROVE  InPass(Old(in), New(in), A, B, field, kind, base)' /\ (Sides /\ Once /\ Apart => Once')
  <2> DEFINE A0 == Old(in)
             B0 == New(in)
  <2>1. A \subseteq A0 /\ B \subseteq B0 /\ InPass(A0, B0, A, B, field, kind, base)
    BY <1>3
  <2>2. Apart => Tells(A0) /\ Tells(B0)
    BY <1>2
  <2> HIDE DEF A0, B0
  <2>3. \A a0, b0 : A \subseteq a0 /\ B \subseteq b0 /\ InPass(a0, b0, A, B, field, kind, base) =>
          /\ InPass(a0, b0, A, B, field, kind, base)'
          /\ Tells(a0) /\ Tells(b0) /\ Olds = matched_old /\ News = matched_new /\ Once => Once'
    BY <1>3, PassStep
  <2>4. QED
    BY <1>1, <2>1, <2>2, <2>3 DEF A0, B0
<1>4. CASE Moved
  <2> DEFINE A == Old1(in)
             B == New1(in)
             base == After1(in)
  <2>1. InPass(Old(in), New(in), A, B, "name", "Moved", base) /\ A \subseteq Old(in) /\ B \subseteq New(in) /\ Match("Moved")
        /\ phase = "moved" /\ "Moved" \in Kind
    BY <1>4, RoundsNest DEF Moved, Matches, Kind
  <2> HIDE DEF A, B, base
  <2>2. \A x, y, r : x \subseteq Old(in) /\ y \subseteq New(in) /\ InPass(Old(in), New(in), x, y, "name", "Moved", r) =>
          /\ InPass(Old(in), New(in), x, y, "name", "Moved", r)'
          /\ Sides /\ Once /\ Apart => Once'
    BY <1>3, <2>1
  <2>3. InPass(Old(in), New(in), Old1(in), New1(in), "name", "Moved", After1(in))'
    BY <1>1, <2>1, <2>2 DEF A, B, base
  <2>4. QED
    BY <1>1, <2>1, <2>2, <2>3 DEF Matches
<1>5. CASE Renamed
  <2> DEFINE A == Old2(in)
             B == New2(in)
             base == After2(in)
  <2>1. phase = "renamed" /\ Match("Renamed") /\ in.signed /\ "Renamed" \in Kind
    BY <1>5 DEF Renamed, Matches, Match, Kind, DiffTypes, Input
  <2>2. InPass(Old(in), New(in), A, B, "sig", "Renamed", base) /\ A \subseteq Old(in) /\ B \subseteq New(in)
    BY <2>1, RoundsNest DEF Matches
  <2> HIDE DEF A, B, base
  <2>3. \A x, y, r : x \subseteq Old(in) /\ y \subseteq New(in) /\ InPass(Old(in), New(in), x, y, "sig", "Renamed", r) =>
          /\ InPass(Old(in), New(in), x, y, "sig", "Renamed", r)'
          /\ Sides /\ Once /\ Apart => Once'
    BY <1>3, <2>1
  <2>4. InPass(Old(in), New(in), Old2(in), New2(in), "sig", "Renamed", After2(in))'
    BY <1>1, <2>2, <2>3 DEF A, B, base
  <2>5. QED
    BY <1>1, <2>1, <2>2, <2>3, <2>4 DEF Matches
<1>6. QED
  BY <1>4, <1>5

\* Pass 2 ends with what its pairs leave,
LEMMA MovedEnds ==
  ASSUME InPass(Old(in), New(in), Old1(in), New1(in), "name", "Moved", After1(in)), left = {}
  PROVE  /\ matched_old = Addresses(Old(in) \ Old2(in)) /\ matched_new = Addresses(New(in) \ New2(in))
         /\ Report = After2(in)
<1> DEFINE A0 == Old(in)
           B0 == New(in)
           A == Old1(in)
           B == New1(in)
           base == After1(in)
<1>1. A \subseteq A0 /\ B \subseteq B0 /\ InPass(A0, B0, A, B, "name", "Moved", base)
  BY RoundsNest
<1> HIDE DEF A0, B0, A, B, base
<1> DEFINE P == Abstract!Pairs(A, B, "name")
<1>2. PassDone(A0, B0, A, B, "name", "Moved", base)
  <2>1. \A a0, b0, a, b, r :
          a \subseteq a0 /\ b \subseteq b0 /\ InPass(a0, b0, a, b, "name", "Moved", r)
            => PassDone(a0, b0, a, b, "name", "Moved", r)
    BY PassEnds
  <2>2. QED
    BY <1>1, <2>1
<1>3. P = MovedPairs(in)
  BY DEF MovedPairs, A, B
<1> HIDE DEF P
<1>4. QED
  BY <1>2, <1>3 DEF Old2, New2, After2, PassDone, P, Unpaired, UnpairedNew, A0, B0, A, B, base

\* and so does pass 3, which there is where the caller has signatures.
LEMMA RenamedEnds ==
  ASSUME InPass(Old(in), New(in), Old2(in), New2(in), "sig", "Renamed", After2(in)), left = {}, in.signed
  PROVE  /\ matched_old = Addresses(Old(in) \ Old3(in)) /\ matched_new = Addresses(New(in) \ New3(in))
         /\ Report = After3(in)
<1> DEFINE A0 == Old(in)
           B0 == New(in)
           A == Old2(in)
           B == New2(in)
           base == After2(in)
<1>1. A \subseteq A0 /\ B \subseteq B0 /\ InPass(A0, B0, A, B, "sig", "Renamed", base)
  BY RoundsNest
<1> HIDE DEF A0, B0, A, B, base
<1> DEFINE P == Abstract!Pairs(A, B, "sig")
<1>2. PassDone(A0, B0, A, B, "sig", "Renamed", base)
  <2>1. \A a0, b0, a, b, r :
          a \subseteq a0 /\ b \subseteq b0 /\ InPass(a0, b0, a, b, "sig", "Renamed", r)
            => PassDone(a0, b0, a, b, "sig", "Renamed", r)
    BY PassEnds
  <2>2. QED
    BY <1>1, <2>1
<1>3. P = RenamedPairs(in)
  BY DEF RenamedPairs, A, B
<1> HIDE DEF P
<1>4. QED
  BY <1>2, <1>3 DEF Old3, New3, After3, PassDone, P, Unpaired, UnpairedNew, A0, B0, A, B, base

\* Between passes 2 and 3.
LEMMA BeginRenamedMatches ==
  ASSUME DiffTypes, Matches, Apart, BeginRenamed
  PROVE  Matches'
<1>1. /\ in' = in /\ phase = "moved" /\ phase' = "renamed" /\ matched_old' = matched_old /\ left = {}
      /\ matched_new' = matched_new /\ pairings' = pairings
      /\ InPass(Old(in), New(in), Old1(in), New1(in), "name", "Moved", After1(in))
  BY DEF BeginRenamed, Matches
<1> DEFINE A == Old2(in)
           B == New2(in)
           base == After2(in)
<1>2. matched_old = Addresses(Old(in) \ A) /\ matched_new = Addresses(New(in) \ B) /\ Report = base
  BY <1>1, MovedEnds
<1>3. A \subseteq Old(in) /\ B \subseteq New(in)
  BY RoundsNest
<1> HIDE DEF A, B, base
<1>4. CASE in.signed
  <2>1. /\ old_by' = Index(in.old, matched_old, "sig") /\ new_by' = Index(in.new, matched_new, "sig")
        /\ left' = DOMAIN old_by'
    BY <1>4 DEF BeginRenamed
  <2>2. \A x, y, r : /\ matched_old = Addresses(Old(in) \ x) /\ matched_new = Addresses(New(in) \ y) /\ Report = r
                     /\ x \subseteq Old(in) /\ y \subseteq New(in)
                     => InPass(Old(in), New(in), x, y, "sig", "Renamed", r)'
    BY <1>1, <2>1, BeginPass
  <2>3. InPass(Old(in), New(in), Old2(in), New2(in), "sig", "Renamed", After2(in))'
    BY <1>1, <1>2, <1>3, <2>2 DEF A, B, base
  <2>4. QED
    BY <1>1, <1>4, <2>3 DEF Matches
<1>5. CASE ~in.signed
  <2>1. left' = {}
    BY <1>1, <1>5 DEF BeginRenamed
  <2>2. Report' = Report
    BY <1>1, NoMore
  <2>3. /\ matched_old' = Addresses(Old(in) \ Old2(in)) /\ matched_new' = Addresses(New(in) \ New2(in))
        /\ Report' = After2(in)
    BY <1>1, <1>2, <2>2 DEF A, B, base
  <2>4. QED
    BY <1>1, <1>5, <2>1, <2>3 DEF Matches
<1>6. QED
  BY <1>4, <1>5

\* After pass 3.
LEMMA BeginRemovedMatches ==
  ASSUME DiffTypes, Matches, Apart, BeginRemoved
  PROVE  Matches'
<1>1. /\ in' = in /\ phase = "renamed" /\ phase' = "removed" /\ matched_old' = matched_old /\ left = {}
      /\ matched_new' = matched_new /\ pairings' = pairings /\ i' = 1
  BY DEF BeginRemoved
<1>2. /\ matched_old = Addresses(Old(in) \ Old3(in)) /\ matched_new = Addresses(New(in) \ New3(in))
      /\ Report = After3(in)
  <2>1. CASE in.signed
    BY <1>1, <2>1, RenamedEnds DEF Matches
  <2>2. CASE ~in.signed
    <3>1. RenamedPairs(in) = {}
      BY <2>2 DEF RenamedPairs
    <3>2. Old3(in) = Old2(in) /\ New3(in) = New2(in)
      BY <3>1 DEF Old3, New3, Old2, New2
    <3>3. PairReport("Renamed", RenamedPairs(in)) = {}
      BY <3>1 DEF PairReport
    <3>4. After3(in) = After2(in)
      BY <3>3 DEF After3
    <3>5. QED
      BY <1>1, <2>2, <3>2, <3>4 DEF Matches
  <2>3. QED
    BY <2>1, <2>2
<1>3. Report' = Report
  BY <1>1, NoMore
<1>4. Ahead(in.old, 1) = {}
  BY AheadFacts, InputFacts DEF DiffTypes
<1>5. RemovedReport(Ahead(in.old, 1) \cap Old3(in)) = {}
  BY <1>4 DEF RemovedReport
<1>6. QED
  BY <1>1, <1>2, <1>3, <1>5 DEF Matches

\* A function is set aside unless it is left.
LEMMA SetAside ==
  ASSUME NEW fns \in Seq(Function), Distinct(fns), NEW T, T \subseteq Abstract!Funs(fns),
         NEW f \in Abstract!Funs(fns)
  PROVE  f.address \in Addresses(Abstract!Funs(fns) \ T) <=> f \notin T
  BY OpenIsLeft

LEMMA RemovedMatches ==
  ASSUME DiffTypes, Matches, Apart, Removed
  PROVE  Matches'
<1> DEFINE f == in.old[i]
           p == Pairing("Removed", f.address, None)
           before == Ahead(in.old, i) \cap Old3(in)
           after == Ahead(in.old, i + 1) \cap Old3(in)
<1>1. /\ i \in 1 .. Len(in.old) /\ i' = i + 1 /\ in' = in /\ phase = "removed" /\ phase' = "removed"
      /\ matched_old' = matched_old /\ matched_new' = matched_new
      /\ in.old \in Seq(Function) /\ f.address \in Address
      /\ pairings' = IF f.address \in matched_old THEN pairings ELSE Append(pairings, p)
  BY InputFacts DEF Removed, DiffTypes
<1>2. matched_old = Addresses(Old(in) \ Old3(in)) /\ matched_new = Addresses(New(in) \ New3(in))
      /\ Report = After3(in) \cup RemovedReport(before)
  BY <1>1 DEF Matches
<1>3. Ahead(in.old, i + 1) = Ahead(in.old, i) \cup {f} /\ f \in Old(in)
  BY <1>1, AheadFacts DEF Old
<1>4. f.address \in matched_old <=> f \notin Old3(in)
  <2>1. Old3(in) \subseteq Old(in)
    BY RoundsNest
  <2>2. \A T : T \subseteq Old(in) => (f.address \in Addresses(Old(in) \ T) <=> f \notin T)
    BY <1>1, <1>3, SetAside DEF Apart, Old
  <2>3. QED
    BY <1>2, <2>1, <2>2
<1>5. p \in PairingType
  BY <1>1, PairingTypes DEF Kind
<1>6. Report' = After3(in) \cup RemovedReport(after)
  <2>1. CASE f \in Old3(in)
    <3>1. after = before \cup {f}
      BY <1>3, <2>1
    <3> HIDE DEF before, after
    <3>2. RemovedReport(after) = RemovedReport(before) \cup {p}
      BY <3>1 DEF RemovedReport
    <3> HIDE DEF p, f
    <3>3. Report' = Report \cup {p}
      BY <1>1, <1>4, <1>5, <2>1, OneMore DEF DiffTypes
    <3>4. QED
      BY <1>2, <3>2, <3>3
  <2>2. CASE f \notin Old3(in)
    <3>1. after = before
      BY <1>3, <2>2
    <3>2. Report' = Report
      BY <1>1, <1>4, <2>2, NoMore
    <3>3. QED
      BY <1>2, <3>1, <3>2
  <2>3. QED
    BY <2>1, <2>2
<1>7. QED
  BY <1>1, <1>2, <1>6 DEF Matches

LEMMA BeginAddedMatches ==
  ASSUME DiffTypes, Matches, Apart, BeginAdded
  PROVE  Matches'
<1>1. /\ in' = in /\ phase = "removed" /\ phase' = "added" /\ matched_old' = matched_old
      /\ matched_new' = matched_new /\ pairings' = pairings /\ i' = 1 /\ i = Len(in.old) + 1
      /\ in.old \in Seq(Function) /\ in.new \in Seq(Function)
  BY InputFacts DEF BeginAdded, DiffTypes
<1>2. Ahead(in.old, i) \cap Old3(in) = Old3(in)
  <2>1. Ahead(in.old, i) = Old(in)
    BY <1>1, AheadFacts DEF Old
  <2>2. QED
    BY <2>1, RoundsNest
<1>3. Report' = Report
  BY <1>1, NoMore
<1>4. Ahead(in.new, 1) = {}
  BY <1>1, AheadFacts
<1>5. AddedReport(Ahead(in.new, 1) \cap New3(in)) = {}
  BY <1>4 DEF AddedReport
<1>6. QED
  BY <1>1, <1>2, <1>3, <1>5 DEF Matches

LEMMA AddedMatches ==
  ASSUME DiffTypes, Matches, Apart, Added
  PROVE  Matches'
<1> DEFINE f == in.new[i]
           p == Pairing("Added", None, f.address)
           base == After3(in) \cup RemovedReport(Old3(in))
           before == Ahead(in.new, i) \cap New3(in)
           after == Ahead(in.new, i + 1) \cap New3(in)
<1>1. /\ i \in 1 .. Len(in.new) /\ i' = i + 1 /\ in' = in /\ phase = "added" /\ phase' = "added"
      /\ matched_old' = matched_old /\ matched_new' = matched_new
      /\ in.new \in Seq(Function) /\ f.address \in Address
      /\ pairings' = IF f.address \in matched_new THEN pairings ELSE Append(pairings, p)
  BY InputFacts DEF Added, DiffTypes
<1>2. matched_old = Addresses(Old(in) \ Old3(in)) /\ matched_new = Addresses(New(in) \ New3(in))
      /\ Report = base \cup AddedReport(before)
  BY <1>1 DEF Matches
<1>3. Ahead(in.new, i + 1) = Ahead(in.new, i) \cup {f} /\ f \in New(in)
  BY <1>1, AheadFacts DEF New
<1>4. f.address \in matched_new <=> f \notin New3(in)
  <2>1. New3(in) \subseteq New(in)
    BY RoundsNest
  <2>2. \A T : T \subseteq New(in) => (f.address \in Addresses(New(in) \ T) <=> f \notin T)
    BY <1>1, <1>3, SetAside DEF Apart, New
  <2>3. QED
    BY <1>2, <2>1, <2>2
<1>5. p \in PairingType
  BY <1>1, PairingTypes DEF Kind
<1>6. Report' = base \cup AddedReport(after)
  <2>1. CASE f \in New3(in)
    <3>1. after = before \cup {f}
      BY <1>3, <2>1
    <3> HIDE DEF before, after
    <3>2. AddedReport(after) = AddedReport(before) \cup {p}
      BY <3>1 DEF AddedReport
    <3> HIDE DEF p, f, base
    <3>3. Report' = Report \cup {p}
      BY <1>1, <1>4, <1>5, <2>1, OneMore DEF DiffTypes
    <3>4. QED
      BY <1>2, <3>2, <3>3
  <2>2. CASE f \notin New3(in)
    <3>1. after = before
      BY <1>3, <2>2
    <3>2. Report' = Report
      BY <1>1, <1>4, <2>2, NoMore
    <3>3. QED
      BY <1>2, <3>1, <3>2
  <2>3. QED
    BY <2>1, <2>2
<1>7. QED
  BY <1>1, <1>2, <1>6 DEF Matches

LEMMA FinishMatches ==
  ASSUME DiffTypes, Matches, Apart, Finish
  PROVE  Matches' /\ Report = Abstract!Expected(in)
<1>1. /\ in' = in /\ phase = "added" /\ phase' = "done" /\ pairings' = pairings /\ i = Len(in.new) + 1
      /\ in.new \in Seq(Function)
  BY InputFacts DEF Finish, DiffTypes
<1>2. Ahead(in.new, i) \cap New3(in) = New3(in)
  <2>1. Ahead(in.new, i) = New(in)
    BY <1>1, AheadFacts DEF New
  <2>2. QED
    BY <2>1, RoundsNest
<1>3. Report = Abstract!Expected(in)
  BY <1>1, <1>2, ExpectedParts DEF Matches
<1>4. Report' = Report
  BY <1>1, NoMore
<1>5. QED
  BY <1>1, <1>3, <1>4 DEF Matches

\* A call begins with nothing reported.
LEMMA StartMatches ==
  ASSUME NEW builds \in Input, Start(builds)
  PROVE  Matches'
<1>1. in' = builds /\ matched_old' = {} /\ matched_new' = {} /\ pairings' = <<>> /\ phase' = "identical" /\ i' = 1
  BY DEF Start
<1>2. Ahead(builds.old, 1) = {}
  BY AheadFacts, InputFacts
<1>3. Twins' = {}
  BY <1>1, <1>2 DEF Twins
<1>4. Report' = {}
  BY <1>1 DEF Report
<1>5. SameReport(Twins)' = {} /\ Addresses(Twins)' = {}
  BY <1>3 DEF SameReport, Addresses
<1>6. QED
  BY <1>1, <1>4, <1>5 DEF Matches

-----------------------------------------------------------------------------
(* All of compute.                                                         *)
DiffInv ==
    /\ DiffTypes
    /\ Sides
    /\ Apart => Once /\ Matches

LEMMA StepDiffInv ==
  ASSUME DiffInv, Step
  PROVE  DiffInv'
<1>1. DiffTypes /\ Sides /\ (Apart => Once /\ Matches) /\ DiffTypes' /\ in' = in
  BY StepTypes
  DEF DiffInv, Step, Identical, BeginMoved, Moved, BeginRenamed, Renamed, BeginRemoved, Removed, BeginAdded, Added, Finish, Match
<1>2. Apart' <=> Apart
  BY <1>1 DEF Apart
<1>3. CASE Identical
  BY <1>1, <1>2, <1>3, IdenticalSides, IdenticalMatches DEF DiffInv
<1>4. CASE BeginMoved
  BY <1>1, <1>2, <1>4, BetweenSides, BeginMovedMatches DEF DiffInv
<1>5. CASE Moved \/ Renamed
  <2>1. Sides'
    BY <1>1, <1>5, MatchSides DEF Moved, Renamed, Kind
  <2>2. Apart => Once' /\ Matches'
    BY <1>1, <1>5, GoesOnMatches
  <2>3. QED
    BY <1>1, <1>2, <2>1, <2>2 DEF DiffInv
<1>6. CASE BeginRenamed
  BY <1>1, <1>2, <1>6, BetweenSides, BeginRenamedMatches DEF DiffInv
<1>7. CASE BeginRemoved
  BY <1>1, <1>2, <1>7, BetweenSides, BeginRemovedMatches DEF DiffInv
<1>8. CASE Removed
  BY <1>1, <1>2, <1>8, RemovedSides, RemovedMatches DEF DiffInv, Apart
<1>9. CASE BeginAdded
  BY <1>1, <1>2, <1>9, BetweenSides, BeginAddedMatches DEF DiffInv
<1>10. CASE Added
  BY <1>1, <1>2, <1>10, AddedSides, AddedMatches DEF DiffInv, Apart
<1>11. CASE Finish
  BY <1>1, <1>2, <1>11, BetweenSides, FinishMatches DEF DiffInv
<1>12. QED
  BY <1>3, <1>4, <1>5, <1>6, <1>7, <1>8, <1>9, <1>10, <1>11 DEF Step

LEMMA StartDiffInv ==
  ASSUME NEW builds \in Input, Start(builds)
  PROVE  DiffInv'
  BY StartTypes, StartSides, StartMatches DEF DiffInv

LEMMA InitDiffInv == Init => DiffInv
<1> SUFFICES ASSUME Init PROVE DiffInv
  OBVIOUS
<1>1. phase = "idle" /\ DOMAIN pairings = {}
  BY DEF Init
<1>2. Sides /\ Once /\ Matches
  BY <1>1 DEF Sides, Once, Matches
<1>3. QED
  BY <1>2, InitDiffTypes DEF DiffInv

LEMMA IdleDiffInv ==
  ASSUME DiffInv, UNCHANGED vars
  PROVE  DiffInv'
<1>1. DiffTypes'
  BY DEF DiffInv, DiffTypes, vars, Addressed
<1>2. Report' = Report /\ Olds' = Olds /\ News' = News /\ (Once => Once')
  BY NoMore DEF vars
<1>3. Sides'
  BY <1>2 DEF DiffInv, Sides, vars
<1>4. Apart' <=> Apart
  BY DEF Apart, vars
<1>5. Matches => Matches'
  BY <1>2 DEF Matches, InPass, IsIndex, Twins, vars
<1>6. QED
  BY <1>1, <1>2, <1>3, <1>4, <1>5 DEF DiffInv

\* The invariant holds whoever calls compute.
LEMMA DiffInvIsInductive ==
  /\ Init => DiffInv
  /\ DiffInv /\ [Next]_vars => DiffInv'
  BY InitDiffInv, StepDiffInv, StartDiffInv, IdleDiffInv DEF Next

\* At the end, whoever is in a table is in a pairing.
LEMMA InvAccounted == DiffInv => Accounted
<1> SUFFICES ASSUME DiffInv, phase = "done", NEW side \in {"old", "new"}, NEW k \in DOMAIN in[side]
             PROVE  LET its == {m \in DOMAIN pairings : pairings[m][side] = in[side][k].address}
                    IN  /\ its # {}
                        /\ Distinct(in.old) /\ Distinct(in.new) => \A m, n \in its : m = n
  BY DEF Accounted
<1>1. Whole(in.old) \subseteq Olds /\ Whole(in.new) \subseteq News /\ (Apart => Once)
  BY DEF DiffInv, Sides
<1> DEFINE a == in[side][k].address
           its == {m \in DOMAIN pairings : pairings[m][side] = a}
<1>2. a # None
  BY InputFacts, DiffAssumption DEF DiffInv, DiffTypes
<1>3. its # {}
  BY <1>1 DEF Whole, Olds, News
<1>4. ASSUME Apart, NEW m \in its, NEW n \in its PROVE m = n
  BY <1>1, <1>2, <1>4 DEF Once
<1>5. QED
  BY <1>3, <1>4 DEF Apart

\* What is reported belongs to the matching.
LEMMA Within == DiffInv /\ Apart /\ phase # "idle" => Report \subseteq Abstract!Expected(in)
<1> SUFFICES ASSUME DiffInv, Apart, phase # "idle" PROVE Report \subseteq Abstract!Expected(in)
  OBVIOUS
<1> DEFINE E == Abstract!Expected(in)
<1>1. Matches /\ DiffTypes /\ in.old \in Seq(Function) /\ in.new \in Seq(Function)
  BY InputFacts DEF DiffInv, DiffTypes
<1>2. E = After3(in) \cup RemovedReport(Old3(in)) \cup AddedReport(New3(in))
  BY ExpectedParts
<1>3. After1(in) \subseteq After2(in) /\ After2(in) \subseteq After3(in) /\ After3(in) \subseteq E
  BY <1>2 DEF After2, After3
<1> HIDE DEF E
<1>4. CASE phase = "identical"
  <2>1. Twins \subseteq Old(in) \ Old1(in)
    BY <1>1, <1>4, AheadFacts DEF Twins, Old, DiffTypes
  <2>2. Report \subseteq After1(in)
    BY <1>1, <1>4, <2>1 DEF Matches, SameReport, After1
  <2>3. QED
    BY <1>3, <2>2 DEF E
<1>5. CASE phase = "moved"
  <2> DEFINE P == Looked(Old1(in), New1(in), "name", DOMAIN old_by \ left)
  <2>1. Report = After1(in) \cup PairReport("Moved", P) /\ P \subseteq MovedPairs(in)
    BY <1>1, <1>5 DEF Matches, InPass, Looked, MovedPairs
  <2> HIDE DEF P
  <2>2. Report \subseteq After2(in)
    BY <2>1 DEF PairReport, After2
  <2>3. QED
    BY <1>3, <2>2 DEF E
<1>6. CASE phase = "renamed" /\ in.signed
  <2> DEFINE P == Looked(Old2(in), New2(in), "sig", DOMAIN old_by \ left)
  <2>1. Report = After2(in) \cup PairReport("Renamed", P) /\ P \subseteq RenamedPairs(in)
    BY <1>1, <1>6 DEF Matches, InPass, Looked, RenamedPairs
  <2> HIDE DEF P
  <2>2. Report \subseteq After3(in)
    BY <2>1 DEF PairReport, After3
  <2>3. QED
    BY <1>3, <2>2 DEF E
<1>7. CASE phase = "renamed" /\ ~in.signed
  BY <1>1, <1>3, <1>7 DEF Matches, E
<1>8. CASE phase = "removed"
  <2>1. RemovedReport(Ahead(in.old, i) \cap Old3(in)) \subseteq RemovedReport(Old3(in))
    BY DEF RemovedReport
  <2>2. QED
    BY <1>1, <1>2, <1>8, <2>1 DEF Matches, E
<1>9. CASE phase = "added"
  <2>1. AddedReport(Ahead(in.new, i) \cap New3(in)) \subseteq AddedReport(New3(in))
    BY DEF AddedReport
  <2>2. QED
    BY <1>1, <1>2, <1>9, <2>1 DEF Matches, E
<1>10. CASE phase = "done"
  BY <1>1, <1>10 DEF Matches, E
<1>11. QED
  BY <1>1, <1>4, <1>5, <1>6, <1>7, <1>8, <1>9, <1>10 DEF DiffTypes

\* A report grows.
LEMMA ReportGrows ==
  ASSUME DiffTypes, Step
  PROVE  Report \subseteq Report'
<1>1. ASSUME NEW p \in PairingType, pairings' \in {pairings, Append(pairings, p)} PROVE Report \subseteq Report'
  BY <1>1, OneMore, NoMore DEF DiffTypes
<1>2. ASSUME NEW kind \in Kind, NEW o \in Address \cup {None}, NEW n \in Address \cup {None},
             pairings' \in {pairings, Append(pairings, Pairing(kind, o, n))}
      PROVE  Report \subseteq Report'
  BY <1>1, <1>2, PairingTypes
<1>3. CASE Identical
  <2>1. in.old[i].address \in Address
    BY <1>3, InputFacts DEF Identical, DiffTypes
  <2>2. pairings' \in {pairings, Append(pairings, Pairing("Identical", in.old[i].address, in.old[i].address))}
    BY <1>3 DEF Identical
  <2>3. QED
    BY <1>2, <2>1, <2>2 DEF Kind
<1>4. ASSUME NEW kind \in Kind, Match(kind) PROVE Report \subseteq Report'
  <2>1. PICK key \in left :
          pairings' = pairings \/ (key \in DOMAIN new_by /\ pairings' = Append(pairings, Pairing(kind, old_by[key], new_by[key])))
    BY <1>4 DEF Match
  <2>2. key \in DOMAIN new_by => old_by[key] \in Address /\ new_by[key] \in Address
    BY DEF DiffTypes, Addressed
  <2>3. QED
    BY <1>2, <2>1, <2>2, NoMore
<1>5. CASE Removed
  <2>1. in.old[i].address \in Address
    BY <1>5, InputFacts DEF Removed, DiffTypes
  <2>2. pairings' \in {pairings, Append(pairings, Pairing("Removed", in.old[i].address, None))}
    BY <1>5 DEF Removed
  <2>3. QED
    BY <1>2, <2>1, <2>2 DEF Kind
<1>6. CASE Added
  <2>1. in.new[i].address \in Address
    BY <1>6, InputFacts DEF Added, DiffTypes
  <2>2. pairings' \in {pairings, Append(pairings, Pairing("Added", None, in.new[i].address))}
    BY <1>6 DEF Added
  <2>3. QED
    BY <1>2, <2>1, <2>2 DEF Kind
<1>7. CASE BeginMoved \/ BeginRenamed \/ BeginRemoved \/ BeginAdded \/ Finish
  BY <1>7, NoMore DEF BeginMoved, BeginRenamed, BeginRemoved, BeginAdded, Finish
<1>8. QED
  BY <1>3, <1>4, <1>5, <1>6, <1>7 DEF Step, Moved, Renamed, Kind

\* What Matching calls the report and the promise.
LEMMA AbstractTerms ==
  /\ {pairings[k] : k \in DOMAIN pairings} = Report
  /\ Abstract!Promised(in) <=> Apart
  BY DEF Report, Abstract!Promised, Abstract!Distinct, Apart, Distinct

\* A step of the passes adds pairings that belong to the report, and the last finds it complete.
LEMMA StepImplements ==
  ASSUME DiffInv, Step
  PROVE  Abstract!Report \/ Abstract!Complete
<1>1. DiffInv' /\ DiffTypes /\ Report \subseteq Report' /\ in' = in
  BY StepDiffInv, ReportGrows
  DEF DiffInv, Step, Identical, BeginMoved, Moved, BeginRenamed, Renamed, BeginRemoved, Removed, BeginAdded, Added, Finish, Match
<1>2. Apart' <=> Apart
  BY <1>1 DEF Apart
<1>3. phase \notin {"idle", "done"} /\ phase' # "idle"
  BY DEF Step, Identical, BeginMoved, Moved, BeginRenamed, Renamed, BeginRemoved, Removed, BeginAdded, Added, Finish, Match
<1>4. CASE ~Finish
  <2>1. phase' # "done"
    BY <1>3, <1>4 DEF Step, Identical, BeginMoved, Moved, BeginRenamed, Renamed, BeginRemoved, Removed, BeginAdded, Added, Match
  <2>2. (DiffInv /\ Apart /\ phase # "idle" => Report \subseteq Abstract!Expected(in))'
    BY Within, PTL
  <2>3. Apart => Report' \subseteq Abstract!Expected(in)
    BY <1>1, <1>2, <1>3, <2>2
  <2>4. {pairings'[k] : k \in DOMAIN pairings'} = Report'
    BY DEF Report
  <2>5. {pairings[k] : k \in DOMAIN pairings} \subseteq {pairings'[k] : k \in DOMAIN pairings'}
    BY <1>1, <2>4, AbstractTerms
  <2>6. Abstract!Promised(in) => {pairings'[k] : k \in DOMAIN pairings'} \subseteq Abstract!Expected(in)
    BY <2>3, <2>4, AbstractTerms
  <2>7. phase \notin {"idle", "done"} /\ phase' \notin {"idle", "done"}
    BY <1>3, <2>1
  <2>8. QED
    BY <1>1, <2>5, <2>6, <2>7 DEF Abstract!Report
<1>5. CASE Finish
  <2>1. phase' = "done" /\ pairings' = pairings
    BY <1>5 DEF Finish
  <2>2. Apart => Report = Abstract!Expected(in)
    BY <1>5, FinishMatches DEF DiffInv
  <2>3. QED
    BY <1>1, <1>3, <2>1, <2>2, AbstractTerms DEF Abstract!Complete
<1>6. QED
  BY <1>4, <1>5

LEMMA StartImplements ==
  ASSUME NEW builds \in Input, Start(builds)
  PROVE  Abstract!Compare
  BY DEF Start, Abstract!Compare

LEMMA InitImplements == Init => Abstract!Init
<1> SUFFICES ASSUME Init PROVE Abstract!Init
  OBVIOUS
<1>1. in = NoBuilds /\ DOMAIN pairings = {} /\ phase = "idle"
  BY DEF Init
<1>2. Old(in) = {} /\ New(in) = {}
  BY <1>1 DEF Old, New, Abstract!Funs, NoBuilds
<1>3. Old1(in) = {} /\ Old2(in) = {} /\ Old3(in) = {} /\ New1(in) = {} /\ New2(in) = {} /\ New3(in) = {}
  BY <1>2, RoundsNest
<1>4. MovedPairs(in) = {}
  BY <1>3 DEF MovedPairs, Abstract!Pairs
<1>5. RenamedPairs(in) = {}
  BY <1>3 DEF RenamedPairs, Abstract!Pairs
<1>6. RemovedReport(Old3(in)) = {} /\ AddedReport(New3(in)) = {} /\ SameReport(Old(in) \ Old1(in)) = {}
      /\ PairReport("Moved", MovedPairs(in)) = {} /\ PairReport("Renamed", RenamedPairs(in)) = {}
  BY <1>2, <1>3, <1>4, <1>5 DEF RemovedReport, AddedReport, SameReport, PairReport
<1>7. Abstract!Expected(in) = {}
  BY <1>6, ExpectedParts DEF After3, After2, After1
<1>8. QED
  BY <1>1, <1>7 DEF Abstract!Init

LEMMA NextImplements == DiffInv /\ [Next]_vars => [Abstract!Next]_Abstract!vars
<1> SUFFICES ASSUME DiffInv, [Next]_vars PROVE [Abstract!Next]_Abstract!vars
  OBVIOUS
<1>1. CASE Step
  BY <1>1, StepImplements DEF Abstract!Next
<1>2. ASSUME NEW builds \in Input, Start(builds) PROVE Abstract!Next
  BY <1>2, StartImplements DEF Abstract!Next
<1>3. CASE UNCHANGED vars
  BY <1>3 DEF vars, Abstract!vars
<1>4. QED
  BY <1>1, <1>2, <1>3 DEF Next

\* diff::compute leaves no function of either build out of its report, whatever it is called
\* with; and where each table gives an address once, reports each in exactly one pairing.
THEOREM DiffAccounted == Spec => []Accounted
<1>1. DiffInv => Accounted
  BY InvAccounted
<1>2. QED
  BY <1>1, DiffInvIsInductive, PTL DEF Spec

\* The passes of diff::compute, in whatever order their maps are walked, implement the
\* matching that has no order: the doc's promise that pairings are a function of the builds.
THEOREM DiffImplements == Spec => ImplementsMatching
<1>1. Spec => Abstract!Init
  BY InitImplements DEF Spec
<1>2. QED
  BY <1>1, DiffInvIsInductive, NextImplements, PTL DEF Spec, ImplementsMatching, Abstract!Spec

-----------------------------------------------------------------------------
(* The dictionary of names (Garble): what the scan passes and what it keeps. *)

Pair == Int \X Int
Cells == Seq(Seq(Int))
Table == [sec : Nat, off : Nat, pairs : Seq(Pair)]

\* The place of a header: it is in its section, and the cell before it is not one too.
LEMMA HeaderFacts ==
  ASSUME data \in Cells, NEW s \in DOMAIN data, NEW o \in Nat \ {0}, G!Header(s, o)
  PROVE  /\ o + 1 <= Len(data[s]) /\ Len(data[s]) \in Nat /\ data[s][o] \in Int
         /\ ~(o > 1 /\ G!Header(s, o - 1)) /\ ~G!Header(s, o + 1)
<1>1. data[s] \in Seq(Int)
  BY DEF Cells
<1>2. o + 1 <= Len(data[s]) /\ data[s][o] > 0 /\ data[s][o + 1] = 0
  BY DEF G!Header, G!Length
<1>3. data[s][o] \in Int
  BY <1>1, <1>2
<1>4. ASSUME o > 1, G!Header(s, o - 1) PROVE FALSE
  <2>1. (o - 1) + 1 = o
    OBVIOUS
  <2>2. data[s][o] = 0
    BY <1>4, <2>1 DEF G!Header, G!Length
  <2>3. QED
    BY <1>2, <2>2
<1>5. ASSUME G!Header(s, o + 1) PROVE FALSE
  <2>1. data[s][o + 1] > 0
    BY <1>5 DEF G!Header
  <2>2. QED
    BY <1>2, <2>1
<1>6. QED
  BY <1>1, <1>2, <1>3, <1>4, <1>5

\* A run of headers, from its first to the place where the next would be.
LEMMA RunFacts ==
  ASSUME data \in Cells, NEW s \in DOMAIN data, NEW o \in Nat \ {0}, NEW run \in G!Runs(s, o)
  PROVE  /\ run \in Seq(Int) /\ Len(run) \in Nat \ {0}
         /\ \A k \in 1 .. Len(run) : run[k] = data[s][o + 2 * (k - 1)]
         /\ \A k \in 0 .. Len(run) - 1 : G!Header(s, o + 2 * k)
         /\ ~G!Header(s, o + 2 * Len(run))
<1>1. data[s] \in Seq(Int) /\ Len(data[s]) \in Nat
  BY DEF Cells
<1>2. PICK n \in 1 .. Len(data[s]) \div 2 :
           /\ run = [k \in 1 .. n |-> data[s][o + 2 * (k - 1)]]
           /\ \A k \in 0 .. n - 1 : G!Header(s, o + 2 * k)
           /\ ~G!Header(s, o + 2 * n)
  BY DEF G!Runs
<1>3. n \in Nat \ {0}
  BY <1>1, <1>2
<1>4. ASSUME NEW k \in 1 .. n PROVE data[s][o + 2 * (k - 1)] \in Int
  <2>1. k - 1 \in 0 .. n - 1 /\ o + 2 * (k - 1) \in Nat \ {0}
    BY <1>3
  <2>2. G!Header(s, o + 2 * (k - 1))
    BY <1>2, <2>1
  <2>3. QED
    BY <2>1, <2>2, HeaderFacts
<1>5. run \in Seq(Int) /\ Len(run) = n
  BY <1>2, <1>3, <1>4
<1>6. \A k \in 1 .. n : run[k] = data[s][o + 2 * (k - 1)]
  BY <1>2
<1>7. QED
  BY <1>2, <1>3, <1>5, <1>6

\* The pairs of a run, from one of the two alignments.
LEMMA PairFacts ==
  ASSUME NEW run \in Seq(Int), Len(run) \in Nat \ {0}, NEW a \in {0, 1}
  PROVE  /\ G!Pairs(run, a) \in Seq(Pair) /\ Len(G!Pairs(run, a)) \in Nat
         /\ \A k \in Nat \ {0} : k <= Len(G!Pairs(run, a)) <=> a + 2 * k <= Len(run)
         /\ \A k \in 1 .. Len(G!Pairs(run, a)) : G!Pairs(run, a)[k] = <<run[a + 2 * k - 1], run[a + 2 * k]>>
<1> DEFINE n == (Len(run) - a) \div 2
<1>1. /\ n \in Nat
      /\ \A k \in Nat \ {0} : k <= n <=> a + 2 * k <= Len(run)
  OBVIOUS
<1>2. G!Pairs(run, a) = [k \in 1 .. n |-> <<run[a + 2 * k - 1], run[a + 2 * k]>>]
  BY DEF G!Pairs
<1> HIDE DEF n
<1>3. ASSUME NEW k \in 1 .. n PROVE <<run[a + 2 * k - 1], run[a + 2 * k]>> \in Pair
  <2>1. k \in Nat \ {0} /\ k <= n
    BY <1>1
  <2>2. a + 2 * k <= Len(run)
    BY <1>1, <2>1
  <2>3. a + 2 * k - 1 \in 1 .. Len(run) /\ a + 2 * k \in 1 .. Len(run)
    BY <2>1, <2>2
  <2>4. run[a + 2 * k - 1] \in Int /\ run[a + 2 * k] \in Int
    BY <2>3
  <2>5. QED
    BY <2>4 DEF Pair
<1>4. G!Pairs(run, a) \in Seq(Pair) /\ Len(G!Pairs(run, a)) = n
  <2> DEFINE q(k) == <<run[a + 2 * k - 1], run[a + 2 * k]>>
  <2>1. G!Pairs(run, a) = [k \in 1 .. n |-> q(k)] /\ \A k \in 1 .. n : q(k) \in Pair
    BY <1>2, <1>3
  <2> HIDE DEF q
  <2>2. n \in Nat
    BY <1>1
  <2>3. QED
    BY <2>1, <2>2
<1>5. \A k \in 1 .. n : G!Pairs(run, a)[k] = <<run[a + 2 * k - 1], run[a + 2 * k]>>
  BY <1>2
<1>6. QED
  BY <1>1, <1>4, <1>5

\* A stretch that was found: maximal, and of length enough.
LEMMA FoundFacts ==
  ASSUME NEW run \in Seq(Int), Len(run) \in Nat \ {0}, NEW e \in G!Found(run)
  PROVE  LET p == G!Pairs(run, e[1]) IN
         /\ e[1] \in {0, 1} /\ e[2] \in 1 .. Len(p) /\ e[3] \in 1 .. Len(p) /\ e[2] <= e[3]
         /\ e[2] = 1 \/ ~G!GoesOn(p, e[2] - 1)
         /\ e[3] = Len(p) \/ ~G!GoesOn(p, e[3])
         /\ G!Ascends(p, e[2], e[3])
         /\ Len(p) \in Nat /\ p \in Seq(Pair)
<1>1. PICK a \in {0, 1} : e \in G!Stretches(run, a)
  BY DEF G!Found
<1> DEFINE p == G!Pairs(run, a)
<1>2. p \in Seq(Pair) /\ Len(p) \in Nat
  BY PairFacts
<1>3. PICK f \in (1 .. Len(p)) \X (1 .. Len(p)) :
        /\ e = <<a, f[1], f[2]>>
        /\ f[2] - f[1] + 1 >= MIN_NAME_PAIRS
        /\ f[1] = 1 \/ ~G!GoesOn(p, f[1] - 1)
        /\ f[2] = Len(p) \/ ~G!GoesOn(p, f[2])
        /\ G!Ascends(p, f[1], f[2])
  BY <1>1 DEF G!Stretches
<1>4. e[1] = a /\ e[2] = f[1] /\ e[3] = f[2] /\ f[1] \in 1 .. Len(p) /\ f[2] \in 1 .. Len(p)
  BY <1>3
<1>5. f[1] <= f[2]
  <2> DEFINE x == f[1]
             y == f[2]
  <2>1. y - x + 1 >= MIN_NAME_PAIRS /\ x \in Int /\ y \in Int
    BY <1>3, <1>4
  <2> HIDE DEF x, y
  <2>2. x <= y
    BY <2>1, NamePairsAssumption
  <2>3. QED
    BY <2>2 DEF x, y
<1>6. QED
  BY <1>1, <1>2, <1>3, <1>4, <1>5

\* Ascending stretches can be put together from steps.
LEMMA AscendsFurther ==
  ASSUME NEW p, NEW j \in Nat, NEW k \in Nat, j <= k, G!Ascends(p, j, k)
  PROVE  /\ G!GoesOn(p, k) => G!Ascends(p, j, k + 1)
         /\ j > 0 /\ G!GoesOn(p, j - 1) => G!Ascends(p, j - 1, k)
<1>1. G!IsKey(p[j]) /\ \A m \in j .. k - 1 : G!GoesOn(p, m)
  BY DEF G!Ascends
<1>2. ASSUME G!GoesOn(p, k) PROVE G!Ascends(p, j, k + 1)
  <2>1. \A m \in j .. (k + 1) - 1 : m = k \/ m \in j .. k - 1
    OBVIOUS
  <2>2. QED
    BY <1>1, <1>2, <2>1 DEF G!Ascends
<1>3. ASSUME j > 0, G!GoesOn(p, j - 1) PROVE G!Ascends(p, j - 1, k)
  <2>1. \A m \in (j - 1) .. k - 1 : m = j - 1 \/ m \in j .. k - 1
    OBVIOUS
  <2>2. G!IsKey(p[j - 1])
    BY <1>3 DEF G!GoesOn
  <2>3. QED
    BY <1>1, <1>3, <2>1, <2>2 DEF G!Ascends
<1>4. QED
  BY <1>2, <1>3

\* Of a stretch that ascends the walk finds one at least as long.
LEMMA FoundLong ==
  ASSUME NEW run \in Seq(Int), Len(run) \in Nat \ {0}, NEW a \in {0, 1}, NEW j \in Nat \ {0}, NEW k \in Nat \ {0},
         j <= k, k <= Len(G!Pairs(run, a)), k - j + 1 >= MIN_NAME_PAIRS, G!Ascends(G!Pairs(run, a), j, k)
  PROVE  \E e \in G!Found(run) : G!Size(e) >= k - j + 1
<1> DEFINE p == G!Pairs(run, a)
           n == Len(p)
           T == {x \in 1 .. j : G!Ascends(p, x, k)}
<1>1. n \in Nat
  BY PairFacts
<1> HIDE DEF p, n
<1>2. PICK x \in T : \A y \in T : x <= y
  <2>1. j \in T /\ T \subseteq Nat
    BY DEF p
  <2>2. QED
    BY <2>1, LeastNumber
<1>3. x \in 1 .. j /\ G!Ascends(p, x, k)
  BY <1>2
<1>4. x = 1 \/ ~G!GoesOn(p, x - 1)
  <2> SUFFICES ASSUME x # 1, G!GoesOn(p, x - 1) PROVE FALSE
    OBVIOUS
  <2>1. x \in Nat /\ x > 0 /\ x <= k /\ x - 1 \in 1 .. j
    BY <1>3
  <2>2. G!Ascends(p, x - 1, k)
    BY <1>3, <2>1, AscendsFurther
  <2>3. QED
    BY <1>2, <2>1, <2>2
<1> DEFINE U == {d \in 0 .. n - k : G!Ascends(p, x, n - d)}
<1>5. PICK d \in U : \A y \in U : d <= y
  <2>1. n - k \in 0 .. n - k /\ n - (n - k) = k
    BY <1>1 DEF n, p
  <2>2. n - k \in U /\ U \subseteq Nat
    BY <1>3, <2>1
  <2> HIDE DEF U
  <2>3. QED
    BY <2>2, LeastNumber
<1>6. d \in 0 .. n - k /\ G!Ascends(p, x, n - d)
  BY <1>5
<1> DEFINE z == n - d
<1>7. z \in Nat /\ k <= z /\ z <= n
  BY <1>1, <1>6
<1>8. z = n \/ ~G!GoesOn(p, z)
  <2> SUFFICES ASSUME z # n, G!GoesOn(p, z) PROVE FALSE
    OBVIOUS
  <2>1. d - 1 \in 0 .. n - k /\ n - (d - 1) = z + 1 /\ x \in Nat /\ x <= z /\ ~(d <= d - 1)
    BY <1>1, <1>3, <1>6, <1>7
  <2> HIDE DEF z
  <2>2. G!Ascends(p, x, z + 1)
    BY <1>6, <1>7, <2>1, AscendsFurther DEF z
  <2>3. d - 1 \in U
    BY <2>1, <2>2
  <2> HIDE DEF U
  <2>4. QED
    BY <1>5, <2>1, <2>3
<1> DEFINE f == <<x, z>>
           e == <<a, x, z>>
<1>9. x \in 1 .. n /\ z \in 1 .. n /\ z - x + 1 >= MIN_NAME_PAIRS /\ z - x + 1 >= k - j + 1
  BY <1>1, <1>3, <1>7, NamePairsAssumption
<1>10. /\ f \in (1 .. n) \X (1 .. n) /\ f[1] = x /\ f[2] = z
  BY <1>9
<1>11. G!Ascends(p, x, z)
  BY <1>6
<1> HIDE DEF z, f
<1>12. e \in G!Stretches(run, a)
  BY <1>4, <1>8, <1>9, <1>10, <1>11 DEF G!Stretches, p, n
<1>13. e \in G!Found(run)
  BY <1>12 DEF G!Found
<1>14. G!Size(e) >= k - j + 1
  BY <1>9 DEF G!Size
<1>15. QED
  BY <1>13, <1>14

\* The cells of a planted table are headers, one behind the other.
LEMMA PlantedFacts ==
  ASSUME data \in Cells, NEW t \in Table, G!Planted(t)
  PROVE  /\ t.sec \in DOMAIN data /\ t.off \in Nat \ {0} /\ t.pairs \in Seq(Pair)
         /\ Len(t.pairs) \in Nat \ {0} /\ Len(t.pairs) >= MIN_NAME_PAIRS
         /\ \A c \in 0 .. 2 * Len(t.pairs) - 1 : G!Header(t.sec, t.off + 2 * c)
         /\ \A k \in 1 .. Len(t.pairs) :
              t.pairs[k] = <<data[t.sec][t.off + 4 * (k - 1)], data[t.sec][t.off + 4 * (k - 1) + 2]>>
         /\ G!Ascends(t.pairs, 1, Len(t.pairs))
<1> DEFINE n == Len(t.pairs)
<1>1. /\ t.sec \in DOMAIN data /\ t.off \in DOMAIN data[t.sec] /\ t.off \in Nat
      /\ t.pairs \in Seq(Pair) /\ n \in Nat /\ DOMAIN t.pairs = 1 .. n
  BY DEF G!Planted, Table
<1>2. t.off \in Nat \ {0}
  <2>1. data[t.sec] \in Seq(Int)
    BY <1>1 DEF Cells
  <2>2. QED
    BY <1>1, <2>1
<1>3. n >= MIN_NAME_PAIRS /\ G!Ascends(t.pairs, 1, n)
  BY DEF G!Planted
<1>4. n \in Nat \ {0}
  BY <1>1, <1>3, NamePairsAssumption
<1>5. \A k \in 1 .. n :
         /\ G!Header(t.sec, t.off + 4 * (k - 1)) /\ data[t.sec][t.off + 4 * (k - 1)] = t.pairs[k][1]
         /\ G!Header(t.sec, t.off + 4 * (k - 1) + 2) /\ data[t.sec][t.off + 4 * (k - 1) + 2] = t.pairs[k][2]
  BY <1>1 DEF G!Planted
<1> HIDE DEF n
<1>6. ASSUME NEW c \in 0 .. 2 * n - 1 PROVE G!Header(t.sec, t.off + 2 * c)
  <2> DEFINE k == c \div 2 + 1
  <2>1. k \in 1 .. n /\ (c = 2 * (k - 1) \/ c = 2 * (k - 1) + 1)
    BY <1>4
  <2> HIDE DEF k
  <2>2. t.off + 2 * c = t.off + 4 * (k - 1) \/ t.off + 2 * c = t.off + 4 * (k - 1) + 2
    BY <1>2, <1>4, <2>1
  <2>3. QED
    BY <1>5, <2>1, <2>2
<1>7. ASSUME NEW k \in 1 .. n
      PROVE  t.pairs[k] = <<data[t.sec][t.off + 4 * (k - 1)], data[t.sec][t.off + 4 * (k - 1) + 2]>>
  <2>1. t.pairs[k] \in Pair
    BY <1>1 DEF n
  <2>2. t.pairs[k] = <<t.pairs[k][1], t.pairs[k][2]>>
    BY <2>1 DEF Pair
  <2>3. QED
    BY <1>5, <2>2
<1>8. QED
  BY <1>1, <1>2, <1>3, <1>4, <1>6, <1>7 DEF n

\* A run that reaches into a planted table has all of it, at the run's own pace.
LEMMA RunSpans ==
  ASSUME data \in Cells, NEW t \in Table, G!Planted(t), NEW o \in Nat \ {0}, NEW run \in G!Runs(t.sec, o),
         o <= t.off, o + 2 * Len(run) > t.off
  PROVE  /\ o + 2 * Len(run) >= t.off + 4 * Len(t.pairs)
         /\ \E c \in Nat : t.off = o + 2 * c
<1> DEFINE n == Len(run)
           l == Len(t.pairs)
           z == t.off
<1>1. /\ z \in Nat \ {0} /\ l \in Nat \ {0} /\ t.sec \in DOMAIN data
      /\ \A c \in 0 .. 2 * l - 1 : G!Header(t.sec, z + 2 * c)
  BY PlantedFacts
<1>2. n \in Nat \ {0} /\ (\A k \in 0 .. n - 1 : G!Header(t.sec, o + 2 * k)) /\ ~G!Header(t.sec, o + 2 * n)
  BY <1>1, RunFacts
<1>3. o <= z /\ o + 2 * n > z
  OBVIOUS
<1> HIDE DEF n, l, z
<1>4. \E c \in Nat : z = o + 2 * c \/ z = o + 2 * c + 1
  <2> DEFINE c == (z - o) \div 2
  <2>1. c \in Nat /\ (z = o + 2 * c \/ z = o + 2 * c + 1)
    BY <1>1, <1>3
  <2> HIDE DEF c
  <2>2. QED
    BY <2>1
<1>5. PICK c \in Nat : z = o + 2 * c \/ z = o + 2 * c + 1
  BY <1>4
<1>6. z = o + 2 * c
  <2> SUFFICES ASSUME z = o + 2 * c + 1 PROVE FALSE
    BY <1>5
  <2>1. c \in 0 .. n - 1 /\ o + 2 * c \in Nat \ {0} /\ (o + 2 * c) + 1 = z
    BY <1>2, <1>3
  <2>2. G!Header(t.sec, o + 2 * c)
    BY <1>2, <2>1
  <2>3. ~G!Header(t.sec, z)
    BY <1>1, <2>1, <2>2, HeaderFacts
  <2>4. 0 \in 0 .. 2 * l - 1 /\ z + 2 * 0 = z
    BY <1>1
  <2>5. G!Header(t.sec, z + 2 * 0)
    BY <1>1, <2>4
  <2>6. QED
    BY <2>3, <2>4, <2>5
<1>7. o + 2 * n >= z + 4 * l
  <2> SUFFICES ASSUME o + 2 * n < z + 4 * l PROVE FALSE
    BY <1>1, <1>2
  <2>1. n - c \in 0 .. 2 * l - 1 /\ z + 2 * (n - c) = o + 2 * n
    BY <1>1, <1>2, <1>3, <1>6
  <2>2. G!Header(t.sec, z + 2 * (n - c))
    BY <1>1, <2>1
  <2>3. QED
    BY <1>2, <2>1, <2>2
<1>8. QED
  BY <1>6, <1>7 DEF n, l, z

\* The run has all of the table; and the table begins at pair b of alignment a.
Spans(t, o, run) == o + 2 * Len(run) >= t.off + 4 * Len(t.pairs)
Placed(t, o, a, b) == t.off = o + 2 * a + 4 * b

\* In such a run the table is one stretch of one alignment's pairs.
LEMMA RunHolds ==
  ASSUME data \in Cells, NEW t \in Table, G!Planted(t), NEW o \in Nat \ {0}, NEW run \in G!Runs(t.sec, o),
         Spans(t, o, run), NEW a \in {0, 1}, NEW b \in Nat, Placed(t, o, a, b)
  PROVE  /\ b + Len(t.pairs) <= Len(G!Pairs(run, a))
         /\ \A k \in 1 .. Len(t.pairs) : G!Pairs(run, a)[b + k] = t.pairs[k]
<1> DEFINE n == Len(run)
           l == Len(t.pairs)
           z == t.off
           p == G!Pairs(run, a)
<1>1. /\ z \in Nat \ {0} /\ l \in Nat \ {0} /\ t.sec \in DOMAIN data
      /\ \A k \in 1 .. l : t.pairs[k] = <<data[t.sec][z + 4 * (k - 1)], data[t.sec][z + 4 * (k - 1) + 2]>>
  BY PlantedFacts
<1>2. run \in Seq(Int) /\ n \in Nat \ {0} /\ \A k \in 1 .. n : run[k] = data[t.sec][o + 2 * (k - 1)]
  BY <1>1, RunFacts
<1>3. /\ \A k \in Nat \ {0} : k <= Len(p) <=> a + 2 * k <= n
      /\ \A k \in 1 .. Len(p) : p[k] = <<run[a + 2 * k - 1], run[a + 2 * k]>>
      /\ Len(p) \in Nat
  BY <1>2, PairFacts
<1>4. o + 2 * n >= z + 4 * l /\ z = o + 2 * a + 4 * b
  BY DEF Spans, Placed
<1> HIDE DEF n, l, z, p
<1>5. b + l <= Len(p)
  <2>1. a + 2 * (b + l) <= n /\ b + l \in Nat \ {0}
    BY <1>1, <1>2, <1>4
  <2>2. QED
    BY <1>3, <2>1
<1>6. ASSUME NEW k \in 1 .. l PROVE p[b + k] = t.pairs[k]
  <2> DEFINE x == a + 2 * (b + k) - 1
  <2>1. b + k \in 1 .. Len(p)
    BY <1>1, <1>3, <1>5
  <2>2. a + 2 * (b + k) <= n
    BY <1>3, <2>1
  <2>3. x \in 1 .. n /\ x + 1 \in 1 .. n /\ a + 2 * (b + k) = x + 1
    BY <1>1, <1>2, <2>2
  <2>4. p[b + k] = <<run[x], run[x + 1]>>
    BY <1>3, <2>1, <2>3
  <2>5. o + 2 * (x - 1) = z + 4 * (k - 1) /\ o + 2 * ((x + 1) - 1) = z + 4 * (k - 1) + 2
    BY <1>1, <1>4
  <2> HIDE DEF x
  <2>6. run[x] = data[t.sec][z + 4 * (k - 1)]
    BY <1>2, <2>3, <2>5
  <2>7. run[x + 1] = data[t.sec][z + 4 * (k - 1) + 2]
    BY <1>2, <2>3, <2>5
  <2>8. QED
    BY <1>1, <2>4, <2>6, <2>7
<1>7. QED
  BY <1>5, <1>6 DEF n, l, z, p

\* A stretch that the pairs of a table make, wherever they are.
LEMMA SameStretch ==
  ASSUME NEW q, NEW l \in Nat \ {0}, G!Ascends(q, 1, l), NEW p, NEW b \in Nat,
         \A k \in 1 .. l : p[b + k] = q[k]
  PROVE  /\ G!Ascends(p, b + 1, b + l)
         /\ \A m \in b + 1 .. b + l - 1 : G!GoesOn(p, m)
<1>1. G!IsKey(q[1]) /\ \A m \in 1 .. l - 1 : G!GoesOn(q, m)
  BY DEF G!Ascends
<1>2. p[b + 1] = q[1]
  OBVIOUS
<1>3. ASSUME NEW m \in b + 1 .. b + l - 1 PROVE G!GoesOn(p, m)
  <2> DEFINE k == m - b
  <2>1. k \in 1 .. l - 1 /\ k \in 1 .. l /\ k + 1 \in 1 .. l /\ b + k = m /\ b + (k + 1) = m + 1
    OBVIOUS
  <2> HIDE DEF k
  <2>2. p[m] = q[k] /\ p[m + 1] = q[k + 1]
    BY <2>1
  <2>3. G!GoesOn(q, k)
    BY <1>1, <2>1
  <2>4. QED
    BY <2>2, <2>3 DEF G!GoesOn
<1>4. G!IsKey(p[b + 1])
  BY <1>1, <1>2
<1>5. QED
  BY <1>3, <1>4 DEF G!Ascends

NamesTyped ==
    /\ data \in Cells
    /\ sec \in Nat \ {0} /\ off \in Nat \ {0}
    /\ best \in Seq(Pair)

\* The dictionary in hand is a stretch of a run that does not begin inside the table.
ChosenFrom(t, s, o, run, e) ==
    /\ s \in DOMAIN data /\ o \in Nat \ {0}
    /\ run \in G!Runs(s, o) /\ e \in G!Found(run)
    /\ best = SubSeq(G!Pairs(run, e[1]), e[2], e[3])
    /\ s = t.sec => o <= t.off \/ o >= t.off + 4 * Len(t.pairs)

Chosen(t) == best = <<>> \/ \E s, o, run, e : ChosenFrom(t, s, o, run, e)

\* The scan steps over a table as a whole, and from then on has a dictionary as long.
Behind(t) == sec > t.sec \/ (sec = t.sec /\ off > t.off)
ScanInv(t) ==
    /\ sec = t.sec => off <= t.off \/ off >= t.off + 4 * Len(t.pairs)
    /\ Behind(t) => Len(best) >= Len(t.pairs)
    /\ Chosen(t)

NamesInv == NamesTyped /\ \A t \in Table : G!Planted(t) => ScanInv(t)

\* What is chosen from a run, as a sequence.
LEMMA ChosenStretch ==
  ASSUME NEW run \in Seq(Int), Len(run) \in Nat \ {0}, NEW e \in G!Found(run)
  PROVE  LET p == G!Pairs(run, e[1])
             q == SubSeq(p, e[2], e[3])
         IN  /\ q \in Seq(Pair) /\ Len(q) = G!Size(e) /\ G!Size(e) \in Nat \ {0}
             /\ \A k \in 1 .. G!Size(e) : q[k] = p[e[2] + k - 1]
<1> DEFINE p == G!Pairs(run, e[1])
           first == e[2]
           j == e[3]
<1>1. p \in Seq(Pair) /\ Len(p) \in Nat /\ first \in 1 .. Len(p) /\ j \in 1 .. Len(p) /\ first <= j
  BY FoundFacts
<1>2. G!Size(e) = j - first + 1
  BY DEF G!Size
<1> HIDE DEF p, first, j
<1>3. j - first + 1 \in Nat \ {0}
  BY <1>1
<1>4. SubSeq(p, first, j) \in Seq(Pair) /\ Len(SubSeq(p, first, j)) = j - first + 1
  <2>1. \A k \in first .. j : p[k] \in Pair
    BY <1>1
  <2>2. QED
    BY <1>1, <2>1
<1>5. \A k \in 1 .. j - first + 1 : SubSeq(p, first, j)[k] = p[first + k - 1]
  <2>1. first \in 1 .. Len(p) + 1 /\ j \in first - 1 .. Len(p)
    BY <1>1
  <2>2. QED
    BY <1>1, <2>1, SubSeqProperties
<1>6. QED
  BY <1>2, <1>3, <1>4, <1>5 DEF p, first, j

\* A run that has the table in it leaves a dictionary as long behind.
LEMMA TakeLong ==
  ASSUME NamesTyped, NEW t \in Table, G!Planted(t), NEW o \in Nat \ {0}, NEW run \in G!Runs(t.sec, o),
         o <= t.off, o + 2 * Len(run) > t.off
  PROVE  \E e \in G!Found(run) : G!Size(e) >= Len(t.pairs)
<1> DEFINE n == Len(run)
           l == Len(t.pairs)
           z == t.off
<1>1. /\ data \in Cells /\ z \in Nat \ {0} /\ l \in Nat \ {0} /\ l >= MIN_NAME_PAIRS /\ t.sec \in DOMAIN data
      /\ G!Ascends(t.pairs, 1, l)
  BY PlantedFacts DEF NamesTyped
<1>2. run \in Seq(Int) /\ n \in Nat \ {0}
  BY <1>1, RunFacts
<1>3. PICK c \in Nat : z = o + 2 * c
  BY <1>1, RunSpans
<1>4. o + 2 * n >= z + 4 * l
  BY <1>1, RunSpans
<1> DEFINE a == c % 2
           b == c \div 2
<1>5. a \in {0, 1} /\ b \in Nat /\ c = a + 2 * b
  OBVIOUS
<1> HIDE DEF a, b
<1>6. z = o + 2 * a + 4 * b
  BY <1>3, <1>5
<1>7. b + l <= Len(G!Pairs(run, a)) /\ \A k \in 1 .. l : G!Pairs(run, a)[b + k] = t.pairs[k]
  <2>1. Placed(t, o, a, b) /\ Spans(t, o, run)
    BY <1>4, <1>6 DEF Placed, Spans
  <2>2. QED
    BY <1>1, <1>5, <2>1, RunHolds
<1> DEFINE p == G!Pairs(run, a)
<1>8. \A k \in 1 .. l : p[b + k] = t.pairs[k]
  BY <1>7
<1> HIDE DEF p, l
<1>9. G!Ascends(p, b + 1, b + l)
  BY <1>1, <1>5, <1>8, SameStretch
<1>l. l \in Nat \ {0}
  BY <1>1 DEF l
<1>10. /\ b + 1 \in Nat \ {0} /\ b + l \in Nat \ {0} /\ b + 1 <= b + l
       /\ (b + l) - (b + 1) + 1 = l
  BY <1>l, <1>5
<1>11. \E e \in G!Found(run) : G!Size(e) >= (b + l) - (b + 1) + 1
  <2> DEFINE j == b + 1
             k == b + l
  <2>1. /\ j \in Nat \ {0} /\ k \in Nat \ {0} /\ j <= k /\ k <= Len(G!Pairs(run, a)) /\ k - j + 1 >= MIN_NAME_PAIRS
        /\ G!Ascends(G!Pairs(run, a), j, k)
    BY <1>1, <1>7, <1>9, <1>10 DEF p, l
  <2> HIDE DEF j, k
  <2>2. \E e \in G!Found(run) : G!Size(e) >= k - j + 1
    BY <1>2, <1>5, <2>1, FoundLong
  <2>3. QED
    BY <2>2 DEF j, k
<1>12. QED
  BY <1>10, <1>11 DEF l

\* Nothing of a choice depends on where the scan is.
LEMMA SameRuns ==
  ASSUME data' = data
  PROVE  \A s, o : G!Runs(s, o)' = G!Runs(s, o)
<1>1. ASSUME NEW s, NEW o PROVE G!Runs(s, o)' = G!Runs(s, o)
  BY DEF G!Runs, G!Header
<1>2. QED
  BY <1>1

LEMMA ChoiceStands ==
  ASSUME data' = data, NEW t, NEW s, NEW o, NEW run, NEW e, s \in DOMAIN data, o \in Nat \ {0},
         run \in G!Runs(s, o), e \in G!Found(run), best' = SubSeq(G!Pairs(run, e[1]), e[2], e[3]),
         s = t.sec => o <= t.off \/ o >= t.off + 4 * Len(t.pairs)
  PROVE  Chosen(t)'
<1>1. run \in G!Runs(s, o)'
  BY SameRuns
<1>2. ChosenFrom(t, s, o, run, e)'
  BY <1>1 DEF ChosenFrom
<1>3. QED
  BY <1>2 DEF Chosen

LEMMA SameChoice ==
  ASSUME data' = data, best' = best, NEW t, Chosen(t)
  PROVE  Chosen(t)'
<1>1. CASE best = <<>>
  BY <1>1 DEF Chosen
<1>2. CASE best # <<>>
  <2>1. PICK s, o, run, e : ChosenFrom(t, s, o, run, e)
    BY <1>2 DEF Chosen
  <2>2. QED
    BY <2>1, ChoiceStands DEF ChosenFrom
<1>3. QED
  BY <1>1, <1>2

LEMMA NextSectionKeeps == NamesInv /\ G!NextSection => NamesInv'
<1> SUFFICES ASSUME NamesInv, G!NextSection PROVE NamesInv'
  OBVIOUS
<1>1. /\ sec <= Len(data) /\ off + 1 > Len(data[sec]) /\ sec' = sec + 1 /\ off' = 1
      /\ data' = data /\ best' = best
  BY DEF G!NextSection
<1>2. NamesTyped /\ NamesTyped'
  BY <1>1 DEF NamesInv, NamesTyped
<1>3. ASSUME NEW t \in Table, G!Planted(t)' PROVE ScanInv(t)'
  <2>1. G!Planted(t)
    BY <1>1, <1>3 DEF G!Planted, G!Header
  <2>2. ScanInv(t)
    BY <2>1 DEF NamesInv
  <2>3. /\ t.off \in Nat \ {0} /\ t.sec \in DOMAIN data /\ t.sec \in Nat /\ Len(t.pairs) \in Nat \ {0}
        /\ \A c \in 0 .. 2 * Len(t.pairs) - 1 : G!Header(t.sec, t.off + 2 * c)
    BY <1>2, <2>1, PlantedFacts DEF NamesTyped, Table
  <2>4. Chosen(t)'
    BY <1>1, <2>2, SameChoice DEF ScanInv
  <2>x. sec \in Nat /\ off \in Nat
    BY <1>2 DEF NamesTyped
  <2>5. sec = t.sec => Behind(t)
    <3> SUFFICES ASSUME sec = t.sec, ~(off > t.off) PROVE FALSE
      BY DEF Behind
    <3>1. 0 \in 0 .. 2 * Len(t.pairs) - 1 /\ t.off + 2 * 0 = t.off
      BY <2>3
    <3>2. G!Header(t.sec, t.off)
      BY <2>3, <3>1
    <3>3. t.off + 1 <= Len(data[t.sec]) /\ Len(data[t.sec]) \in Nat
      BY <1>2, <2>3, <3>2, HeaderFacts DEF NamesTyped
    <3>4. ~(off > t.off) /\ off + 1 > Len(data[t.sec])
      BY <1>1
    <3>5. QED
      BY <2>3, <2>x, <3>3, <3>4
  <2>6. Behind(t)' => Behind(t)
    BY <1>1, <2>x, <2>3, <2>5 DEF Behind
  <2>7. sec' = t.sec => off' <= t.off
    BY <1>1, <2>3
  <2>8. QED
    BY <1>1, <2>2, <2>4, <2>6, <2>7 DEF ScanInv
<1>4. QED
  BY <1>2, <1>3 DEF NamesInv

LEMMA NoHeaderKeeps == NamesInv /\ G!NoHeader => NamesInv'
<1> SUFFICES ASSUME NamesInv, G!NoHeader PROVE NamesInv'
  OBVIOUS
<1>1. ~G!Header(sec, off) /\ sec' = sec /\ off' = off + 1 /\ data' = data /\ best' = best
  BY DEF G!NoHeader
<1>2. NamesTyped /\ NamesTyped'
  BY <1>1 DEF NamesInv, NamesTyped
<1>3. ASSUME NEW t \in Table, G!Planted(t)' PROVE ScanInv(t)'
  <2>1. G!Planted(t)
    BY <1>1, <1>3 DEF G!Planted, G!Header
  <2>2. ScanInv(t)
    BY <2>1 DEF NamesInv
  <2>3. /\ t.off \in Nat \ {0} /\ Len(t.pairs) \in Nat \ {0}
        /\ \A c \in 0 .. 2 * Len(t.pairs) - 1 : G!Header(t.sec, t.off + 2 * c)
    BY <1>2, <2>1, PlantedFacts DEF NamesTyped
  <2>4. Chosen(t)'
    BY <1>1, <2>2, SameChoice DEF ScanInv
  <2>5. G!Header(t.sec, t.off)
    <3>1. 0 \in 0 .. 2 * Len(t.pairs) - 1 /\ t.off + 2 * 0 = t.off
      BY <2>3
    <3>2. QED
      BY <2>3, <3>1
  <2>6. sec = t.sec => off # t.off
    BY <1>1, <2>5
  <2>7. off \in Nat /\ (sec = t.sec => off <= t.off \/ off >= t.off + 4 * Len(t.pairs))
    BY <1>2, <2>2 DEF NamesTyped, ScanInv
  <2>8. sec' = t.sec => off' <= t.off \/ off' >= t.off + 4 * Len(t.pairs)
    BY <1>1, <2>3, <2>6, <2>7
  <2>9. Behind(t)' => Behind(t)
    BY <1>1, <2>3, <2>6, <2>7 DEF Behind
  <2>10. QED
    BY <1>1, <2>2, <2>4, <2>8, <2>9 DEF ScanInv
<1>4. QED
  BY <1>2, <1>3 DEF NamesInv

LEMMA TakeRunKeeps == NamesInv /\ G!TakeRun => NamesInv'
<1> SUFFICES ASSUME NamesInv, G!TakeRun PROVE NamesInv'
  OBVIOUS
<1>1. PICK run \in G!Runs(sec, off) :
         /\ \/ \E e \in G!Found(run) :
                 /\ G!Size(e) > Len(best)
                 /\ \A f \in G!Found(run) : G!Preferred(e, f)
                 /\ best' = SubSeq(G!Pairs(run, e[1]), e[2], e[3])
            \/ /\ \A e \in G!Found(run) : G!Size(e) <= Len(best)
               /\ UNCHANGED best
         /\ off' = G!Past(off, run)
  BY DEF G!TakeRun
<1>2. data' = data /\ sec' = sec /\ sec <= Len(data) /\ NamesTyped
  BY DEF G!TakeRun, NamesInv
<1>3. sec \in DOMAIN data /\ data \in Cells /\ sec \in Nat \ {0} /\ off \in Nat \ {0} /\ best \in Seq(Pair) /\ Len(best) \in Nat
  BY <1>2 DEF NamesTyped, Cells
<1>4. run \in Seq(Int) /\ Len(run) \in Nat \ {0} /\ off' = off + 2 * Len(run)
  BY <1>1, <1>3, RunFacts DEF G!Past
<1>5. \/ \E e \in G!Found(run) :
            /\ \A f \in G!Found(run) : G!Size(e) >= G!Size(f)
            /\ G!Size(e) > Len(best)
            /\ best' = SubSeq(G!Pairs(run, e[1]), e[2], e[3])
            /\ best' \in Seq(Pair) /\ Len(best') = G!Size(e)
      \/ (\A e \in G!Found(run) : G!Size(e) <= Len(best)) /\ best' = best
  <2>1. ASSUME NEW e \in G!Found(run), \A f \in G!Found(run) : G!Preferred(e, f)
        PROVE  \A f \in G!Found(run) : G!Size(e) >= G!Size(f)
    <3>1. TAKE f \in G!Found(run)
    <3>2. G!Size(e) \in Nat /\ G!Size(f) \in Nat
      BY <1>4, ChosenStretch
    <3>3. G!Size(e) > G!Size(f) \/ G!Size(e) = G!Size(f)
      BY <2>1 DEF G!Preferred
    <3>4. QED
      BY <3>2, <3>3
  <2>2. \A e \in G!Found(run) : /\ SubSeq(G!Pairs(run, e[1]), e[2], e[3]) \in Seq(Pair)
                                /\ Len(SubSeq(G!Pairs(run, e[1]), e[2], e[3])) = G!Size(e)
    BY <1>4, ChosenStretch
  <2>3. QED
    BY <1>1, <2>1, <2>2
<1>6. best' \in Seq(Pair) /\ Len(best') \in Nat /\ Len(best') >= Len(best)
  <2>1. \A e \in G!Found(run) : G!Size(e) \in Nat
    BY <1>4, ChosenStretch
  <2>2. QED
    BY <1>3, <1>5, <2>1
<1>7. NamesTyped'
  BY <1>2, <1>3, <1>4, <1>6 DEF NamesTyped
<1>8. ASSUME NEW t \in Table, G!Planted(t)' PROVE ScanInv(t)'
  <2>1. G!Planted(t)
    BY <1>2, <1>8 DEF G!Planted, G!Header
  <2>2. ScanInv(t)
    BY <2>1 DEF NamesInv
  <2>3. t.off \in Nat \ {0} /\ t.sec \in Nat /\ Len(t.pairs) \in Nat \ {0}
    BY <1>3, <2>1, PlantedFacts DEF Table
  <2>4. sec = t.sec => off <= t.off \/ off >= t.off + 4 * Len(t.pairs)
    BY <2>2 DEF ScanInv
  <2>5. ASSUME sec = t.sec, off <= t.off, off' > t.off
        PROVE  off' >= t.off + 4 * Len(t.pairs) /\ Len(best') >= Len(t.pairs)
    <3>1. run \in G!Runs(t.sec, off) /\ off + 2 * Len(run) > t.off
      BY <1>1, <1>4, <2>5
    <3>2. off + 2 * Len(run) >= t.off + 4 * Len(t.pairs)
      BY <1>3, <2>1, <2>5, <3>1, RunSpans
    <3>3. PICK f \in G!Found(run) : G!Size(f) >= Len(t.pairs)
      BY <1>2, <1>3, <2>1, <2>5, <3>1, TakeLong
    <3>4. Len(best') >= G!Size(f)
      BY <1>5, <1>3
    <3>5. G!Size(f) \in Nat
      BY <1>4, ChosenStretch
    <3>6. QED
      BY <1>4, <1>6, <2>3, <3>2, <3>3, <3>4, <3>5
  <2>6. sec' = t.sec => off' <= t.off \/ off' >= t.off + 4 * Len(t.pairs)
    <3> SUFFICES ASSUME sec = t.sec PROVE off' <= t.off \/ off' >= t.off + 4 * Len(t.pairs)
      BY <1>2
    <3>1. CASE off <= t.off
      BY <1>3, <1>4, <2>3, <2>5, <3>1
    <3>2. CASE off >= t.off + 4 * Len(t.pairs)
      <4>1. off' = off + 2 * Len(run) /\ Len(run) \in Nat /\ off \in Nat /\ t.off + 4 * Len(t.pairs) \in Nat
        BY <1>3, <1>4, <2>3
      <4>2. off' >= t.off + 4 * Len(t.pairs)
        BY <3>2, <4>1
      <4>3. QED
        BY <4>2
    <3>3. QED
      BY <2>4, <3>1, <3>2
  <2>7. Behind(t)' => Len(best') >= Len(t.pairs)
    <3>1. CASE Behind(t)
      <4>1. Len(best) >= Len(t.pairs)
        BY <2>2, <3>1 DEF ScanInv
      <4>2. QED
        BY <1>3, <1>6, <2>3, <4>1
    <3>2. CASE ~Behind(t)
      <4> SUFFICES ASSUME Behind(t)' PROVE Len(best') >= Len(t.pairs)
        OBVIOUS
      <4>1. sec = t.sec /\ off <= t.off /\ off' > t.off
        BY <1>2, <1>3, <2>3, <3>2 DEF Behind
      <4>2. QED
        BY <2>5, <4>1
    <3>3. QED
      BY <3>1, <3>2
  <2>8. Chosen(t)'
    <3>1. CASE best' = best
      BY <1>2, <2>2, <3>1, SameChoice DEF ScanInv
    <3>2. ASSUME NEW e \in G!Found(run), best' = SubSeq(G!Pairs(run, e[1]), e[2], e[3])
          PROVE  Chosen(t)'
      <4> DEFINE s == sec
                 o == off
      <4>1. /\ data' = data /\ s \in DOMAIN data /\ o \in Nat \ {0} /\ run \in G!Runs(s, o)
            /\ s = t.sec => o <= t.off \/ o >= t.off + 4 * Len(t.pairs)
        BY <1>1, <1>2, <1>3, <2>4
      <4> HIDE DEF s, o
      <4>2. QED
        BY <3>2, <4>1, ChoiceStands
    <3>3. QED
      BY <1>5, <3>1, <3>2
  <2>9. QED
    BY <2>6, <2>7, <2>8 DEF ScanInv
<1>9. QED
  BY <1>7, <1>8 DEF NamesInv

\* Where the first l pairs of a stretch lie, from pair first of alignment a of a run of n at o.
WindowAt(o, a, first) == o + 2 * a + 4 * (first - 1)
Fits(o, a, first, j, l, n) ==
    /\ o \in Nat \ {0} /\ a \in {0, 1} /\ first \in Nat \ {0} /\ j \in Nat /\ first <= j /\ l \in Nat \ {0} /\ n \in Nat
    /\ first + l - 1 <= j /\ a + 2 * j <= n

LEMMA WindowNumbers ==
  ASSUME NEW o, NEW a, NEW first, NEW j, NEW l, NEW n, Fits(o, a, first, j, l, n)
  PROVE  LET w == WindowAt(o, a, first) IN
         /\ w \in Nat \ {0} /\ o <= w
         /\ \A k \in 0 .. 2 * l - 1 : /\ a + 2 * (first - 1) + k \in 0 .. n - 1
                                      /\ o + 2 * (a + 2 * (first - 1) + k) = w + 2 * k
         /\ \A k \in 1 .. l : /\ first + k - 1 \in first .. j
                              /\ a + 2 * (first + k - 1) - 1 \in 1 .. n
                              /\ o + 2 * ((a + 2 * (first + k - 1) - 1) - 1) = w + 4 * (k - 1)
         /\ \A m \in 1 .. l - 1 : first + m - 1 \in first .. j - 1 /\ first + (m + 1) - 1 = (first + m - 1) + 1
  BY DEF Fits, WindowAt

LEMMA OverlapNumbers ==
  ASSUME NEW o, NEW a, NEW first, NEW j, NEW l, NEW n, Fits(o, a, first, j, l, n), NEW z \in Nat \ {0}, o <= z,
         (WindowAt(o, a, first) - z) % 4 = 0, WindowAt(o, a, first) + 4 * l > z, WindowAt(o, a, first) < z + 4 * l
  PROVE  \E b \in Nat : z = o + 2 * a + 4 * b /\ o + 2 * n > z /\ first <= b + l /\ first + l > b + 1
<1> DEFINE w == WindowAt(o, a, first)
           q == (w - z) \div 4
           b == first - 1 - q
<1>1. /\ o \in Int /\ a \in Int /\ first \in Int /\ j \in Int /\ l \in Int /\ n \in Int /\ 1 <= o /\ 0 <= a /\ a <= 1
      /\ 1 <= first /\ first <= j /\ 1 <= l /\ first + l - 1 <= j /\ a + 2 * j <= n /\ w = o + 2 * a + 4 * (first - 1)
  BY DEF Fits, WindowAt
<1>2. w \in Int /\ (w - z) % 4 = 0 /\ w + 4 * l > z /\ w < z + 4 * l
  BY <1>1
<1> HIDE DEF w
<1>3. q \in Int /\ w - z = 4 * q
  BY <1>2
<1> HIDE DEF q
<1>4. b \in Nat /\ z = o + 2 * a + 4 * b
  BY <1>1, <1>2, <1>3
<1>5. o + 2 * n > z
  BY <1>1, <1>2
<1>6. first <= b + l /\ first + l > b + 1
  BY <1>1, <1>2, <1>3
<1> HIDE DEF b
<1>7. QED
  BY <1>4, <1>5, <1>6

\* A dictionary as long as an unrivalled table has every name of it.
LEMMA Recovers ==
  ASSUME NamesTyped, NEW t \in Table, G!Planted(t), G!Unrivalled(t), Chosen(t), Len(best) >= Len(t.pairs)
  PROVE  \A k \in DOMAIN t.pairs : \E m \in DOMAIN best : best[m] = t.pairs[k]
<1> DEFINE l == Len(t.pairs)
           z == t.off
<1>1. /\ data \in Cells /\ z \in Nat \ {0} /\ l \in Nat \ {0} /\ t.sec \in DOMAIN data /\ DOMAIN t.pairs = 1 .. l
      /\ G!Ascends(t.pairs, 1, l) /\ best \in Seq(Pair) /\ DOMAIN best = 1 .. Len(best) /\ Len(best) >= l
  BY PlantedFacts DEF NamesTyped
<1>2. PICK s, o, run, e : ChosenFrom(t, s, o, run, e)
  <2>1. best # <<>>
    BY <1>1
  <2>2. QED
    BY <2>1 DEF Chosen
<1>3. /\ s \in DOMAIN data /\ o \in Nat \ {0} /\ run \in G!Runs(s, o) /\ e \in G!Found(run)
      /\ best = SubSeq(G!Pairs(run, e[1]), e[2], e[3]) /\ (s = t.sec => o <= z \/ o >= z + 4 * l)
  BY <1>2 DEF ChosenFrom
<1> DEFINE n == Len(run)
           a == e[1]
           first == e[2]
           j == e[3]
           p == G!Pairs(run, a)
<1>4. /\ run \in Seq(Int) /\ n \in Nat \ {0}
      /\ \A k \in 1 .. n : run[k] = data[s][o + 2 * (k - 1)]
      /\ \A k \in 0 .. n - 1 : G!Header(s, o + 2 * k)
  BY <1>1, <1>3, RunFacts
<1>5. /\ a \in {0, 1} /\ first \in 1 .. Len(p) /\ j \in 1 .. Len(p) /\ first <= j /\ Len(p) \in Nat
      /\ first = 1 \/ ~G!GoesOn(p, first - 1)
      /\ j = Len(p) \/ ~G!GoesOn(p, j)
      /\ G!Ascends(p, first, j)
  BY <1>3, <1>4, FoundFacts
<1>6. /\ \A k \in Nat \ {0} : k <= Len(p) <=> a + 2 * k <= n
      /\ \A k \in 1 .. Len(p) : p[k] = <<run[a + 2 * k - 1], run[a + 2 * k]>>
  BY <1>4, <1>5, PairFacts
<1>7. Len(best) = j - first + 1 /\ \A k \in 1 .. j - first + 1 : best[k] = p[first + k - 1]
  BY <1>3, <1>4, ChosenStretch DEF G!Size
<1> HIDE DEF l, z, n, a, first, j, p
<1>N. /\ o \in Int /\ a \in Int /\ first \in Int /\ j \in Int /\ l \in Int /\ z \in Int /\ n \in Int /\ Len(p) \in Int
      /\ 1 <= o /\ 0 <= a /\ a <= 1 /\ 1 <= first /\ first <= j /\ j <= Len(p) /\ 1 <= l /\ 1 <= z /\ 1 <= n
  <2>1. a \in Int /\ 0 <= a /\ a <= 1
    BY <1>5
  <2>2. first \in Int /\ j \in Int /\ 1 <= first /\ first <= j /\ j <= Len(p) /\ Len(p) \in Int
    BY <1>5
  <2>3. o \in Int /\ 1 <= o
    BY <1>3
  <2>4. l \in Int /\ z \in Int /\ n \in Int /\ 1 <= l /\ 1 <= z /\ 1 <= n
    BY <1>1, <1>4
  <2>5. QED
    BY <2>1, <2>2, <2>3, <2>4
<1>8. first + l - 1 <= j /\ a + 2 * j <= n
  <2>1. first + l - 1 <= j
    <3>1. j - first + 1 >= l
      BY <1>1, <1>7
    <3>2. QED
      BY <1>N, <3>1
  <2>2. j \in Nat \ {0} /\ j <= Len(p)
    BY <1>5
  <2>3. QED
    BY <1>6, <2>1, <2>2
<1> DEFINE w == WindowAt(o, a, first)
<1>f. Fits(o, a, first, j, l, n)
  BY <1>N, <1>8 DEF Fits
<1>9. /\ w \in Nat \ {0} /\ o <= w
      /\ \A k \in 0 .. 2 * l - 1 : /\ a + 2 * (first - 1) + k \in 0 .. n - 1
                                   /\ o + 2 * (a + 2 * (first - 1) + k) = w + 2 * k
      /\ \A k \in 1 .. l : /\ first + k - 1 \in first .. j
                           /\ a + 2 * (first + k - 1) - 1 \in 1 .. n
                           /\ o + 2 * ((a + 2 * (first + k - 1) - 1) - 1) = w + 4 * (k - 1)
      /\ \A m \in 1 .. l - 1 : first + m - 1 \in first .. j - 1 /\ first + (m + 1) - 1 = (first + m - 1) + 1
  BY <1>f, WindowNumbers
<1>10. \A k \in 0 .. 2 * l - 1 : G!Header(s, w + 2 * k)
  <2>1. TAKE k \in 0 .. 2 * l - 1
  <2>2. a + 2 * (first - 1) + k \in 0 .. n - 1 /\ o + 2 * (a + 2 * (first - 1) + k) = w + 2 * k
    BY <1>9
  <2> HIDE DEF w
  <2>3. QED
    BY <1>4, <2>2
<1>11. \A k \in 1 .. l : data[s][w + 4 * (k - 1)] = p[first + k - 1][1]
  <2>1. TAKE k \in 1 .. l
  <2> DEFINE x == first + k - 1
             y == a + 2 * x - 1
  <2>2. x \in first .. j /\ y \in 1 .. n /\ o + 2 * (y - 1) = w + 4 * (k - 1)
    BY <1>9
  <2> HIDE DEF w, x
  <2>3. x \in 1 .. Len(p)
    BY <1>N, <2>2
  <2>4. p[x] = <<run[y], run[a + 2 * x]>>
    BY <1>6, <2>3
  <2> HIDE DEF y
  <2>5. p[x][1] = run[y]
    BY <2>4
  <2>6. run[y] = data[s][w + 4 * (k - 1)]
    BY <1>4, <2>2
  <2>7. QED
    BY <2>5, <2>6 DEF x
<1>12. G!Ascends([k \in 1 .. l |-> <<data[s][w + 4 * (k - 1)], 0>>], 1, l)
  <2> DEFINE f == [k \in 1 .. l |-> <<data[s][w + 4 * (k - 1)], 0>>]
  <2>1. \A k \in 1 .. l : f[k][1] = p[first + k - 1][1]
    BY <1>11
  <2> HIDE DEF f
  <2>2. G!IsKey(p[first]) /\ \A m \in first .. j - 1 : G!GoesOn(p, m)
    BY <1>5 DEF G!Ascends
  <2>3. G!IsKey(f[1])
    <3>1. 1 \in 1 .. l /\ first + 1 - 1 = first
      BY <1>1, <1>5
    <3>2. f[1][1] = p[first][1]
      BY <2>1, <3>1
    <3>3. QED
      BY <2>2, <3>2 DEF G!IsKey
  <2>4. ASSUME NEW m \in 1 .. l - 1 PROVE G!GoesOn(f, m)
    <3>0. m \in 1 .. l /\ m + 1 \in 1 .. l
      BY <1>N
    <3> HIDE DEF w
    <3>1. m \in 1 .. l /\ m + 1 \in 1 .. l /\ first + m - 1 \in first .. j - 1 /\ first + (m + 1) - 1 = (first + m - 1) + 1
      BY <1>9, <3>0
    <3>2. f[m][1] = p[first + m - 1][1] /\ f[m + 1][1] = p[(first + m - 1) + 1][1]
      BY <2>1, <3>1
    <3>3. G!GoesOn(p, first + m - 1)
      BY <2>2, <3>1
    <3>4. QED
      BY <3>2, <3>3 DEF G!GoesOn, G!IsKey
  <2>5. QED
    BY <2>3, <2>4 DEF G!Ascends, f
<1>13. G!Rival(s, w, l)
  BY <1>10, <1>12 DEF G!Rival
<1>14. s = t.sec /\ (w - z) % 4 = 0 /\ w + 4 * l > z /\ w < z + 4 * l
  <2>1. w \in 1 .. Len(data[s])
    <3>1. 0 \in 0 .. 2 * l - 1 /\ w + 2 * 0 = w
      BY <1>1, <1>9
    <3> HIDE DEF w
    <3>2. G!Header(s, w)
      BY <1>10, <3>1
    <3>3. QED
      BY <1>1, <1>3, <1>9, <3>2, HeaderFacts
  <2> HIDE DEF w
  <2>2. ~(s # t.sec \/ (w - z) % 4 # 0 \/ w + 4 * l <= z \/ w >= z + 4 * l)
    BY <1>3, <1>13, <2>1 DEF G!Unrivalled, l, z
  <2>3. w + 4 * l \in Int /\ z + 4 * l \in Int /\ w \in Int /\ z \in Int
    BY <1>N, <1>9
  <2>4. QED
    BY <2>2, <2>3
<1>15. o <= z
  BY <1>1, <1>3, <1>9, <1>14
<1>16. PICK b \in Nat : z = o + 2 * a + 4 * b /\ o + 2 * n > z /\ first <= b + l /\ first + l > b + 1
  <2>1. z \in Nat \ {0}
    BY <1>1
  <2>2. QED
    BY <1>f, <1>14, <1>15, <2>1, OverlapNumbers
<1>18. b \in Nat /\ z = o + 2 * a + 4 * b
  BY <1>16
<1>19. o + 2 * n > z
  BY <1>16
<1>20. first <= b + l /\ first + l > b + 1
  BY <1>16
<1> HIDE DEF w
<1>21. /\ b + l <= Len(p)
       /\ \A k \in 1 .. l : p[b + k] = t.pairs[k]
  <2>1. run \in G!Runs(t.sec, o)
    BY <1>3, <1>14
  <2>2. o <= t.off /\ o + 2 * Len(run) > t.off
    BY <1>15, <1>19 DEF z, n
  <2>3. Spans(t, o, run)
    BY <1>1, <1>3, <2>1, <2>2, RunSpans DEF Spans
  <2>4. Placed(t, o, a, b)
    BY <1>18 DEF Placed, z
  <2>5. /\ b + Len(t.pairs) <= Len(G!Pairs(run, a))
        /\ \A k \in 1 .. Len(t.pairs) : G!Pairs(run, a)[b + k] = t.pairs[k]
    <3> DEFINE c == a
               r == run
    <3>1. /\ data \in Cells /\ o \in Nat \ {0} /\ r \in G!Runs(t.sec, o) /\ c \in {0, 1} /\ b \in Nat
          /\ Spans(t, o, r) /\ Placed(t, o, c, b)
      BY <1>1, <1>N, <1>18, <2>1, <2>3, <2>4
    <3> HIDE DEF c, r
    <3>2. /\ b + Len(t.pairs) <= Len(G!Pairs(r, c))
          /\ \A k \in 1 .. Len(t.pairs) : G!Pairs(r, c)[b + k] = t.pairs[k]
      BY <3>1, RunHolds
    <3>3. QED
      BY <3>2 DEF c, r
  <2>6. QED
    BY <2>5 DEF p, l
<1>22. \A m \in b + 1 .. b + l - 1 : G!GoesOn(p, m)
  BY <1>1, <1>18, <1>21, SameStretch
<1>23. first <= b + 1
  <2> SUFFICES ASSUME first > b + 1 PROVE FALSE
    BY <1>N, <1>18
  <2>1. first - 1 \in b + 1 .. b + l - 1 /\ first # 1
    BY <1>N, <1>18, <1>20
  <2>2. QED
    BY <1>5, <1>22, <2>1
<1>24. j >= b + l
  <2> SUFFICES ASSUME j < b + l PROVE FALSE
    BY <1>N, <1>18
  <2>1. j \in b + 1 .. b + l - 1 /\ j # Len(p)
    <3>1. b + l <= Len(p)
      BY <1>21
    <3>2. QED
      BY <1>N, <1>8, <1>18, <1>20, <3>1
  <2>2. QED
    BY <1>5, <1>22, <2>1
<1>25. ASSUME NEW k \in 1 .. l PROVE \E m \in DOMAIN best : best[m] = t.pairs[k]
  <2> DEFINE m == b + k - first + 1
  <2>1. m \in 1 .. j - first + 1 /\ first + m - 1 = b + k
    <3>1. b + k >= first /\ b + k <= j /\ b \in Int /\ k \in Int /\ first \in Int /\ j \in Int
      BY <1>N, <1>18, <1>23, <1>24
    <3>2. QED
      BY <3>1
  <2> HIDE DEF m
  <2>2. best[m] = p[b + k]
    BY <1>7, <2>1
  <2>3. m \in DOMAIN best
    BY <1>1, <1>7, <2>1
  <2>4. QED
    BY <1>21, <2>2, <2>3
<1>26. QED
  BY <1>1, <1>25

\* Once the scan is through, the table lies behind it.
LEMMA ScannedRecovers ==
  ASSUME NamesInv, G!Scanned, NEW t \in Table
  PROVE  G!TableRecovered(t)
<1> SUFFICES ASSUME G!Planted(t), G!Unrivalled(t)
             PROVE  \A k \in DOMAIN t.pairs : \E m \in DOMAIN best : best[m] = t.pairs[k]
  BY DEF G!TableRecovered
<1>1. NamesTyped /\ ScanInv(t)
  BY DEF NamesInv
<1>2. t.sec \in DOMAIN data /\ sec > Len(data) /\ data \in Cells /\ sec \in Nat
  BY <1>1, PlantedFacts DEF NamesTyped, G!Scanned
<1>3. Behind(t)
  BY <1>2 DEF Behind, Cells
<1>4. QED
  BY <1>1, <1>3, Recovers DEF ScanInv

LEMMA StartNames ==
  ASSUME NEW cells \in Cells, G!Start(cells)
  PROVE  NamesInv'
<1>1. data' = cells /\ sec' = 1 /\ off' = 1 /\ best' = <<>>
  BY DEF G!Start
<1>2. NamesTyped'
  <2>1. <<>> \in Seq(Pair)
    OBVIOUS
  <2>2. QED
    BY <1>1, <2>1 DEF NamesTyped
<1>3. ASSUME NEW t \in Table, G!Planted(t)' PROVE ScanInv(t)'
  <2>1. t.sec \in DOMAIN cells /\ t.off \in DOMAIN cells[t.sec]
    BY <1>1, <1>3 DEF G!Planted
  <2>2. t.sec \in Nat \ {0} /\ t.off \in Nat \ {0}
    <3>1. cells[t.sec] \in Seq(Int)
      BY <2>1 DEF Cells
    <3>2. t.sec \in Nat \ {0}
      BY <2>1 DEF Cells
    <3>3. QED
      BY <2>1, <3>1, <3>2
  <2>3. ~Behind(t)'
    BY <1>1, <2>2 DEF Behind
  <2>4. Chosen(t)'
    BY <1>1 DEF Chosen
  <2>5. off' <= t.off
    BY <1>1, <2>2
  <2>6. QED
    BY <2>3, <2>4, <2>5 DEF ScanInv
<1>4. QED
  BY <1>2, <1>3 DEF NamesInv

LEMMA IdleNames ==
  ASSUME G!Idle
  PROVE  NamesInv
<1>1. data = <<>> /\ sec = 1 /\ off = 1 /\ best = <<>>
  BY DEF G!Idle
<1>2. <<>> \in Seq(Pair) /\ <<>> \in Seq(Seq(Int)) /\ DOMAIN <<>> = {}
  OBVIOUS
<1>3. NamesTyped
  BY <1>1, <1>2 DEF NamesTyped, Cells
<1>4. \A t \in Table : ~G!Planted(t)
  BY <1>1, <1>2 DEF G!Planted
<1>5. QED
  BY <1>3, <1>4 DEF NamesInv

LEMMA SameNames ==
  ASSUME NamesInv, UNCHANGED nameVars
  PROVE  NamesInv'
<1>1. data' = data /\ sec' = sec /\ off' = off /\ best' = best
  BY DEF nameVars
<1>2. NamesTyped'
  BY <1>1 DEF NamesInv, NamesTyped
<1>3. ASSUME NEW t \in Table, G!Planted(t)' PROVE ScanInv(t)'
  <2>1. G!Planted(t)
    BY <1>1, <1>3 DEF G!Planted, G!Header
  <2>2. ScanInv(t)
    BY <2>1 DEF NamesInv
  <2>3. Chosen(t)'
    BY <1>1, <2>2, SameChoice DEF ScanInv
  <2>4. QED
    BY <1>1, <2>2, <2>3 DEF ScanInv, Behind
<1>4. QED
  BY <1>2, <1>3 DEF NamesInv

-----------------------------------------------------------------------------
(* Lists, of whatever. *)
IsList(s) == \E S : s \in Seq(S)

\* Lists, element by element.
LEMMA ListFacts ==
  ASSUME NEW s, IsList(s)
  PROVE  Len(s) \in Nat /\ DOMAIN s = 1 .. Len(s)
<1>1. PICK S : s \in Seq(S)
  BY DEF IsList
<1>2. QED
  BY <1>1

LEMMA MappedList ==
  ASSUME NEW s, IsList(s), NEW f, DOMAIN f = DOMAIN s, f = [k \in DOMAIN f |-> f[k]]
  PROVE  IsList(f) /\ Len(f) = Len(s)
<1> DEFINE S == {f[k] : k \in DOMAIN f}
           n == Len(s)
<1>1. n \in Nat /\ DOMAIN f = 1 .. n
  BY ListFacts
<1>2. f \in [1 .. n -> S]
  BY <1>1
<1> HIDE DEF S, n
<1>3. f \in Seq(S) /\ Len(f) = n
  BY <1>1, <1>2
<1>4. QED
  BY <1>3 DEF IsList, n

LEMMA AppendedList ==
  ASSUME NEW s, IsList(s), NEW e
  PROVE  /\ IsList(Append(s, e))
         /\ DOMAIN Append(s, e) = 1 .. Len(s) + 1 /\ DOMAIN s = 1 .. Len(s) /\ Len(s) \in Nat
         /\ \A k \in 1 .. Len(s) : Append(s, e)[k] = s[k]
         /\ Append(s, e)[Len(s) + 1] = e
<1>1. PICK S : s \in Seq(S)
  BY DEF IsList
<1> DEFINE T == S \cup {e}
<1>2. s \in Seq(T) /\ e \in T
  BY <1>1
<1> HIDE DEF T
<1>3. Len(s) \in Nat
  BY <1>2
<1>4. QED
  BY <1>2, <1>3, AppendFacts DEF IsList

LEMMA JoinedLists ==
  ASSUME NEW s, NEW t, IsList(s), IsList(t)
  PROVE  /\ IsList(s \o t)
         /\ Len(s) \in Nat /\ Len(t) \in Nat /\ DOMAIN s = 1 .. Len(s) /\ DOMAIN t = 1 .. Len(t)
         /\ Len(s \o t) = Len(s) + Len(t)
         /\ DOMAIN (s \o t) = 1 .. Len(s) + Len(t)
         /\ \A k \in 1 .. Len(s) : (s \o t)[k] = s[k]
         /\ \A k \in 1 .. Len(t) : (s \o t)[Len(s) + k] = t[k]
         /\ \A k \in Len(s) + 1 .. Len(s) + Len(t) : k - Len(s) \in 1 .. Len(t) /\ (s \o t)[k] = t[k - Len(s)]
<1>1. PICK S : s \in Seq(S)
  BY DEF IsList
<1>2. PICK T : t \in Seq(T)
  BY DEF IsList
<1> DEFINE U == S \cup T
<1>3. s \in Seq(U) /\ t \in Seq(U)
  BY <1>1, <1>2
<1> HIDE DEF U
<1>4. s \o t \in Seq(U)
  BY <1>3
<1>5. QED
  BY <1>3, <1>4 DEF IsList

-----------------------------------------------------------------------------
(* The signatures (Methods): what is read of a program as a compiler writes it. *)

\* One pass over the slots keeps those that are populated and declared, and no others.
Kept(it, decl) == {s \in DOMAIN it.methods \cap DOMAIN decl : it.methods[s].fn # 0}
OfSlot(it, decl, s) == M!Method(it.concrete, it.methods[s].name, decl[s].typ, it.methods[s].fn)

LEMMA SlotsFacts ==
  ASSUME NEW it, IsList(it.methods), NEW decl
  PROVE  LET f == M!FromSlots(it, decl) IN
         /\ IsList(f)
         /\ \A k \in DOMAIN f : \E s \in Kept(it, decl) : f[k] = OfSlot(it, decl, s)
         /\ \A s \in Kept(it, decl) : \E k \in DOMAIN f : f[k] = OfSlot(it, decl, s)
<1> DEFINE n == Len(it.methods)
           K == Kept(it, decl)
           rec(s) == OfSlot(it, decl, s)
           U == {rec(s) : s \in 1 .. n}
           F(g) == [m \in 0 .. n |-> IF m = 0 THEN <<>>
                                     ELSE IF it.methods[m].fn # 0 /\ m \in DOMAIN decl
                                     THEN Append(g[m - 1], rec(m)) ELSE g[m - 1]]
           u == CHOOSE g : g = F(g)
<1>1. n \in Nat /\ DOMAIN it.methods = 1 .. n
  BY ListFacts
<1>2. M!FromSlots(it, decl) = u[n]
  BY DEF M!FromSlots, OfSlot
<1>3. \A m \in 1 .. n : m \in K <=> it.methods[m].fn # 0 /\ m \in DOMAIN decl
  BY <1>1 DEF Kept
<1>4. \A m \in 1 .. n : rec(m) \in U
  OBVIOUS
<1>5. K \subseteq 1 .. n
  BY <1>1 DEF Kept
<1> DEFINE H(g) == [m \in 0 .. n |-> IF m = 0 THEN <<>>
                                     ELSE IF m \in K THEN Append(g[m - 1], rec(m)) ELSE g[m - 1]]
<1>6. \A g : F(g) = H(g)
  <2>1. TAKE g
  <2>2. \A m \in 0 .. n : m # 0 => (m \in K <=> it.methods[m].fn # 0 /\ m \in DOMAIN decl)
    BY <1>1, <1>3
  <2>3. \A m \in 0 .. n : F(g)[m] = H(g)[m]
    BY <2>2
  <2>4. QED
    BY <2>3
<1>7. u = CHOOSE g : g = H(g)
  BY <1>6
<1> HIDE DEF n, K, rec, U, u, F
<1>8. \E g : g = H(g)
  <2> DEFINE V == Seq(U)
             step == [e \in (1 .. n) \X V |-> IF e[1] \in K THEN Append(e[2], rec(e[1])) ELSE e[2]]
             b == <<>>
  <2>1. b \in V
    OBVIOUS
  <2>2. \A m \in 1 .. n, x \in V : /\ step[<<m, x>>] = IF m \in K THEN Append(x, rec(m)) ELSE x
    OBVIOUS
  <2>3. \A e \in (1 .. n) \X V : (IF e[1] \in K THEN Append(e[2], rec(e[1])) ELSE e[2]) \in V
    <3>1. TAKE e \in (1 .. n) \X V
    <3>2. e[1] \in 1 .. n /\ e[2] \in Seq(U) /\ rec(e[1]) \in U
      BY <1>4
    <3>3. QED
      BY <3>2
  <2>4. step \in [(1 .. n) \X V -> V]
    BY <2>3
  <2> HIDE DEF V, step, b
  <2>5. \E f : Solves(f, n, V, b, step)
    BY <1>1, <2>1, <2>4, RecurrenceExists
  <2>6. PICK f : f \in [0 .. n -> V] /\ f[0] = b /\ \A k \in 1 .. n : f[k] = step[<<k, f[k - 1]>>]
    BY <2>5 DEF Solves
  <2>7. \A k \in 1 .. n : f[k] = IF k \in K THEN Append(f[k - 1], rec(k)) ELSE f[k - 1]
    <3>1. TAKE k \in 1 .. n
    <3>2. f[k - 1] \in V
      BY <1>1, <2>6
    <3>3. QED
      BY <2>2, <2>6, <3>2
  <2>8. f = H(f)
    <3>1. f = [m \in 0 .. n |-> f[m]]
      BY <2>6
    <3>2. ASSUME NEW m \in 0 .. n
          PROVE  f[m] = IF m = 0 THEN <<>> ELSE IF m \in K THEN Append(f[m - 1], rec(m)) ELSE f[m - 1]
      <4>1. CASE m = 0
        BY <2>6, <4>1 DEF b
      <4>2. CASE m # 0
        <5>1. m \in 1 .. n
          BY <1>1, <4>2
        <5>2. QED
          BY <2>7, <4>2, <5>1
      <4>3. QED
        BY <4>1, <4>2
    <3>3. QED
      BY <3>1, <3>2
  <2>9. QED
    BY <2>8
<1>9. u = H(u)
  BY <1>7, <1>8
<1>10. u[0] = <<>> /\ \A m \in 1 .. n : u[m] = IF m \in K THEN Append(u[m - 1], rec(m)) ELSE u[m - 1]
  <2>1. \A m \in 0 .. n : u[m] = IF m = 0 THEN <<>> ELSE IF m \in K THEN Append(u[m - 1], rec(m)) ELSE u[m - 1]
    BY <1>9
  <2>2. 0 \in 0 .. n /\ \A m \in 1 .. n : m \in 0 .. n /\ m # 0
    BY <1>1
  <2> HIDE DEF H
  <2>3. QED
    BY <2>1, <2>2
<1> HIDE DEF H
<1> DEFINE Good(m) == /\ u[m] \in Seq(U)
                      /\ \A k \in DOMAIN u[m] : \E s \in K : s <= m /\ u[m][k] = rec(s)
                      /\ \A s \in K : s <= m => \E k \in DOMAIN u[m] : u[m][k] = rec(s)
           S == {m \in 0 .. n : Good(m)}
<1>11. 0 \in S
  <2>1. u[0] \in Seq(U) /\ DOMAIN u[0] = {}
    BY <1>10
  <2>2. \A s \in K : ~(s <= 0)
    BY <1>1, <1>5
  <2>3. QED
    BY <1>1, <2>1, <2>2
<1>12. ASSUME NEW m \in 1 .. n, m - 1 \in S PROVE m \in S
  <2>1. Good(m - 1)
    BY <1>12
  <2>2. CASE m \in K
    <3> DEFINE s0 == u[m - 1]
    <3>1. u[m] = Append(s0, rec(m)) /\ s0 \in Seq(U) /\ rec(m) \in U
      BY <1>4, <1>10, <2>1, <2>2
    <3>2. /\ u[m] \in Seq(U) /\ DOMAIN u[m] = 1 .. Len(s0) + 1 /\ DOMAIN s0 = 1 .. Len(s0) /\ Len(s0) \in Nat
          /\ \A k \in 1 .. Len(s0) : u[m][k] = s0[k]
          /\ u[m][Len(s0) + 1] = rec(m)
      BY <3>1, AppendFacts
    <3>3. ASSUME NEW k \in DOMAIN u[m] PROVE \E s \in K : s <= m /\ u[m][k] = rec(s)
      <4>1. CASE k = Len(s0) + 1
        BY <2>2, <3>2, <4>1
      <4>2. CASE k \in 1 .. Len(s0)
        <5>1. PICK s \in K : s <= m - 1 /\ s0[k] = rec(s)
          BY <2>1, <3>2, <4>2
        <5>2. s <= m
          BY <1>5, <5>1
        <5>3. QED
          BY <3>2, <4>2, <5>1, <5>2
      <4>3. QED
        BY <3>2, <3>3, <4>1, <4>2
    <3>4. ASSUME NEW s \in K, s <= m PROVE \E k \in DOMAIN u[m] : u[m][k] = rec(s)
      <4>1. CASE s = m
        BY <3>2, <4>1
      <4>2. CASE s # m
        <5>1. s <= m - 1
          BY <1>5, <3>4, <4>2
        <5>2. PICK k \in DOMAIN s0 : s0[k] = rec(s)
          BY <2>1, <5>1
        <5>3. k \in DOMAIN u[m]
          BY <3>2
        <5>4. QED
          BY <3>2, <5>2, <5>3
      <4>3. QED
        BY <4>1, <4>2
    <3>5. m \in 0 .. n
      BY <1>1
    <3>6. QED
      BY <3>2, <3>3, <3>4, <3>5
  <2>3. CASE m \notin K
    <3>1. u[m] = u[m - 1]
      BY <1>10, <2>3
    <3>2. \A s \in K : s <= m => s <= m - 1
      BY <1>5, <2>3
    <3>3. \A s \in K : s <= m - 1 => s <= m
      BY <1>5
    <3>4. QED
      BY <1>1, <2>1, <3>1, <3>2, <3>3
  <2>4. QED
    BY <2>2, <2>3
<1> HIDE DEF S
<1>13. n \in S
  BY <1>1, <1>11, <1>12, UpTo
<1>14. Good(n) /\ \A s \in K : s <= n
  BY <1>1, <1>5, <1>13 DEF S
<1>15. IsList(u[n])
  BY <1>14 DEF IsList
<1>16. QED
  BY <1>2, <1>14, <1>15 DEF K, rec

Kinds == M!Primitive \cup {"Pointer", "Slice", "Func", "Chan", "Array", "Struct", "Interface", "Map"}

\* The parts of a type that are read: lists, and a kind; an interface's name has no asterisk but
\* the extra one.
TypeRecord(t) ==
    /\ t.kind \in Kinds
    /\ IsList(t.table) /\ IsList(t.imethods) /\ IsList(t.ins) /\ IsList(t.outs)
    /\ t.kind = "Interface" => t.stars = IF t.extra_star THEN 1 ELSE 0
    /\ \A k \in DOMAIN t.table : t.table[k].tfn # 0

\* The code of a method has one type, by the method tables and by the slots of the itabs.
OneType(p) ==
    /\ \A a, b \in DOMAIN p.types : \A j \in DOMAIN p.types[a].table, k \in DOMAIN p.types[b].table :
         LET e == p.types[a].table[j]
             f == p.types[b].table[k]
         IN  e.tfn # Absent /\ e.tfn = f.tfn /\ e.name = f.name => e.mtyp = f.mtyp
    /\ \A a, b \in DOMAIN p.itab : p.itab[a].inter \in DOMAIN p.types /\ p.itab[b].inter \in DOMAIN p.types =>
         LET l == p.types[p.itab[a].inter].imethods
             m == p.types[p.itab[b].inter].imethods
         IN  \A s \in DOMAIN l \cap DOMAIN p.itab[a].fun, t \in DOMAIN m \cap DOMAIN p.itab[b].fun :
               p.itab[a].fun[s] = p.itab[b].fun[t] /\ l[s].name = m[t].name => l[s].typ = m[t].typ

\* A program as a compiler writes it.
Compiled(p) ==
    /\ {"types", "recovered", "links", "itab", "stray"} \subseteq DOMAIN p
    /\ 0 \notin DOMAIN p.types /\ Absent \notin DOMAIN p.types
    /\ p.recovered \in Seq(DOMAIN p.types) /\ IsList(p.links) /\ IsList(p.stray)
    /\ \A a \in DOMAIN p.types : TypeRecord(p.types[a])
    /\ \A a \in DOMAIN p.itab :
         /\ IsList(p.itab[a].fun)
         /\ p.itab[a].inter \in DOMAIN p.types => p.types[p.itab[a].inter].kind = "Interface"
    /\ OneType(p)

\* Where the reader looks for a method table, the compiler has put it, except behind a func type.
LEMMA KindFacts ==
  ASSUME NEW kind \in Kinds, kind # "Func"
  PROVE  /\ kind = "Map" <=> M!kind_extension_size(kind) = M!Unsized
         /\ kind # "Map" => M!kind_extension_size(kind) = M!abi_extension(kind)
<1>1. CASE kind \in M!Primitive
  BY <1>1 DEF M!kind_extension_size, M!abi_extension, M!Unsized, M!Primitive
<1>2. CASE kind \notin M!Primitive
  BY <1>2 DEF Kinds, M!kind_extension_size, M!abi_extension, M!Unsized
<1>3. QED
  BY <1>1, <1>2

LEMMA RecoveredFacts ==
  ASSUME Compiled(prog), NEW j \in DOMAIN prog.recovered
  PROVE  /\ prog.recovered[j] \in DOMAIN prog.types /\ prog.recovered[j] \in M!Recovered
         /\ TypeRecord(prog.types[prog.recovered[j]])
<1>1. prog.recovered \in Seq(DOMAIN prog.types)
  BY DEF Compiled
<1>2. prog.recovered[j] \in DOMAIN prog.types
  BY <1>1, ElementFacts
<1>3. QED
  BY <1>2 DEF Compiled, M!Recovered

OfTable(a, k) ==
    LET e == prog.types[a].table[k]
    IN  M!Method(M!TypeName(a), e.name, M!FromOffset(e.mtyp), M!FromOffset(e.tfn))

\* The methods of a type are those of its own table, all of them when the reader takes any.
LEMMA TableFacts ==
  ASSUME Compiled(prog), M!Methodless("Func"), NEW a \in M!Recovered
  PROVE  LET f == M!methods_for_type(a) IN
         /\ DOMAIN f \subseteq DOMAIN prog.types[a].table
         /\ \A k \in DOMAIN f : f[k] = OfTable(a, k)
         /\ M!Tabled(a) => DOMAIN f = DOMAIN prog.types[a].table
<1> DEFINE t == prog.types[a]
           f == M!methods_for_type(a)
<1>1. PICK j \in DOMAIN prog.recovered : a = prog.recovered[j]
  BY DEF M!Recovered
<1>2. a \in DOMAIN prog.types /\ t.kind \in Kinds
  BY <1>1, RecoveredFacts DEF TypeRecord
<1>3. CASE ~t.uncommon \/ M!kind_extension_size(t.kind) = M!Unsized \/ ~t.table_mapped
  <2>1. f = <<>>
    BY <1>3 DEF M!methods_for_type
  <2>2. ~M!Tabled(a)
    <3>1. CASE M!kind_extension_size(t.kind) = M!Unsized /\ t.uncommon
      <4>1. t.kind # "Func"
        BY <3>1 DEF M!Methodless
      <4>2. t.kind = "Map"
        BY <1>2, <3>1, <4>1, KindFacts
      <4>3. QED
        BY <4>2 DEF M!Tabled
    <3>2. QED
      BY <1>3, <3>1 DEF M!Tabled
  <2>3. DOMAIN f = {}
    BY <2>1
  <2>4. QED
    BY <2>2, <2>3
<1>4. CASE t.uncommon /\ M!kind_extension_size(t.kind) # M!Unsized /\ t.table_mapped
  <2>1. t.kind # "Func"
    BY <1>4 DEF M!Methodless
  <2>2. M!TableRead(t) = t.table
    BY <1>2, <1>4, <2>1, KindFacts DEF M!TableRead
  <2>3. CASE Len(t.table) > MaxMethods
    <3>1. f = <<>>
      BY <2>2, <2>3 DEF M!methods_for_type
    <3>2. ~M!Tabled(a)
      <4>1. Len(t.table) \in Nat /\ MaxMethods \in Nat
        BY <1>2, ListFacts, CapsAssumption DEF Compiled, TypeRecord
      <4>2. QED
        BY <2>3, <4>1 DEF M!Tabled
    <3>3. QED
      BY <3>1, <3>2
  <2>4. CASE ~(Len(t.table) > MaxMethods)
    <3>1. f = [k \in DOMAIN t.table |-> OfTable(a, k)]
      BY <1>4, <2>2, <2>4 DEF M!methods_for_type, OfTable
    <3>2. QED
      BY <3>1
  <2>5. QED
    BY <2>3, <2>4
<1>5. QED
  BY <1>3, <1>4

\* The methods of a type are a list, whatever is read for its table.
LEMMA TableIsList ==
  ASSUME Compiled(prog), NEW a \in DOMAIN prog.types
  PROVE  IsList(M!methods_for_type(a))
<1> DEFINE s == M!TableRead(prog.types[a])
           f == M!methods_for_type(a)
<1>1. IsList(s)
  BY DEF M!TableRead, Compiled, TypeRecord
<1>2. CASE f = <<>>
  BY <1>2 DEF IsList
<1>3. CASE f # <<>>
  <2>1. DOMAIN f = DOMAIN s /\ f = [k \in DOMAIN f |-> f[k]]
    BY <1>3 DEF M!methods_for_type
  <2> HIDE DEF f, s
  <2>2. QED
    BY <1>1, <2>1, MappedList DEF f
<1>4. QED
  BY <1>2, <1>3

\* A set of places has a last one.
LEMMA LastFacts ==
  ASSUME NEW n \in Nat, NEW K, K \subseteq 1 .. n, K # {}
  PROVE  M!LastOf(K) \in K
<1> DEFINE T == {n - k : k \in K}
<1>0. \A k \in K : k \in Nat /\ k <= n
  OBVIOUS
<1>1. T \subseteq Nat /\ T # {}
  <2>1. \A k \in K : n - k \in Nat
    BY <1>0
  <2>2. T \subseteq Nat
    BY <2>1
  <2>3. T # {}
    OBVIOUS
  <2>4. QED
    BY <2>2, <2>3
<1>2. PICK x \in T : \A y \in T : x <= y
  BY <1>1, LeastNumber
<1>3. PICK k \in K : x = n - k
  BY <1>2
<1>4. ASSUME NEW m \in K PROVE m <= k
  <2>1. n - m \in T
    OBVIOUS
  <2>2. n - k <= n - m
    BY <1>2, <1>3, <2>1
  <2>3. QED
    BY <1>0, <2>2
<1>5. \E c \in K : \A m \in K : m <= c
  BY <1>4
<1>6. QED
  BY <1>5 DEF M!LastOf

\* The name of an interface, as its type has it and as an itab's column has it.
LEMMA InterfaceName ==
  ASSUME Compiled(prog), NEW a \in DOMAIN prog.types, prog.types[a].kind = "Interface"
  PROVE  LET w == prog.types[a].word IN
         /\ M!TypeName(a) = IF prog.types[a].named THEN <<0, w, 0>> ELSE <<0, "type@", a>>
         /\ M!read_type_name(a, "iface@") \in IF prog.types[a].named THEN {<<0, w, 0>>, <<1, w, 0>>} ELSE {<<0, "iface@", a>>}
<1> DEFINE t == prog.types[a]
<1>1. t.stars = IF t.extra_star THEN 1 ELSE 0
  BY DEF Compiled, TypeRecord
<1>2. M!Readable(a) <=> t.named
  BY DEF M!Readable, M!Mapped
<1>3. M!Stored(a) = <<t.stars, t.word, 0>>
  BY DEF M!Stored
<1>4. M!Stored(a)[1] = t.stars /\ M!Stored(a)[2] = t.word
  BY <1>3
<1>5. CASE ~t.named
  BY <1>2, <1>5 DEF M!TypeName, M!read_type_name
<1>6. CASE t.named /\ t.extra_star
  <2>1. t.stars = 1
    BY <1>1, <1>6
  <2>2. M!TypeName(a) = <<M!Stored(a)[1] - 1, M!Stored(a)[2], 0>>
    BY <1>2, <1>4, <1>6, <2>1 DEF M!TypeName
  <2>3. QED
    BY <1>2, <1>3, <1>4, <1>6, <2>1, <2>2 DEF M!read_type_name
<1>7. CASE t.named /\ ~t.extra_star
  <2>1. t.stars = 0
    BY <1>1, <1>7
  <2>2. QED
    BY <1>2, <1>3, <1>7, <2>1 DEF M!TypeName, M!read_type_name
<1>8. QED
  BY <1>5, <1>6, <1>7

\* Where the names of interfaces are unique, an itab's interface is found by its name, and no other.
LEMMA FoundInterface ==
  ASSUME Compiled(prog), M!NamesSeparate, NEW a \in DOMAIN prog.types, prog.types[a].kind = "Interface"
  PROVE  LET n == M!read_type_name(a, "iface@") IN
         /\ M!Found(n) => M!Interface(n) = a
         /\ a \in M!Recovered /\ prog.types[a].named => M!Found(n)
<1> DEFINE n == M!read_type_name(a, "iface@")
           t == prog.types[a]
           T(c) == M!TypeName(c)
           r == prog.recovered
<1>1. r \in Seq(DOMAIN prog.types) /\ Len(r) \in Nat /\ DOMAIN r = 1 .. Len(r)
  BY DEF Compiled
<1>2. \A k \in DOMAIN r : r[k] \in DOMAIN prog.types
  BY <1>1
<1>3. \A m : M!Spelt(m) = {k \in DOMAIN r : prog.types[r[k]].kind = "Interface" /\ m \in {T(r[k]), M!Starred(T(r[k]))}}
  BY DEF M!Spelt
<1>4. a # 0
  BY DEF Compiled
<1>5. ASSUME NEW c \in DOMAIN prog.types, prog.types[c].kind = "Interface"
      PROVE  /\ \E v, z : /\ T(c) = <<0, v, z>> /\ M!Starred(T(c)) = <<1, v, z>>
                          /\ z = 0 \/ (v = "type@" /\ z = c)
             /\ c # a => T(c) # T(a) /\ T(a) # M!Starred(T(c)) /\ T(c) # M!Starred(T(a))
  <2>1. T(c) = IF prog.types[c].named THEN <<0, prog.types[c].word, 0>> ELSE <<0, "type@", c>>
    BY <1>5, InterfaceName
  <2>2. ASSUME NEW v, NEW z, T(c) = <<0, v, z>> PROVE M!Starred(T(c)) = <<1, v, z>>
    BY <2>2 DEF M!Starred
  <2>3. c # a => T(c) # T(a) /\ T(a) # M!Starred(T(c)) /\ T(c) # M!Starred(T(a))
    BY <1>5 DEF M!NamesSeparate
  <2>4. QED
    BY <2>1, <2>2, <2>3
<1>6. CASE ~t.named
  <2>1. n = <<0, "iface@", a>>
    BY <1>6, InterfaceName
  <2>2. ASSUME NEW k \in M!Spelt(n) PROVE FALSE
    <3>1. r[k] \in DOMAIN prog.types /\ prog.types[r[k]].kind = "Interface" /\ n \in {T(r[k]), M!Starred(T(r[k]))}
      BY <1>2, <1>3
    <3>2. PICK v, z : T(r[k]) = <<0, v, z>> /\ M!Starred(T(r[k])) = <<1, v, z>> /\ (z = 0 \/ (v = "type@" /\ z = r[k]))
      BY <1>5, <3>1
    <3>3. QED
      BY <1>4, <2>1, <3>1, <3>2
  <2>3. n[1] = 0
    BY <2>1
  <2>4. ~M!Found(n)
    BY <2>2, <2>3 DEF M!Found
  <2>5. QED
    BY <1>6, <2>4
<1>7. CASE t.named
  <2>1. T(a) = <<0, t.word, 0>> /\ M!Starred(T(a)) = <<1, t.word, 0>>
    <3>1. T(a) = <<0, t.word, 0>>
      BY <1>7, InterfaceName
    <3>2. QED
      BY <3>1 DEF M!Starred
  <2>2. n = T(a) \/ n = M!Starred(T(a))
    BY <1>7, <2>1, InterfaceName
  <2>3. ASSUME NEW k \in M!Spelt(n) PROVE r[k] = a
    <3>1. r[k] \in DOMAIN prog.types /\ prog.types[r[k]].kind = "Interface" /\ n \in {T(r[k]), M!Starred(T(r[k]))}
      BY <1>2, <1>3
    <3>2. PICK v, z : T(r[k]) = <<0, v, z>> /\ M!Starred(T(r[k])) = <<1, v, z>>
      BY <1>5, <3>1
    <3>3. T(r[k]) = T(a) \/ T(a) = M!Starred(T(r[k])) \/ T(r[k]) = M!Starred(T(a))
      BY <2>1, <2>2, <3>1, <3>2
    <3>4. QED
      BY <1>5, <3>1, <3>3
  <2>4. ASSUME n[1] > 0, NEW k \in M!Spelt(M!Bare(n)) PROVE r[k] = a
    <3>1. n = <<1, t.word, 0>>
      BY <2>1, <2>2, <2>4
    <3>2. M!Bare(n) = T(a)
      BY <2>1, <3>1 DEF M!Bare
    <3>3. r[k] \in DOMAIN prog.types /\ prog.types[r[k]].kind = "Interface" /\ T(a) \in {T(r[k]), M!Starred(T(r[k]))}
      BY <1>2, <1>3, <3>2
    <3>4. QED
      BY <1>5, <3>3
  <2>5. \A m : M!Spelt(m) \subseteq 1 .. Len(r)
    BY <1>1, <1>3
  <2>6. ASSUME M!Found(n) PROVE M!Interface(n) = a
    <3>1. CASE M!Spelt(n) # {}
      <4>1. M!LastOf(M!Spelt(n)) \in M!Spelt(n)
        BY <1>1, <2>5, <3>1, LastFacts
      <4>2. QED
        BY <2>3, <3>1, <4>1 DEF M!Interface
    <3>2. CASE M!Spelt(n) = {}
      <4>1. n[1] > 0 /\ M!Spelt(M!Bare(n)) # {}
        BY <2>6, <3>2 DEF M!Found
      <4>2. M!LastOf(M!Spelt(M!Bare(n))) \in M!Spelt(M!Bare(n))
        BY <1>1, <2>5, <4>1, LastFacts
      <4>3. QED
        BY <2>4, <3>2, <4>1, <4>2 DEF M!Interface
    <3>3. QED
      BY <3>1, <3>2
  <2>7. ASSUME a \in M!Recovered PROVE M!Found(n)
    <3>1. PICK k \in DOMAIN r : r[k] = a
      BY <2>7 DEF M!Recovered
    <3>2. k \in M!Spelt(n)
      BY <1>3, <2>2, <3>1
    <3>3. QED
      BY <3>2 DEF M!Found
  <2>8. QED
    BY <2>6, <2>7
<1>8. QED
  BY <1>6, <1>7

\* What an itab gives for its slots is what the declaration of its interface has for them.
LinkMethod(b, s) ==
    LET m == prog.types[prog.itab[b].inter].imethods[s]
    IN  M!Method(M!read_type_name(prog.itab[b].typ, "type@"), m.name, m.typ, prog.itab[b].fun[s])

Served(b) == prog.itab[b].inter \in M!Recovered /\ prog.types[prog.itab[b].inter].named

LEMMA LinkFacts ==
  ASSUME Compiled(prog), M!NamesSeparate, NEW b \in DOMAIN prog.itab
  PROVE  LET inter == prog.itab[b].inter
             slots == DOMAIN prog.types[inter].imethods \cap DOMAIN prog.itab[b].fun
             f == M!Dispatched(M!parse_itab(b))
         IN
         /\ \A k \in DOMAIN f : /\ M!Mapped(inter)
                                /\ \E s \in slots : prog.itab[b].fun[s] # 0 /\ f[k] = LinkMethod(b, s)
         /\ Served(b) => \A s \in DOMAIN prog.itab[b].fun \cap DOMAIN M!SlotNames(inter) :
              /\ s \in slots
              /\ prog.itab[b].fun[s] # 0 => \E k \in DOMAIN f : f[k] = LinkMethod(b, s)
<1> DEFINE tab == prog.itab[b]
           a == tab.inter
           t == prog.types[a]
           names == M!SlotNames(a)
           it == M!parse_itab(b)
           n == M!read_type_name(a, "iface@")
           f == M!Dispatched(it)
<1>1. /\ it.interface = n /\ it.concrete = M!read_type_name(tab.typ, "type@") /\ it.methods = M!Populated(names, tab.fun)
  BY DEF M!parse_itab
<1>2. IsList(tab.fun)
  BY DEF Compiled
<1>3. Len(tab.fun) \in Nat /\ DOMAIN tab.fun = 1 .. Len(tab.fun)
  BY <1>2, ListFacts
<1>4. CASE names = <<>>
  <2>1. Len(names) = 0 /\ DOMAIN names = {}
    BY <1>4
  <2>2. DOMAIN it.methods = {} /\ it.methods = <<>>
    <3>1. M!Populated(names, tab.fun) = [s \in 1 .. (IF 0 < Len(tab.fun) THEN 0 ELSE Len(tab.fun)) |-> [name |-> names[s], fn |-> tab.fun[s]]]
      BY <2>1 DEF M!Populated
    <3>2. 1 .. (IF 0 < Len(tab.fun) THEN 0 ELSE Len(tab.fun)) = {}
      BY <1>3
    <3>3. QED
      BY <1>1, <3>1, <3>2
  <2>3. IsList(it.methods)
    <3>1. <<>> \in Seq({})
      OBVIOUS
    <3>2. QED
      BY <2>2, <3>1 DEF IsList
  <2>4. DOMAIN f = {}
    <3>1. CASE f = <<>>
      BY <3>1
    <3>2. CASE f # <<>>
      <4>1. PICK decl : f = M!FromSlots(it, decl)
        BY <3>2 DEF M!Dispatched
      <4>2. Kept(it, decl) = {}
        BY <2>2 DEF Kept
      <4>3. \A k \in DOMAIN M!FromSlots(it, decl) : FALSE
        BY <2>3, <4>2, SlotsFacts
      <4>4. QED
        BY <4>1, <4>3
    <3>3. QED
      BY <3>1, <3>2
  <2>5. QED
    BY <2>1, <2>4
<1>5. CASE names # <<>>
  <2>1. /\ M!Mapped(a) /\ t.whole /\ Len(t.imethods) <= MaxSlots
        /\ names = [s \in DOMAIN t.imethods |-> t.imethods[s].name]
    BY <1>5 DEF M!SlotNames
  <2>2. a \in DOMAIN prog.types /\ t.kind = "Interface" /\ IsList(t.imethods)
    BY <2>1 DEF M!Mapped, Compiled, TypeRecord
  <2>3. Len(t.imethods) \in Nat /\ DOMAIN t.imethods = 1 .. Len(t.imethods)
    BY <2>2, ListFacts
  <2>4. DOMAIN names = DOMAIN t.imethods /\ Len(names) = Len(t.imethods)
    <3>1. DOMAIN names = DOMAIN t.imethods /\ names = [k \in DOMAIN names |-> names[k]]
      BY <2>1
    <3>2. QED
      BY <2>2, <3>1, MappedList
  <2>5. M!decode_kind(a) = [tag |-> "Interface", methods |-> t.imethods]
    <3>1. ~(Len(t.imethods) > MaxIMethods)
      <4>1. MaxSlots \in Nat /\ MaxIMethods \in Nat /\ MaxSlots <= MaxIMethods
        BY CapsAssumption
      <4> DEFINE l == Len(t.imethods)
      <4>2. l \in Nat /\ l <= MaxSlots
        BY <2>1, <2>3
      <4> HIDE DEF l
      <4>3. ~(l > MaxIMethods)
        BY <4>1, <4>2
      <4>4. QED
        BY <4>3 DEF l
    <3>2. QED
      BY <2>1, <2>2, <3>1 DEF M!decode_kind, M!decode_interface
  <2> DEFINE m == IF Len(names) < Len(tab.fun) THEN Len(names) ELSE Len(tab.fun)
             slots == DOMAIN t.imethods \cap DOMAIN tab.fun
  <2>6. m \in Nat /\ 1 .. m = slots
    <3>1. slots = (1 .. Len(t.imethods)) \cap (1 .. Len(tab.fun))
      BY <1>3, <2>3
    <3>2. m = IF Len(t.imethods) < Len(tab.fun) THEN Len(t.imethods) ELSE Len(tab.fun)
      BY <2>4
    <3>3. ASSUME NEW x \in Nat, NEW y \in Nat
          PROVE  (1 .. x) \cap (1 .. y) = 1 .. (IF x < y THEN x ELSE y)
      OBVIOUS
    <3> HIDE DEF slots, m
    <3>4. QED
      BY <1>3, <2>3, <3>1, <3>2, <3>3
  <2>7. it.methods = [s \in 1 .. m |-> [name |-> names[s], fn |-> tab.fun[s]]]
    BY <1>1 DEF M!Populated
  <2>8. /\ DOMAIN it.methods = slots
        /\ \A s \in slots : it.methods[s].name = t.imethods[s].name /\ it.methods[s].fn = tab.fun[s]
    <3>1. \A s \in slots : s \in 1 .. m /\ s \in DOMAIN t.imethods
      BY <2>6
    <3>2. DOMAIN it.methods = slots
      BY <2>6, <2>7
    <3>3. \A s \in 1 .. m : it.methods[s].name = names[s] /\ it.methods[s].fn = tab.fun[s]
      BY <2>7
    <3> HIDE DEF slots, m, it
    <3>4. QED
      BY <2>1, <3>1, <3>2, <3>3
  <2>9. IsList(it.methods)
    <3> DEFINE S == {[name |-> names[s], fn |-> tab.fun[s]] : s \in 1 .. m}
    <3>1. it.methods \in [1 .. m -> S]
      BY <2>7
    <3> HIDE DEF S, m
    <3>2. it.methods \in Seq(S)
      BY <2>6, <3>1
    <3>3. QED
      BY <3>2 DEF IsList
  <2>10. f = IF M!Found(n) THEN M!FromSlots(it, t.imethods) ELSE <<>>
    <3>1. M!Found(n) => M!Interface(n) = a
      BY <2>2, FoundInterface
    <3>2. QED
      BY <1>1, <2>5, <3>1 DEF M!Dispatched
  <2>11. Kept(it, t.imethods) = {s \in slots : tab.fun[s] # 0}
    BY <2>8 DEF Kept
  <2>12. \A s \in slots : OfSlot(it, t.imethods, s) = LinkMethod(b, s)
    BY <1>1, <2>8 DEF OfSlot, LinkMethod
  <2>13. ASSUME NEW k \in DOMAIN f PROVE \E s \in slots : tab.fun[s] # 0 /\ f[k] = LinkMethod(b, s)
    <3>1. f = M!FromSlots(it, t.imethods)
      <4>1. CASE ~M!Found(n)
        <5>1. DOMAIN f = {}
          BY <2>10, <4>1
        <5>2. QED
          BY <2>13, <5>1
      <4>2. QED
        BY <2>10, <4>1
    <3>2. PICK s \in Kept(it, t.imethods) : f[k] = OfSlot(it, t.imethods, s)
      BY <2>9, <2>13, <3>1, SlotsFacts
    <3>3. QED
      BY <2>11, <2>12, <3>2
  <2>14. ASSUME Served(b), NEW s \in DOMAIN tab.fun \cap DOMAIN names
         PROVE  s \in slots /\ (tab.fun[s] # 0 => \E k \in DOMAIN f : f[k] = LinkMethod(b, s))
    <3>1. s \in slots
      BY <2>4
    <3>2. f = M!FromSlots(it, t.imethods)
      BY <2>2, <2>10, <2>14, FoundInterface DEF Served
    <3>3. ASSUME tab.fun[s] # 0 PROVE \E k \in DOMAIN f : f[k] = LinkMethod(b, s)
      <4>1. s \in Kept(it, t.imethods)
        BY <2>11, <3>1, <3>3
      <4>2. PICK k \in DOMAIN f : f[k] = OfSlot(it, t.imethods, s)
        BY <2>9, <3>2, <4>1, SlotsFacts
      <4>3. QED
        BY <2>12, <3>1, <4>2
    <3>4. QED
      BY <3>1, <3>3
  <2>15. QED
    BY <2>1, <2>13, <2>14
<1>6. QED
  BY <1>4, <1>5

LEMMA DispatchedIsList ==
  ASSUME Compiled(prog), NEW b \in DOMAIN prog.itab
  PROVE  IsList(M!Dispatched(M!parse_itab(b)))
<1> DEFINE it == M!parse_itab(b)
           names == M!SlotNames(prog.itab[b].inter)
           fun == prog.itab[b].fun
           n == IF Len(names) < Len(fun) THEN Len(names) ELSE Len(fun)
           S == {[name |-> names[s], fn |-> fun[s]] : s \in 1 .. n}
<1>1. IsList(names)
  <2>1. CASE names = <<>>
    <3>1. <<>> \in Seq({})
      OBVIOUS
    <3>2. QED
      BY <2>1, <3>1 DEF IsList
  <2>2. CASE names # <<>>
    <3> DEFINE l == prog.types[prog.itab[b].inter].imethods
    <3>1. M!Mapped(prog.itab[b].inter) /\ names = [s \in DOMAIN l |-> l[s].name]
      BY <2>2 DEF M!SlotNames
    <3>2. IsList(l)
      BY <3>1 DEF M!Mapped, Compiled, TypeRecord
    <3>3. DOMAIN names = DOMAIN l /\ names = [k \in DOMAIN names |-> names[k]]
      BY <3>1
    <3> HIDE DEF l, names
    <3>4. QED
      BY <3>2, <3>3, MappedList
  <2>3. QED
    BY <2>1, <2>2
<1>2. IsList(fun)
  BY DEF Compiled
<1>3. n \in Nat
  BY <1>1, <1>2, ListFacts
<1>4. it.methods = [s \in 1 .. n |-> [name |-> names[s], fn |-> fun[s]]]
  BY DEF M!parse_itab, M!Populated
<1>5. it.methods \in [1 .. n -> S]
  BY <1>4
<1> HIDE DEF it, n, S
<1>6. it.methods \in Seq(S)
  BY <1>3, <1>5
<1>7. IsList(it.methods)
  BY <1>6 DEF IsList
<1>8. <<>> \in Seq({})
  OBVIOUS
<1>9. CASE M!Dispatched(it) = <<>>
  BY <1>8, <1>9 DEF IsList, it
<1>10. CASE M!Dispatched(it) # <<>>
  <2>1. PICK decl : M!Dispatched(it) = M!FromSlots(it, decl)
    BY <1>10 DEF M!Dispatched
  <2>2. IsList(M!FromSlots(it, decl))
    BY <1>7, SlotsFacts
  <2>3. QED
    BY <2>1, <2>2 DEF it
<1>11. QED
  BY <1>9, <1>10

\* The readers are functions of the program.
LEMMA SameReads ==
  ASSUME prog' = prog
  PROVE  /\ \A a : M!methods_for_type(a)' = M!methods_for_type(a)
         /\ \A b : M!parse_itab(b)' = M!parse_itab(b)
         /\ \A it : M!Dispatched(it)' = M!Dispatched(it)
         /\ \A m : M!Renders(m)' <=> M!Renders(m)
         /\ \A m : M!render_method_signature(m)' = M!render_method_signature(m)
<1>1. \A a : (M!Mapped(a)' <=> M!Mapped(a)) /\ (M!Readable(a)' <=> M!Readable(a)) /\ M!Stored(a)' = M!Stored(a)
  BY DEF M!Mapped, M!Readable, M!Stored
<1>2. \A a : M!TypeName(a)' = M!TypeName(a)
  BY <1>1 DEF M!TypeName
<1>3. \A a : M!decode_kind(a)' = M!decode_kind(a)
  BY DEF M!decode_kind
<1>4. \A a : M!methods_for_type(a)' = M!methods_for_type(a)
  BY <1>2 DEF M!methods_for_type, M!TableRead
<1>5. \A a, w : M!read_type_name(a, w)' = M!read_type_name(a, w)
  BY <1>1 DEF M!read_type_name
<1>6. \A a : M!SlotNames(a)' = M!SlotNames(a)
  BY <1>1 DEF M!SlotNames
<1>7. \A b : M!parse_itab(b)' = M!parse_itab(b)
  BY <1>5, <1>6 DEF M!parse_itab
<1>8. \A n : M!Spelt(n)' = M!Spelt(n)
  BY <1>2 DEF M!Spelt
<1>9. \A n : (M!Found(n)' <=> M!Found(n)) /\ M!Interface(n)' = M!Interface(n)
  BY <1>8 DEF M!Found, M!Interface
<1>10. \A it : M!Dispatched(it)' = M!Dispatched(it)
  BY <1>3, <1>9 DEF M!Dispatched
<1>11. \A m : M!Renders(m)' <=> M!Renders(m)
  BY <1>1, <1>3 DEF M!Renders, M!Cached
<1>12. \A a : M!render_type_name(a)' = M!render_type_name(a)
  BY <1>2 DEF M!render_type_name
<1>13. \A m : M!render_method_signature(m)' = M!render_method_signature(m)
  BY <1>3, <1>12 DEF M!render_method_signature
<1>14. QED
  BY <1>4, <1>7, <1>10, <1>11, <1>13

-----------------------------------------------------------------------------
(* What each loop of compute_signatures has done when it is at its place.  *)

OfType(j) == M!methods_for_type(prog.recovered[j])
OfItab(j) == M!Dispatched(itabs[j])
ByTable(m) == \E j \in DOMAIN prog.recovered : \E k \in DOMAIN OfType(j) : m = OfType(j)[k]
BySlot(m) == \E j \in DOMAIN itabs : \E k \in DOMAIN OfItab(j) : m = OfItab(j)[k]

SignTypes == IsList(methods) /\ IsList(itabs) /\ IsList(merged) /\ mi \in Nat \ {0}

\* The methods of the tables stand before those of the slots.
TablesRead ==
    \E n \in 0 .. Len(methods) :
      /\ \A k \in 1 .. n : ByTable(methods[k])
      /\ \A k \in n + 1 .. Len(methods) : BySlot(methods[k])
      /\ \A j \in DOMAIN prog.recovered : (stage = "types" => j < mi) =>
           \A k \in DOMAIN OfType(j) : \E m \in 1 .. n : methods[m] = OfType(j)[k]
      /\ stage \in {"types", "itablinks"} => n = Len(methods)

LinksRead ==
    /\ \A k \in DOMAIN itabs : \E j \in DOMAIN prog.links :
         prog.links[j] \in DOMAIN prog.itab /\ itabs[k] = M!parse_itab(prog.links[j])
    /\ stage # "types" => \A j \in DOMAIN prog.links :
         (stage = "itablinks" => j < mi) /\ prog.links[j] \in DOMAIN prog.itab =>
           \E k \in DOMAIN itabs : itabs[k] = M!parse_itab(prog.links[j])

SlotsRead ==
    stage \notin {"types", "itablinks"} => \A j \in DOMAIN itabs : (stage = "itabs" => j < mi) =>
      \A k \in DOMAIN OfItab(j) : \E m \in DOMAIN methods : methods[m] = OfItab(j)[k]

\* Of records of one method the first stays.
Merging ==
    /\ stage \in {"types", "itablinks", "itabs"} => merged = <<>>
    /\ \A k \in DOMAIN merged : \E m \in DOMAIN methods : (stage = "merge" => m < mi) /\ merged[k] = methods[m]
    /\ stage \in {"merge", "render", "done"} => \A m \in DOMAIN methods : (stage = "merge" => m < mi) =>
         \E k \in DOMAIN merged, h \in DOMAIN methods :
           h <= m /\ merged[k] = methods[h] /\ M!SameMethod(methods[h], methods[m])

Rendering ==
    /\ stage \in {"types", "itablinks", "itabs", "merge"} => sigs = M!NoSignatures
    /\ \A pc \in DOMAIN sigs : \E k \in DOMAIN merged :
         pc # 0 /\ merged[k].tfn = pc /\ M!Renders(merged[k]) /\ sigs[pc] = M!render_method_signature(merged[k])
    /\ stage \in {"render", "done"} => \A k \in DOMAIN merged :
         (stage = "render" => k < mi) /\ merged[k].tfn # 0 /\ M!Renders(merged[k]) => merged[k].tfn \in DOMAIN sigs

SignParts == Compiled(prog) /\ SignTypes /\ TablesRead /\ LinksRead /\ SlotsRead /\ Merging /\ Rendering
SignInv == stage # "idle" => SignParts

LEMMA EmptyList == IsList(<<>>) /\ DOMAIN <<>> = {} /\ Len(<<>>) = 0
<1>1. <<>> \in Seq({})
  OBVIOUS
<1>2. QED
  BY <1>1 DEF IsList

LEMMA SignStarts ==
  ASSUME NEW p, Compiled(p), M!Start(p)
  PROVE  SignInv'
<1>1. /\ prog' = p /\ mi' = 1 /\ methods' = <<>> /\ itabs' = <<>> /\ merged' = <<>>
      /\ sigs' = M!NoSignatures /\ stage' = "types"
  BY DEF M!Start
<1>2. Compiled(prog)' /\ SignTypes'
  BY <1>1, EmptyList DEF SignTypes
<1>3. TablesRead'
  <2>1. p.recovered \in Seq(DOMAIN p.types)
    BY DEF Compiled
  <2>2. \A j \in DOMAIN p.recovered : ~(j < 1)
    BY <2>1
  <2>3. 0 \in 0 .. 0 /\ 1 .. 0 = {} /\ 0 + 1 .. 0 = {}
    OBVIOUS
  <2>4. QED
    BY <1>1, <2>2, <2>3, EmptyList DEF TablesRead
<1>4. LinksRead' /\ SlotsRead'
  BY <1>1, EmptyList DEF LinksRead, SlotsRead
<1>5. Merging' /\ Rendering'
  BY <1>1, EmptyList DEF Merging, Rendering, M!NoSignatures
<1>6. QED
  BY <1>2, <1>3, <1>4, <1>5 DEF SignInv, SignParts

\* What a step that leaves the program and the loops' results alone leaves alone.
LEMMA SameMethods ==
  ASSUME prog' = prog
  PROVE  /\ Compiled(prog) => Compiled(prog)'
         /\ \A j : OfType(j)' = OfType(j)
         /\ \A m : ByTable(m)' <=> ByTable(m)
         /\ itabs' = itabs => \A j : OfItab(j)' = OfItab(j)
         /\ itabs' = itabs => \A m : BySlot(m)' <=> BySlot(m)
<1>1. \A j : OfType(j)' = OfType(j)
  BY SameReads DEF OfType
<1>2. \A m : ByTable(m)' <=> ByTable(m)
  BY <1>1 DEF ByTable
<1>3. ASSUME itabs' = itabs PROVE \A j : OfItab(j)' = OfItab(j)
  BY <1>3, SameReads DEF OfItab
<1>4. ASSUME itabs' = itabs PROVE \A m : BySlot(m)' <=> BySlot(m)
  BY <1>3, <1>4 DEF BySlot
<1>5. QED
  BY <1>1, <1>2, <1>3, <1>4

LEMMA FromTypeKeeps ==
  ASSUME SignParts, M!FromType
  PROVE  SignParts'
<1> DEFINE f == OfType(mi)
<1>1. /\ stage = "types" /\ stage' = "types" /\ mi <= Len(prog.recovered) /\ mi' = mi + 1
      /\ prog' = prog /\ itabs' = itabs /\ merged' = merged /\ sigs' = sigs
      /\ methods' = methods \o f
  BY DEF M!FromType, OfType
<1>2. prog.recovered \in Seq(DOMAIN prog.types) /\ Compiled(prog) /\ mi \in Nat \ {0}
  BY DEF SignParts, Compiled, SignTypes
<1>3. mi \in DOMAIN prog.recovered
  BY <1>1, <1>2
<1>4. IsList(f) /\ IsList(methods)
  BY <1>2, <1>3, RecoveredFacts, TableIsList DEF SignParts, SignTypes, OfType
<1> DEFINE l == Len(methods)
           e == Len(f)
<1>5. /\ IsList(methods') /\ l \in Nat /\ e \in Nat /\ Len(methods') = l + e /\ DOMAIN methods' = 1 .. l + e
      /\ DOMAIN f = 1 .. e /\ DOMAIN methods = 1 .. l
      /\ \A k \in 1 .. l : methods'[k] = methods[k]
      /\ \A k \in 1 .. e : methods'[l + k] = f[k]
      /\ \A k \in l + 1 .. l + e : k - l \in 1 .. e /\ methods'[k] = f[k - l]
  BY <1>1, <1>4, JoinedLists
<1>6. Compiled(prog)' /\ SignTypes'
  BY <1>1, <1>2, <1>5 DEF SignParts, SignTypes
<1>7. PICK n \in 0 .. l :
        /\ \A k \in 1 .. n : ByTable(methods[k])
        /\ \A j \in DOMAIN prog.recovered : j < mi =>
             \A k \in DOMAIN OfType(j) : \E m \in 1 .. n : methods[m] = OfType(j)[k]
        /\ n = Len(methods)
  BY <1>1 DEF SignParts, TablesRead
<1> HIDE DEF f, l, e
<1>8. TablesRead'
  <2>1. \A k \in 1 .. l + e : ByTable(methods'[k])
    <3>1. TAKE k \in 1 .. l + e
    <3>2. CASE k \in 1 .. l
      BY <1>5, <1>7, <3>2 DEF l
    <3>3. CASE k \notin 1 .. l
      <4>1. k \in l + 1 .. l + e
        BY <1>5, <3>3
      <4>2. k - l \in DOMAIN f /\ methods'[k] = f[k - l]
        BY <1>5, <4>1
      <4>3. QED
        BY <1>3, <4>2 DEF ByTable, f
    <3>4. QED
      BY <3>2, <3>3
  <2>2. ASSUME NEW j \in DOMAIN prog.recovered, j < mi + 1, NEW k \in DOMAIN OfType(j)
        PROVE  \E m \in 1 .. l + e : methods'[m] = OfType(j)[k]
    <3>1. CASE j = mi
      <4>1. k \in 1 .. e /\ methods'[l + k] = f[k]
        BY <1>5, <2>2, <3>1 DEF f
      <4>2. l + k \in 1 .. l + e
        BY <1>5, <4>1
      <4>3. QED
        BY <3>1, <4>1, <4>2 DEF f
    <3>2. CASE j # mi
      <4>1. j < mi
        BY <1>2, <2>2, <3>2
      <4>2. PICK m \in 1 .. l : methods[m] = OfType(j)[k]
        BY <1>7, <2>2, <4>1 DEF l
      <4>3. m \in 1 .. l + e /\ methods'[m] = methods[m]
        BY <1>5, <4>2
      <4>4. QED
        BY <4>2, <4>3
    <3>3. QED
      BY <3>1, <3>2
  <2>3. /\ \A m : ByTable(m)' <=> ByTable(m)
        /\ \A j : OfType(j)' = OfType(j)
    BY <1>1, SameMethods
  <2>4. l + e \in 0 .. l + e /\ (l + e) + 1 .. l + e = {}
    BY <1>5
  <2> DEFINE s == l + e
  <2>5. /\ s \in 0 .. Len(methods')
        /\ \A k \in 1 .. s : ByTable(methods[k])'
        /\ \A k \in s + 1 .. Len(methods') : BySlot(methods[k])'
        /\ \A j \in DOMAIN prog.recovered : j < mi + 1 =>
             \A k \in DOMAIN OfType(j)' : \E m \in 1 .. s : methods'[m] = OfType(j)'[k]
        /\ s = Len(methods')
    <3>1. s \in 0 .. Len(methods') /\ s = Len(methods') /\ s + 1 .. Len(methods') = {}
      BY <1>5, <2>4
    <3>2. \A k \in 1 .. s : ByTable(methods[k])'
      BY <2>1, <2>3
    <3>3. \A j \in DOMAIN prog.recovered : j < mi + 1 =>
             \A k \in DOMAIN OfType(j)' : \E m \in 1 .. s : methods'[m] = OfType(j)'[k]
      BY <2>2, <2>3
    <3>4. QED
      BY <3>1, <3>2, <3>3
  <2> HIDE DEF s
  <2>6. QED
    BY <1>1, <2>5 DEF TablesRead
<1>9. LinksRead'
  BY <1>1, SameReads DEF SignParts, LinksRead
<1>10. SlotsRead'
  BY <1>1 DEF SlotsRead
<1>11. Merging' /\ Rendering'
  <2>1. merged = <<>> /\ sigs = M!NoSignatures /\ DOMAIN merged = {} /\ DOMAIN sigs = {}
    BY <1>1, EmptyList DEF SignParts, Merging, Rendering, M!NoSignatures
  <2>2. QED
    BY <1>1, <2>1 DEF Merging, Rendering
<1>12. QED
  BY <1>6, <1>8, <1>9, <1>10, <1>11 DEF SignParts

\* A loop that is through leaves everything as it is and the next one begins.
LEMMA TypesDoneKeeps ==
  ASSUME SignParts, M!TypesDone
  PROVE  SignParts'
<1>1. /\ stage = "types" /\ stage' = "itablinks" /\ mi > Len(prog.recovered) /\ mi' = 1
      /\ prog' = prog /\ methods' = methods /\ itabs' = itabs /\ merged' = merged /\ sigs' = sigs
  BY DEF M!TypesDone
<1>2. Compiled(prog)' /\ SignTypes'
  BY <1>1 DEF SignParts, SignTypes
<1>3. \A j \in DOMAIN prog.recovered : j < mi
  <2>1. prog.recovered \in Seq(DOMAIN prog.types) /\ mi \in Nat
    BY DEF SignParts, Compiled, SignTypes
  <2>2. QED
    BY <1>1, <2>1
<1>4. TablesRead'
  BY <1>1, <1>3, SameMethods DEF SignParts, TablesRead
<1>5. LinksRead'
  <2>1. IsList(prog.links)
    BY DEF SignParts, Compiled
  <2>2. \A j \in DOMAIN prog.links : ~(j < 1)
    BY <2>1, ListFacts
  <2>3. QED
    BY <1>1, <2>2, SameReads DEF SignParts, LinksRead
<1>6. SlotsRead' /\ Merging' /\ Rendering'
  <2>1. merged = <<>> /\ sigs = M!NoSignatures /\ DOMAIN merged = {} /\ DOMAIN sigs = {}
    BY <1>1, EmptyList DEF SignParts, Merging, Rendering, M!NoSignatures
  <2>2. QED
    BY <1>1, <2>1 DEF SlotsRead, Merging, Rendering
<1>7. QED
  BY <1>2, <1>4, <1>5, <1>6 DEF SignParts

LEMMA ParseItabKeeps ==
  ASSUME SignParts, M!ParseItab
  PROVE  SignParts'
<1> DEFINE a == prog.links[mi]
<1>1. /\ stage = "itablinks" /\ stage' = "itablinks" /\ mi <= Len(prog.links) /\ mi' = mi + 1
      /\ prog' = prog /\ methods' = methods /\ merged' = merged /\ sigs' = sigs
      /\ itabs' = IF a \in DOMAIN prog.itab THEN Append(itabs, M!parse_itab(a)) ELSE itabs
  BY DEF M!ParseItab
<1>2. Compiled(prog) /\ mi \in Nat \ {0} /\ IsList(itabs) /\ IsList(prog.links)
  BY DEF SignParts, SignTypes, Compiled
<1>3. mi \in DOMAIN prog.links /\ Len(prog.links) \in Nat /\ DOMAIN prog.links = 1 .. Len(prog.links)
  BY <1>1, <1>2, ListFacts
<1>4. /\ IsList(itabs')
      /\ \A k \in DOMAIN itabs' : (k \in DOMAIN itabs /\ itabs'[k] = itabs[k])
                                   \/ (a \in DOMAIN prog.itab /\ itabs'[k] = M!parse_itab(a))
      /\ \A k \in DOMAIN itabs : k \in DOMAIN itabs' /\ itabs'[k] = itabs[k]
      /\ a \in DOMAIN prog.itab => \E k \in DOMAIN itabs' : itabs'[k] = M!parse_itab(a)
  <2>1. CASE a \notin DOMAIN prog.itab
    <3>1. itabs' = itabs
      BY <1>1, <2>1
    <3>2. QED
      BY <1>2, <2>1, <3>1
  <2>2. CASE a \in DOMAIN prog.itab
    <3> DEFINE e == M!parse_itab(a)
    <3>1. itabs' = Append(itabs, e)
      BY <1>1, <2>2
    <3> HIDE DEF e
    <3>2. /\ IsList(itabs') /\ DOMAIN itabs' = 1 .. Len(itabs) + 1 /\ DOMAIN itabs = 1 .. Len(itabs) /\ Len(itabs) \in Nat
          /\ \A k \in 1 .. Len(itabs) : itabs'[k] = itabs[k]
          /\ itabs'[Len(itabs) + 1] = e
      BY <1>2, <3>1, AppendedList
    <3>3. \A k \in 1 .. Len(itabs) + 1 : k \in 1 .. Len(itabs) \/ k = Len(itabs) + 1
      BY <3>2
    <3>4. QED
      BY <2>2, <3>2, <3>3 DEF e
  <2>3. QED
    BY <2>1, <2>2
<1>5. Compiled(prog)' /\ SignTypes'
  BY <1>1, <1>2, <1>4 DEF SignParts, SignTypes
<1>6. TablesRead'
  <2>1. PICK n \in 0 .. Len(methods) :
           /\ \A k \in 1 .. n : ByTable(methods[k])
           /\ \A j \in DOMAIN prog.recovered :
                \A k \in DOMAIN OfType(j) : \E m \in 1 .. n : methods[m] = OfType(j)[k]
           /\ n = Len(methods)
    BY <1>1 DEF SignParts, TablesRead
  <2>2. Len(methods) \in Nat
    BY ListFacts DEF SignParts, SignTypes
  <2>3. n + 1 .. Len(methods) = {}
    BY <2>1, <2>2
  <2>4. QED
    BY <1>1, <2>1, <2>3, SameMethods DEF TablesRead
<1>7. LinksRead'
  <2>1. \A k \in DOMAIN itabs' : \E j \in DOMAIN prog.links :
           prog.links[j] \in DOMAIN prog.itab /\ itabs'[k] = M!parse_itab(prog.links[j])
    <3>1. TAKE k \in DOMAIN itabs'
    <3>2. CASE k \in DOMAIN itabs /\ itabs'[k] = itabs[k]
      BY <3>2 DEF SignParts, LinksRead
    <3>3. CASE a \in DOMAIN prog.itab /\ itabs'[k] = M!parse_itab(a)
      BY <1>3, <3>3
    <3>4. QED
      BY <1>4, <3>2, <3>3
  <2>2. ASSUME NEW j \in DOMAIN prog.links, j < mi + 1, prog.links[j] \in DOMAIN prog.itab
        PROVE  \E k \in DOMAIN itabs' : itabs'[k] = M!parse_itab(prog.links[j])
    <3>1. CASE j = mi
      BY <1>4, <2>2, <3>1
    <3>2. CASE j # mi
      <4>1. j < mi
        BY <1>2, <1>3, <2>2, <3>2
      <4>2. PICK k \in DOMAIN itabs : itabs[k] = M!parse_itab(prog.links[j])
        BY <1>1, <2>2, <4>1 DEF SignParts, LinksRead
      <4>3. QED
        BY <1>4, <4>2
    <3>3. QED
      BY <3>1, <3>2
  <2> HIDE DEF a
  <2>3. QED
    BY <1>1, <2>1, <2>2, SameReads DEF LinksRead
<1>8. SlotsRead' /\ Merging' /\ Rendering'
  <2>1. merged = <<>> /\ sigs = M!NoSignatures /\ DOMAIN merged = {} /\ DOMAIN sigs = {}
    BY <1>1, EmptyList DEF SignParts, Merging, Rendering, M!NoSignatures
  <2>2. QED
    BY <1>1, <2>1 DEF SlotsRead, Merging, Rendering
<1>9. QED
  BY <1>5, <1>6, <1>7, <1>8 DEF SignParts

LEMMA LinksDoneKeeps ==
  ASSUME SignParts, M!LinksDone
  PROVE  SignParts'
<1>1. /\ stage = "itablinks" /\ stage' = "itabs" /\ mi > Len(prog.links) /\ mi' = 1
      /\ prog' = prog /\ methods' = methods /\ itabs' = itabs /\ merged' = merged /\ sigs' = sigs
  BY DEF M!LinksDone
<1>2. Compiled(prog)' /\ SignTypes'
  BY <1>1 DEF SignParts, SignTypes
<1>3. TablesRead'
  BY <1>1, SameMethods DEF SignParts, TablesRead
<1>4. LinksRead'
  <2>1. \A j \in DOMAIN prog.links : j < mi
    <3>1. Len(prog.links) \in Nat /\ DOMAIN prog.links = 1 .. Len(prog.links) /\ mi \in Nat
      BY ListFacts DEF SignParts, Compiled, SignTypes
    <3>2. QED
      BY <1>1, <3>1
  <2>2. QED
    BY <1>1, <2>1, SameReads DEF SignParts, LinksRead
<1>5. SlotsRead'
  <2>1. \A j \in DOMAIN itabs : ~(j < 1)
    BY ListFacts DEF SignParts, SignTypes
  <2>2. QED
    BY <1>1, <2>1 DEF SlotsRead
<1>6. Merging' /\ Rendering'
  <2>1. merged = <<>> /\ sigs = M!NoSignatures /\ DOMAIN merged = {} /\ DOMAIN sigs = {}
    BY <1>1, EmptyList DEF SignParts, Merging, Rendering, M!NoSignatures
  <2>2. QED
    BY <1>1, <2>1 DEF Merging, Rendering
<1>7. QED
  BY <1>2, <1>3, <1>4, <1>5, <1>6 DEF SignParts

LEMMA FromItabKeeps ==
  ASSUME SignParts, M!FromItab
  PROVE  SignParts'
<1> DEFINE f == OfItab(mi)
           l == Len(methods)
           e == Len(f)
<1>1. /\ stage = "itabs" /\ stage' = "itabs" /\ mi <= Len(itabs) /\ mi' = mi + 1
      /\ prog' = prog /\ itabs' = itabs /\ merged' = merged /\ sigs' = sigs
      /\ methods' = methods \o f
  BY DEF M!FromItab, OfItab
<1>2. Compiled(prog) /\ mi \in Nat \ {0} /\ IsList(itabs)
  BY DEF SignParts, SignTypes
<1>3. mi \in DOMAIN itabs /\ DOMAIN itabs = 1 .. Len(itabs) /\ Len(itabs) \in Nat
  BY <1>1, <1>2, ListFacts
<1>4. IsList(f) /\ IsList(methods)
  <2>1. PICK j \in DOMAIN prog.links : prog.links[j] \in DOMAIN prog.itab /\ itabs[mi] = M!parse_itab(prog.links[j])
    BY <1>3 DEF SignParts, LinksRead
  <2>2. QED
    BY <1>2, <2>1, DispatchedIsList DEF OfItab, SignParts, SignTypes
<1>5. /\ IsList(methods') /\ l \in Nat /\ e \in Nat /\ Len(methods') = l + e /\ DOMAIN methods' = 1 .. l + e
      /\ DOMAIN f = 1 .. e /\ DOMAIN methods = 1 .. l
      /\ \A k \in 1 .. l : methods'[k] = methods[k]
      /\ \A k \in 1 .. e : methods'[l + k] = f[k]
      /\ \A k \in l + 1 .. l + e : k - l \in 1 .. e /\ methods'[k] = f[k - l]
  BY <1>1, <1>4, JoinedLists
<1>6. Compiled(prog)' /\ SignTypes'
  BY <1>1, <1>2, <1>5 DEF SignParts, SignTypes
<1> HIDE DEF f, e, l
<1>7. TablesRead'
  <2>1. PICK n \in 0 .. l :
           /\ \A k \in 1 .. n : ByTable(methods[k])
           /\ \A k \in n + 1 .. l : BySlot(methods[k])
           /\ \A j \in DOMAIN prog.recovered :
                \A k \in DOMAIN OfType(j) : \E m \in 1 .. n : methods[m] = OfType(j)[k]
    BY <1>1 DEF SignParts, TablesRead, l
  <2>2. n \in 0 .. Len(methods') /\ \A k \in 1 .. n : k \in 1 .. l
    BY <1>5, <2>1
  <2>3. \A k \in 1 .. n : ByTable(methods'[k])
    BY <1>5, <2>1, <2>2
  <2>4. \A k \in n + 1 .. Len(methods') : BySlot(methods'[k])
    <3>1. TAKE k \in n + 1 .. Len(methods')
    <3>2. k \in n + 1 .. l \/ k \in l + 1 .. l + e
      BY <1>5, <2>1
    <3>3. CASE k \in n + 1 .. l
      <4>1. k \in 1 .. l
        BY <1>5, <2>1, <3>3
      <4>2. QED
        BY <1>5, <2>1, <3>3, <4>1
    <3>4. CASE k \in l + 1 .. l + e
      <4>1. k - l \in DOMAIN f /\ methods'[k] = f[k - l]
        BY <1>5, <3>4
      <4>2. QED
        BY <1>3, <4>1 DEF BySlot, f
    <3>5. QED
      BY <3>2, <3>3, <3>4
  <2>5. \A j \in DOMAIN prog.recovered : \A k \in DOMAIN OfType(j) : \E m \in 1 .. n : methods'[m] = OfType(j)[k]
    BY <1>5, <2>1, <2>2
  <2>6. /\ \A m : ByTable(m)' <=> ByTable(m)
        /\ \A m : BySlot(m)' <=> BySlot(m)
        /\ \A j : OfType(j)' = OfType(j)
    BY <1>1, SameMethods
  <2>7. /\ n \in 0 .. Len(methods')
        /\ \A k \in 1 .. n : ByTable(methods[k])'
        /\ \A k \in n + 1 .. Len(methods') : BySlot(methods[k])'
        /\ \A j \in DOMAIN prog.recovered : \A k \in DOMAIN OfType(j)' : \E m \in 1 .. n : methods'[m] = OfType(j)'[k]
    BY <2>2, <2>3, <2>4, <2>5, <2>6
  <2>8. QED
    BY <1>1, <2>7 DEF TablesRead
<1>8. LinksRead'
  BY <1>1, SameReads DEF SignParts, LinksRead
<1>9. SlotsRead'
  <2>1. ASSUME NEW j \in DOMAIN itabs, j < mi + 1, NEW k \in DOMAIN OfItab(j)
        PROVE  \E m \in DOMAIN methods' : methods'[m] = OfItab(j)[k]
    <3>1. CASE j = mi
      <4>1. k \in 1 .. e /\ methods'[l + k] = f[k]
        BY <1>5, <2>1, <3>1 DEF f
      <4>2. l + k \in DOMAIN methods'
        BY <1>5, <4>1
      <4>3. QED
        BY <3>1, <4>1, <4>2 DEF f
    <3>2. CASE j # mi
      <4>1. j < mi
        BY <1>2, <1>3, <2>1, <3>2
      <4>2. PICK m \in DOMAIN methods : methods[m] = OfItab(j)[k]
        BY <1>1, <2>1, <4>1 DEF SignParts, SlotsRead
      <4>3. m \in DOMAIN methods' /\ methods'[m] = methods[m]
        BY <1>5, <4>2
      <4>4. QED
        BY <4>2, <4>3
    <3>3. QED
      BY <3>1, <3>2
  <2>2. \A j : OfItab(j)' = OfItab(j)
    BY <1>1, SameMethods
  <2>3. QED
    BY <1>1, <2>1, <2>2 DEF SlotsRead
<1>10. Merging' /\ Rendering'
  <2>1. merged = <<>> /\ sigs = M!NoSignatures /\ DOMAIN merged = {} /\ DOMAIN sigs = {}
    BY <1>1, EmptyList DEF SignParts, Merging, Rendering, M!NoSignatures
  <2>2. QED
    BY <1>1, <2>1 DEF Merging, Rendering
<1>11. QED
  BY <1>6, <1>7, <1>8, <1>9, <1>10 DEF SignParts

\* From the merge on, what was read of the types and the itabs stays.
LEMMA ReadStays ==
  ASSUME SignParts, prog' = prog, itabs' = itabs, methods' = methods,
         stage \in {"merge", "render", "done"}, stage' \in {"merge", "render", "done"}
  PROVE  Compiled(prog)' /\ TablesRead' /\ LinksRead' /\ SlotsRead'
<1>1. Compiled(prog)' /\ LinksRead'
  BY SameReads DEF SignParts, LinksRead
<1>2. TablesRead'
  BY SameMethods DEF SignParts, TablesRead
<1>3. SlotsRead'
  BY SameMethods DEF SignParts, SlotsRead
<1>4. QED
  BY <1>1, <1>2, <1>3

LEMMA ItabsDoneKeeps ==
  ASSUME SignParts, M!ItabsDone
  PROVE  SignParts'
<1>1. /\ stage = "itabs" /\ stage' = "merge" /\ mi > Len(itabs) /\ mi' = 1
      /\ prog' = prog /\ methods' = methods /\ itabs' = itabs /\ merged' = merged /\ sigs' = sigs
  BY DEF M!ItabsDone
<1>2. Compiled(prog)' /\ SignTypes'
  BY <1>1 DEF SignParts, SignTypes
<1>3. TablesRead' /\ LinksRead'
  BY <1>1, SameMethods, SameReads DEF SignParts, TablesRead, LinksRead
<1>4. SlotsRead'
  <2>1. \A j \in DOMAIN itabs : j < mi
    <3>1. Len(itabs) \in Nat /\ DOMAIN itabs = 1 .. Len(itabs) /\ mi \in Nat
      BY ListFacts DEF SignParts, SignTypes
    <3>2. QED
      BY <1>1, <3>1
  <2>2. QED
    BY <1>1, <2>1, SameMethods DEF SignParts, SlotsRead
<1>5. Merging' /\ Rendering'
  <2>1. merged = <<>> /\ sigs = M!NoSignatures /\ DOMAIN merged = {} /\ DOMAIN sigs = {}
    BY <1>1, EmptyList DEF SignParts, Merging, Rendering, M!NoSignatures
  <2>2. \A m \in DOMAIN methods : ~(m < 1)
    BY ListFacts DEF SignParts, SignTypes
  <2>3. QED
    BY <1>1, <2>1, <2>2 DEF Merging, Rendering
<1>6. QED
  BY <1>2, <1>3, <1>4, <1>5 DEF SignParts

LEMMA MergeKeeps ==
  ASSUME SignParts, M!Merge
  PROVE  SignParts'
<1> DEFINE x == methods[mi]
           twin == x.tfn # 0 /\ \E k \in DOMAIN merged : M!SameMethod(merged[k], x)
<1>1. /\ stage = "merge" /\ stage' = "merge" /\ mi <= Len(methods) /\ mi' = mi + 1
      /\ prog' = prog /\ methods' = methods /\ itabs' = itabs /\ sigs' = sigs
      /\ merged' = IF twin THEN merged ELSE Append(merged, x)
  BY DEF M!Merge
<1>2. mi \in Nat \ {0} /\ IsList(merged) /\ IsList(methods)
  BY DEF SignParts, SignTypes
<1>3. mi \in DOMAIN methods /\ DOMAIN methods = 1 .. Len(methods) /\ Len(methods) \in Nat
  BY <1>1, <1>2, ListFacts
<1>4. /\ IsList(merged')
      /\ \A k \in DOMAIN merged' : (k \in DOMAIN merged /\ merged'[k] = merged[k]) \/ merged'[k] = x
      /\ \A k \in DOMAIN merged : k \in DOMAIN merged' /\ merged'[k] = merged[k]
      /\ ~twin => \E k \in DOMAIN merged' : merged'[k] = x
  <2>1. CASE twin
    <3>1. merged' = merged
      BY <1>1, <2>1
    <3>2. QED
      BY <1>2, <2>1, <3>1
  <2>2. CASE ~twin
    <3>1. merged' = Append(merged, x)
      BY <1>1, <2>2
    <3> HIDE DEF x, twin
    <3>2. /\ IsList(merged') /\ DOMAIN merged' = 1 .. Len(merged) + 1 /\ DOMAIN merged = 1 .. Len(merged)
          /\ Len(merged) \in Nat
          /\ \A k \in 1 .. Len(merged) : merged'[k] = merged[k]
          /\ merged'[Len(merged) + 1] = x
      BY <1>2, <3>1, AppendedList
    <3>3. \A k \in 1 .. Len(merged) + 1 : k \in 1 .. Len(merged) \/ k = Len(merged) + 1
      BY <3>2
    <3>4. QED
      BY <2>2, <3>2, <3>3
  <2>3. QED
    BY <2>1, <2>2
<1>5. SignTypes'
  BY <1>1, <1>2, <1>4 DEF SignParts, SignTypes
<1>6. Compiled(prog)' /\ TablesRead' /\ LinksRead' /\ SlotsRead'
  BY <1>1, ReadStays
<1>7. Merging'
  <2>1. \A k \in DOMAIN merged' : \E m \in DOMAIN methods : m < mi + 1 /\ merged'[k] = methods[m]
    <3>1. TAKE k \in DOMAIN merged'
    <3>2. CASE k \in DOMAIN merged /\ merged'[k] = merged[k]
      <4>1. PICK m \in DOMAIN methods : m < mi /\ merged[k] = methods[m]
        BY <1>1, <3>2 DEF SignParts, Merging
      <4>2. m < mi + 1
        BY <1>2, <1>3, <4>1
      <4>3. QED
        BY <3>2, <4>1, <4>2
    <3>3. CASE merged'[k] = x
      <4>1. mi < mi + 1
        BY <1>2
      <4>2. QED
        BY <1>3, <3>3, <4>1
    <3>4. QED
      BY <1>4, <3>2, <3>3
  <2>2. ASSUME NEW m \in DOMAIN methods, m < mi + 1
        PROVE  \E k \in DOMAIN merged', h \in DOMAIN methods :
                 h <= m /\ merged'[k] = methods[h] /\ M!SameMethod(methods[h], methods[m])
    <3>1. CASE m # mi
      <4>1. m < mi
        BY <1>2, <1>3, <2>2, <3>1
      <4>2. PICK k \in DOMAIN merged, h \in DOMAIN methods :
                 h <= m /\ merged[k] = methods[h] /\ M!SameMethod(methods[h], methods[m])
        BY <1>1, <4>1 DEF SignParts, Merging
      <4>3. k \in DOMAIN merged' /\ merged'[k] = methods[h]
        BY <1>4, <4>2
      <4>4. QED
        BY <4>2, <4>3
    <3>2. CASE m = mi /\ ~twin
      <4>1. PICK k \in DOMAIN merged' : merged'[k] = methods[m]
        BY <1>4, <3>2
      <4>2. M!SameMethod(methods[m], methods[m])
        BY DEF M!SameMethod
      <4>3. m <= m
        BY <1>3
      <4>4. QED
        BY <4>1, <4>2, <4>3
    <3>3. CASE m = mi /\ twin
      <4>1. PICK k \in DOMAIN merged : M!SameMethod(merged[k], methods[m])
        BY <3>3
      <4>2. PICK h \in DOMAIN methods : h < mi /\ merged[k] = methods[h]
        BY <1>1, <4>1 DEF SignParts, Merging
      <4>3. h <= m
        BY <1>2, <1>3, <3>3, <4>2
      <4>4. k \in DOMAIN merged' /\ merged'[k] = methods[h]
        BY <1>4, <4>2
      <4>5. QED
        BY <4>1, <4>2, <4>3, <4>4
    <3>4. QED
      BY <3>1, <3>2, <3>3
  <2> HIDE DEF x, twin
  <2>3. QED
    <3>1. \A m \in DOMAIN methods' : m < mi' =>
            \E k \in DOMAIN merged', h \in DOMAIN methods' :
              h <= m /\ merged'[k] = methods'[h] /\ M!SameMethod(methods[h], methods[m])'
      BY <1>1, <2>2 DEF M!SameMethod
    <3>2. QED
      BY <1>1, <2>1, <3>1 DEF Merging
<1>8. Rendering'
  <2>1. sigs = M!NoSignatures /\ DOMAIN sigs = {}
    BY <1>1 DEF SignParts, Rendering, M!NoSignatures
  <2>2. QED
    BY <1>1, <2>1 DEF Rendering
<1>9. QED
  BY <1>5, <1>6, <1>7, <1>8 DEF SignParts

LEMMA MergeDoneKeeps ==
  ASSUME SignParts, M!MergeDone
  PROVE  SignParts'
<1>1. /\ stage = "merge" /\ stage' = "render" /\ mi > Len(methods) /\ mi' = 1
      /\ prog' = prog /\ methods' = methods /\ itabs' = itabs /\ merged' = merged /\ sigs' = sigs
  BY DEF M!MergeDone
<1>2. SignTypes'
  BY <1>1 DEF SignParts, SignTypes
<1>3. Compiled(prog)' /\ TablesRead' /\ LinksRead' /\ SlotsRead'
  BY <1>1, ReadStays
<1>4. Merging'
  <2>1. \A m \in DOMAIN methods : m < mi
    <3>1. Len(methods) \in Nat /\ DOMAIN methods = 1 .. Len(methods) /\ mi \in Nat
      BY ListFacts DEF SignParts, SignTypes
    <3>2. QED
      BY <1>1, <3>1
  <2>2. QED
    BY <1>1, <2>1 DEF SignParts, Merging, M!SameMethod
<1>5. Rendering'
  <2>1. sigs = M!NoSignatures /\ DOMAIN sigs = {}
    BY <1>1 DEF SignParts, Rendering, M!NoSignatures
  <2>2. \A k \in DOMAIN merged : ~(k < 1)
    BY ListFacts DEF SignParts, SignTypes
  <2>3. QED
    BY <1>1, <2>1, <2>2 DEF Rendering
<1>6. QED
  BY <1>2, <1>3, <1>4, <1>5 DEF SignParts

LEMMA RenderKeeps ==
  ASSUME SignParts, M!Render
  PROVE  SignParts'
<1> DEFINE x == merged[mi]
           shown == x.tfn # 0 /\ x.tfn \notin DOMAIN sigs /\ M!Renders(x)
<1>1. /\ stage = "render" /\ stage' = "render" /\ mi <= Len(merged) /\ mi' = mi + 1
      /\ prog' = prog /\ methods' = methods /\ itabs' = itabs /\ merged' = merged
      /\ sigs' = M!Signed(x)
  BY DEF M!Render
<1>2. mi \in Nat \ {0} /\ IsList(merged)
  BY DEF SignParts, SignTypes
<1>3. mi \in DOMAIN merged /\ DOMAIN merged = 1 .. Len(merged) /\ Len(merged) \in Nat
  BY <1>1, <1>2, ListFacts
<1>4. SignTypes'
  BY <1>1, <1>2 DEF SignParts, SignTypes
<1>5. Compiled(prog)' /\ TablesRead' /\ LinksRead' /\ SlotsRead'
  BY <1>1, ReadStays
<1>6. Merging'
  BY <1>1 DEF SignParts, Merging, M!SameMethod
<1>7. /\ DOMAIN sigs \subseteq DOMAIN sigs'
      /\ \A pc \in DOMAIN sigs' : (pc \in DOMAIN sigs /\ sigs'[pc] = sigs[pc])
                                  \/ (shown /\ pc = x.tfn /\ sigs'[pc] = M!render_method_signature(x))
      /\ x.tfn # 0 /\ M!Renders(x) => x.tfn \in DOMAIN sigs'
  <2>1. CASE shown
    <3>1. sigs' = [pc \in DOMAIN sigs \cup {x.tfn} |-> IF pc = x.tfn THEN M!render_method_signature(x) ELSE sigs[pc]]
      BY <1>1, <2>1 DEF M!Signed
    <3> HIDE DEF x
    <3>2. QED
      BY <2>1, <3>1
  <2>2. CASE ~shown
    <3>1. sigs' = sigs
      BY <1>1, <2>2 DEF M!Signed
    <3>2. QED
      BY <2>2, <3>1
  <2>3. QED
    BY <2>1, <2>2
<1>8. Rendering'
  <2>1. \A pc \in DOMAIN sigs' : \E k \in DOMAIN merged :
          pc # 0 /\ merged[k].tfn = pc /\ M!Renders(merged[k]) /\ sigs'[pc] = M!render_method_signature(merged[k])
    <3>1. TAKE pc \in DOMAIN sigs'
    <3>2. CASE pc \in DOMAIN sigs /\ sigs'[pc] = sigs[pc]
      BY <3>2 DEF SignParts, Rendering
    <3>3. CASE shown /\ pc = x.tfn /\ sigs'[pc] = M!render_method_signature(x)
      BY <1>3, <3>3
    <3>4. QED
      BY <1>7, <3>2, <3>3
  <2>2. \A k \in DOMAIN merged : k < mi + 1 /\ merged[k].tfn # 0 /\ M!Renders(merged[k]) => merged[k].tfn \in DOMAIN sigs'
    <3>1. SUFFICES ASSUME NEW k \in DOMAIN merged, k < mi + 1, merged[k].tfn # 0, M!Renders(merged[k])
                   PROVE  merged[k].tfn \in DOMAIN sigs'
      OBVIOUS
    <3>2. CASE k = mi
      BY <1>7, <3>1, <3>2
    <3>3. CASE k # mi
      <4>1. k < mi
        BY <1>2, <1>3, <3>1, <3>3
      <4>2. merged[k].tfn \in DOMAIN sigs
        BY <1>1, <3>1, <4>1 DEF SignParts, Rendering
      <4>3. QED
        BY <1>7, <4>2
    <3>4. QED
      BY <3>2, <3>3
  <2>3. /\ \A m : M!Renders(m)' <=> M!Renders(m)
        /\ \A m : M!render_method_signature(m)' = M!render_method_signature(m)
    BY <1>1, SameReads
  <2> HIDE DEF x, shown
  <2>4. /\ \A pc \in DOMAIN sigs' : \E k \in DOMAIN merged' :
             pc # 0 /\ merged'[k].tfn = pc /\ M!Renders(merged[k])' /\ sigs'[pc] = M!render_method_signature(merged[k])'
        /\ \A k \in DOMAIN merged' :
             k < mi' /\ merged'[k].tfn # 0 /\ M!Renders(merged[k])' => merged'[k].tfn \in DOMAIN sigs'
    BY <1>1, <2>1, <2>2, <2>3
  <2>5. QED
    BY <1>1, <2>4 DEF Rendering
<1>9. QED
  BY <1>4, <1>5, <1>6, <1>8 DEF SignParts

LEMMA FinishKeeps ==
  ASSUME SignParts, M!Finish
  PROVE  SignParts'
<1>1. /\ stage = "render" /\ stage' = "done" /\ mi > Len(merged) /\ mi' = mi
      /\ prog' = prog /\ methods' = methods /\ itabs' = itabs /\ merged' = merged /\ sigs' = sigs
  BY DEF M!Finish
<1>2. SignTypes'
  BY <1>1 DEF SignParts, SignTypes
<1>3. Compiled(prog)' /\ TablesRead' /\ LinksRead' /\ SlotsRead'
  BY <1>1, ReadStays
<1>4. Merging'
  BY <1>1 DEF SignParts, Merging, M!SameMethod
<1>5. \A k \in DOMAIN merged : k < mi
  <2>1. Len(merged) \in Nat /\ DOMAIN merged = 1 .. Len(merged) /\ mi \in Nat
    BY ListFacts DEF SignParts, SignTypes
  <2>2. QED
    BY <1>1, <2>1
<1>6. Rendering'
  BY <1>1, <1>5, SameReads DEF SignParts, Rendering
<1>7. QED
  BY <1>2, <1>3, <1>4, <1>6 DEF SignParts

LEMMA StepKeepsSigns ==
  ASSUME SignInv, M!Step
  PROVE  SignInv'
<1>1. stage # "idle"
  BY DEF M!Step, M!FromType, M!TypesDone, M!ParseItab, M!LinksDone, M!FromItab, M!ItabsDone, M!Merge, M!MergeDone, M!Render, M!Finish
<1>2. SignParts
  BY <1>1 DEF SignInv
<1>3. SignParts'
  BY <1>2, FromTypeKeeps, TypesDoneKeeps, ParseItabKeeps, LinksDoneKeeps, FromItabKeeps, ItabsDoneKeeps,
     MergeKeeps, MergeDoneKeeps, RenderKeeps, FinishKeeps DEF M!Step
<1>4. QED
  BY <1>3 DEF SignInv

-----------------------------------------------------------------------------
(* At the end: what is shown is declared, and what is declared is shown.   *)

InTable(m) == \E a \in M!Recovered : \E k \in DOMAIN prog.types[a].table : m = OfTable(a, k)
SlotsOf(b) == DOMAIN prog.types[prog.itab[b].inter].imethods \cap DOMAIN prog.itab[b].fun
InSlot(m) ==
    \E b \in M!Linked : /\ M!Mapped(prog.itab[b].inter)
                        /\ \E s \in SlotsOf(b) : prog.itab[b].fun[s] # 0 /\ m = LinkMethod(b, s)

LEMMA LinkedFacts ==
  ASSUME NEW j \in DOMAIN prog.links, prog.links[j] \in DOMAIN prog.itab
  PROVE  prog.links[j] \in M!Linked
  BY DEF M!Linked

LEMMA DoneFacts ==
  ASSUME SignParts, stage = "done", M!NamesSeparate, M!Methodless("Func")
  PROVE  /\ \A k \in DOMAIN merged : InTable(merged[k]) \/ InSlot(merged[k])
         /\ \A a \in M!Recovered : M!Tabled(a) => \A k \in DOMAIN prog.types[a].table :
              \E m \in DOMAIN merged : InTable(merged[m]) /\ M!SameMethod(merged[m], OfTable(a, k))
         /\ \A b \in M!Linked : Served(b) =>
              \A s \in DOMAIN prog.itab[b].fun \cap DOMAIN M!SlotNames(prog.itab[b].inter) :
                /\ s \in SlotsOf(b)
                /\ prog.itab[b].fun[s] # 0 => \E m \in DOMAIN merged : M!SameMethod(merged[m], LinkMethod(b, s))
<1>1. Compiled(prog)
  BY DEF SignParts
<1>2. PICK n \in 0 .. Len(methods) :
        /\ \A k \in 1 .. n : ByTable(methods[k])
        /\ \A k \in n + 1 .. Len(methods) : BySlot(methods[k])
        /\ \A j \in DOMAIN prog.recovered : \A k \in DOMAIN OfType(j) : \E m \in 1 .. n : methods[m] = OfType(j)[k]
  BY DEF SignParts, TablesRead
<1>3. Len(methods) \in Nat /\ DOMAIN methods = 1 .. Len(methods)
  BY ListFacts DEF SignParts, SignTypes
<1>4. ASSUME NEW m, ByTable(m) PROVE InTable(m)
  <2>1. PICK j \in DOMAIN prog.recovered : \E k \in DOMAIN OfType(j) : m = OfType(j)[k]
    BY <1>4 DEF ByTable
  <2>2. PICK k \in DOMAIN OfType(j) : m = OfType(j)[k]
    BY <2>1
  <2> DEFINE a == prog.recovered[j]
  <2>3. a \in M!Recovered
    BY <1>1, RecoveredFacts
  <2>4. k \in DOMAIN prog.types[a].table /\ OfType(j)[k] = OfTable(a, k)
    BY <1>1, <2>2, <2>3, TableFacts DEF OfType
  <2>5. QED
    BY <2>2, <2>3, <2>4 DEF InTable
<1>5. ASSUME NEW m, BySlot(m) PROVE InSlot(m)
  <2>1. PICK j \in DOMAIN itabs : \E k \in DOMAIN OfItab(j) : m = OfItab(j)[k]
    BY <1>5 DEF BySlot
  <2>2. PICK k \in DOMAIN OfItab(j) : m = OfItab(j)[k]
    BY <2>1
  <2>3. PICK x \in DOMAIN prog.links : prog.links[x] \in DOMAIN prog.itab /\ itabs[j] = M!parse_itab(prog.links[x])
    BY DEF SignParts, LinksRead
  <2> DEFINE b == prog.links[x]
  <2>4. b \in M!Linked /\ b \in DOMAIN prog.itab
    BY <2>3, LinkedFacts
  <2> HIDE DEF b
  <2>5. OfItab(j) = M!Dispatched(M!parse_itab(b))
    BY <2>3 DEF OfItab, b
  <2>6. /\ M!Mapped(prog.itab[b].inter)
        /\ \E s \in SlotsOf(b) : prog.itab[b].fun[s] # 0 /\ m = LinkMethod(b, s)
    BY <1>1, <2>2, <2>4, <2>5, LinkFacts DEF SlotsOf
  <2>7. QED
    BY <2>4, <2>6 DEF InSlot
<1>6. \A k \in DOMAIN merged : InTable(merged[k]) \/ InSlot(merged[k])
  <2>1. TAKE k \in DOMAIN merged
  <2>2. PICK m \in DOMAIN methods : merged[k] = methods[m]
    BY DEF SignParts, Merging
  <2>3. m \in 1 .. n \/ m \in n + 1 .. Len(methods)
    BY <1>2, <1>3
  <2>4. QED
    BY <1>2, <1>4, <1>5, <2>2, <2>3
<1>7. \A m \in DOMAIN methods : \E k \in DOMAIN merged, h \in DOMAIN methods :
        h <= m /\ merged[k] = methods[h] /\ M!SameMethod(methods[h], methods[m])
  BY DEF SignParts, Merging
<1>8. ASSUME NEW a \in M!Recovered, M!Tabled(a), NEW k \in DOMAIN prog.types[a].table
      PROVE  \E m \in DOMAIN merged : InTable(merged[m]) /\ M!SameMethod(merged[m], OfTable(a, k))
  <2>1. PICK j \in DOMAIN prog.recovered : a = prog.recovered[j]
    BY DEF M!Recovered
  <2>2. k \in DOMAIN OfType(j) /\ OfType(j)[k] = OfTable(a, k)
    BY <1>1, <1>8, <2>1, TableFacts DEF OfType
  <2>3. PICK m \in 1 .. n : methods[m] = OfTable(a, k)
    BY <1>2, <2>2
  <2>4. m \in DOMAIN methods
    BY <1>2, <1>3, <2>3
  <2>5. PICK x \in DOMAIN merged, h \in DOMAIN methods :
          h <= m /\ merged[x] = methods[h] /\ M!SameMethod(methods[h], methods[m])
    BY <1>7, <2>4
  <2>6. h \in 1 .. n
    BY <1>2, <1>3, <2>3, <2>5
  <2>7. QED
    BY <1>2, <1>4, <2>3, <2>5, <2>6
<1>9. ASSUME NEW b \in M!Linked, Served(b),
             NEW s \in DOMAIN prog.itab[b].fun \cap DOMAIN M!SlotNames(prog.itab[b].inter)
      PROVE  /\ s \in SlotsOf(b)
             /\ prog.itab[b].fun[s] # 0 => \E m \in DOMAIN merged : M!SameMethod(merged[m], LinkMethod(b, s))
  <2>1. PICK x \in DOMAIN prog.links : b = prog.links[x] /\ b \in DOMAIN prog.itab
    BY DEF M!Linked
  <2>2. PICK j \in DOMAIN itabs : itabs[j] = M!parse_itab(b)
    BY <2>1 DEF SignParts, LinksRead
  <2>3. OfItab(j) = M!Dispatched(M!parse_itab(b))
    BY <2>2 DEF OfItab
  <2>4. /\ s \in SlotsOf(b)
        /\ prog.itab[b].fun[s] # 0 => \E k \in DOMAIN OfItab(j) : OfItab(j)[k] = LinkMethod(b, s)
    BY <1>1, <1>9, <2>1, <2>3, LinkFacts DEF SlotsOf
  <2>5. ASSUME prog.itab[b].fun[s] # 0 PROVE \E m \in DOMAIN merged : M!SameMethod(merged[m], LinkMethod(b, s))
    <3>1. PICK k \in DOMAIN OfItab(j) : OfItab(j)[k] = LinkMethod(b, s)
      BY <2>4, <2>5
    <3>2. PICK m \in DOMAIN methods : methods[m] = LinkMethod(b, s)
      BY <3>1 DEF SignParts, SlotsRead
    <3>3. PICK x2 \in DOMAIN merged, h \in DOMAIN methods :
            h <= m /\ merged[x2] = methods[h] /\ M!SameMethod(methods[h], methods[m])
      BY <1>7
    <3>4. QED
      BY <3>2, <3>3
  <2>6. QED
    BY <2>4, <2>5
<1>10. QED
  BY <1>6, <1>8, <1>9

\* A method renders when its func type reads, and as the type declares it.
LEMMA RenderFacts ==
  ASSUME Compiled(prog), NEW m
  PROVE  /\ M!Renders(m) => /\ m.mtyp # 0 /\ M!FuncType(m.mtyp)
                            /\ M!Small(prog.types[m.mtyp]) => M!render_method_signature(m) = M!Declaration(m.mtyp)
         /\ M!Sound(m.mtyp) => M!Renders(m)
<1> DEFINE a == m.mtyp
           t == prog.types[a]
           f == M!decode_kind(a)
<1>1. ASSUME M!Renders(m)
      PROVE  /\ a # 0 /\ M!FuncType(a)
             /\ M!Small(t) => M!render_method_signature(m) = M!Declaration(a)
  <2>1. a # 0 /\ M!Mapped(a) /\ f.tag = "Func"
    BY <1>1 DEF M!Renders, M!Cached
  <2>2. t.kind = "Func"
    <3>1. CASE t.kind = "Interface"
      BY <2>1, <3>1 DEF M!decode_kind, M!decode_interface, M!NoData
    <3>2. CASE t.kind # "Interface" /\ t.kind # "Func"
      BY <2>1, <3>2 DEF M!decode_kind, M!NoData
    <3>3. QED
      BY <3>1, <3>2
  <2>3. ASSUME M!Small(t) PROVE M!render_method_signature(m) = M!Declaration(a)
    <3>1. IsList(t.ins) /\ IsList(t.outs)
      BY <2>1 DEF M!Mapped, Compiled, TypeRecord
    <3>2. ~(Len(t.ins) > MaxParams \/ Len(t.outs) > MaxParams)
      <4>1. Len(t.ins) \in Nat /\ Len(t.outs) \in Nat
        BY <3>1, ListFacts
      <4>2. MaxParams \in Nat
        BY CapsAssumption
      <4> DEFINE x == Len(t.ins)
                 y == Len(t.outs)
      <4>3. x <= MaxParams /\ y <= MaxParams
        BY <2>3 DEF M!Small
      <4> HIDE DEF x, y
      <4>4. QED
        BY <4>1, <4>2, <4>3 DEF x, y
    <3>3. f = M!FuncData(t.ins, t.outs, t.variadic)
      BY <2>1, <2>2, <3>2 DEF M!decode_kind, M!decode_func, M!NoData
    <3>4. f.ins = t.ins /\ f.outs = t.outs /\ f.variadic = t.variadic
      BY <3>3 DEF M!FuncData
    <3>5. QED
      BY <3>4 DEF M!render_method_signature, M!Declaration
  <2>4. QED
    BY <2>1, <2>2, <2>3 DEF M!FuncType
<1>2. ASSUME M!Sound(a) PROVE M!Renders(m)
  <2>1. M!Mapped(a) /\ t.kind = "Func" /\ (t.whole \/ t.ins \o t.outs = <<>>)
    BY <1>2 DEF M!Sound, M!FuncType
  <2>2. a # 0
    BY <2>1 DEF M!Mapped, Compiled
  <2>3. f.tag = "Func"
    BY <2>1 DEF M!decode_kind, M!decode_func, M!FuncData
  <2>4. QED
    BY <2>1, <2>2, <2>3 DEF M!Renders, M!Cached
<1>3. QED
  BY <1>1, <1>2

\* What a method of a table says of the table.
LEMMA TableMethod ==
  ASSUME Compiled(prog), NEW a \in M!Recovered, NEW k \in DOMAIN prog.types[a].table
  PROVE  LET e == prog.types[a].table[k]
             m == OfTable(a, k)
         IN  /\ m.name = e.name
             /\ e.tfn # 0 /\ a \in DOMAIN prog.types
             /\ m.tfn # 0 => e.tfn # Absent /\ m.tfn = e.tfn /\ e.mtyp \in M!InTables(m.tfn)
             /\ e.tfn # Absent => m.tfn = e.tfn
             /\ m.mtyp # 0 => m.mtyp = e.mtyp
             /\ e.mtyp # Absent => m.mtyp = e.mtyp
<1> DEFINE e == prog.types[a].table[k]
           m == OfTable(a, k)
<1>1. m.name = e.name /\ m.mtyp = M!FromOffset(e.mtyp) /\ m.tfn = M!FromOffset(e.tfn)
  BY DEF OfTable, M!Method
<1>2. a \in DOMAIN prog.types /\ e.tfn # 0
  BY RecoveredFacts DEF M!Recovered, TypeRecord
<1>3. e.mtyp \in M!InTables(e.tfn)
  BY DEF M!InTables
<1>4. QED
  BY <1>1, <1>2, <1>3 DEF M!FromOffset

\* And what one of a slot says of the declaration.
LEMMA SlotMethod ==
  ASSUME NEW b \in M!Linked, M!Mapped(prog.itab[b].inter), NEW s \in SlotsOf(b)
  PROVE  LET l == prog.types[prog.itab[b].inter].imethods
             m == LinkMethod(b, s)
         IN  m.name = l[s].name /\ m.mtyp = l[s].typ /\ m.tfn = prog.itab[b].fun[s] /\ m.mtyp \in M!InSlots(m.tfn)
<1> DEFINE l == prog.types[prog.itab[b].inter].imethods
           m == LinkMethod(b, s)
<1>1. m.name = l[s].name /\ m.mtyp = l[s].typ /\ m.tfn = prog.itab[b].fun[s]
  BY DEF LinkMethod, M!Method
<1>2. l[s].typ \in M!InSlots(prog.itab[b].fun[s])
  <2> DEFINE fn == prog.itab[b].fun[s]
             S(c) == {x \in DOMAIN prog.types[prog.itab[c].inter].imethods \cap DOMAIN prog.itab[c].fun :
                        prog.itab[c].fun[x] = fn}
             T(c) == {prog.types[prog.itab[c].inter].imethods[x].typ : x \in S(c)}
  <2>1. l[s].typ \in T(b)
    BY DEF SlotsOf
  <2>2. M!InSlots(fn) = UNION {T(c) : c \in {d \in M!Linked : M!Mapped(prog.itab[d].inter)}}
    BY DEF M!InSlots
  <2> HIDE DEF T, fn
  <2>3. QED
    BY <2>1, <2>2 DEF fn
<1>3. QED
  BY <1>1, <1>2

LEMMA DoneTrue ==
  ASSUME SignParts, stage = "done", M!NamesSeparate, M!Methodless("Func")
  PROVE  M!SignaturesTrue
<1>1. Compiled(prog)
  BY DEF SignParts
<1>2. ASSUME NEW pc \in DOMAIN sigs
      PROVE  \E a \in M!InTables(pc) \cup M!InSlots(pc) :
               M!FuncType(a) /\ (M!Small(prog.types[a]) => sigs[pc] = M!Declaration(a))
  <2>1. PICK k \in DOMAIN merged : /\ pc # 0 /\ merged[k].tfn = pc /\ M!Renders(merged[k])
                                   /\ sigs[pc] = M!render_method_signature(merged[k])
    BY DEF SignParts, Rendering
  <2> DEFINE m == merged[k]
  <2>2. /\ m.mtyp # 0 /\ M!FuncType(m.mtyp)
        /\ M!Small(prog.types[m.mtyp]) => sigs[pc] = M!Declaration(m.mtyp)
    BY <1>1, <2>1, RenderFacts
  <2>3. InTable(m) \/ InSlot(m)
    BY DoneFacts
  <2>4. CASE InTable(m)
    <3>1. PICK a \in M!Recovered : \E j \in DOMAIN prog.types[a].table : m = OfTable(a, j)
      BY <2>4 DEF InTable
    <3> PICK j \in DOMAIN prog.types[a].table : m = OfTable(a, j)
      BY <3>1
    <3>2. m.mtyp \in M!InTables(pc)
      BY <1>1, <2>1, <2>2, <3>1, TableMethod
    <3>3. QED
      BY <2>2, <3>2
  <2>5. CASE InSlot(m)
    <3>1. PICK b \in M!Linked : M!Mapped(prog.itab[b].inter) /\ \E s \in SlotsOf(b) : m = LinkMethod(b, s)
      BY <2>5 DEF InSlot
    <3> PICK s \in SlotsOf(b) : m = LinkMethod(b, s)
      BY <3>1
    <3>2. m.mtyp \in M!InSlots(pc)
      BY <2>1, <3>1, SlotMethod
    <3>3. QED
      BY <2>2, <3>2
  <2>6. QED
    BY <2>3, <2>4, <2>5
<1>3. QED
  BY <1>2 DEF M!SignaturesTrue

LEMMA DoneComplete ==
  ASSUME SignParts, stage = "done", M!NamesSeparate, M!Methodless("Func")
  PROVE  M!SignaturesComplete
<1>1. Compiled(prog) /\ OneType(prog)
  BY DEF SignParts, Compiled
<1>2. ASSUME NEW k \in DOMAIN merged, merged[k].tfn # 0, M!Sound(merged[k].mtyp)
      PROVE  merged[k].tfn \in DOMAIN sigs
  BY <1>1, <1>2, RenderFacts DEF SignParts, Rendering
<1>3. \A x : M!Sound(x) => x # Absent
  BY <1>1 DEF M!Sound, M!FuncType, M!Mapped, Compiled
<1>4. ASSUME NEW a \in M!Recovered, M!Tabled(a), NEW k \in DOMAIN prog.types[a].table,
             prog.types[a].table[k].tfn # Absent, M!Sound(prog.types[a].table[k].mtyp)
      PROVE  prog.types[a].table[k].tfn \in DOMAIN sigs
  <2> DEFINE e == prog.types[a].table[k]
  <2>1. PICK i1 \in DOMAIN merged : InTable(merged[i1]) /\ M!SameMethod(merged[i1], OfTable(a, k))
    BY <1>4, DoneFacts
  <2>2. PICK c \in M!Recovered : \E j \in DOMAIN prog.types[c].table : merged[i1] = OfTable(c, j)
    BY <2>1 DEF InTable
  <2> PICK j \in DOMAIN prog.types[c].table : merged[i1] = OfTable(c, j)
    BY <2>2
  <2> DEFINE f == prog.types[c].table[j]
             m == merged[i1]
  <2>3. m.name = e.name /\ m.tfn = e.tfn /\ e.tfn # 0 /\ a \in DOMAIN prog.types
    BY <1>1, <1>4, <2>1, TableMethod DEF M!SameMethod
  <2>4. f.name = e.name /\ f.tfn = e.tfn /\ c \in DOMAIN prog.types
    BY <1>1, <2>2, <2>3, TableMethod
  <2>5. f.mtyp = e.mtyp
    BY <1>1, <1>4, <2>3, <2>4 DEF OneType
  <2>6. m.mtyp = e.mtyp
    BY <1>1, <1>3, <1>4, <2>2, <2>5, TableMethod
  <2>7. QED
    BY <1>2, <1>4, <2>3, <2>6
<1>5. ASSUME NEW b \in M!Linked, Served(b),
             NEW s \in DOMAIN prog.itab[b].fun \cap DOMAIN M!SlotNames(prog.itab[b].inter),
             prog.itab[b].fun[s] # 0, M!Sound(prog.types[prog.itab[b].inter].imethods[s].typ),
             \A x \in M!InTables(prog.itab[b].fun[s]) : M!Sound(x)
      PROVE  prog.itab[b].fun[s] \in DOMAIN sigs
  <2> DEFINE fn == prog.itab[b].fun[s]
             l == prog.types[prog.itab[b].inter].imethods
  <2>1. s \in SlotsOf(b)
    BY <1>5, DoneFacts
  <2>2. PICK i1 \in DOMAIN merged : M!SameMethod(merged[i1], LinkMethod(b, s))
    BY <1>5, DoneFacts
  <2>3. M!Mapped(prog.itab[b].inter)
    BY <1>1, <1>5, RecoveredFacts DEF Served, M!Recovered, M!Mapped
  <2> DEFINE m == merged[i1]
  <2>4. m.tfn = fn /\ m.name = l[s].name
    BY <2>1, <2>2, <2>3, SlotMethod DEF M!SameMethod
  <2>5. CASE InTable(m)
    <3>1. PICK c \in M!Recovered : \E j \in DOMAIN prog.types[c].table : m = OfTable(c, j)
      BY <2>5 DEF InTable
    <3> PICK j \in DOMAIN prog.types[c].table : m = OfTable(c, j)
      BY <3>1
    <3>2. prog.types[c].table[j].mtyp \in M!InTables(fn)
      BY <1>1, <1>5, <2>4, <3>1, TableMethod
    <3>3. M!Sound(prog.types[c].table[j].mtyp)
      BY <1>5, <3>2
    <3>4. m.mtyp = prog.types[c].table[j].mtyp
      BY <1>1, <1>3, <3>1, <3>3, TableMethod
    <3>5. QED
      BY <1>2, <1>5, <2>4, <3>3, <3>4
  <2>6. CASE InSlot(m)
    <3>1. PICK c \in M!Linked : M!Mapped(prog.itab[c].inter) /\ \E x \in SlotsOf(c) : m = LinkMethod(c, x)
      BY <2>6 DEF InSlot
    <3> PICK x \in SlotsOf(c) : m = LinkMethod(c, x)
      BY <3>1
    <3> DEFINE l2 == prog.types[prog.itab[c].inter].imethods
    <3>2. m.name = l2[x].name /\ m.mtyp = l2[x].typ /\ m.tfn = prog.itab[c].fun[x]
      BY <3>1, SlotMethod
    <3>3. c \in DOMAIN prog.itab /\ b \in DOMAIN prog.itab
      BY DEF M!Linked
    <3>4. l2[x].typ = l[s].typ
      BY <1>1, <2>1, <2>3, <2>4, <3>1, <3>2, <3>3 DEF OneType, M!Mapped, SlotsOf
    <3>5. QED
      BY <1>2, <1>5, <2>4, <3>2, <3>4
  <2>7. QED
    BY <2>5, <2>6, DoneFacts
<1>6. \A b \in M!Linked : b \in DOMAIN prog.itab
  BY DEF M!Linked
<1>7. QED
  BY <1>4, <1>5 DEF M!SignaturesComplete, Served

LEMMA SignedExactly == SignInv => SignaturesExact
<1>1. stage = "done" => stage # "idle"
  OBVIOUS
<1>2. QED
  BY <1>1, DoneTrue, DoneComplete DEF SignInv, SignaturesExact, M!SignaturesExact

LEMMA SessionProgram ==
  ASSUME NEW p, Compiled(p), NEW c, NEW d,
         NEW q, q = [p EXCEPT !.recovered = IF c THEN <<>> ELSE @, !.links = IF d THEN <<>> ELSE @]
  PROVE  Compiled(q)
<1>1. /\ DOMAIN q = DOMAIN p /\ q.types = p.types /\ q.itab = p.itab /\ q.stray = p.stray
      /\ q.recovered \in {<<>>, p.recovered} /\ q.links \in {<<>>, p.links}
  <2> DEFINE r == IF c THEN <<>> ELSE p.recovered
             l == IF d THEN <<>> ELSE p.links
  <2>1. q = [p EXCEPT !.recovered = r, !.links = l]
    OBVIOUS
  <2>2. r \in {<<>>, p.recovered} /\ l \in {<<>>, p.links}
    OBVIOUS
  <2>3. {"types", "recovered", "links", "itab", "stray"} \subseteq DOMAIN p
    BY DEF Compiled
  <2> HIDE DEF r, l
  <2>4. /\ DOMAIN q = DOMAIN p /\ q.types = p.types /\ q.itab = p.itab /\ q.stray = p.stray
        /\ q.recovered = r /\ q.links = l
    BY <2>1, <2>3
  <2>5. QED
    BY <2>2, <2>4
<1>2. q.recovered \in Seq(DOMAIN q.types) /\ IsList(q.links)
  <2>1. <<>> \in Seq(DOMAIN q.types) /\ IsList(<<>>)
    BY EmptyList
  <2>2. p.recovered \in Seq(DOMAIN q.types) /\ IsList(p.links)
    BY <1>1 DEF Compiled
  <2>3. QED
    BY <1>1, <2>1, <2>2
<1>3. OneType(q)
  BY <1>1 DEF Compiled, OneType
<1>4. QED
  BY <1>1, <1>2, <1>3 DEF Compiled

LEMMA NothingCompiled == Compiled(M!NoProgram)
<1> DEFINE p == M!NoProgram
<1>1. /\ p.types = <<>> /\ p.recovered = <<>> /\ p.links = <<>> /\ p.itab = <<>> /\ p.stray = <<>>
      /\ {"types", "recovered", "links", "itab", "stray"} \subseteq DOMAIN p
  BY DEF M!NoProgram
<1> HIDE DEF p
<1>2. p.recovered \in Seq(DOMAIN p.types)
  BY <1>1
<1>3. OneType(p)
  BY <1>1, EmptyList DEF OneType
<1>4. Compiled(p)
  BY <1>1, <1>2, <1>3, EmptyList DEF Compiled
<1>5. QED
  BY <1>4 DEF p

LEMMA SameSigns ==
  ASSUME SignInv, UNCHANGED methodVars
  PROVE  SignInv'
<1>1. /\ prog' = prog /\ mi' = mi /\ methods' = methods /\ itabs' = itabs /\ merged' = merged
      /\ sigs' = sigs /\ stage' = stage
  BY DEF methodVars
<1>2. CASE stage = "idle"
  BY <1>1, <1>2 DEF SignInv
<1>3. CASE stage # "idle"
  <2>1. SignParts
    BY <1>3 DEF SignInv
  <2>2. Compiled(prog)' /\ SignTypes'
    BY <1>1, <2>1 DEF SignParts, SignTypes
  <2>3. TablesRead' /\ SlotsRead'
    BY <1>1, <2>1, SameMethods DEF SignParts, TablesRead, SlotsRead
  <2>4. LinksRead'
    BY <1>1, <2>1, SameReads DEF SignParts, LinksRead
  <2>5. Merging'
    BY <1>1, <2>1 DEF SignParts, Merging, M!SameMethod
  <2>6. Rendering'
    BY <1>1, <2>1, SameReads DEF SignParts, Rendering
  <2>7. QED
    BY <2>2, <2>3, <2>4, <2>5, <2>6 DEF SignInv, SignParts
<1>4. QED
  BY <1>2, <1>3

-----------------------------------------------------------------------------
(* The rewriting (Rewrite): a symbol table behind a file, and what is read of it. *)

\* A string table grows name by name.
LEMMA LengthsFacts ==
  ASSUME NEW bytes, IsList(bytes), \A k \in DOMAIN bytes : bytes[k] \in Nat, NEW first \in Nat
  PROVE  LET u == R!Lengths(bytes, first) IN
         /\ u \in [0 .. Len(bytes) -> Nat]
         /\ u[0] = first
         /\ \A k \in 1 .. Len(bytes) : u[k] = u[k - 1] + bytes[k]
<1> DEFINE n == Len(bytes)
           H(g) == [k \in 0 .. n |-> IF k = 0 THEN first ELSE g[k - 1] + bytes[k]]
           u == CHOOSE g : g = H(g)
<1>1. n \in Nat /\ DOMAIN bytes = 1 .. n
  BY ListFacts
<1>2. R!Lengths(bytes, first) = u
  BY DEF R!Lengths
<1>3. \A k \in 1 .. n : bytes[k] \in Nat
  BY <1>1
<1> HIDE DEF n, u
<1>4. \E g : g = H(g) /\ g \in [0 .. n -> Nat]
  <2> DEFINE step == [e \in (1 .. n) \X Nat |-> e[2] + bytes[e[1]]]
  <2>1. \A m \in 1 .. n, x \in Nat : step[<<m, x>>] = x + bytes[m]
    OBVIOUS
  <2>2. \A e \in (1 .. n) \X Nat : e[2] + bytes[e[1]] \in Nat
    BY <1>3
  <2>3. step \in [(1 .. n) \X Nat -> Nat]
    BY <2>2
  <2> HIDE DEF step
  <2>4. \E f : Solves(f, n, Nat, first, step)
    BY <1>1, <2>3, RecurrenceExists
  <2>5. PICK f : f \in [0 .. n -> Nat] /\ f[0] = first /\ \A k \in 1 .. n : f[k] = step[<<k, f[k - 1]>>]
    BY <2>4 DEF Solves
  <2>6. \A k \in 1 .. n : f[k] = f[k - 1] + bytes[k]
    <3>1. TAKE k \in 1 .. n
    <3>2. f[k - 1] \in Nat
      BY <1>1, <2>5
    <3>3. QED
      BY <2>1, <2>5, <3>2
  <2>7. f = H(f)
    <3>1. f = [k \in 0 .. n |-> f[k]]
      BY <2>5
    <3>2. ASSUME NEW k \in 0 .. n PROVE f[k] = IF k = 0 THEN first ELSE f[k - 1] + bytes[k]
      <4>1. CASE k = 0
        BY <2>5, <4>1
      <4>2. CASE k # 0
        <5>1. k \in 1 .. n
          BY <1>1, <4>2
        <5>2. QED
          BY <2>6, <4>2, <5>1
      <4>3. QED
        BY <4>1, <4>2
    <3>3. QED
      BY <3>1, <3>2
  <2>8. QED
    BY <2>5, <2>7
<1>5. u = H(u)
  BY <1>4 DEF u
<1>6. u = [k \in 0 .. n |-> u[k]] /\ u[0] = first /\ \A k \in 1 .. n : u[k] = u[k - 1] + bytes[k]
  <2>1. \A k \in 0 .. n : u[k] = IF k = 0 THEN first ELSE u[k - 1] + bytes[k]
    BY <1>5
  <2>2. DOMAIN u = 0 .. n
    BY <1>5
  <2>3. 0 \in 0 .. n /\ \A k \in 1 .. n : k \in 0 .. n /\ k # 0
    BY <1>1
  <2>4. u = [k \in 0 .. n |-> u[k]]
    BY <1>5, <2>2
  <2> HIDE DEF H
  <2>5. QED
    BY <2>1, <2>3, <2>4
<1>7. \A k \in 0 .. n : u[k] \in Nat
  <2> DEFINE S == {k \in 0 .. n : u[k] \in Nat}
  <2>1. 0 \in S
    BY <1>1, <1>6
  <2>2. ASSUME NEW k \in 1 .. n, k - 1 \in S PROVE k \in S
    <3>1. u[k - 1] \in Nat /\ bytes[k] \in Nat /\ u[k] = u[k - 1] + bytes[k]
      BY <1>3, <1>6, <2>2
    <3>2. u[k] \in Nat
      BY <3>1
    <3>3. QED
      BY <1>1, <3>2
  <2> HIDE DEF S
  <2>3. \A k \in 0 .. n : k \in S
    BY <1>1, <2>1, <2>2, UpTo
  <2>4. QED
    BY <2>3 DEF S
<1>8. QED
  BY <1>2, <1>6, <1>7 DEF n

\* It never shrinks.
LEMMA LengthsGrow ==
  ASSUME NEW bytes, IsList(bytes), \A k \in DOMAIN bytes : bytes[k] \in Nat, NEW first \in Nat
  PROVE  \A k \in 0 .. Len(bytes) : \A j \in 0 .. k : R!Lengths(bytes, first)[j] <= R!Lengths(bytes, first)[k]
<1> DEFINE n == Len(bytes)
           u == R!Lengths(bytes, first)
           S == {k \in 0 .. n : \A j \in 0 .. k : u[j] <= u[k]}
<1>1. n \in Nat /\ DOMAIN bytes = 1 .. n
  BY ListFacts
<1>2. u \in [0 .. n -> Nat] /\ \A k \in 1 .. n : u[k] = u[k - 1] + bytes[k]
  BY LengthsFacts
<1> HIDE DEF n, u
<1>3. 0 \in S
  BY <1>1, <1>2
<1>4. ASSUME NEW k \in 1 .. n, k - 1 \in S PROVE k \in S
  <2>1. u[k - 1] <= u[k] /\ u[k] \in Nat /\ u[k - 1] \in Nat
    <3>1. k \in 0 .. n /\ k - 1 \in 0 .. n
      BY <1>1
    <3>2. u[k] \in Nat /\ u[k - 1] \in Nat
      BY <1>2, <3>1
    <3>3. bytes[k] \in Nat /\ u[k] = u[k - 1] + bytes[k]
      BY <1>1, <1>2
    <3> HIDE DEF S
    <3>4. QED
      BY <3>2, <3>3
  <2>2. ASSUME NEW j \in 0 .. k PROVE u[j] <= u[k]
    <3>1. CASE j = k
      BY <2>1, <3>1
    <3>2. CASE j # k
      <4>1. j \in 0 .. k - 1
        BY <1>1, <3>2
      <4>2. u[j] <= u[k - 1] /\ u[j] \in Nat
        BY <1>1, <1>2, <1>4, <4>1
      <4>3. QED
        BY <2>1, <4>2
    <3>3. QED
      BY <3>1, <3>2
  <2>3. QED
    BY <1>1, <2>2
<1> HIDE DEF S
<1>5. \A k \in 0 .. n : k \in S
  BY <1>1, <1>3, <1>4, UpTo
<1>6. QED
  BY <1>5 DEF S, n, u

\* Every name that is in a string table is at its offset.
LEMMA StringTableFacts ==
  ASSUME NEW fns, NEW bytes, IsList(bytes), DOMAIN bytes = DOMAIN fns, \A k \in DOMAIN bytes : bytes[k] \in Nat,
         NEW first \in Nat
  PROVE  /\ R!TableSize(bytes, first) \in Nat /\ R!TableSize(bytes, first) >= first
         /\ \A k \in DOMAIN fns : bytes[k] > 0 =>
              R!StringTable(fns, bytes, first)[R!NameOffset(bytes, first, k)] = fns[k].name
<1> DEFINE n == Len(bytes)
           u == R!Lengths(bytes, first)
           kept == {k \in DOMAIN fns : bytes[k] > 0}
           at_offset(o) == CHOOSE k \in kept : u[k - 1] = o
           offsets == {u[k - 1] : k \in kept}
<1>1. n \in Nat /\ DOMAIN fns = 1 .. n
  BY ListFacts
<1>2. u \in [0 .. n -> Nat] /\ u[0] = first /\ \A k \in 1 .. n : u[k] = u[k - 1] + bytes[k]
  BY LengthsFacts
<1>3. \A k \in 0 .. n : \A j \in 0 .. k : u[j] <= u[k]
  BY LengthsGrow
<1>4. R!TableSize(bytes, first) = u[n] /\ \A k : R!NameOffset(bytes, first, k) = u[k - 1]
  BY DEF R!TableSize, R!NameOffset
<1>5. R!StringTable(fns, bytes, first) = [o \in offsets |-> fns[at_offset(o)].name]
  BY DEF R!StringTable, R!NameOffset
<1>6. \A k \in kept : k \in 1 .. n /\ bytes[k] \in Nat /\ bytes[k] > 0
  BY <1>1
<1>7. kept = {k \in DOMAIN fns : bytes[k] > 0}
  OBVIOUS
<1> HIDE DEF n, u, kept
<1>8. ASSUME NEW j \in kept, NEW k \in kept, j < k PROVE u[j - 1] # u[k - 1]
  <2>1. j \in 1 .. n /\ k \in 1 .. n /\ j \in 0 .. k - 1 /\ k - 1 \in 0 .. n /\ j - 1 \in 0 .. n
    BY <1>1, <1>6, <1>8
  <2>2. u[j] <= u[k - 1] /\ u[j] = u[j - 1] + bytes[j]
    BY <1>2, <1>3, <2>1
  <2>3. u[j] \in Nat /\ u[j - 1] \in Nat /\ u[k - 1] \in Nat
    BY <1>1, <1>2, <2>1
  <2>4. QED
    BY <1>6, <2>2, <2>3
<1>9. ASSUME NEW k \in kept, NEW j \in kept, u[j - 1] = u[k - 1] PROVE j = k
  BY <1>1, <1>6, <1>8, <1>9
<1>10. ASSUME NEW k \in kept
       PROVE  R!StringTable(fns, bytes, first)[u[k - 1]] = fns[k].name
  <2>1. at_offset(u[k - 1]) = k
    BY <1>9
  <2>2. u[k - 1] \in offsets
    OBVIOUS
  <2> HIDE DEF at_offset, offsets
  <2>3. QED
    BY <1>5, <2>1, <2>2
<1>11. u[n] \in Nat /\ u[n] >= first
  BY <1>1, <1>2, <1>3
<1>12. QED
  BY <1>4, <1>7, <1>10, <1>11

\* What is put at an offset is there, and the rest is where it was.
Puts(b, a, o, what) ==
    /\ DOMAIN b = DOMAIN a \cup {o}
    /\ b[o] = what
    /\ \A p \in DOMAIN a : p # o => b[p] = a[p]

LEMMA PutFacts ==
  ASSUME NEW a, NEW o, NEW what
  PROVE  Puts(R!Put(a, o, what), a, o, what)
  BY DEF R!Put, Puts

LEMMA AlignFacts ==
  ASSUME NEW n \in Nat
  PROVE  /\ R!Align(n, 8) \in Nat /\ R!Align(n, 8) >= n /\ R!Align(n, 8) % 8 = 0
         /\ R!Align(n, 4) \in Nat /\ R!Align(n, 4) >= n /\ R!Align(n, 4) % 4 = 0
  BY DEF R!Align

\* The section for the symbols holds code, if one does.
LEMMA TextFacts ==
  ASSUME NEW execs, DOMAIN execs \subseteq Nat, NEW k \in DOMAIN execs, execs[k]
  PROVE  \E m \in DOMAIN execs : execs[m] /\ \A first : R!TextIndex(execs, first) = m + first - 1
<1> DEFINE E == {j \in DOMAIN execs : execs[j]}
<1>1. E \subseteq Nat /\ E # {}
  OBVIOUS
<1>2. \E x \in E : \A y \in E : x <= y
  BY <1>1, LeastNumber
<1>3. R!Min(E) \in E
  BY <1>2 DEF R!Min
<1>4. \A first : R!TextIndex(execs, first) = R!Min(E) + first - 1
  BY <1>1 DEF R!TextIndex
<1>5. QED
  BY <1>3, <1>4

\* The functions a table is written for.
Named(fns) == IsList(fns) /\ \A k \in DOMAIN fns : fns[k].len \in Nat /\ fns[k].address \in Nat

\* An ELF file as a linker lays it out, where write_symbols_as_elf does not turn it back: nothing
\* lies behind its end, the header counts the section table, and every section's name is a word
\* of the section names.
Holds(f) == \A o \in DOMAIN f.at : o \in Nat /\ o < f.size
SectionNames(f) == R!At(f, R!Sections(f)[f.shstrndx + 1].off)

ElfTables(f) ==
    /\ IsList(R!Sections(f)) /\ Len(R!Sections(f)) = f.shnum
    /\ R!Sections(f)[f.shstrndx + 1].size \in Nat
    /\ \A o \in DOMAIN SectionNames(f) : o \in Nat /\ o < R!Sections(f)[f.shstrndx + 1].size
    /\ \A k \in DOMAIN R!Sections(f) : R!Sections(f)[k].name \in DOMAIN SectionNames(f)

ElfAccepted(f) == R!write_symbols_as_elf(f, <<>>).tag = "Written"

ElfLaid(f) ==
    /\ {"size", "at", "shoff", "shnum", "shstrndx"} \subseteq DOMAIN f
    /\ f.size \in Nat /\ f.shnum \in Nat /\ f.shstrndx \in Nat
    /\ Holds(f)
    /\ ElfAccepted(f) => ElfTables(f)

LEMMA WrittenFacts ==
  /\ R!Refused.tag = "Refused" /\ R!Panicked.tag = "Panicked"
  /\ \A f : R!Written(f).tag = "Written" /\ R!Written(f).file = f
  BY DEF R!Refused, R!Panicked, R!Written

LEMMA ElfOutcome ==
  ASSUME NEW f, NEW fns
  PROVE  LET r == R!write_symbols_as_elf(f, fns) IN
         /\ r.tag \in {"Refused", "Panicked", "Written"}
         /\ r.tag = "Written" => ElfAccepted(f) /\ r.file = R!ElfWithSymbols(f, fns)
         /\ ElfAccepted(f) => ~(f.shstrndx >= f.shnum)
<1> DEFINE refused ==
             \/ f.container # "Elf"
             \/ ~f.little_endian
             \/ ~f.header
             \/ f.shentsize # R!SHDR_SIZE
             \/ f.shoff + f.shnum * R!SHDR_SIZE > f.size
           outside == f.shstrndx >= f.shnum
           overrun == LET names == R!At(f, f.shoff)[f.shstrndx + 1] IN names.off + names.size > f.size
<1>1. \A x : R!write_symbols_as_elf(f, x) =
               IF refused THEN R!Refused ELSE IF outside THEN R!Panicked
               ELSE IF overrun THEN R!Refused ELSE R!Written(R!ElfWithSymbols(f, x))
  BY DEF R!write_symbols_as_elf
<1>2. ElfAccepted(f) <=> R!write_symbols_as_elf(f, <<>>).tag = "Written"
  BY DEF ElfAccepted
<1> HIDE DEF refused, outside, overrun
<1>3. ElfAccepted(f) <=> ~refused /\ ~outside /\ ~overrun
  BY <1>1, <1>2, WrittenFacts
<1>4. R!write_symbols_as_elf(f, fns).tag = "Written" <=> ~refused /\ ~outside /\ ~overrun
  BY <1>1, WrittenFacts
<1>5. ~refused /\ ~outside /\ ~overrun => R!write_symbols_as_elf(f, fns).file = R!ElfWithSymbols(f, fns)
  BY <1>1, WrittenFacts
<1>6. R!write_symbols_as_elf(f, fns).tag \in {"Refused", "Panicked", "Written"}
  BY <1>1, WrittenFacts
<1>7. QED
  BY <1>3, <1>4, <1>5, <1>6 DEF outside

\* What ElfWithSymbols puts behind a file, and where.
Places(f, symtab, strtab, shstrtab, shoff) ==
    /\ {symtab, strtab, shstrtab, shoff} \subseteq Nat
    /\ f.size <= symtab /\ symtab < strtab /\ strtab < shstrtab /\ shstrtab < shoff
    /\ symtab % 8 = 0 /\ shoff % 8 = 0

NamesSize(f) == R!Sections(f)[f.shstrndx + 1].size
TextOf(f) == R!TextIndex([k \in DOMAIN R!Sections(f) |-> R!Sections(f)[k].exec], 0)
SymbolsOf(f, fns) ==
    [k \in DOMAIN fns |->
       [name |-> R!NameOffset(R!ElfBytes(fns), 1, k), shndx |-> TextOf(f), value |-> fns[k].address]]
StringsOf(fns) == R!StringTable(fns, R!ElfBytes(fns), 1)
WordsOf(f) ==
    R!Put(R!Put(R!Put(SectionNames(f), NamesSize(f), ".symtab"), NamesSize(f) + 8, ".strtab"),
          NamesSize(f) + 16, ".shstrtab")

SectionsOf(f, symtab, strtab, shstrtab, q) ==
    /\ IsList(q) /\ Len(q) = f.shnum + 3
    /\ \A k \in 1 .. f.shnum : q[k] = R!Sections(f)[k]
    /\ q[f.shnum + 1].name = NamesSize(f) /\ q[f.shnum + 1].off = symtab /\ q[f.shnum + 1].link = f.shnum + 1
    /\ q[f.shnum + 2].name = NamesSize(f) + 8 /\ q[f.shnum + 2].off = strtab
    /\ q[f.shnum + 3].name = NamesSize(f) + 16 /\ q[f.shnum + 3].off = shstrtab
    /\ q[f.shnum + 3].size = NamesSize(f) + 26

WithTables(f, fns, symtab, strtab, shstrtab, shoff, q) ==
    [f EXCEPT !.size = shoff + 64 * (f.shnum + 3), !.shoff = shoff, !.shnum = f.shnum + 3,
              !.shstrndx = f.shnum + 2,
              !.at = R!Put(R!Put(R!Put(R!Put(f.at, symtab, SymbolsOf(f, fns)), strtab, StringsOf(fns)),
                                 shstrtab, WordsOf(f)), shoff, q)]

LEMMA ElfParts ==
  ASSUME NEW f, NEW fns, ElfLaid(f), ElfTables(f), Named(fns), f.shnum + 3 < ShnumRange
  PROVE  /\ \A k \in DOMAIN fns : StringsOf(fns)[R!NameOffset(R!ElfBytes(fns), 1, k)] = fns[k].name
         /\ \E symtab, strtab, shstrtab, shoff, q :
              /\ Places(f, symtab, strtab, shstrtab, shoff)
              /\ SectionsOf(f, symtab, strtab, shstrtab, q)
              /\ R!ElfWithSymbols(f, fns) = WithTables(f, fns, symtab, strtab, shstrtab, shoff, q)
<1> DEFINE n == f.shnum
           shdrs == SubSeq(R!At(f, f.shoff), 1, f.shnum)
           z == NamesSize(f)
           bytes == R!ElfBytes(fns)
           symtab == R!Align(f.size, 8)
           symtab_size == R!SYM_SIZE * (Len(fns) + 1)
           strtab == symtab + symtab_size
           shstrtab == strtab + R!TableSize(bytes, 1)
           shoff == R!Align(shstrtab + (z + 26), 8)
           h1 == R!make_shdr(z, R!SHT_SYMTAB, symtab, symtab_size, R!StrtabIndex(n))
           h2 == R!make_shdr(z + 8, R!SHT_STRTAB, strtab, R!TableSize(bytes, 1), 0)
           h3 == R!make_shdr(z + 16, R!SHT_STRTAB, shstrtab, z + 26, 0)
           new == <<h1, h2, h3>>
           sections == R!Sections(f) \o new
<1>1. n \in Nat /\ f.size \in Nat /\ z \in Nat /\ IsList(R!Sections(f)) /\ Len(R!Sections(f)) = n
  BY DEF ElfLaid, ElfTables, NamesSize
<1>2. shdrs = R!Sections(f)
  <2>1. PICK S : R!Sections(f) \in Seq(S)
    BY <1>1 DEF IsList
  <2>2. SubSeq(R!Sections(f), 1, Len(R!Sections(f))) = R!Sections(f)
    BY <2>1
  <2>3. QED
    BY <1>1, <2>2 DEF R!Sections
<1>3. (n + 3) % ShnumRange = n + 3 /\ (n + 2) % ShnumRange = n + 2
  <2>1. ShnumRange \in Nat \ {0} /\ n \in Nat /\ n + 3 < ShnumRange
    BY <1>1, FormatAssumption
  <2> HIDE DEF n
  <2>2. ASSUME NEW x \in 0 .. ShnumRange - 1 PROVE x % ShnumRange = x
    BY <2>1
  <2>3. QED
    BY <2>1, <2>2
<1>4. IsList(bytes) /\ DOMAIN bytes = DOMAIN fns /\ \A k \in DOMAIN bytes : bytes[k] \in Nat /\ bytes[k] > 0
  <2>1. DOMAIN bytes = DOMAIN fns /\ bytes = [k \in DOMAIN bytes |-> bytes[k]]
        /\ \A k \in DOMAIN fns : bytes[k] = fns[k].len + 1
    BY DEF R!ElfBytes
  <2>2. IsList(fns) /\ \A k \in DOMAIN fns : fns[k].len \in Nat
    BY DEF Named
  <2> HIDE DEF bytes
  <2>3. QED
    BY <2>1, <2>2, MappedList
<1>5. /\ R!TableSize(bytes, 1) \in Nat /\ R!TableSize(bytes, 1) >= 1
      /\ \A k \in DOMAIN fns : StringsOf(fns)[R!NameOffset(bytes, 1, k)] = fns[k].name
  <2>1. /\ R!TableSize(bytes, 1) \in Nat /\ R!TableSize(bytes, 1) >= 1
        /\ \A k \in DOMAIN fns : bytes[k] > 0 => StringsOf(fns)[R!NameOffset(bytes, 1, k)] = fns[k].name
    BY <1>4, StringTableFacts DEF StringsOf
  <2> HIDE DEF bytes
  <2>2. QED
    BY <1>4, <2>1
<1>6. symtab \in Nat /\ f.size <= symtab /\ symtab % 8 = 0
  BY <1>1, AlignFacts
<1>7. symtab_size \in Nat /\ symtab_size > 0
  <2>1. Len(fns) \in Nat
    BY ListFacts DEF Named
  <2>2. QED
    BY <2>1 DEF R!SYM_SIZE
<1>8. strtab \in Nat /\ symtab < strtab /\ shstrtab \in Nat /\ strtab < shstrtab
  <2> HIDE DEF symtab, symtab_size, bytes
  <2>1. QED
    BY <1>5, <1>6, <1>7
<1>9. shoff \in Nat /\ shstrtab < shoff /\ shoff % 8 = 0
  <2> HIDE DEF z, shstrtab
  <2>1. shstrtab + (z + 26) \in Nat
    BY <1>1, <1>8
  <2>2. shoff \in Nat /\ shoff >= shstrtab + (z + 26) /\ shoff % 8 = 0
    BY <2>1, AlignFacts
  <2> HIDE DEF shoff
  <2>3. QED
    BY <1>1, <1>8, <2>2
<1>10. /\ h1.name = z /\ h1.off = symtab /\ h1.link = n + 1 /\ h2.name = z + 8 /\ h2.off = strtab
       /\ h3.name = z + 16 /\ h3.off = shstrtab /\ h3.size = z + 26
  BY DEF R!make_shdr, R!StrtabIndex
<1>11. IsList(new) /\ Len(new) = 3 /\ new[1] = h1 /\ new[2] = h2 /\ new[3] = h3
  <2> HIDE DEF h1, h2, h3
  <2>1. new \in Seq({h1, h2, h3}) /\ Len(new) = 3 /\ new[1] = h1 /\ new[2] = h2 /\ new[3] = h3
    OBVIOUS
  <2>2. QED
    BY <2>1 DEF IsList
<1>12. /\ IsList(sections) /\ Len(sections) = n + 3
       /\ \A k \in 1 .. n : sections[k] = R!Sections(f)[k]
       /\ sections[n + 1] = h1 /\ sections[n + 2] = h2 /\ sections[n + 3] = h3
  <2> HIDE DEF n, new, h1, h2, h3
  <2> DEFINE old == R!Sections(f)
  <2>1. IsList(old) /\ Len(old) = n /\ IsList(new)
    BY <1>1, <1>11
  <2>2. /\ IsList(old \o new) /\ Len(old \o new) = Len(old) + Len(new)
        /\ \A k \in 1 .. Len(old) : (old \o new)[k] = old[k]
        /\ \A k \in 1 .. Len(new) : (old \o new)[Len(old) + k] = new[k]
    BY <2>1, JoinedLists
  <2>3. sections = old \o new
    OBVIOUS
  <2> HIDE DEF sections, old
  <2>4. /\ IsList(sections) /\ Len(sections) = n + 3
        /\ \A k \in 1 .. n : sections[k] = old[k]
        /\ \A k \in 1 .. 3 : sections[n + k] = new[k]
    BY <1>11, <2>1, <2>2, <2>3
  <2> USE DEF old
  <2>5. 1 \in 1 .. 3 /\ 2 \in 1 .. 3 /\ 3 \in 1 .. 3
    OBVIOUS
  <2>6. QED
    BY <1>11, <2>4, <2>5
<1>13. R!ElfWithSymbols(f, fns) = WithTables(f, fns, symtab, strtab, shstrtab, shoff, sections)
  <2> DEFINE B(m1, m2) ==
               [f EXCEPT !.size = shoff + 64 * (n + 3), !.shoff = shoff, !.shnum = m1, !.shstrndx = m2,
                         !.at = R!Put(R!Put(R!Put(R!Put(f.at, symtab, SymbolsOf(f, fns)), strtab, StringsOf(fns)),
                                            shstrtab, WordsOf(f)), shoff, sections)]
  <2>1. R!ElfWithSymbols(f, fns) = B((n + 3) % ShnumRange, (n + 2) % ShnumRange)
    BY <1>2, Zenon DEF R!ElfWithSymbols, R!SHDR_SIZE, R!Sections, SectionNames, NamesSize, SymbolsOf, StringsOf, WordsOf, TextOf
  <2>2. B(n + 3, n + 2) = WithTables(f, fns, symtab, strtab, shstrtab, shoff, sections)
    BY DEF WithTables
  <2> HIDE DEF B
  <2>3. QED
    BY <1>3, <2>1, <2>2
<1>14. Places(f, symtab, strtab, shstrtab, shoff)
  <2> HIDE DEF symtab, strtab, shstrtab, shoff
  <2>1. QED
    BY <1>6, <1>8, <1>9 DEF Places
<1>15. SectionsOf(f, symtab, strtab, shstrtab, sections)
  BY <1>10, <1>12 DEF SectionsOf
<1> HIDE DEF symtab, strtab, shstrtab, shoff, sections
<1>16. QED
  BY <1>5, <1>13, <1>14, <1>15

\* The rewritten file: the old one with the tables behind it, laid out as the old one was.
LEMMA ElfRewritten ==
  ASSUME NEW f, NEW fns, ElfLaid(f), ElfTables(f), f.shstrndx < f.shnum, Named(fns), f.shnum + 3 < ShnumRange
  PROVE  LET g == R!ElfWithSymbols(f, fns) IN
         /\ ElfLaid(g) /\ g.shnum = f.shnum + 3
         /\ R!Superset(f, g) /\ R!ElfReadsBack(f, fns, g)
<1>1. PICK symtab, strtab, shstrtab, shoff, q :
        /\ Places(f, symtab, strtab, shstrtab, shoff)
        /\ SectionsOf(f, symtab, strtab, shstrtab, q)
        /\ R!ElfWithSymbols(f, fns) = WithTables(f, fns, symtab, strtab, shstrtab, shoff, q)
  BY ElfParts
<1> DEFINE g == R!ElfWithSymbols(f, fns)
           n == f.shnum
           z == NamesSize(f)
           symbols == SymbolsOf(f, fns)
           strings == StringsOf(fns)
           words == WordsOf(f)
           old == SectionNames(f)
           a1 == R!Put(f.at, symtab, symbols)
           a2 == R!Put(a1, strtab, strings)
           a3 == R!Put(a2, shstrtab, words)
           a4 == R!Put(a3, shoff, q)
<1>2. /\ DOMAIN g = DOMAIN f /\ g.size = shoff + 64 * (n + 3) /\ g.shoff = shoff /\ g.shnum = n + 3
      /\ g.shstrndx = n + 2 /\ g.at = a4
  <2>1. \A a, b, c, d, e :
          LET h == [f EXCEPT !.size = a, !.shoff = b, !.shnum = c, !.shstrndx = d, !.at = e]
          IN  DOMAIN h = DOMAIN f /\ h.size = a /\ h.shoff = b /\ h.shnum = c /\ h.shstrndx = d /\ h.at = e
    BY DEF ElfLaid
  <2>2. QED
    BY <1>1, <2>1 DEF WithTables
<1>3. n \in Nat /\ f.size \in Nat /\ f.shstrndx \in Nat /\ z \in Nat /\ \A o \in DOMAIN f.at : o \in Nat /\ o < f.size
  BY DEF ElfLaid, ElfTables, Holds, NamesSize
<1>4. /\ symtab \in Nat /\ strtab \in Nat /\ shstrtab \in Nat /\ shoff \in Nat
      /\ f.size <= symtab /\ symtab < strtab /\ strtab < shstrtab /\ shstrtab < shoff
      /\ symtab % 8 = 0 /\ shoff % 8 = 0
  BY <1>1 DEF Places
<1>5. /\ IsList(q) /\ Len(q) = n + 3 /\ DOMAIN q = 1 .. n + 3
      /\ \A k \in 1 .. n : q[k] = R!Sections(f)[k]
      /\ q[n + 1].name = z /\ q[n + 1].off = symtab /\ q[n + 1].link = n + 1
      /\ q[n + 2].name = z + 8 /\ q[n + 2].off = strtab
      /\ q[n + 3].name = z + 16 /\ q[n + 3].off = shstrtab /\ q[n + 3].size = z + 26
  <2>1. IsList(q) /\ Len(q) = n + 3 /\ DOMAIN q = 1 .. Len(q)
    BY <1>1, ListFacts DEF SectionsOf
  <2>2. QED
    BY <1>1, <2>1 DEF SectionsOf
<1>6. /\ \A o \in DOMAIN old : o \in Nat /\ o < z
      /\ \A k \in 1 .. n : R!Sections(f)[k].name \in DOMAIN old
  <2>1. DOMAIN R!Sections(f) = 1 .. n
    BY ListFacts DEF ElfTables
  <2>2. QED
    BY <2>1 DEF ElfTables, NamesSize
<1>7. /\ DOMAIN words = DOMAIN old \cup {z, z + 8, z + 16}
      /\ words[z] = ".symtab" /\ words[z + 8] = ".strtab"
      /\ \A o \in DOMAIN old : words[o] = old[o]
  <2> DEFINE w1 == R!Put(old, z, ".symtab")
             w2 == R!Put(w1, z + 8, ".strtab")
  <2>1. words = R!Put(w2, z + 16, ".shstrtab")
    BY DEF WordsOf
  <2>2. Puts(w1, old, z, ".symtab")
    BY PutFacts
  <2>3. Puts(w2, w1, z + 8, ".strtab")
    BY PutFacts
  <2>4. Puts(words, w2, z + 16, ".shstrtab")
    BY <2>1, PutFacts
  <2> HIDE DEF w1, w2, z, words, old
  <2>5. z # z + 8 /\ z # z + 16 /\ z + 8 # z + 16 /\ \A o \in DOMAIN old : o # z /\ o # z + 8 /\ o # z + 16
    BY <1>3, <1>6
  <2>6. QED
    BY <2>2, <2>3, <2>4, <2>5 DEF Puts
<1>8. /\ DOMAIN g.at = DOMAIN f.at \cup {symtab, strtab, shstrtab, shoff}
      /\ g.at[symtab] = symbols /\ g.at[strtab] = strings /\ g.at[shstrtab] = words /\ g.at[shoff] = q
      /\ \A o \in DOMAIN f.at : g.at[o] = f.at[o]
  <2>1. Puts(a1, f.at, symtab, symbols)
    BY PutFacts
  <2>2. Puts(a2, a1, strtab, strings)
    BY PutFacts
  <2>3. Puts(a3, a2, shstrtab, words)
    BY PutFacts
  <2>4. Puts(a4, a3, shoff, q)
    BY PutFacts
  <2> HIDE DEF symbols, strings, words, g, a1, a2, a3, a4
  <2>5. /\ symtab # strtab /\ symtab # shstrtab /\ symtab # shoff /\ strtab # shstrtab /\ strtab # shoff /\ shstrtab # shoff
        /\ \A o \in DOMAIN f.at : o # symtab /\ o # strtab /\ o # shstrtab /\ o # shoff
    BY <1>3, <1>4
  <2>6. QED
    BY <1>2, <2>1, <2>2, <2>3, <2>4, <2>5 DEF Puts
<1>9. /\ R!Sections(g) = q /\ SectionNames(g) = words /\ R!At(g, symtab) = symbols /\ R!At(g, strtab) = strings
      /\ R!At(g, shstrtab) = words
  <2>1. \A o \in DOMAIN g.at : R!At(g, o) = g.at[o]
    BY DEF R!At
  <2>2. R!Sections(g) = q /\ R!At(g, symtab) = symbols /\ R!At(g, strtab) = strings /\ R!At(g, shstrtab) = words
    BY <1>2, <1>8, <2>1 DEF R!Sections
  <2>3. g.shstrndx + 1 = n + 3
    BY <1>2, <1>3
  <2>4. SectionNames(g) = R!At(g, q[n + 3].off)
    BY <2>2, <2>3 DEF SectionNames
  <2>5. QED
    BY <1>5, <2>2, <2>4
<1>10. \A k \in 1 .. n + 3 : q[k].name \in DOMAIN words
  <2>1. \A k \in 1 .. n : q[k].name \in DOMAIN words
    BY <1>5, <1>6, <1>7
  <2>2. q[n + 1].name \in DOMAIN words /\ q[n + 2].name \in DOMAIN words /\ q[n + 3].name \in DOMAIN words
    BY <1>5, <1>7
  <2>3. \A k \in 1 .. n + 3 : k \in 1 .. n \/ k = n + 1 \/ k = n + 2 \/ k = n + 3
    BY <1>3
  <2>4. QED
    BY <2>1, <2>2, <2>3
<1> HIDE DEF g, symbols, strings, words, old, z, a1, a2, a3, a4
<1>11. ElfTables(g)
  <2>1. g.shstrndx + 1 = n + 3
    BY <1>2, <1>3
  <2>2. \A o \in DOMAIN words : o \in Nat /\ o < z + 26
    BY <1>3, <1>6, <1>7
  <2>3. z + 26 \in Nat
    BY <1>3
  <2>4. /\ IsList(R!Sections(g)) /\ Len(R!Sections(g)) = g.shnum /\ R!Sections(g)[g.shstrndx + 1].size = z + 26
    BY <1>2, <1>5, <1>9, <2>1
  <2>5. \A k \in DOMAIN R!Sections(g) : R!Sections(g)[k].name \in DOMAIN SectionNames(g)
    BY <1>5, <1>9, <1>10
  <2>6. \A o \in DOMAIN SectionNames(g) : o \in Nat /\ o < R!Sections(g)[g.shstrndx + 1].size
    BY <1>9, <2>2, <2>4
  <2>7. QED
    BY <2>3, <2>4, <2>5, <2>6 DEF ElfTables
<1>12. g.size \in Nat /\ \A o \in DOMAIN g.at : o \in Nat /\ o < g.size
  <2>1. g.size \in Nat /\ shoff < g.size /\ f.size < g.size
    BY <1>2, <1>3, <1>4
  <2>2. symtab < g.size /\ strtab < g.size /\ shstrtab < g.size
    BY <1>4, <2>1
  <2>3. \A o \in DOMAIN f.at : o \in Nat /\ o < g.size
    BY <1>3, <2>1
  <2>4. QED
    BY <1>4, <1>8, <2>1, <2>2, <2>3
<1>13. ElfLaid(g)
  <2>1. {"size", "at", "shoff", "shnum", "shstrndx"} \subseteq DOMAIN g
    BY <1>2 DEF ElfLaid
  <2>2. g.shnum \in Nat /\ g.shstrndx \in Nat
    BY <1>2, <1>3
  <2>3. QED
    BY <1>11, <1>12, <2>1, <2>2 DEF ElfLaid, Holds
<1>14. R!Superset(f, g)
  <2>1. \A o \in DOMAIN g.at \ DOMAIN f.at : o >= f.size /\ o < g.size
    BY <1>3, <1>4, <1>8, <1>12
  <2>2. QED
    BY <1>8, <2>1 DEF R!Superset
<1>15. \A k \in 1 .. n : R!Sections(g)[k] = R!Sections(f)[k] /\ R!SectionName(g, k) = R!SectionName(f, k)
  <2>1. TAKE k \in 1 .. n
  <2>2. R!Sections(g)[k] = R!Sections(f)[k] /\ R!Sections(f)[k].name \in DOMAIN old
    BY <1>5, <1>6, <1>9
  <2>3. R!SectionName(g, k) = words[R!Sections(g)[k].name] /\ R!SectionName(f, k) = old[R!Sections(f)[k].name]
    BY <1>9 DEF R!SectionName, SectionNames, old
  <2>4. QED
    BY <1>7, <2>2, <2>3
<1> DEFINE execs == [j \in 0 .. n - 1 |-> R!Sections(f)[j + 1].exec]
<1>16. (\E k \in DOMAIN execs : execs[k]) => execs[TextOf(f)]
  <2> DEFINE ex == [k \in DOMAIN R!Sections(f) |-> R!Sections(f)[k].exec]
  <2>1. DOMAIN R!Sections(f) = 1 .. n
    BY ListFacts DEF ElfTables
  <2>2. DOMAIN ex \subseteq Nat
    BY <2>1
  <2>3. ASSUME NEW k \in DOMAIN execs, execs[k] PROVE execs[TextOf(f)]
    <3>1. k \in 0 .. n - 1 /\ k + 1 \in 1 .. n /\ R!Sections(f)[k + 1].exec
      BY <1>3, <2>3
    <3>2. k + 1 \in DOMAIN ex /\ ex[k + 1]
      BY <2>1, <3>1
    <3> HIDE DEF ex
    <3>3. PICK m \in DOMAIN ex : ex[m] /\ \A first : R!TextIndex(ex, first) = m + first - 1
      BY <2>2, <3>2, TextFacts
    <3>4. TextOf(f) = m + 0 - 1
      BY <3>3 DEF TextOf, ex
    <3>5. m \in 1 .. n /\ R!Sections(f)[m].exec
      BY <2>1, <3>3 DEF ex
    <3>6. TextOf(f) = m - 1 /\ m - 1 \in 0 .. n - 1 /\ (m - 1) + 1 = m
      BY <1>3, <3>4, <3>5
    <3>7. QED
      BY <3>5, <3>6
  <2>4. QED
    BY <2>3
<1>17. \E k \in n + 1 .. g.shnum :
         /\ R!SectionName(g, k) = ".symtab"
         /\ R!Sections(g)[k].off % 8 = 0
         /\ R!SectionName(g, R!Sections(g)[k].link + 1) = ".strtab"
         /\ Len(R!ElfSymbols(g, k)) = Len(fns)
         /\ \A m \in DOMAIN fns : R!Shows(R!ElfSymbols(g, k)[m], fns[m], execs)
  <2> DEFINE s == n + 1
  <2>1. s \in n + 1 .. g.shnum /\ s + 1 = n + 2
    BY <1>2, <1>3
  <2>2. \A k : R!SectionName(g, k) = words[q[k].name]
    BY <1>9 DEF R!SectionName, SectionNames
  <2>3. q[s].name = z /\ q[s].off = symtab /\ q[s].link + 1 = n + 2 /\ q[n + 2].name = z + 8 /\ q[n + 2].off = strtab
    BY <1>5, <2>1
  <2>4. R!SectionName(g, s) = ".symtab" /\ R!SectionName(g, R!Sections(g)[s].link + 1) = ".strtab"
    BY <1>7, <1>9, <2>2, <2>3
  <2>5. R!Sections(g)[s].off % 8 = 0
    BY <1>4, <1>9, <2>3
  <2> DEFINE shown == [m \in DOMAIN symbols |->
                         [name |-> strings[symbols[m].name], section |-> symbols[m].shndx, address |-> symbols[m].value]]
  <2>6. R!ElfSymbols(g, s) = shown
    BY <1>9, <2>3 DEF R!ElfSymbols
  <2>7. /\ DOMAIN symbols = DOMAIN fns
        /\ \A k \in DOMAIN fns : /\ symbols[k].name = R!NameOffset(R!ElfBytes(fns), 1, k)
                                 /\ symbols[k].shndx = TextOf(f) /\ symbols[k].value = fns[k].address
    BY DEF symbols, SymbolsOf
  <2>8. \A k \in DOMAIN fns : strings[R!NameOffset(R!ElfBytes(fns), 1, k)] = fns[k].name
    BY ElfParts DEF strings
  <2> HIDE DEF execs
  <2>9. DOMAIN shown = DOMAIN fns /\ \A m \in DOMAIN fns : R!Shows(shown[m], fns[m], execs)
    <3>1. DOMAIN shown = DOMAIN fns
      BY <2>7
    <3>2. ASSUME NEW m \in DOMAIN fns PROVE R!Shows(shown[m], fns[m], execs)
      <4>1. shown[m] = [name |-> strings[symbols[m].name], section |-> symbols[m].shndx, address |-> symbols[m].value]
        BY <2>7
      <4>2. shown[m].name = strings[symbols[m].name] /\ shown[m].section = symbols[m].shndx
            /\ shown[m].address = symbols[m].value
        BY <4>1
      <4> HIDE DEF shown
      <4>3. shown[m].name = fns[m].name /\ shown[m].section = TextOf(f) /\ shown[m].address = fns[m].address
        BY <2>7, <2>8, <4>2
      <4>4. QED
        BY <1>16, <4>3 DEF R!Shows
    <3>3. QED
      BY <3>1, <3>2
  <2>10. Len(shown) = Len(fns)
    <3>1. shown = [m \in DOMAIN shown |-> shown[m]]
      BY <2>9
    <3> HIDE DEF shown
    <3>2. IsList(fns)
      BY DEF Named
    <3>3. QED
      BY <2>9, <3>1, <3>2, MappedList
  <2> HIDE DEF s, shown
  <2>11. QED
    BY <2>1, <2>4, <2>5, <2>6, <2>9, <2>10
<1>18. Len(R!Sections(f)) = n
  BY DEF ElfTables
<1>19. R!ElfReadsBack(f, fns, g)
  BY <1>2, <1>4, <1>5, <1>9, <1>15, <1>17, <1>18 DEF R!ElfReadsBack
<1>20. QED
  BY <1>2, <1>13, <1>14, <1>19 DEF g

\* A PE file as a linker lays it out.
PeLaid(f) ==
    /\ {"size", "at", "base", "execs", "vas", "symptr", "nsyms"} \subseteq DOMAIN f
    /\ f.size \in Nat /\ f.base \in Nat /\ DOMAIN f.execs \subseteq Nat
    /\ \A k \in DOMAIN f.vas : f.vas[k] \in Nat
    /\ Holds(f)

LEMMA PeOutcome ==
  ASSUME NEW f, NEW fns
  PROVE  LET r == R!write_symbols_as_pe(f, fns) IN
         /\ r.tag \in {"Refused", "Written"}
         /\ r.tag = "Written" => r.file = R!PeWithSymbols(f, fns)
<1> DEFINE refused ==
             \/ f.container # "Pe"
             \/ ~f.little_endian
             \/ ~f.header
             \/ f.opt_magic \notin {"0x20b", "0x10b"}
<1>1. R!write_symbols_as_pe(f, fns) = IF refused THEN R!Refused ELSE R!Written(R!PeWithSymbols(f, fns))
  BY DEF R!write_symbols_as_pe
<1> HIDE DEF refused
<1>2. QED
  BY <1>1, WrittenFacts

LEMMA PeRewritten ==
  ASSUME NEW f, NEW fns, PeLaid(f), Named(fns)
  PROVE  LET g == R!PeWithSymbols(f, fns) IN PeLaid(g) /\ R!Superset(f, g) /\ R!PeReadsBack(f, fns, g)
<1> DEFINE g == R!PeWithSymbols(f, fns)
           n == Len(fns)
           bytes == R!CoffBytes(fns)
           symptr == R!Align(f.size, 4)
           strings == symptr + R!COFF_SYMBOL_SIZE * n
           size == strings + R!TableSize(bytes, 4)
           text == R!TextIndex(f.execs, 1)
           symbols == [k \in DOMAIN fns |->
                         [name |-> R!CoffName(fns, k), section |-> text, value |-> R!CoffValue(f, fns[k].address)]]
           table == R!StringTable(fns, bytes, 4)
           before == IF fns = <<>> THEN f.at ELSE R!Put(f.at, symptr, symbols)
           after == R!Put(before, strings, table)
<1>1. /\ DOMAIN g = DOMAIN f /\ g.size = size /\ g.symptr = symptr /\ g.nsyms = n /\ g.at = after
      /\ g.base = f.base /\ g.execs = f.execs /\ g.vas = f.vas
  <2>1. \A a, b, c, d :
          LET h == [f EXCEPT !.size = a, !.symptr = b, !.nsyms = c, !.at = d]
          IN  /\ DOMAIN h = DOMAIN f /\ h.size = a /\ h.symptr = b /\ h.nsyms = c /\ h.at = d
              /\ h.base = f.base /\ h.execs = f.execs /\ h.vas = f.vas
    BY DEF PeLaid
  <2>2. g = [f EXCEPT !.size = size, !.symptr = symptr, !.nsyms = n, !.at = after]
    BY Zenon DEF R!PeWithSymbols
  <2> HIDE DEF g, n, size, symptr, after
  <2>3. QED
    BY <2>1, <2>2
<1>2. f.size \in Nat /\ f.base \in Nat /\ DOMAIN f.execs \subseteq Nat /\ \A o \in DOMAIN f.at : o \in Nat /\ o < f.size
  BY DEF PeLaid, Holds
<1>3. n \in Nat /\ DOMAIN fns = 1 .. n /\ \A k \in DOMAIN fns : fns[k].len \in Nat /\ fns[k].address \in Nat
  BY ListFacts DEF Named
<1>4. IsList(bytes) /\ DOMAIN bytes = DOMAIN fns /\ \A k \in DOMAIN bytes : bytes[k] \in Nat /\ (bytes[k] > 0 <=> ~(fns[k].len <= 8))
  <2>1. DOMAIN bytes = DOMAIN fns /\ bytes = [k \in DOMAIN bytes |-> bytes[k]]
        /\ \A k \in DOMAIN fns : bytes[k] = IF fns[k].len <= 8 THEN 0 ELSE fns[k].len + 1
    BY DEF R!CoffBytes
  <2>2. IsList(fns) /\ \A k \in DOMAIN fns : fns[k].len \in Nat
    BY DEF Named
  <2> HIDE DEF bytes
  <2>3. QED
    BY <2>1, <2>2, MappedList
<1> HIDE DEF bytes
<1>5. /\ R!TableSize(bytes, 4) \in Nat /\ R!TableSize(bytes, 4) >= 4
      /\ \A k \in DOMAIN fns : bytes[k] > 0 => table[R!NameOffset(bytes, 4, k)] = fns[k].name
  BY <1>4, StringTableFacts
<1> HIDE DEF table, n, text
<1>6. symptr \in Nat /\ f.size <= symptr /\ symptr % 4 = 0
  BY <1>2, AlignFacts
<1> HIDE DEF symptr
<1>7. strings \in Nat /\ symptr <= strings /\ (n > 0 => symptr < strings) /\ size \in Nat /\ strings < size
  <2>1. R!COFF_SYMBOL_SIZE * n = 18 * n
    BY DEF R!COFF_SYMBOL_SIZE
  <2>2. strings = symptr + 18 * n
    BY <2>1
  <2> HIDE DEF strings
  <2>3. strings \in Nat /\ symptr <= strings /\ (n > 0 => symptr < strings)
    BY <1>3, <1>6, <2>2
  <2>4. QED
    BY <1>5, <2>3
<1> HIDE DEF strings, size
<1>8. fns = <<>> <=> n = 0
  <2>1. PICK S : fns \in Seq(S)
    BY DEF Named, IsList
  <2>2. QED
    BY <2>1 DEF n
<1>9. /\ DOMAIN g.at \subseteq DOMAIN f.at \cup {symptr, strings}
      /\ g.at[strings] = table /\ strings \in DOMAIN g.at
      /\ fns # <<>> => symptr \in DOMAIN g.at /\ g.at[symptr] = symbols
      /\ DOMAIN f.at \subseteq DOMAIN g.at
      /\ fns = <<>> => symptr = strings
      /\ \A o \in DOMAIN f.at : g.at[o] = f.at[o]
  <2>1. Puts(R!Put(f.at, symptr, symbols), f.at, symptr, symbols)
    BY PutFacts
  <2>2. Puts(after, before, strings, table)
    BY PutFacts
  <2> DEFINE p == R!Put(f.at, symptr, symbols)
  <2>3. before = IF fns = <<>> THEN f.at ELSE p
    OBVIOUS
  <2> HIDE DEF symbols, g, before, after, p
  <2>4. \A o \in DOMAIN f.at : o # symptr /\ o # strings
    BY <1>2, <1>6, <1>7
  <2>5. fns # <<>> => symptr # strings
    BY <1>3, <1>6, <1>7, <1>8
  <2>6. fns = <<>> => symptr = strings
    BY <1>6, <1>8 DEF strings, R!COFF_SYMBOL_SIZE
  <2>7. CASE fns = <<>>
    BY <1>1, <2>2, <2>3, <2>4, <2>6, <2>7 DEF Puts
  <2>8. CASE fns # <<>>
    <3>1. before = p /\ Puts(p, f.at, symptr, symbols)
      BY <2>1, <2>3, <2>8 DEF p
    <3>2. QED
      BY <1>1, <2>2, <2>4, <2>5, <2>8, <3>1 DEF Puts
  <2>9. QED
    BY <2>7, <2>8
<1> HIDE DEF g, before, after, symbols
<1>10. \A o \in DOMAIN g.at : o \in Nat /\ o < g.size
  <2>1. g.size \in Nat /\ f.size < g.size /\ symptr < g.size /\ strings < g.size
    BY <1>1, <1>2, <1>6, <1>7
  <2>2. \A o \in DOMAIN f.at : o \in Nat /\ o < g.size
    BY <1>2, <2>1
  <2>3. QED
    BY <1>6, <1>7, <1>9, <2>1, <2>2
<1>11. PeLaid(g)
  BY <1>1, <1>2, <1>7, <1>10 DEF PeLaid, Holds
<1>12. R!Superset(f, g)
  <2>1. \A o \in DOMAIN g.at \ DOMAIN f.at : o >= f.size
    BY <1>2, <1>6, <1>7, <1>9
  <2>2. QED
    BY <1>9, <1>10, <2>1 DEF R!Superset
<1>13. ASSUME NEW k \in DOMAIN fns, R!InImage(f, fns[k].address)
       PROVE  LET symbol == R!PeSymbols(g)[k]
                  shift == R!VirtualAddress(f, symbol.section)
              IN  R!Shows([symbol EXCEPT !.address = @ - shift], fns[k], f.execs)
  <2> DEFINE s == symbols[k]
             a == fns[k].address
             word == IF s.name.tag = "inline" THEN s.name.word ELSE table[s.name.off]
             va == R!VirtualAddress(f, text)
             where == f.base + va + s.value
             read == [name |-> word, section |-> text, address |-> where]
  <2>1. k \in 1 .. g.nsyms /\ fns # <<>>
    BY <1>1, <1>3, <1>8
  <2>2. R!At(g, g.symptr) = symbols
    BY <1>1, <1>9, <2>1 DEF R!At
  <2>3. R!At(g, g.symptr + R!COFF_SYMBOL_SIZE * g.nsyms) = table
    BY <1>1, <1>9 DEF R!At, strings
  <2>4. R!PeSymbols(g)[k] = [name |-> word, section |-> s.section,
                             address |-> g.base + R!VirtualAddress(g, s.section) + s.value]
    BY <2>1, <2>2, <2>3 DEF R!PeSymbols
  <2>5. s.name = R!CoffName(fns, k) /\ s.section = text /\ s.value = R!CoffValue(f, a)
    BY DEF symbols
  <2>6. R!CoffValue(f, a) = a - f.base /\ f.base + (a - f.base) = a
    <3>1. a \in Nat /\ f.base \in Nat /\ ValueRange \in Nat \ {0} /\ a - f.base \in 0 .. ValueRange - 1
      BY <1>2, <1>3, <1>13, FormatAssumption DEF R!InImage
    <3> HIDE DEF a
    <3>2. ASSUME NEW x \in 0 .. ValueRange - 1 PROVE x % ValueRange = x
      BY <3>1
    <3>3. ~(a < f.base)
      BY <3>1
    <3>4. (a - f.base) % ValueRange = a - f.base
      BY <3>1, <3>2
    <3>5. QED
      BY <3>1, <3>3, <3>4 DEF R!CoffValue
  <2>7. word = fns[k].name
    <3>1. CASE fns[k].len <= 8
      <4>1. s.name = [tag |-> "inline", word |-> fns[k].name]
        BY <2>5, <3>1 DEF R!CoffName
      <4>2. QED
        BY <4>1
    <3>2. CASE ~(fns[k].len <= 8)
      <4>1. s.name = [tag |-> "offset", off |-> R!NameOffset(bytes, 4, k)]
        BY <2>5, <3>2 DEF R!CoffName, bytes
      <4>2. bytes[k] > 0
        BY <1>4, <3>2
      <4>3. s.name.tag # "inline" /\ s.name.off = R!NameOffset(bytes, 4, k)
        BY <4>1
      <4>4. QED
        BY <1>5, <4>2, <4>3
    <3>3. QED
      BY <3>1, <3>2
  <2>8. (\E j \in DOMAIN f.execs : f.execs[j]) => f.execs[text]
    <3>1. ASSUME NEW j \in DOMAIN f.execs, f.execs[j] PROVE f.execs[text]
      <4>1. PICK m \in DOMAIN f.execs : f.execs[m] /\ \A first : R!TextIndex(f.execs, first) = m + first - 1
        BY <1>2, <3>1, TextFacts
      <4>2. text = m + 1 - 1 /\ m \in Nat
        BY <1>2, <4>1 DEF text
      <4>3. text = m
        BY <4>2
      <4>4. QED
        BY <4>1, <4>3
    <3>2. QED
      BY <3>1
  <2> HIDE DEF s, word, va
  <2>9. va \in Nat /\ R!VirtualAddress(g, text) = va
    BY <1>1 DEF R!VirtualAddress, PeLaid, va
  <2>10. R!PeSymbols(g)[k] = read
    BY <1>1, <2>4, <2>5, <2>9
  <2>11. where - va = a
    <3>1. f.base \in Nat /\ a \in Nat /\ s.value = a - f.base
      BY <1>2, <1>3, <2>5, <2>6
    <3> HIDE DEF a
    <3>2. QED
      BY <2>9, <3>1
  <2> DEFINE seen == [read EXCEPT !.address = @ - va]
  <2> HIDE DEF where
  <2>12. read.section = text /\ seen.name = word /\ seen.section = text /\ seen.address = where - va
    OBVIOUS
  <2> HIDE DEF read, seen, a
  <2>13. R!Shows(seen, fns[k], f.execs)
    BY <2>7, <2>8, <2>11, <2>12 DEF R!Shows, a
  <2>14. QED
    BY <2>10, <2>12, <2>13 DEF seen, va
<1>14. R!PeReadsBack(f, fns, g)
  <2> DEFINE Right(k) == LET symbol == R!PeSymbols(g)[k]
                             shift == R!VirtualAddress(f, symbol.section)
                         IN  R!Shows([symbol EXCEPT !.address = @ - shift], fns[k], f.execs)
  <2>1. \A k \in DOMAIN fns : R!InImage(f, fns[k].address) => Right(k)
    BY <1>13
  <2>2. R!PeReadsBack(f, fns, g) <=>
          /\ g.symptr % 4 = 0
          /\ g.nsyms = Len(fns)
          /\ \A k \in DOMAIN fns : R!InImage(f, fns[k].address) => Right(k)
    BY DEF R!PeReadsBack
  <2> HIDE DEF Right
  <2>3. QED
    BY <1>1, <1>6, <2>1, <2>2 DEF n
<1>15. QED
  BY <1>11, <1>12, <1>14 DEF g

-----------------------------------------------------------------------------
(* A session: the program started with one command after the other.        *)

\* What a file is, as far as the invariants go: the functions recovered from it are a table, its
\* data sections are rows of cells, and one that parses is not the placeholder of no binary.
File(f) ==
    /\ {"container", "go"} \subseteq DOMAIN f
    /\ f.go.functions \in Seq(Function)
    /\ f.go.data \in Cells /\ f.go.planted \in Table
    /\ Compiled(f.go.program)
    /\ Parses(f) => f.go # NoGo

Scripted(commands) == \E C : commands \in Seq(C) /\ \A c \in C : c.binary \in DOMAIN Sibling

Session(fs, commands) ==
    /\ \A p \in DOMAIN fs : File(fs[p])
    /\ Scripted(commands)

\* The verdict on what was recovered from a binary.
Judged(go) ==
    G!assess(IF go.fails \cap {"functions"} # {} THEN <<>> ELSE go.counts,
             G!detect_go_version(go.versions), go.magic \in {"1.20", "1.18", "1.16"})
Obfuscated(go) == Judged(go).verdict = "Garbled"

LEMMA AssessFacts ==
  ASSUME NEW names, NEW version, NEW official
  PROVE  LET a == G!assess(names, version, official)
         IN  (a.verdict = "Garbled" /\ a.confidence \in {75, 90, 95, 100}) \/ a.verdict = "Clean"
<1> DEFINE r == G!detect_garble(names, version, official)
           votes == <<r.magic_rewritten, r.version_overwritten, G!HashedRatio(r), G!detect(names).is_garbled>>
           fired == G!Cardinality({k \in 1 .. 4 : votes[k]})
           a == G!assess(names, version, official)
<1>1. a = IF r.magic_rewritten THEN G!Assessment("Garbled", 100)
          ELSE IF fired >= 2
          THEN G!Assessment("Garbled", IF fired = 2 THEN 75 ELSE IF fired = 3 THEN 90 ELSE 95)
          ELSE IF (IF r.evaluated THEN 4 ELSE 3) < 2 THEN G!Assessment("Indeterminate", 0)
          ELSE G!Assessment("Clean", 100 - 20 * fired)
  BY DEF G!assess
<1> HIDE DEF a, fired, r
<1>2. \A v, c : G!Assessment(v, c).verdict = v /\ G!Assessment(v, c).confidence = c
  BY DEF G!Assessment
<1>3. QED
  BY <1>1, <1>2 DEF a

LEMMA VerdictFacts ==
  ASSUME NEW go
  PROVE  /\ G!Warns(Judged(go)) <=> Obfuscated(go)
         /\ G!exit_code(Judged(go)) = IF Obfuscated(go) THEN 0 ELSE 1
<1>1. (Judged(go).verdict = "Garbled" /\ Judged(go).confidence \in {75, 90, 95, 100}) \/ Judged(go).verdict = "Clean"
  BY AssessFacts DEF Judged
<1>2. QED
  BY <1>1 DEF G!Warns, G!exit_code, Obfuscated

LEMMA AssessedFacts == Assessed = Judged(bin.go)
  BY DEF Assessed, Judged, Counts, Fails, Version, Official

LEMMA ListGrows ==
  ASSUME NEW s, IsList(s), NEW e
  PROVE  /\ IsList(Append(s, e))
         /\ \A k \in DOMAIN Append(s, e) : Append(s, e)[k] = e \/ (k \in DOMAIN s /\ Append(s, e)[k] = s[k])
<1>1. PICK S : s \in Seq(S)
  BY DEF IsList
<1> DEFINE T == S \cup {e}
<1>2. s \in Seq(T) /\ e \in T
  BY <1>1
<1> HIDE DEF T
<1>3. Append(s, e) \in Seq(T) /\ \A k \in DOMAIN Append(s, e) : Append(s, e)[k] = e \/ (k \in DOMAIN s /\ Append(s, e)[k] = s[k])
  BY <1>2, AppendFacts
<1>4. QED
  BY <1>3 DEF IsList

\* What a command says of obfuscation is the verdict on its binary.
RightEntry(e) ==
    /\ e.warned \in BOOLEAN
    /\ e.exit \in {0, 1, 2, 101}
    /\ e.exit = 2 => e.mode = "usage"
    /\ e.exit = 101 => e.mode = "symbols_as"
    /\ e.mode = "detect_garble" /\ e.format \in {"text", "json"} => (e.exit = 0 <=> (e.go # NoGo /\ Obfuscated(e.go)))
    /\ e.mode \in {"info", "buildinfo"} /\ ~e.quiet => (e.warned <=> (e.go # NoGo /\ Obfuscated(e.go)))

FilesInv ==
    /\ \A p \in DOMAIN files : File(files[p])
    /\ File(bin) /\ File(image)
    /\ Scripted(script)

Writing == {"create", "write", "chmod"}
Machines == {"names", "match", "methods"}

StageInv ==
    /\ at \in Stages
    /\ todo \in {<<>>, <<"names">>, <<"match">>, <<"methods">>, <<"names", "methods">>}
    /\ warned \in BOOLEAN
    /\ script = <<>> => at = "open"
    /\ at \in Writing <=> image # NoFile
    /\ at = "open" <=> bin = NoFile
    /\ at # "open" => Parses(bin)
    /\ at \in Machines => todo # <<>> /\ Head(todo) = at
    /\ todo # <<>> => at \in Machines \cup {"ready"}
    /\ todo = <<"match">> => cmd.other \in DOMAIN files
    /\ at \in Writing => Mode(cmd) = "symbols_as" /\ ~Unconfirmed(cmd) /\ image.container = bin.container
    /\ at \in Writing => bin.container \in {"Elf", "Pe"}

LogInv ==
    /\ IsList(log)
    /\ \A k \in DOMAIN log : RightEntry(log[k])
    /\ (at \in Machines \cup {"ready"} /\ Mode(cmd) \in {"info", "buildinfo"} /\ "quiet" \notin cmd.flags)
         => (warned <=> Obfuscated(bin.go))
    /\ at \in Machines \cup {"ready"} => Mode(cmd) # "detect_garble"

SessionInv == FilesInv /\ StageInv /\ LogInv

LEMMA NoFileIsFile == File(NoFile) /\ File(Torn) /\ ~Parses(NoFile) /\ ~Parses(Torn)
<1>1. <<>> \in Seq(Function) /\ <<>> \in Seq(Seq(Int)) /\ <<>> \in Seq(Pair)
  OBVIOUS
<1>2. [sec |-> 0, off |-> 0, pairs |-> <<>>] \in Table /\ <<>> \in Cells
  BY <1>1 DEF Table, Cells
<1>3. QED
  BY <1>1, <1>2, NothingCompiled DEF NoFile, Torn, Nothing, NoGo, File, Parses

LEMMA ScriptedTail ==
  ASSUME NEW s, Scripted(s), s # <<>>
  PROVE  Scripted(Tail(s)) /\ Head(s).binary \in DOMAIN Sibling
<1>1. PICK C : s \in Seq(C) /\ \A c \in C : c.binary \in DOMAIN Sibling
  BY DEF Scripted
<1>2. Tail(s) \in Seq(C) /\ Head(s) \in C
  BY <1>1
<1>3. QED
  BY <1>1, <1>2 DEF Scripted

\* A command ends.
LEMMA ExitKeeps ==
  ASSUME SessionInv, NEW code \in {0, 1, 2, 101}, script # <<>>, Exit(code), warned' \in BOOLEAN,
         code = 2 => Mode(cmd) = "usage", code = 101 => Mode(cmd) = "symbols_as",
         (Mode(cmd) = "detect_garble" /\ cmd.format \in {"text", "json"}) =>
           (code = 0 <=> (bin.go # NoGo /\ Obfuscated(bin.go))),
         (Mode(cmd) \in {"info", "buildinfo"} /\ "quiet" \notin cmd.flags) =>
           (warned' <=> (bin.go # NoGo /\ Obfuscated(bin.go)))
  PROVE  SessionInv'
<1> DEFINE e == [mode |-> Mode(cmd), format |-> cmd.format, quiet |-> "quiet" \in cmd.flags,
                 go |-> bin.go, exit |-> code, warned |-> warned']
<1>1. /\ log' = Append(log, e) /\ script' = Tail(script) /\ at' = "open" /\ bin' = NoFile
      /\ todo' = <<>> /\ image' = NoFile /\ files' = files
  BY DEF Exit
<1>2. /\ e.mode = Mode(cmd) /\ e.format = cmd.format /\ e.quiet = ("quiet" \in cmd.flags) /\ e.go = bin.go
      /\ e.exit = code /\ e.warned = warned'
  OBVIOUS
<1> HIDE DEF e
<1>3. RightEntry(e)
  BY <1>2 DEF RightEntry
<1>4. IsList(log') /\ \A k \in DOMAIN log' : RightEntry(log'[k])
  BY <1>1, <1>3, ListGrows DEF SessionInv, LogInv
<1>5. FilesInv'
  BY <1>1, NoFileIsFile, ScriptedTail DEF SessionInv, FilesInv
<1>6. StageInv'
  BY <1>1 DEF StageInv, Stages, Writing, Machines
<1>7. LogInv'
  BY <1>1, <1>4 DEF LogInv, Machines
<1>8. QED
  BY <1>5, <1>6, <1>7 DEF SessionInv

LEMMA SameCardinality ==
  ASSUME NEW S
  PROVE  G!Cardinality(S) = Cardinality(S)
  BY DEF G!Cardinality, Cardinality

\* A rewritten file is the input with more in it: its container and what is recovered of it stay.
LEMMA RewrittenFacts ==
  ASSUME File(bin), Parses(bin), Rewritten.tag # "Refused", Rewritten.tag # "Panicked"
  PROVE  /\ File(Rewritten.file) /\ Rewritten.file.container = bin.container
         /\ bin.container \in {"Elf", "Pe"}
<1>1. ASSUME NEW g, DOMAIN g = DOMAIN bin, g.container = bin.container, g.go = bin.go
      PROVE  File(g) /\ g.container = bin.container
  BY <1>1 DEF File, Parses
<1>2. R!Refused.tag = "Refused" /\ R!Panicked.tag = "Panicked"
      /\ \A f : R!Written(f).tag = "Written" /\ R!Written(f).file = f
  BY DEF R!Refused, R!Panicked, R!Written
<1>3. CASE cmd.target = "elf" /\ bin.container = "Elf"
  <2> DEFINE g == R!ElfWithSymbols(bin, FunctionsOf(bin))
  <2>1. DOMAIN g = DOMAIN bin /\ g.container = bin.container /\ g.go = bin.go
    <3>1. \A a, b, c, d, e :
            LET h == [bin EXCEPT !.size = a, !.shoff = b, !.shnum = c, !.shstrndx = d, !.at = e]
            IN  DOMAIN h = DOMAIN bin /\ h.container = bin.container /\ h.go = bin.go
      BY DEF File
    <3>2. QED
      BY <3>1 DEF R!ElfWithSymbols
  <2> HIDE DEF g
  <2>2. Rewritten = R!write_symbols_as_elf(bin, FunctionsOf(bin))
    BY <1>3 DEF Rewritten
  <2>3. Rewritten \in {R!Refused, R!Panicked, R!Written(g)}
    BY <2>2 DEF R!write_symbols_as_elf, g
  <2>4. Rewritten.file = g
    BY <1>2, <2>3
  <2>5. QED
    BY <1>1, <1>3, <2>1, <2>4
<1>4. CASE ~(cmd.target = "elf" /\ bin.container = "Elf") /\ cmd.target = "pe" /\ bin.container = "Pe"
  <2> DEFINE g == R!PeWithSymbols(bin, FunctionsOf(bin))
  <2>1. DOMAIN g = DOMAIN bin /\ g.container = bin.container /\ g.go = bin.go
    <3>1. \A a, b, c, d :
            LET h == [bin EXCEPT !.size = a, !.symptr = b, !.nsyms = c, !.at = d]
            IN  DOMAIN h = DOMAIN bin /\ h.container = bin.container /\ h.go = bin.go
      BY DEF File
    <3>2. QED
      BY <3>1 DEF R!PeWithSymbols
  <2> HIDE DEF g
  <2>2. Rewritten = R!write_symbols_as_pe(bin, FunctionsOf(bin))
    BY <1>4 DEF Rewritten
  <2>3. Rewritten \in {R!Refused, R!Written(g)}
    BY <2>2 DEF R!write_symbols_as_pe, g
  <2>4. Rewritten.file = g
    BY <1>2, <2>3
  <2>5. QED
    BY <1>1, <1>4, <2>1, <2>4
<1>5. CASE ~(cmd.target = "elf" /\ bin.container = "Elf") /\ ~(cmd.target = "pe" /\ bin.container = "Pe")
  <2>1. Rewritten = R!Refused
    BY <1>5 DEF Rewritten
  <2>2. QED
    BY <1>2, <2>1
<1>6. QED
  BY <1>3, <1>4, <1>5

\* Each step of a session, apart from the components'.
LEMMA ArgumentsKeeps ==
  ASSUME SessionInv, Arguments
  PROVE  SessionInv'
<1>1. script # <<>> /\ Mode(cmd) \in {"help", "usage"} /\ warned' = FALSE
  BY DEF Arguments
<1> DEFINE code == IF Mode(cmd) = "help" THEN 0 ELSE 2
<1>2. Exit(code) /\ code \in {0, 1, 2, 101} /\ (code = 2 => Mode(cmd) = "usage") /\ code # 101
  BY <1>1 DEF Arguments
<1> HIDE DEF code
<1>3. QED
  BY <1>1, <1>2, ExitKeeps

LEMMA InstallPluginKeeps ==
  ASSUME SessionInv, InstallPlugin
  PROVE  SessionInv'
<1>1. script # <<>> /\ Mode(cmd) = "install_plugin" /\ warned' = FALSE
  BY DEF InstallPlugin
<1>2. PICK code \in {0, 1} : Exit(code)
  <2>1. PICK installed \in BOOLEAN : Exit(IF installed /\ "bad_target" \notin cmd.flags THEN 0 ELSE 1)
    BY DEF InstallPlugin
  <2>2. CASE installed /\ "bad_target" \notin cmd.flags
    BY <2>1, <2>2
  <2>3. CASE ~(installed /\ "bad_target" \notin cmd.flags)
    BY <2>1, <2>3
  <2>4. QED
    BY <2>2, <2>3
<1>3. warned' \in BOOLEAN
  BY <1>1
<1>4. code \in {0, 1, 2, 101} /\ code # 2 /\ code # 101
  BY <1>2
<1>5. QED
  BY <1>1, <1>2, <1>3, <1>4, ExitKeeps

LEMMA OpenBinaryKeeps ==
  ASSUME SessionInv, OpenBinary
  PROVE  SessionInv'
<1>1. script # <<>> /\ at = "open" /\ warned' = FALSE /\ bin = NoFile
  BY DEF OpenBinary, SessionInv, StageInv
<1>2. CASE cmd.binary \in DOMAIN files /\ Parses(files[cmd.binary])
  <2>1. /\ bin' = files[cmd.binary] /\ at' = "mode" /\ files' = files /\ script' = script /\ todo' = todo
        /\ image' = image /\ log' = log
    BY <1>2 DEF OpenBinary
  <2>2. File(bin') /\ Parses(bin') /\ bin' # NoFile
    BY <1>2, <2>1, NoFileIsFile DEF SessionInv, FilesInv
  <2>3. FilesInv'
    BY <2>1, <2>2 DEF SessionInv, FilesInv
  <2>4. StageInv'
    BY <1>1, <2>1, <2>2 DEF SessionInv, StageInv, Stages, Writing, Machines, cmd
  <2>5. LogInv'
    BY <2>1 DEF SessionInv, LogInv, Machines
  <2>6. QED
    BY <2>3, <2>4, <2>5 DEF SessionInv
<1>3. CASE ~(cmd.binary \in DOMAIN files /\ Parses(files[cmd.binary]))
  <2>1. Exit(1)
    BY <1>3 DEF OpenBinary
  <2>2. bin.go = NoGo
    BY <1>1 DEF NoFile, Nothing
  <2>3. warned' \in BOOLEAN /\ ~warned'
    BY <1>1
  <2>4. QED
    BY <1>1, <2>1, <2>2, <2>3, ExitKeeps
<1>4. QED
  BY <1>2, <1>3

\* At work on a binary, there is one, and its facts are not the placeholder's.
LEMMA HeldFacts ==
  ASSUME SessionInv, at # "open"
  PROVE  /\ script # <<>> /\ Parses(bin) /\ File(bin) /\ bin.go # NoGo /\ warned \in BOOLEAN
         /\ cmd.binary \in DOMAIN Sibling
  BY ScriptedTail DEF SessionInv, StageInv, FilesInv, File, cmd

LEMMA SymbolsAsKeeps ==
  ASSUME SessionInv, SymbolsAs
  PROVE  SessionInv'
<1>1. at = "mode" /\ Mode(cmd) = "symbols_as" /\ warned' = warned
  BY DEF SymbolsAs
<1>2. CASE Exit(1) \/ Exit(101)
  BY <1>1, <1>2, HeldFacts, ExitKeeps
<1>3. CASE ~Exit(1) /\ ~Exit(101)
  <2>1. /\ ~Unconfirmed(cmd) /\ Rewritten.tag # "Refused" /\ Rewritten.tag # "Panicked" /\ image' = Rewritten.file
        /\ at' = "create" /\ files' = files /\ script' = script /\ bin' = bin /\ todo' = todo /\ log' = log
    BY <1>3 DEF SymbolsAs
  <2>2. /\ File(image') /\ image'.container = bin.container /\ Parses(bin)
        /\ bin.container \in {"Elf", "Pe"} /\ Parses(image')
    BY <1>1, <2>1, HeldFacts, RewrittenFacts DEF Parses
  <2>3. image' # NoFile
    BY <2>2, NoFileIsFile
  <2>4. FilesInv'
    BY <2>1, <2>2 DEF SessionInv, FilesInv
  <2>5. StageInv'
    BY <1>1, <2>1, <2>2, <2>3 DEF SessionInv, StageInv, Stages, Writing, Machines, cmd
  <2>6. LogInv'
    BY <1>1, <2>1 DEF SessionInv, LogInv, Machines
  <2>7. QED
    BY <2>4, <2>5, <2>6 DEF SessionInv
<1>4. QED
  BY <1>2, <1>3

\* What Create and Write put at the output path is a file.
LEMMA WritingKeeps ==
  ASSUME SessionInv, Create \/ Write \/ Chmod
  PROVE  SessionInv'
<1>1. at \in Writing /\ Mode(cmd) = "symbols_as" /\ warned' = warned /\ at # "open"
  BY DEF SessionInv, StageInv, Create, Write, Chmod, Writing
<1>2. CASE Exit(0) \/ Exit(1)
  BY <1>1, <1>2, HeldFacts, ExitKeeps
<1>3. CASE ~Exit(0) /\ ~Exit(1)
  <2>1. /\ \/ files' = [p \in DOMAIN files \cup {OutPath(cmd)} |-> IF p = OutPath(cmd) THEN Torn ELSE files[p]]
           \/ files' = [files EXCEPT ![OutPath(cmd)] = image]
        /\ at' \in {"write", "chmod"} /\ script' = script /\ bin' = bin /\ todo' = todo /\ image' = image /\ log' = log
    BY <1>3 DEF Create, Write, Chmod
  <2>2. \A p \in DOMAIN files' : File(files'[p])
    <3>1. CASE files' = [p \in DOMAIN files \cup {OutPath(cmd)} |-> IF p = OutPath(cmd) THEN Torn ELSE files[p]]
      BY <3>1, NoFileIsFile DEF SessionInv, FilesInv
    <3>2. CASE files' = [files EXCEPT ![OutPath(cmd)] = image]
      BY <3>2 DEF SessionInv, FilesInv
    <3>3. QED
      BY <2>1, <3>1, <3>2
  <2>3. FilesInv'
    BY <2>1, <2>2 DEF SessionInv, FilesInv
  <2>4. StageInv'
    BY <1>1, <2>1 DEF SessionInv, StageInv, Stages, Writing, Machines, cmd
  <2>5. LogInv'
    BY <1>1, <2>1 DEF SessionInv, LogInv, Machines
  <2>6. QED
    BY <2>3, <2>4, <2>5 DEF SessionInv
<1>4. QED
  BY <1>2, <1>3

LEMMA DetectGarbleKeeps ==
  ASSUME SessionInv, DetectGarble
  PROVE  SessionInv'
<1>1. at = "mode" /\ Mode(cmd) = "detect_garble" /\ warned' = warned
  BY DEF DetectGarble
<1>2. bin.go # NoGo /\ script # <<>> /\ warned' \in BOOLEAN
  BY <1>1, HeldFacts
<1>3. G!exit_code(Assessed) = IF Obfuscated(bin.go) THEN 0 ELSE 1
  BY AssessedFacts, VerdictFacts
<1> DEFINE code == IF cmd.format \in {"text", "json"} THEN G!exit_code(Assessed) ELSE 1
<1>4. Exit(code)
  BY DEF DetectGarble
<1>5. code \in {0, 1} /\ (cmd.format \in {"text", "json"} => (code = 0 <=> Obfuscated(bin.go)))
  BY <1>3
<1> HIDE DEF code
<1>6. QED
  BY <1>1, <1>2, <1>4, <1>5, ExitKeeps

LEMMA AnswerKeeps ==
  ASSUME SessionInv, Answer
  PROVE  SessionInv'
<1>1. at = "ready" /\ warned' = warned
  BY DEF Answer
<1>2. bin.go # NoGo /\ script # <<>> /\ warned' \in BOOLEAN
  BY <1>1, HeldFacts
<1>3. Exit(0) \/ Exit(1)
  BY DEF Answer
<1>4. /\ Mode(cmd) \in {"info", "buildinfo"} /\ "quiet" \notin cmd.flags => (warned' <=> Obfuscated(bin.go))
      /\ Mode(cmd) # "detect_garble"
  BY <1>1 DEF SessionInv, LogInv
<1>5. QED
  BY <1>2, <1>3, <1>4, ExitKeeps

\* One machine behind another, or behind none.
LEMMA TwoOfOne ==
  ASSUME NEW a, NEW b
  PROVE  <<a>> \o <<b>> = <<a, b>>
<1> DEFINE s == <<a>>
           t == <<b>>
           u == <<a, b>>
           S == {a, b}
<1>1. s \in Seq(S) /\ t \in Seq(S) /\ Len(s) = 1 /\ Len(t) = 1 /\ s[1] = a /\ t[1] = b
  OBVIOUS
<1>2. u \in Seq(S) /\ Len(u) = 2 /\ u[1] = a /\ u[2] = b
  OBVIOUS
<1> HIDE DEF s, t, u, S
<1>3. s \o t \in Seq(S) /\ Len(s \o t) = 2 /\ (s \o t)[1] = a /\ (s \o t)[2] = b
  BY <1>1, ConcatProperties
<1>4. s \o t = u
  BY <1>2, <1>3
<1>5. QED
  BY <1>4 DEF s, t, u

LEMMA NoneOfOne ==
  ASSUME NEW a
  PROVE  <<>> \o <<a>> = <<a>> /\ <<a>> \o <<>> = <<a>> /\ <<>> \o <<>> = <<>>
<1>1. <<>> \in Seq({a}) /\ <<a>> \in Seq({a})
  OBVIOUS
<1>2. QED
  BY <1>1, ConcatEmptySeq

\* What a mode runs, it may run.
LEMMA AskedFacts ==
  ASSUME NEW c
  PROVE  /\ Asked(c).runs \in {<<>>, <<"names">>, <<"match">>, <<"methods">>, <<"names", "methods">>}
         /\ Asked(c).runs = <<"match">> /\ ~Asked(c).rejected => c.other \in DOMAIN files
<1>1. \A x, y, z, w : Ask(x, y, z, w).rejected = y /\ Ask(x, y, z, w).runs = z
  BY DEF Ask
<1>2. Degarbled(c) \in {<<>>, <<"names">>} /\ Signing(c) \in {<<>>, <<"methods">>}
  BY DEF Degarbled, Signing
<1>3. Degarbled(c) \o Signing(c) \in {<<>>, <<"names">>, <<"methods">>, <<"names", "methods">>}
  <2>1. ASSUME NEW x \in {<<>>, <<"names">>}, NEW y \in {<<>>, <<"methods">>}
        PROVE  x \o y \in {<<>>, <<"names">>, <<"methods">>, <<"names", "methods">>}
    <3>1. <<"names">> \o <<"methods">> = <<"names", "methods">>
      BY TwoOfOne
    <3>2. \A a : <<>> \o <<a>> = <<a>> /\ <<a>> \o <<>> = <<a>> /\ <<>> \o <<>> = <<>>
      BY NoneOfOne
    <3>3. QED
      BY <3>1, <3>2
  <2>2. QED
    BY <1>2, <2>1
<1>4. <<"match">> \notin {<<>>, <<"names">>, <<"methods">>, <<"names", "methods">>}
  OBVIOUS
<1>5. CASE Mode(c) = "diff"
  <2>1. Asked(c) = diff_mode(c)
    BY <1>5 DEF Asked
  <2>2. Asked(c).runs = <<"match">> /\ Asked(c).rejected = ~OtherReads(c)
    BY <1>1, <2>1 DEF diff_mode
  <2>3. QED
    BY <2>2 DEF OtherReads
<1>6. CASE Mode(c) # "diff"
  <2>1. Asked(c) \in {info_mode(c), addr_file_mode(c), addr_mode(c), fingerprint_mode(c), data_at_mode(c), xref_mode(c),
                      xref_refs_mode(c), strings_mode(c), capabilities_mode(c), reflect_names_mode(c),
                      dispatch_resolver_mode(c), xrefs_mode(c), goroutines_mode(c), itabs_mode(c), types_mode(c),
                      buildinfo_mode(c), list_mode(c)}
    BY <1>6 DEF Asked
  <2>2. info_mode(c).runs = <<>> /\ addr_file_mode(c).runs = <<>> /\ fingerprint_mode(c).runs = <<>>
        /\ data_at_mode(c).runs = <<>> /\ xref_mode(c).runs = <<>> /\ xref_refs_mode(c).runs = <<>>
        /\ strings_mode(c).runs = <<>> /\ capabilities_mode(c).runs = <<>> /\ dispatch_resolver_mode(c).runs = <<>>
        /\ goroutines_mode(c).runs = <<>> /\ buildinfo_mode(c).runs = <<>>
    BY DEF Ask, info_mode, addr_file_mode, fingerprint_mode, data_at_mode, xref_mode, xref_refs_mode, strings_mode,
                capabilities_mode, dispatch_resolver_mode, goroutines_mode, buildinfo_mode
  <2>3. /\ addr_mode(c).runs = Signing(c) /\ reflect_names_mode(c).runs = <<"names">>
        /\ xrefs_mode(c).runs \in {<<>>, Signing(c)}
        /\ itabs_mode(c).runs = Degarbled(c) /\ types_mode(c).runs = Degarbled(c)
        /\ list_mode(c).runs = Degarbled(c) \o Signing(c)
    BY DEF Ask, addr_mode, reflect_names_mode, xrefs_mode, itabs_mode, types_mode, list_mode
  <2>4. Asked(c).runs \in {<<>>, <<"names">>, <<"methods">>, <<"names", "methods">>}
    BY <1>2, <1>3, <2>1, <2>2, <2>3
  <2>5. QED
    BY <1>4, <2>4
<1>7. QED
  BY <1>5, <1>6

\* --info and --buildinfo warn by the verdict, whether they fail or not.
LEMMA AnalyseKeeps ==
  ASSUME SessionInv, Analyse
  PROVE  SessionInv'
<1>1. /\ at = "mode" /\ Mode(cmd) # "detect_garble" /\ Mode(cmd) # "symbols_as"
      /\ warned' = (Mode(cmd) \in {"info", "buildinfo"} /\ "quiet" \notin cmd.flags /\ G!Warns(Assessed))
  BY DEF Analyse
<1>2. bin.go # NoGo /\ script # <<>>
  BY <1>1, HeldFacts
<1>3. G!Warns(Assessed) <=> Obfuscated(bin.go)
  BY AssessedFacts, VerdictFacts
<1>4. warned' \in BOOLEAN
  BY <1>1
<1>5. Mode(cmd) \in {"info", "buildinfo"} /\ "quiet" \notin cmd.flags => (warned' <=> Obfuscated(bin.go))
  BY <1>1, <1>3
<1>6. CASE Exit(1)
  BY <1>1, <1>2, <1>4, <1>5, <1>6, ExitKeeps
<1>7. CASE ~Exit(1)
  <2>1. /\ ~Asked(cmd).rejected /\ todo' = Asked(cmd).runs /\ at' = "ready"
        /\ files' = files /\ script' = script /\ bin' = bin /\ image' = image /\ log' = log /\ cmd' = cmd
    BY <1>7 DEF Analyse, cmd
  <2>2. /\ todo' \in {<<>>, <<"names">>, <<"match">>, <<"methods">>, <<"names", "methods">>}
        /\ todo' = <<"match">> => cmd.other \in DOMAIN files
    BY <2>1, AskedFacts
  <2>3. FilesInv'
    BY <2>1 DEF SessionInv, FilesInv
  <2>4. StageInv'
    BY <1>1, <1>4, <2>1, <2>2 DEF SessionInv, StageInv, Stages, Writing, Machines
  <2>5. LogInv'
    <3>1. IsList(log') /\ \A k \in DOMAIN log' : RightEntry(log'[k])
      BY <2>1 DEF SessionInv, LogInv
    <3>2. Mode(cmd') # "detect_garble"
      BY <1>1, <2>1
    <3>3. Mode(cmd') \in {"info", "buildinfo"} /\ "quiet" \notin cmd'.flags => (warned' <=> Obfuscated(bin'.go))
      BY <1>5, <2>1
    <3>4. QED
      BY <3>1, <3>2, <3>3 DEF LogInv
  <2>6. QED
    BY <2>3, <2>4, <2>5 DEF SessionInv
<1>8. QED
  BY <1>6, <1>7

\* A component starts and returns.
LEMMA TurnKeeps ==
  ASSUME SessionInv, NEW machine \in Machines, Turn(machine) \/ Return(machine)
  PROVE  SessionInv'
<1>1. /\ files' = files /\ script' = script /\ bin' = bin /\ image' = image /\ log' = log /\ warned' = warned /\ cmd' = cmd
      /\ at \in Machines \cup {"ready"} /\ at' \in Machines \cup {"ready"}
  BY DEF Turn, Return, Busy, cmd
<1>2. /\ todo' \in {<<>>, <<"names">>, <<"match">>, <<"methods">>, <<"names", "methods">>}
      /\ at' \in Machines => todo' # <<>> /\ Head(todo') = at'
      /\ todo' = <<"match">> => todo = <<"match">>
  <2>1. CASE Turn(machine)
    BY <2>1 DEF Turn, Busy, SessionInv, StageInv
  <2>2. CASE Return(machine)
    <3>1. todo' = Tail(todo) /\ at' = "ready" /\ todo # <<>>
      BY <2>2 DEF Return, SessionInv, StageInv
    <3>2. ASSUME NEW t \in {<<>>, <<"names">>, <<"match">>, <<"methods">>, <<"names", "methods">>}, t # <<>>
          PROVE  Tail(t) \in {<<>>, <<"methods">>}
      <4>1. Tail(<<"names", "methods">>) = <<"methods">>
        OBVIOUS
      <4>2. Tail(<<"names">>) = <<>> /\ Tail(<<"match">>) = <<>> /\ Tail(<<"methods">>) = <<>>
        OBVIOUS
      <4>3. QED
        BY <3>2, <4>1, <4>2
    <3>3. todo' \in {<<>>, <<"methods">>}
      BY <3>1, <3>2 DEF SessionInv, StageInv
    <3>4. <<"match">> \notin {<<>>, <<"methods">>}
      OBVIOUS
    <3>5. QED
      BY <3>1, <3>3, <3>4 DEF Machines
  <2>3. QED
    BY <2>1, <2>2
<1>3. FilesInv'
  BY <1>1 DEF SessionInv, FilesInv
<1>4. StageInv'
  BY <1>1, <1>2 DEF SessionInv, StageInv, Stages, Writing, Machines
<1>5. LogInv'
  BY <1>1 DEF SessionInv, LogInv
<1>6. QED
  BY <1>3, <1>4, <1>5 DEF SessionInv

LEMMA SameSessionKeeps ==
  ASSUME SessionInv, UNCHANGED session
  PROVE  SessionInv'
<1>1. FilesInv'
  BY DEF session, SessionInv, FilesInv
<1>2. StageInv'
  BY DEF session, SessionInv, StageInv, cmd
<1>3. LogInv'
  BY DEF session, SessionInv, LogInv, cmd
<1>4. QED
  BY <1>1, <1>2, <1>3 DEF SessionInv

LEMMA BeginSession ==
  ASSUME NEW fs, NEW commands, Session(fs, commands), Begin(fs, commands)
  PROVE  SessionInv
<1>1. /\ files = fs /\ script = commands /\ bin = NoFile /\ at = "open" /\ todo = <<>> /\ image = NoFile
      /\ warned = FALSE /\ log = <<>>
  BY DEF Begin
<1>2. FilesInv
  BY <1>1, NoFileIsFile DEF FilesInv, Session
<1>3. StageInv
  BY <1>1 DEF StageInv, Stages, Writing, Machines
<1>4. IsList(log) /\ DOMAIN log = {}
  <2>1. log \in Seq({})
    BY <1>1
  <2>2. QED
    BY <1>1, <2>1 DEF IsList
<1>5. LogInv
  BY <1>1, <1>4 DEF LogInv, Machines
<1>6. QED
  BY <1>2, <1>3, <1>5 DEF SessionInv

LEMMA SessionInvIsInductive == SessionInv /\ [CliNext]_cliVars => SessionInv'
<1> SUFFICES ASSUME SessionInv, [CliNext]_cliVars PROVE SessionInv'
  OBVIOUS
<1>1. CASE UNCHANGED session
  BY <1>1, SameSessionKeeps
<1>2. CASE UNCHANGED cliVars
  BY <1>2, SameSessionKeeps DEF cliVars
<1>3. CASE ScanNames \/ MatchStep \/ SignStep
  BY <1>3, SameSessionKeeps DEF ScanNames, MatchStep, SignStep
<1>4. CASE CollectNames \/ NamesCollected \/ Compare \/ Matched \/ Sign \/ Signed
  BY <1>4, TurnKeeps DEF CollectNames, NamesCollected, Compare, Matched, Sign, Signed, Machines
<1>5. QED
  BY <1>2, <1>3, <1>4, ArgumentsKeeps, InstallPluginKeeps, OpenBinaryKeeps, SymbolsAsKeeps, WritingKeeps, DetectGarbleKeeps,
     AnalyseKeeps, AnswerKeeps DEF CliNext

\* Of the program's steps, those of compute are the matcher's, and compute is called with two tables.
LEMMA SessionMatches == SessionInv /\ [CliNext]_cliVars => [Next]_vars
<1> SUFFICES ASSUME SessionInv, [CliNext]_cliVars PROVE [Next]_vars
  OBVIOUS
<1>1. CASE Compare
  <2> DEFINE b == [old |-> files[cmd.other].go.functions, new |-> bin.go.functions, signed |-> "relift" \in cmd.flags]
  <2>1. todo # <<>> /\ Head(todo) = "match" /\ Start(b)
    BY <1>1 DEF Compare, Turn, Busy
  <2>2. todo = <<"match">>
    BY <2>1 DEF SessionInv, StageInv
  <2>3. files[cmd.other].go.functions \in Seq(Function) /\ bin.go.functions \in Seq(Function)
    BY <2>2 DEF SessionInv, StageInv, FilesInv, File
  <2>4. b \in Input
    BY <2>3 DEF Input
  <2> HIDE DEF b
  <2>5. QED
    BY <2>1, <2>4 DEF Next
<1>2. CASE MatchStep
  BY <1>2 DEF MatchStep, Next
<1>3. CASE ~Compare /\ ~MatchStep
  <2>1. UNCHANGED vars
    BY <1>3 DEF CliNext, cliVars, Arguments, InstallPlugin, OpenBinary, SymbolsAs, Create, Write, Chmod, DetectGarble, Analyse,
                CollectNames, ScanNames, NamesCollected, Matched, Sign, SignStep, Signed, Answer, Idle
  <2>2. QED
    BY <2>1
<1>4. QED
  BY <1>1, <1>2, <1>3

\* Of the program's steps, those of the recovery of names are the scan's.
LEMMA NamesInvIsInductive == SessionInv /\ NamesInv /\ [CliNext]_cliVars => NamesInv'
<1> SUFFICES ASSUME SessionInv, NamesInv, [CliNext]_cliVars PROVE NamesInv'
  OBVIOUS
<1>1. CASE CollectNames
  <2>1. G!Start(bin.go.data)
    BY <1>1 DEF CollectNames
  <2>2. bin.go.data \in Cells
    BY DEF SessionInv, FilesInv, File
  <2>3. QED
    BY <2>1, <2>2, StartNames
<1>2. CASE ScanNames
  BY <1>2, NextSectionKeeps, NoHeaderKeeps, TakeRunKeeps DEF ScanNames, G!Scan
<1>3. CASE ~CollectNames /\ ~ScanNames
  <2>1. UNCHANGED nameVars
    BY <1>3 DEF CliNext, cliVars, Arguments, InstallPlugin, OpenBinary, SymbolsAs, Create, Write, Chmod, DetectGarble, Analyse,
                NamesCollected, Compare, MatchStep, Matched, Sign, SignStep, Signed, Answer, Idle
  <2>2. QED
    BY <2>1, SameNames
<1>4. QED
  BY <1>1, <1>2, <1>3

\* And those of the signatures are compute_signatures', called with what a compiler wrote.
LEMMA SignInvIsInductive == SessionInv /\ SignInv /\ [CliNext]_cliVars => SignInv'
<1> SUFFICES ASSUME SessionInv, SignInv, [CliNext]_cliVars PROVE SignInv'
  OBVIOUS
<1>1. CASE Sign
  <2> DEFINE p == bin.go.program
             q == [p EXCEPT !.recovered = IF Fails({"types"}) THEN <<>> ELSE @,
                            !.links = IF Fails({"itabs"}) THEN <<>> ELSE @]
  <2>1. M!Start(q)
    BY <1>1 DEF Sign
  <2>2. Compiled(p)
    BY DEF SessionInv, FilesInv, File
  <2>3. Compiled(q)
    BY <2>2, SessionProgram
  <2> HIDE DEF q
  <2>4. QED
    BY <2>1, <2>3, SignStarts
<1>2. CASE SignStep
  BY <1>2, StepKeepsSigns DEF SignStep
<1>3. CASE ~Sign /\ ~SignStep
  <2>1. UNCHANGED methodVars
    BY <1>3 DEF CliNext, cliVars, Arguments, InstallPlugin, OpenBinary, SymbolsAs, Create, Write, Chmod, DetectGarble, Analyse,
                CollectNames, ScanNames, NamesCollected, Compare, MatchStep, Matched, Signed, Answer, Idle
  <2>2. QED
    BY <2>1, SameSigns
<1>4. QED
  BY <1>1, <1>2, <1>3

\* The matching, the scan for names, the signatures, and the session around them.
CliInv == SessionInv /\ DiffInv /\ NamesInv /\ SignInv

LEMMA BeginCliInv ==
  ASSUME NEW fs, NEW commands, Session(fs, commands)
  PROVE  Begin(fs, commands) => CliInv
<1>1. M!Init => SignInv
  BY DEF M!Init, SignInv
<1>2. QED
  BY <1>1, BeginSession, InitDiffInv, IdleNames DEF Begin, CliInv

LEMMA CliInvIsInductive == CliInv /\ [CliNext]_cliVars => CliInv'
  BY SessionInvIsInductive, SessionMatches, DiffInvIsInductive, NamesInvIsInductive, SignInvIsInductive DEF CliInv

LEMMA SessionRuns ==
  ASSUME NEW CONSTANT fs, NEW CONSTANT commands, Session(fs, commands)
  PROVE  Begin(fs, commands) /\ Runs => []CliInv /\ [][CliNext]_cliVars
<1>1. Begin(fs, commands) => CliInv
  BY BeginCliInv
<1>2. QED
  BY <1>1, CliInvIsInductive, PTL DEF Runs

\* In any session over files whose recovered functions are tables, a file waits to be written
\* only while one is written, a binary is held only while its command runs, no verdict ends a
\* command with the code of an indeterminate one, and only a rewriting command can panic.
THEOREM CliTypeCorrect ==
  ASSUME NEW CONSTANT fs, NEW CONSTANT commands, Session(fs, commands)
  PROVE  Begin(fs, commands) /\ Runs => []TypeOK
<1>1. CliInv => TypeOK
  BY DEF CliInv, SessionInv, StageInv, LogInv, RightEntry, TypeOK, Writing
<1>2. QED
  BY <1>1, SessionRuns, PTL

\* The report of --diff leaves no function of either build out, in any session.
THEOREM SessionAccounted ==
  ASSUME NEW CONSTANT fs, NEW CONSTANT commands, Session(fs, commands)
  PROVE  Begin(fs, commands) /\ Runs => []Accounted
<1>1. CliInv => Accounted
  BY InvAccounted DEF CliInv
<1>2. QED
  BY <1>1, SessionRuns, PTL

\* Every name of a table garble planted is recovered in any session, wherever the table lies in
\* the data sections and whatever lies around it, as long as nothing else there is as long a
\* climbing column (garble::recover_reflect_names).
THEOREM SessionNames ==
  ASSUME NEW CONSTANT fs, NEW CONSTANT commands, Session(fs, commands)
  PROVE  Begin(fs, commands) /\ Runs => []NamesRecovered
<1>1. CliInv => NamesRecovered
  <2>1. CliInv => bin.go.planted \in Table
    BY DEF CliInv, SessionInv, FilesInv, File
  <2>2. QED
    BY <2>1, ScannedRecovers DEF CliInv, NamesRecovered
<1>2. QED
  BY <1>1, SessionRuns, PTL

\* In any session over programs as a compiler writes them, with method tables and interfaces of
\* any number, whatever of them was recovered and in whatever order, and with no two interfaces
\* of a name: a signature shown for an address is one the program declares for the code there,
\* and every method whose table or interface was recovered and whose types all resolve has one
\* (compute_signatures).
THEOREM SessionSignatures ==
  ASSUME NEW CONSTANT fs, NEW CONSTANT commands, Session(fs, commands)
  PROVE  Begin(fs, commands) /\ Runs => []SignaturesExact
<1>1. CliInv => SignaturesExact
  BY SignedExactly DEF CliInv
<1>2. QED
  BY <1>1, SessionRuns, PTL

-----------------------------------------------------------------------------
(* The files of a session, as long as e_shnum can count the sections that as many rewrites add
   as there are commands. *)
Laid(f) == (f.container = "Elf" => ElfLaid(f)) /\ (f.container = "Pe" => PeLaid(f))
Room(f, rewrites) == f.container = "Elf" => f.shnum + 3 * rewrites < ShnumRange

Layouts(fs, commands) == \A p \in DOMAIN fs : Laid(fs[p]) /\ Room(fs[p], Len(commands))

\* The rewrites that may still be begun.
Left == IF at \in Writing THEN Len(script) - 1 ELSE Len(script)

LayInv ==
    /\ \A p \in DOMAIN files : Laid(files[p]) /\ Room(files[p], Left)
    /\ Laid(bin) /\ Room(bin, Len(script))
    /\ at \in Writing => Laid(image) /\ Room(image, Left) /\ R!ReadsBack(bin, FunctionsOf(bin), image)
    /\ at \in {"write", "chmod"} => OutPath(cmd) \in DOMAIN files
    /\ at = "chmod" => files[OutPath(cmd)] = image

LEMMA PlaceholdersLaid == \A r : Laid(NoFile) /\ Laid(Torn) /\ Room(NoFile, r) /\ Room(Torn, r)
  BY DEF Laid, Room, NoFile, Torn, Nothing

LEMMA RoomLeft ==
  ASSUME NEW f, Laid(f), NEW r \in Int, Room(f, r), NEW s \in Int, s <= r
  PROVE  Room(f, s)
<1>1. CASE f.container = "Elf"
  <2>1. f.shnum \in Nat /\ f.shnum + 3 * r < ShnumRange /\ ShnumRange \in Nat
    BY <1>1, FormatAssumption DEF Laid, Room, ElfLaid
  <2>2. f.shnum + 3 * s < ShnumRange
    BY <2>1
  <2>3. QED
    BY <2>2 DEF Room
<1>2. CASE f.container # "Elf"
  BY <1>2 DEF Room
<1>3. QED
  BY <1>1, <1>2

LEMMA ScriptLength ==
  ASSUME SessionInv
  PROVE  Len(script) \in Nat /\ (script # <<>> => Len(script) \in Nat \ {0} /\ Len(Tail(script)) = Len(script) - 1)
<1>1. PICK C : script \in Seq(C)
  BY DEF SessionInv, FilesInv, Scripted
<1>2. QED
  BY <1>1

LEMMA FunctionsNamed ==
  ASSUME NEW f, File(f)
  PROVE  Named(FunctionsOf(f))
<1> DEFINE fns == FunctionsOf(f)
           F == f.go.functions
<1>1. F \in Seq(Function)
  BY DEF File
<1>2. \A k \in DOMAIN F : F[k] \in Function
  BY <1>1, ElementFacts
<1>3. DOMAIN fns = DOMAIN F /\ fns = [k \in DOMAIN fns |-> fns[k]]
      /\ \A k \in DOMAIN F : fns[k].len = NameLen[F[k].name] /\ fns[k].address = F[k].address
  BY DEF FunctionsOf
<1>4. \A k \in DOMAIN F : NameLen[F[k].name] \in Nat /\ F[k].address \in Nat
  <2>1. ASSUME NEW e \in Function PROVE NameLen[e.name] \in Nat /\ e.address \in Nat
    BY FormatAssumption DEF Function
  <2>2. QED
    BY <1>2, <2>1
<1>5. IsList(F)
  BY <1>1 DEF IsList
<1> HIDE DEF fns, F
<1>6. IsList(fns)
  BY <1>3, <1>5, MappedList
<1>7. Named(fns)
  BY <1>3, <1>4, <1>6 DEF Named
<1>8. QED
  BY <1>7 DEF fns

\* What --symbols-as is about to write reads back.
LEMMA RewrittenReadsBack ==
  ASSUME File(bin), Laid(bin), NEW r \in Nat \ {0}, Room(bin, r), Rewritten.tag # "Refused", Rewritten.tag # "Panicked"
  PROVE  /\ Laid(Rewritten.file) /\ Room(Rewritten.file, r - 1)
         /\ R!ReadsBack(bin, FunctionsOf(bin), Rewritten.file)
<1> DEFINE fns == FunctionsOf(bin)
           g == Rewritten.file
<1>1. Named(fns)
  BY FunctionsNamed
<1>2. (cmd.target = "elf" /\ bin.container = "Elf") \/ (cmd.target = "pe" /\ bin.container = "Pe")
  BY WrittenFacts DEF Rewritten
<1>3. g.container = bin.container
  <2>1. Parses(bin)
    BY <1>2 DEF Parses
  <2>2. QED
    BY <2>1, RewrittenFacts
<1> HIDE DEF fns, g
<1>4. CASE cmd.target = "elf" /\ bin.container = "Elf"
  <2>1. Rewritten = R!write_symbols_as_elf(bin, fns)
    BY <1>4 DEF Rewritten, fns
  <2>2. ElfAccepted(bin) /\ g = R!ElfWithSymbols(bin, fns) /\ ~(bin.shstrndx >= bin.shnum)
    BY <2>1, ElfOutcome DEF g
  <2>3. ElfLaid(bin) /\ ElfTables(bin) /\ bin.shnum \in Nat /\ bin.shstrndx \in Nat
    BY <1>4, <2>2 DEF Laid, ElfLaid
  <2>4. bin.shnum + 3 * r < ShnumRange /\ ShnumRange \in Nat
    BY <1>4, FormatAssumption DEF Room
  <2>5. bin.shnum + 3 < ShnumRange /\ bin.shstrndx < bin.shnum
    BY <2>2, <2>3, <2>4
  <2>6. ElfLaid(g) /\ g.shnum = bin.shnum + 3 /\ R!Superset(bin, g) /\ R!ElfReadsBack(bin, fns, g)
    BY <1>1, <2>2, <2>3, <2>5, ElfRewritten
  <2>7. g.shnum + 3 * (r - 1) < ShnumRange
    BY <2>3, <2>4, <2>6
  <2>8. Laid(g) /\ Room(g, r - 1)
    BY <1>3, <1>4, <2>6, <2>7 DEF Laid, Room
  <2>9. R!ReadsBack(bin, fns, g)
    BY <1>4, <2>6 DEF R!ReadsBack
  <2>10. QED
    BY <2>8, <2>9 DEF fns, g
<1>5. CASE cmd.target = "pe" /\ bin.container = "Pe"
  <2>1. Rewritten = R!write_symbols_as_pe(bin, fns)
    BY <1>5 DEF Rewritten, fns
  <2>2. g = R!PeWithSymbols(bin, fns)
    BY <2>1, PeOutcome DEF g
  <2>3. PeLaid(g) /\ R!Superset(bin, g) /\ R!PeReadsBack(bin, fns, g)
    BY <1>1, <1>5, <2>2, PeRewritten DEF Laid
  <2>4. Laid(g) /\ Room(g, r - 1)
    BY <1>3, <1>5, <2>3 DEF Laid, Room
  <2>5. R!ReadsBack(bin, fns, g)
    BY <1>5, <2>3 DEF R!ReadsBack
  <2>6. QED
    BY <2>4, <2>5 DEF fns, g
<1>6. QED
  BY <1>2, <1>4, <1>5

\* A command ends, a binary is opened, or one that only reads goes on.
LEMMA ExitKeepsLay ==
  ASSUME SessionInv, LayInv, script # <<>>, NEW code, Exit(code)
  PROVE  LayInv'
<1>1. at' = "open" /\ bin' = NoFile /\ files' = files /\ script' = Tail(script)
  BY DEF Exit
<1>2. at' \notin Writing /\ at' \notin {"write", "chmod"} /\ Left' = Len(script')
  BY <1>1 DEF Left, Writing
<1>3. Left' \in Int /\ Left \in Int /\ Left' <= Left
  <2>1. Len(script) \in Nat /\ Len(Tail(script)) = Len(script) - 1
    BY ScriptLength
  <2>2. Left' = Len(script) - 1
    BY <1>1, <1>2, <2>1
  <2>3. Left \in {Len(script), Len(script) - 1}
    BY DEF Left
  <2>4. QED
    BY <2>1, <2>2, <2>3
<1>4. \A p \in DOMAIN files' : Laid(files'[p]) /\ Room(files'[p], Left')
  <2> DEFINE l == Left'
             m == Left
  <2>1. \A p \in DOMAIN files : Laid(files[p]) /\ Room(files[p], m)
    BY DEF LayInv
  <2>2. l \in Int /\ m \in Int /\ l <= m
    BY <1>3
  <2> HIDE DEF l, m
  <2>3. \A p \in DOMAIN files : Laid(files[p]) /\ Room(files[p], l)
    BY <2>1, <2>2, RoomLeft
  <2>4. QED
    BY <1>1, <2>3 DEF l
<1>5. Laid(bin') /\ Room(bin', Len(script'))
  BY <1>1, PlaceholdersLaid
<1>6. QED
  BY <1>1, <1>2, <1>4, <1>5 DEF LayInv

LEMMA OpenKeepsLay ==
  ASSUME SessionInv, LayInv, OpenBinary
  PROVE  LayInv'
<1>1. CASE cmd.binary \in DOMAIN files /\ Parses(files[cmd.binary])
  <2>1. /\ bin' = files[cmd.binary] /\ at = "open" /\ at' = "mode" /\ files' = files /\ script' = script
    BY <1>1 DEF OpenBinary
  <2>2. Left = Len(script) /\ Left' = Len(script) /\ at' \notin Writing
    BY <2>1 DEF Left, Writing
  <2>3. QED
    BY <1>1, <2>1, <2>2 DEF LayInv, Writing
<1>2. CASE ~(cmd.binary \in DOMAIN files /\ Parses(files[cmd.binary]))
  BY <1>2, ExitKeepsLay DEF OpenBinary
<1>3. QED
  BY <1>1, <1>2

LEMMA ReadingKeepsLay ==
  ASSUME LayInv, files' = files, script' = script, bin' = bin, at \notin Writing, at' \notin Writing
  PROVE  LayInv'
<1>1. Left' = Left
  BY DEF Left
<1>2. at' \notin {"write", "chmod"}
  BY DEF Writing
<1>3. QED
  BY <1>1, <1>2 DEF LayInv

\* The steps that write.
LEMMA SymbolsKeepLay ==
  ASSUME SessionInv, LayInv, SymbolsAs
  PROVE  LayInv'
<1>1. at = "mode" /\ script # <<>> /\ File(bin)
  BY HeldFacts DEF SymbolsAs
<1>2. CASE Exit(1) \/ Exit(101)
  BY <1>1, <1>2, ExitKeepsLay
<1>3. CASE ~Exit(1) /\ ~Exit(101)
  <2>1. /\ Rewritten.tag # "Refused" /\ Rewritten.tag # "Panicked" /\ image' = Rewritten.file
        /\ at' = "create" /\ files' = files /\ script' = script /\ bin' = bin
    BY <1>3 DEF SymbolsAs
  <2> DEFINE n == Len(script)
  <2>2. n \in Nat \ {0} /\ Left = n /\ Left' = n - 1
    BY <1>1, <2>1, ScriptLength DEF Left, Writing
  <2>3. /\ \A p \in DOMAIN files : Laid(files[p]) /\ Room(files[p], n)
        /\ Laid(bin) /\ Room(bin, n)
    BY <2>2 DEF LayInv
  <2> HIDE DEF n
  <2>4. \A p \in DOMAIN files : Laid(files[p]) /\ Room(files[p], n - 1)
    <3>1. n \in Int /\ n - 1 \in Int /\ n - 1 <= n
      BY <2>2
    <3>2. QED
      BY <2>3, <3>1, RoomLeft
  <2>5. Laid(image') /\ Room(image', n - 1) /\ R!ReadsBack(bin, FunctionsOf(bin), image')
    BY <1>1, <2>1, <2>2, <2>3, RewrittenReadsBack
  <2>6. FunctionsOf(bin') = FunctionsOf(bin) /\ Len(script') = n
    BY <2>1 DEF FunctionsOf, n
  <2>7. QED
    BY <2>1, <2>2, <2>3, <2>4, <2>5, <2>6 DEF LayInv
<1>4. QED
  BY <1>2, <1>3

LEMMA CreateKeepsLay ==
  ASSUME SessionInv, LayInv, Create
  PROVE  LayInv'
<1>1. at = "create" /\ script # <<>> /\ at \in Writing
  BY HeldFacts DEF Create, Writing
<1>2. CASE Exit(1)
  BY <1>1, <1>2, ExitKeepsLay
<1>3. CASE ~Exit(1)
  <2>1. /\ files' = [p \in DOMAIN files \cup {OutPath(cmd)} |-> IF p = OutPath(cmd) THEN Torn ELSE files[p]]
        /\ at' = "write" /\ script' = script /\ bin' = bin /\ image' = image
    BY <1>3 DEF Create
  <2>2. Left' = Left /\ cmd' = cmd /\ FunctionsOf(bin') = FunctionsOf(bin)
    BY <1>1, <2>1 DEF Left, Writing, cmd, FunctionsOf
  <2>3. \A p \in DOMAIN files' : Laid(files'[p]) /\ Room(files'[p], Left)
    <3>1. ASSUME NEW p \in DOMAIN files \cup {OutPath(cmd)}
          PROVE  files'[p] = Torn \/ (p \in DOMAIN files /\ files'[p] = files[p])
      BY <2>1
    <3>2. QED
      BY <2>1, <3>1, PlaceholdersLaid DEF LayInv
  <2>4. OutPath(cmd)' \in DOMAIN files'
    BY <2>1, <2>2 DEF OutPath
  <2>5. QED
    BY <1>1, <2>1, <2>2, <2>3, <2>4 DEF LayInv
<1>4. QED
  BY <1>2, <1>3

LEMMA WriteKeepsLay ==
  ASSUME SessionInv, LayInv, Write
  PROVE  LayInv'
<1>1. at = "write" /\ script # <<>> /\ at \in Writing
  BY HeldFacts DEF Write, Writing
<1>2. CASE Exit(1)
  BY <1>1, <1>2, ExitKeepsLay
<1>3. CASE ~Exit(1)
  <2>1. /\ files' = [files EXCEPT ![OutPath(cmd)] = image]
        /\ at' = "chmod" /\ script' = script /\ bin' = bin /\ image' = image
    BY <1>3 DEF Write
  <2>2. Left' = Left /\ cmd' = cmd /\ FunctionsOf(bin') = FunctionsOf(bin) /\ OutPath(cmd)' = OutPath(cmd)
    BY <1>1, <2>1 DEF Left, Writing, cmd, FunctionsOf, OutPath
  <2>3. OutPath(cmd) \in DOMAIN files /\ Laid(image) /\ Room(image, Left)
    BY <1>1 DEF LayInv
  <2>4. DOMAIN files' = DOMAIN files /\ files'[OutPath(cmd)] = image
        /\ \A p \in DOMAIN files : files'[p] = image \/ files'[p] = files[p]
    BY <2>1, <2>3
  <2>5. \A p \in DOMAIN files' : Laid(files'[p]) /\ Room(files'[p], Left)
    BY <2>3, <2>4 DEF LayInv
  <2>6. QED
    BY <1>1, <2>1, <2>2, <2>3, <2>4, <2>5 DEF LayInv
<1>4. QED
  BY <1>2, <1>3

LEMMA LayInvIsInductive == SessionInv /\ LayInv /\ [CliNext]_cliVars => LayInv'
<1> SUFFICES ASSUME SessionInv, LayInv, [CliNext]_cliVars PROVE LayInv'
  OBVIOUS
<1>1. CASE UNCHANGED session
  BY <1>1 DEF session, LayInv, Left, cmd, FunctionsOf, OutPath
<1>2. CASE UNCHANGED cliVars
  BY <1>1, <1>2 DEF cliVars
<1>3. CASE ScanNames \/ MatchStep \/ SignStep
  BY <1>1, <1>3 DEF ScanNames, MatchStep, SignStep
<1>4. CASE CollectNames \/ NamesCollected \/ Compare \/ Matched \/ Sign \/ Signed
  <2>1. /\ files' = files /\ script' = script /\ bin' = bin
        /\ at \in Machines \cup {"ready"} /\ at' \in Machines \cup {"ready"}
    BY <1>4 DEF CollectNames, NamesCollected, Compare, Matched, Sign, Signed, Turn, Return, Busy, Machines
  <2>2. at \notin Writing /\ at' \notin Writing
    BY <2>1 DEF Writing, Machines
  <2>3. QED
    BY <2>1, <2>2, ReadingKeepsLay
<1>5. CASE Arguments \/ InstallPlugin
  BY <1>5, ExitKeepsLay DEF Arguments, InstallPlugin
<1>6. CASE Chmod
  <2>1. script # <<>>
    BY <1>6, HeldFacts DEF Chmod
  <2>2. QED
    BY <1>6, <2>1, ExitKeepsLay DEF Chmod
<1>7. CASE DetectGarble \/ Answer
  <2>1. script # <<>>
    BY <1>7, HeldFacts DEF DetectGarble, Answer
  <2>2. PICK code : Exit(code)
    BY <1>7 DEF DetectGarble, Answer
  <2>3. QED
    BY <2>1, <2>2, ExitKeepsLay
<1>8. CASE Analyse
  <2>1. at = "mode" /\ script # <<>>
    BY <1>8, HeldFacts DEF Analyse
  <2>2. CASE Exit(1)
    BY <2>1, <2>2, ExitKeepsLay
  <2>3. CASE ~Exit(1)
    <3>1. at' = "ready" /\ files' = files /\ script' = script /\ bin' = bin
      BY <1>8, <2>3 DEF Analyse
    <3>2. at \notin Writing /\ at' \notin Writing
      BY <2>1, <3>1 DEF Writing
    <3>3. QED
      BY <3>1, <3>2, ReadingKeepsLay
  <2>4. QED
    BY <2>2, <2>3
<1>9. QED
  BY <1>2, <1>3, <1>4, <1>5, <1>6, <1>7, <1>8, OpenKeepsLay, SymbolsKeepLay, CreateKeepsLay, WriteKeepsLay DEF CliNext

\* In any session over files as linkers lay them out, with sections no more than e_shnum can
\* still count after every rewrite: a rewrite that ends well has left a file whose every old
\* section is as it was, and whose symbol table gives every recovered function, in order, its
\* name and a section of code, and its address, which in a PE file reads too high by exactly the
\* address of that section (PeAddresses); also over a rewritten file, or in place of its input
\* (write_symbols_as_elf, write_symbols_as_pe).
THEOREM SessionRewrites ==
  ASSUME NEW CONSTANT fs, NEW CONSTANT commands, Session(fs, commands), Layouts(fs, commands)
  PROVE  Begin(fs, commands) /\ Runs => []RoundTrip
<1>1. Begin(fs, commands) => LayInv
  <2>1. Begin(fs, commands) => files = fs /\ script = commands /\ bin = NoFile /\ at = "open"
    BY DEF Begin
  <2>2. QED
    BY <2>1, PlaceholdersLaid DEF LayInv, Layouts, Left, Writing
<1>2. CliInv /\ LayInv /\ [CliNext]_cliVars => LayInv'
  BY LayInvIsInductive DEF CliInv
<1>3. LayInv => RoundTrip
  BY DEF LayInv, RoundTrip, Writing
<1>4. QED
  BY <1>1, <1>2, <1>3, SessionRuns, PTL

\* In any session, each --diff computes the matching that has no order.
THEOREM SessionImplements ==
  ASSUME NEW CONSTANT fs, NEW CONSTANT commands, Session(fs, commands)
  PROVE  Begin(fs, commands) /\ Runs => ImplementsMatching
<1>1. Begin(fs, commands) => Abstract!Init
  BY InitImplements DEF Begin
<1>2. CliInv /\ [CliNext]_cliVars => [Abstract!Next]_Abstract!vars
  BY SessionMatches, NextImplements DEF CliInv
<1>3. QED
  BY <1>1, <1>2, SessionRuns, PTL DEF ImplementsMatching, Abstract!Spec

\* A step of the program changes no file but the one a confirmed rewrite is told to write.
KeepsFiles ==
    \A p \in DOMAIN files \cup DOMAIN files' :
      (p \notin DOMAIN files \/ files'[p] # files[p]) =>
        /\ Mode(cmd) = "symbols_as"
        /\ bin.container \in {"Elf", "Pe"} /\ image.container = bin.container
        /\ p = cmd.binary => cmd.output = p \/ (cmd.in_place /\ cmd.yes)
        /\ p # cmd.binary => p = cmd.output \/ p = Sibling[cmd.binary]

LEMMA StepKeepsFiles == SessionInv /\ [CliNext]_cliVars => [KeepsFiles]_cliVars
<1> SUFFICES ASSUME SessionInv, CliNext PROVE KeepsFiles \/ UNCHANGED cliVars
  OBVIOUS
<1>1. CASE files' = files
  BY <1>1 DEF KeepsFiles
<1>2. CASE files' # files
  <2>1. (Create \/ Write) /\ ~Exit(1)
    BY <1>2 DEF CliNext, Arguments, InstallPlugin, OpenBinary, SymbolsAs, Create, Write, Chmod, DetectGarble, Analyse, CollectNames,
                ScanNames, NamesCollected, Compare, MatchStep, Matched, Sign, SignStep, Signed, Answer, Turn, Return,
                Exit, session
  <2>2. /\ Mode(cmd) = "symbols_as" /\ ~Unconfirmed(cmd) /\ image.container = bin.container
        /\ bin.container \in {"Elf", "Pe"} /\ at # "open"
    BY <2>1 DEF SessionInv, StageInv, Create, Write, Writing
  <2>3. Sibling[cmd.binary] # cmd.binary
    BY <2>2, HeldFacts, SiblingAssumption
  <2>4. \A p \in DOMAIN files \cup DOMAIN files' : (p \notin DOMAIN files \/ files'[p] # files[p]) => p = OutPath(cmd)
    <3>1. CASE files' = [p \in DOMAIN files \cup {OutPath(cmd)} |-> IF p = OutPath(cmd) THEN Torn ELSE files[p]]
      BY <3>1
    <3>2. CASE files' = [files EXCEPT ![OutPath(cmd)] = image]
      BY <3>2
    <3>3. QED
      BY <2>1, <3>1, <3>2 DEF Create, Write
  <2>5. /\ OutPath(cmd) = cmd.binary => cmd.output = OutPath(cmd) \/ (cmd.in_place /\ cmd.yes)
        /\ OutPath(cmd) # cmd.binary => OutPath(cmd) = cmd.output \/ OutPath(cmd) = Sibling[cmd.binary]
    BY <2>2, <2>3 DEF OutPath, Unconfirmed
  <2>6. QED
    BY <2>2, <2>4, <2>5 DEF KeepsFiles
<1>3. QED
  BY <1>1, <1>2

\* In any session, no file changes but the one a rewriting command is told to write, and the
\* input only when --output names it or --in-place was confirmed.
THEOREM FilesSafe ==
  ASSUME NEW CONSTANT fs, NEW CONSTANT commands, Session(fs, commands)
  PROVE  Begin(fs, commands) /\ Runs => FilesKept
<1>1. CliInv /\ [CliNext]_cliVars => [KeepsFiles]_cliVars
  BY StepKeepsFiles DEF CliInv
<1>2. FilesKept <=> [][KeepsFiles]_cliVars
  BY DEF FilesKept, KeepsFiles
<1>3. QED
  BY <1>1, <1>2, SessionRuns, PTL

\* Two votes of four.
LEMMA TwoOfFour ==
  ASSUME NEW S, S \subseteq 1 .. 4, 2 \in S, 3 \in S
  PROVE  Cardinality(S) \in Nat /\ Cardinality(S) >= 2
<1> DEFINE I == 1 .. 4
           A == {2}
           B == A \cup {3}
<1>1. IsFiniteSet(I)
  <2>1. \A a, b \in Int : IsFiniteSet(a .. b)
    BY FS_Interval
  <2> DEFINE a == 1
             b == 4
  <2>2. a \in Int /\ b \in Int /\ I = a .. b
    OBVIOUS
  <2> HIDE DEF I, a, b
  <2>3. QED
    BY <2>1, <2>2
<1>2. S \in SUBSET I /\ 3 \notin A /\ B \in SUBSET S
  OBVIOUS
<1>3. IsFiniteSet(A) /\ Cardinality(A) = 1
  <2>1. \A x : IsFiniteSet({x}) /\ Cardinality({x}) = 1
    BY FS_Singleton
  <2>2. QED
    BY <2>1
<1> HIDE DEF I, A
<1>4. IsFiniteSet(B) /\ Cardinality(B) = 2
  <2>1. \A x : IsFiniteSet(A \cup {x}) /\ Cardinality(A \cup {x}) = IF x \in A THEN Cardinality(A) ELSE Cardinality(A) + 1
    BY <1>3, FS_AddElement
  <2>2. QED
    BY <1>2, <1>3, <2>1
<1> HIDE DEF B
<1>5. IsFiniteSet(S)
  BY <1>1, <1>2, FS_Subset
<1>6. Cardinality(B) <= Cardinality(S) /\ Cardinality(S) \in Nat
  BY <1>2, <1>5, FS_Subset, FS_CardinalityType
<1>7. QED
  BY <1>4, <1>6

\* What the structural verdict counts as obfuscated, the fused one does.
LEMMA StructuralAgrees ==
  ASSUME NEW names, NEW version, NEW official, G!report_verdict(G!detect_garble(names, version, official))
  PROVE  G!assess(names, version, official).verdict = "Garbled"
<1> DEFINE r == G!detect_garble(names, version, official)
           votes == <<r.magic_rewritten, r.version_overwritten, G!HashedRatio(r), G!detect(names).is_garbled>>
           S == {k \in 1 .. 4 : votes[k]}
           fired == G!Cardinality(S)
           a == G!assess(names, version, official)
<1>1. a = IF r.magic_rewritten THEN G!Assessment("Garbled", 100)
          ELSE IF fired >= 2
          THEN G!Assessment("Garbled", IF fired = 2 THEN 75 ELSE IF fired = 3 THEN 90 ELSE 95)
          ELSE IF (IF r.evaluated THEN 4 ELSE 3) < 2 THEN G!Assessment("Indeterminate", 0)
          ELSE G!Assessment("Clean", 100 - 20 * fired)
  BY DEF G!assess
<1>2. r.magic_rewritten \/ (r.version_overwritten /\ G!HashedRatio(r))
  BY DEF G!report_verdict
<1>3. r.version_overwritten /\ G!HashedRatio(r) => fired >= 2
  <2> SUFFICES ASSUME r.version_overwritten, G!HashedRatio(r) PROVE fired >= 2
    OBVIOUS
  <2>1. 2 \in S /\ 3 \in S /\ S \subseteq 1 .. 4
    <3>1. votes[2] /\ votes[3]
      <4> DEFINE x == r.magic_rewritten
                 y == r.version_overwritten
                 z == G!HashedRatio(r)
                 w == G!detect(names).is_garbled
      <4> HIDE DEF x, y, z, w
      <4>1. votes[2] = y /\ votes[3] = z
        BY DEF x, y, z, w
      <4>2. QED
        BY <4>1 DEF y, z
    <3> HIDE DEF votes
    <3>2. QED
      BY <3>1
  <2> HIDE DEF S
  <2>2. QED
    BY <2>1, TwoOfFour, SameCardinality
<1> HIDE DEF a, fired, r
<1>4. \A c : G!Assessment("Garbled", c).verdict = "Garbled"
  BY DEF G!Assessment
<1>5. QED
  BY <1>1, <1>2, <1>3, <1>4 DEF a, r

\* In any session, the warning of --info and --buildinfo and the verdict of --detect-garble
\* agree about the same binary, and the structural verdict is never more than either.
THEOREM VerdictsSame ==
  ASSUME NEW CONSTANT fs, NEW CONSTANT commands, Session(fs, commands)
  PROVE  Begin(fs, commands) /\ Runs => []VerdictsAgree
<1>1. CliInv => VerdictsAgree
  <2> SUFFICES ASSUME CliInv PROVE VerdictsAgree
    OBVIOUS
  <2>1. \A k \in DOMAIN log : RightEntry(log[k])
    BY DEF CliInv, SessionInv, LogInv
  <2>2. ASSUME NEW j \in DOMAIN log, NEW k \in DOMAIN log,
               log[j].mode = "detect_garble", log[j].format \in {"text", "json"},
               log[k].mode \in {"info", "buildinfo"}, ~log[k].quiet, log[j].go = log[k].go
        PROVE  log[k].warned = (log[j].exit = 0)
    <3>1. log[k].warned <=> log[j].exit = 0
      BY <2>1, <2>2 DEF RightEntry
    <3>2. log[k].warned \in BOOLEAN
      BY <2>1 DEF RightEntry
    <3>3. QED
      BY <3>1, <3>2
  <2>3. ASSUME G!report_verdict(Structural) PROVE G!Warns(Assessed)
    <3>1. Assessed.verdict = "Garbled"
      BY <2>3, StructuralAgrees DEF Structural, Assessed
    <3>2. QED
      BY <3>1, AssessedFacts, VerdictFacts DEF Obfuscated
  <2>4. QED
    BY <2>2, <2>3 DEF VerdictsAgree
<1>2. QED
  BY <1>1, SessionRuns, PTL
=============================================================================
