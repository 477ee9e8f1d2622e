------------------------------- MODULE Functab -------------------------------
(***************************************************************************)
(* Resolving a PC against the Go function table (src/src/pclntab/mod.rs):  *)
(*                                                                         *)
(*   - lookup         binary search over the entry PCs, then the check     *)
(*                    that the PC is still inside the function found;      *)
(*   - lookup_inline  calls lookup, then searches the same table AGAIN,    *)
(*                    over 32-bit text offsets, to find the _func record   *)
(*                    whose inline tree it will walk;                      *)
(*   - functions      the whole-table listing the other commands use.      *)
(*                                                                         *)
(* The table is the one a file can hold: nfunc is what the header claims,  *)
(* avail what the bytes can actually hold (the sentinel included), the     *)
(* entries are in any order, and a _func record may lie outside the data.  *)
(***************************************************************************)
EXTENDS Integers

CONSTANTS
    MaxFuncs,   \* bound on the header's nfunc and on the entries in the file
    Top,        \* u64::MAX, the end a function gets when no entry follows
    OffMod      \* 2^32: text offsets are u32, in both the table and the query

ASSUME BoundsAssumption ==
    /\ MaxFuncs \in Nat
    /\ Top \in Nat
    /\ OffMod \in Nat \ {0}

Address    == 0 .. Top
Index      == 0 .. MaxFuncs
NoFunction == -1
Layouts    == {"modern", "pre118"}
Phases     == {"search", "answered", "relocate", "relocated"}

VARIABLES
    nfunc,      \* header field, honoured as it stands by both searches
    avail,      \* functab entries the bytes can hold
    entry,      \* entry PC of each of those
    decodable,  \* entries whose _func record read_function can decode
    layout,     \* 1.18+ or 1.16/1.17 encoding
    textStart,  \* base of the 1.18+ text offsets
    gofunc,     \* was with_gofunc called?
    pc,         \* the query
    lo, hi,     \* the interval of the running search
    phase,
    answer,     \* functab index lookup resolved to
    treeOf      \* functab index whose inline tree lookup_inline will read

table == <<nfunc, avail, entry, decodable, layout, textStart, gofunc, pc>>
vars  == <<nfunc, avail, entry, decodable, layout, textStart, gofunc, pc,
           lo, hi, phase, answer, treeOf>>

-----------------------------------------------------------------------------
\* functab_addr: None past the end of the bytes.
Readable(i) == i \in 0 .. avail - 1

\* The span the code gives function i: [entry[i], entry[i+1]), to u64::MAX when
\* the next entry cannot be read.
NextAddr(i) == IF Readable(i + 1) THEN entry[i + 1] ELSE Top

Spans(i) == entry[i] <= pc /\ pc < NextAddr(i)

\* pc - text_start and the table's own offsets, both truncated to u32.
QueryOffset    == (pc - textStart) % OffMod
TextOffset(i)  == (entry[i] - textStart) % OffMod

\* functions(): refuses a header that claims more entries than the bytes hold
\* (one more is needed for the sentinel), else lists what it can decode.
ListingRefused == nfunc > avail - 1
Listing        == {i \in 0 .. nfunc - 1 : i \in decodable}

Sorted == \A i \in 0 .. avail - 1, j \in 0 .. avail - 1 :
             i < j => entry[i] <= entry[j]

\* In 1.18+ an entry is text_start plus a u32.
Encodable == layout = "modern" =>
               \A i \in 0 .. avail - 1 : entry[i] - textStart \in 0 .. OffMod - 1

-----------------------------------------------------------------------------
Init ==
    /\ nfunc \in Index
    /\ avail \in 0 .. MaxFuncs + 1
    /\ entry \in [0 .. avail - 1 -> Address]
    /\ decodable \in SUBSET (0 .. avail - 1)
    /\ layout \in Layouts
    /\ textStart \in Address
    /\ Encodable
    /\ gofunc \in BOOLEAN
    /\ pc \in Address
    /\ lo = 0
    /\ hi = nfunc
    /\ phase = "search"
    /\ answer = NoFunction
    /\ treeOf = NoFunction

\* Mutant of Mid: rounding up, which probes past the interval.
MidUp == (lo + hi + 1) \div 2

Mid == (lo + hi) \div 2

\* Mutants of Probe: strict comparison, so a PC that is an entry is passed over;
\* and lo left at the probed entry, so an interval of one never closes.
ProbeStrict ==
    /\ phase = "search"
    /\ lo < hi
    /\ Readable(Mid)
    /\ IF entry[Mid] < pc THEN lo' = Mid + 1 /\ hi' = hi
                          ELSE lo' = lo /\ hi' = Mid
    /\ UNCHANGED <<table, phase, answer, treeOf>>

ProbeNoAdvance ==
    /\ phase = "search"
    /\ lo < hi
    /\ Readable(Mid)
    /\ IF entry[Mid] <= pc THEN lo' = Mid /\ hi' = hi
                           ELSE lo' = lo /\ hi' = Mid
    /\ UNCHANGED <<table, phase, answer, treeOf>>

\* One turn of lookup's loop, when the probed entry can be read.
Probe ==
    /\ phase = "search"
    /\ lo < hi
    /\ Readable(Mid)
    /\ IF entry[Mid] <= pc THEN lo' = Mid + 1 /\ hi' = hi
                           ELSE lo' = lo /\ hi' = Mid
    /\ UNCHANGED <<table, phase, answer, treeOf>>

\* functab_addr(mid)? : an unreadable probe ends the whole lookup with None.
ProbeUnreadable ==
    /\ phase = "search"
    /\ lo < hi
    /\ ~Readable(Mid)
    /\ phase' = "answered"
    /\ UNCHANGED <<table, lo, hi, answer, treeOf>>

\* Mutant of Conclude: the check against the next entry is dropped.
ConcludeUnchecked ==
    /\ phase = "search"
    /\ lo >= hi
    /\ phase' = "answered"
    /\ answer' = IF lo # 0 /\ Readable(lo - 1) /\ lo - 1 \in decodable
                 THEN lo - 1 ELSE NoFunction
    /\ UNCHANGED <<table, lo, hi, treeOf>>

\* The search is over: None below the first entry, past the end of the function
\* found, or when its _func record does not decode; the function otherwise.
Conclude ==
    /\ phase = "search"
    /\ lo >= hi
    /\ phase' = "answered"
    /\ answer' = IF /\ lo # 0
                    /\ pc < NextAddr(lo - 1)
                    /\ Readable(lo - 1)
                    /\ lo - 1 \in decodable
                 THEN lo - 1
                 ELSE NoFunction
    /\ UNCHANGED <<table, lo, hi, treeOf>>

\* lookup_inline goes on only with a physical frame, the 1.18+ layout, a gofunc
\* base and a PC that is not below text_start.
Relocate ==
    /\ phase = "answered"
    /\ answer # NoFunction
    /\ layout = "modern"
    /\ gofunc
    /\ pc >= textStart
    /\ phase' = "relocate"
    /\ lo' = 0
    /\ hi' = nfunc
    /\ UNCHANGED <<table, answer, treeOf>>

\* Mutant of RelocateProbe: strict comparison, so an exact entry is passed over.
RelocateProbeStrict ==
    /\ phase = "relocate"
    /\ lo < hi
    /\ IF Readable(Mid) /\ TextOffset(Mid) < QueryOffset
       THEN lo' = Mid + 1 /\ hi' = hi
       ELSE lo' = lo /\ hi' = Mid
    /\ UNCHANGED <<table, phase, answer, treeOf>>

\* The second search compares u32 offsets; an unreadable probe moves hi down.
RelocateProbe ==
    /\ phase = "relocate"
    /\ lo < hi
    /\ IF Readable(Mid) /\ TextOffset(Mid) <= QueryOffset
       THEN lo' = Mid + 1 /\ hi' = hi
       ELSE lo' = lo /\ hi' = Mid
    /\ UNCHANGED <<table, phase, answer, treeOf>>

RelocateConclude ==
    /\ phase = "relocate"
    /\ lo >= hi
    /\ phase' = "relocated"
    /\ treeOf' = IF lo # 0 /\ Readable(lo - 1) THEN lo - 1 ELSE NoFunction
    /\ UNCHANGED <<table, lo, hi, answer>>

Next ==
    \/ Probe
    \/ ProbeUnreadable
    \/ Conclude
    \/ Relocate
    \/ RelocateProbe
    \/ RelocateConclude

\* The code is one sequential loop: it always takes its next step.
Spec == Init /\ [][Next]_vars /\ WF_vars(Next)

-----------------------------------------------------------------------------
\* Every variable stays in its domain; lo and hi stay inside the table.
TypeOK ==
    /\ nfunc \in Index
    /\ avail \in 0 .. MaxFuncs + 1
    /\ entry \in [0 .. avail - 1 -> Address]
    /\ decodable \in SUBSET (0 .. avail - 1)
    /\ layout \in Layouts
    /\ textStart \in Address
    /\ gofunc \in BOOLEAN
    /\ pc \in Address
    /\ lo \in 0 .. nfunc
    /\ hi \in 0 .. nfunc
    /\ lo <= hi
    /\ phase \in Phases
    /\ answer \in 0 .. nfunc - 1 \cup {NoFunction}
    /\ treeOf \in 0 .. nfunc - 1 \cup {NoFunction}

\* What lookup returns contains the PC, whatever the file holds: the entries may
\* be out of order, truncated, or fewer than the header claims.
AnswerContainsPc ==
    answer # NoFunction => Spans(answer) /\ answer \in decodable

\* On a table sorted as the Go linker sorts it, with nfunc entries present, None
\* means that no decodable function contains the PC.
NoneIsRight ==
    /\ Sorted
    /\ nfunc <= avail
    /\ phase # "search"
    /\ answer = NoFunction
    => \A i \in 0 .. nfunc - 1 : Spans(i) => i \notin decodable

\* lookup is right about the PC: what it returns contains it, and on a sorted table that is
\* all there its None is not a function missed (Pclntab::lookup).
LookupRight == AnswerContainsPc /\ NoneIsRight

\* lookup and functions() agree: when the listing accepts a sorted table, lookup
\* returns exactly the listed function whose span holds the PC.
AgreesWithListing ==
    /\ Sorted
    /\ ~ListingRefused
    /\ phase # "search"
    => \A i \in 0 .. nfunc - 1 : (answer = i) <=> (i \in Listing /\ Spans(i))

\* Both searches of lookup_inline end at the same function, so the inline frames
\* and the physical frame are of one function. Needs the sentinel: without it
\* the last span runs to u64::MAX and the u32 truncation picks another entry.
SameFunction ==
    /\ Sorted
    /\ nfunc < avail
    /\ phase = "relocated"
    => treeOf = answer

\* "O(log n) per query" (mod.rs:356): each probe at least halves the interval.
IntervalHalves ==
    [][lo' - lo + hi - hi' # 0 /\ phase' = phase
         => 2 * (hi' - lo') <= hi - lo]_vars

\* Both searches end.
SearchesEnd ==
    /\ phase = "search" ~> phase = "answered"
    /\ phase = "relocate" ~> phase = "relocated"
=============================================================================
