------------------------------ MODULE InlineWalk ------------------------------
(***************************************************************************)
(* The inline-stack walk of lookup_inline (src/src/pclntab/mod.rs), next   *)
(* to decode_inline_tree (src/src/inline/mod.rs), which reads the same     *)
(* FUNCDATA_InlTree array of the same function.                            *)
(*                                                                         *)
(* The walk starts at the index the PCDATA_InlTreeIndex stream holds for   *)
(* the query offset, and follows parentPc: the parent is the index the     *)
(* stream holds at that offset.  Nothing in the walk checks the tree; it   *)
(* is bounded by MAX_INLINE_DEPTH and MAX_INLTREE_INDEX only.              *)
(***************************************************************************)
EXTENDS PcValue, FiniteSets

CONSTANTS
    Streams,     \* PCDATA_InlTreeIndex streams to consider
    Trees,       \* inline-tree arrays: sequences of parentPc values
    Sizes,       \* function sizes
    Offsets,     \* query offsets
    MaxDepth,    \* MAX_INLINE_DEPTH, 32 in the code
    MaxIndex,    \* MAX_INLTREE_INDEX and MAX_INLINE_ENTRIES, both 65_536
    Quantum      \* the pclntab header's minLC: 1 on amd64, 4 on arm64

\* A record's pc delta and a function's size are u32, a parentPc is a signed number.
ASSUME WalkAssumption ==
    /\ MaxDepth \in Nat
    /\ MaxIndex \in Nat
    /\ Quantum \in {1, 4}
    /\ Streams \subseteq Seq([dv : Int, dpc : 0 .. Wrap - 1])
    /\ Trees \subseteq Seq(-Wrap .. Wrap - 1)
    /\ Sizes \subseteq 0 .. Wrap - 1
    /\ Offsets \subseteq Nat

VARIABLES
    stream, tree, size, off,   \* the function's data and the query
    curIdx,                    \* current_idx
    curOff,                    \* current_pc_off
    frames,                    \* inline-tree indices of the frames pushed so far
    done                       \* physical frame pushed

input == <<stream, tree, size, off>>
walkVars  == <<stream, tree, size, off, curIdx, curOff, frames, done>>

\* Entry i of the array; read_at_addr fails past the mapped bytes.
Mapped(i) == i + 1 \in DOMAIN tree
parentPc(i) == tree[i + 1]

\* A function without pcdata slot 2 is one with the empty stream, one without
\* funcdata slot 3 one with the empty tree: both leave the physical frame alone.

\* Mutant of n_entries: the highest index is taken for the length.
n_entries_short(s, sz) == Min({max_pcvalue(s, sz), MaxIndex})

\* decode_inline_tree: max index + 1 entries, capped, fewer when the bytes end.
n_entries(s, sz) == Min({max_pcvalue(s, sz) + 1, MaxIndex})

Decoded == {i \in 0 .. n_entries(stream, size) - 1 : \A j \in 0 .. i : Mapped(j)}

\* It refuses the whole tree when a parentPc is neither -1 nor inside the function.
DecodeRefused ==
    \E i \in Decoded : parentPc(i) # -1 /\ parentPc(i) \notin 0 .. size - 1

WalkInit ==
    /\ stream \in Streams
    /\ tree \in Trees
    /\ size \in Sizes
    /\ off \in Offsets
    /\ off < size
    /\ curOff = off
    /\ curIdx = pcvalue_at(stream, off)
    /\ frames = <<>>
    /\ done = FALSE

\* Mutants of Walking: the depth bound dropped, and an off-by-one at the index.
WalkingUnbounded == ~done /\ curIdx >= 0 /\ curIdx <= MaxIndex /\ Mapped(curIdx)
WalkingSkipsRoot ==
    ~done /\ curIdx > 0 /\ Len(frames) < MaxDepth /\ curIdx <= MaxIndex /\ Mapped(curIdx)

Walking ==
    /\ ~done
    /\ curIdx >= 0
    /\ Len(frames) < MaxDepth
    /\ curIdx <= MaxIndex
    /\ Mapped(curIdx)

\* parent_pc as u32: -1 becomes the largest offset.
AsU32(x) == IF x < 0 THEN x + Wrap ELSE x

\* One inlined frame, then on to the index at its call site.
Walk ==
    /\ Walking
    /\ frames' = Append(frames, curIdx)
    /\ curOff' = AsU32(parentPc(curIdx))
    /\ curIdx' = pcvalue_at(stream, curOff')
    /\ UNCHANGED <<input, done>>

\* Mutant of Finish: an entry that cannot be read is retried, not given up on.
FinishAtRootOnly ==
    /\ ~done
    /\ curIdx < 0
    /\ done' = TRUE
    /\ UNCHANGED <<input, curIdx, curOff, frames>>

\* Out of the tree, too deep, past the cap, or unmapped: the physical frame closes.
Finish ==
    /\ ~done
    /\ ~Walking
    /\ done' = TRUE
    /\ UNCHANGED <<input, curIdx, curOff, frames>>

WalkNext == Walk \/ Finish

WalkSpec == WalkInit /\ [][WalkNext]_walkVars /\ WF_walkVars(WalkNext)

-----------------------------------------------------------------------------
\* The runtime's reading of the same data: the index at an offset, the parent of
\* an index, and the chain of indices from an offset outwards.
RuntimeIndex(o) == RuntimeValueAt(stream, o, Quantum)

RuntimeParent(i) == IF parentPc(i) = -1 THEN -1 ELSE RuntimeIndex(parentPc(i))

Outward ==
    LET chain[k \in 0 .. Len(tree)] ==
          IF k = 0 THEN RuntimeIndex(off)
          ELSE IF chain[k - 1] = -1 THEN -1 ELSE RuntimeParent(chain[k - 1])
    IN chain

RuntimeStack ==
    [k \in 1 .. Cardinality({k \in 0 .. Len(tree) : Outward[k] # -1}) |-> Outward[k - 1]]

\* What the Go compiler emits: a well-formed stream that covers the function, one
\* entry per index it uses, call sites inside the function, parents before their
\* children, so no index is its own ancestor.
CompilerMade ==
    /\ WellFormedStream(stream)
    /\ RunEnd(stream, Quantum)[Len(stream)] = size
    /\ \A k \in DOMAIN stream :
         ValueAfter(stream)[k] \in -1 .. Min({Len(tree), MaxIndex}) - 1
    /\ \A i \in 0 .. Len(tree) - 1 :
         /\ parentPc(i) \in -1 .. size - 1
         /\ RuntimeParent(i) < i

-----------------------------------------------------------------------------
WalkTypeOK ==
    /\ stream \in Seq([dv : Int, dpc : 0 .. Wrap - 1])
    /\ tree \in Seq(-Wrap .. Wrap - 1)
    /\ size \in 0 .. Wrap - 1
    /\ off \in Nat
    /\ curIdx \in Int
    /\ curOff \in 0 .. Wrap - 1
    /\ frames \in Seq(0 .. Len(tree) - 1)
    /\ Len(frames) <= MaxDepth
    /\ done \in BOOLEAN

\* The stack lookup_inline reports is the runtime's, cut at MAX_INLINE_DEPTH.
StackMatchesRuntime ==
    done /\ CompilerMade =>
      frames = SubSeq(RuntimeStack, 1, Min({MaxDepth, Len(RuntimeStack)}))

\* lookup_inline walks only entries decode_inline_tree also returns, when that
\* one accepts the tree: every inlined frame shown is in the call graph.  The
\* caps differ by one: the walk still admits the index MAX_INLTREE_INDEX itself.
WalkStaysInTree ==
    ~DecodeRefused =>
      \A k \in DOMAIN frames : frames[k] \in Decoded \/ frames[k] = MaxIndex

\* decode_inline_tree refuses nothing the compiler made and loses no entry the
\* stream can name inside the function.
DecodeKeepsCompilerTrees ==
    CompilerMade =>
      /\ ~DecodeRefused
      /\ \A o \in 0 .. size - 1 : RuntimeIndex(o) # -1 => RuntimeIndex(o) \in Decoded

\* The two entry-line readers agree wherever first_pcvalue answers at all.
EntryReadersAgree ==
    WellFormedStream(stream) =>
      \A f \in first_pcvalue(stream) : pcvalue_at(stream, 0) = f

\* The readers of one stream agree on it: the tree length taken from its largest index
\* keeps what a lookup at one PC can name, and the entry-line readers give one value
\* (max_pcvalue, pcvalue_at, first_pcvalue).
StreamReadersAgree == DecodeKeepsCompilerTrees /\ EntryReadersAgree

\* The readers of a tree and of its pc-value streams agree about which entries there are:
\* lookup_inline, decode_inline_tree, and the three readers of one stream.
ReadersAgree == WalkStaysInTree /\ StreamReadersAgree

\* "each record advances both `value` ... and `pc` (by pc_delta * quantum)"
\* (pclntab/mod.rs:832): on what the compiler emits, pcvalue_at finds the value
\* that format gives every offset of the function.
ReaderFollowsFormat ==
    CompilerMade =>
      \A o \in 0 .. size - 1 : pcvalue_at(stream, o) = RuntimeIndex(o)

\* The walk ends on every tree, a cyclic one included.
WalkEnds == <>done
=============================================================================
