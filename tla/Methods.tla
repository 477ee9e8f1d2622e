-------------------------------- MODULE Methods --------------------------------
(***************************************************************************)
(* compute_signatures (src/src/bin/unstrip.rs): from the recovered types   *)
(* and the itab links to a signature for each code address.  funcsig reads *)
(* the method tables, itabs the dispatch tables; both lists are merged and *)
(* each method's func type is rendered, the first writer of an address     *)
(* staying.  A name is <<stars, word, address>>: the leading asterisks,    *)
(* the rest, and for the placeholder of an unreadable name its address.    *)
(***************************************************************************)
EXTENDS Integers, Sequences

CONSTANTS
    Programs,       \* programs to consider
    MaxParams,      \* decode_func's cap on either count
    MaxIMethods,    \* decode_interface's
    MaxSlots,       \* read_interface_method_names'
    MaxMethods,     \* methods_for_type's
    Absent          \* an offset of -1

VARIABLES
    prog,       \* the program: its types, what was recovered of them, its itabs
    mi,         \* the place of the loop in hand
    methods,    \* RecoveredMethods, from the types and then from the itabs
    itabs,      \* what itabs::recover_all returns
    merged,
    sigs,       \* from entry pc to signature
    stage

vars == <<prog, mi, methods, itabs, merged, sigs, stage>>

NoSignatures == [pc \in {} |-> <<>>]
NoProgram == [types |-> <<>>, recovered |-> <<>>, links |-> <<>>, itab |-> <<>>, stray |-> <<>>]

Init ==
    /\ prog = NoProgram
    /\ mi = 1
    /\ methods = <<>>
    /\ itabs = <<>>
    /\ merged = <<>>
    /\ sigs = NoSignatures
    /\ stage = "idle"

\* A call of compute_signatures.
Start(p) ==
    /\ stage \in {"idle", "done"}
    /\ prog' = p
    /\ mi' = 1
    /\ methods' = <<>>
    /\ itabs' = <<>>
    /\ merged' = <<>>
    /\ sigs' = NoSignatures
    /\ stage' = "types"

-----------------------------------------------------------------------------
(* Reading a type descriptor (types::parse_type).                          *)
Mapped(a) == a \in DOMAIN prog.types

\* read_name: the stored string, or nothing.
Stored(a) == <<prog.types[a].stars, prog.types[a].word, 0>>
Readable(a) == Mapped(a) /\ prog.types[a].named

TypeName(a) ==
    IF ~Readable(a) THEN <<0, "type@", a>>
    ELSE IF prog.types[a].extra_star /\ Stored(a)[1] > 0
         THEN <<Stored(a)[1] - 1, Stored(a)[2], 0>>
         ELSE Stored(a)

NoData == [tag |-> "None"]
FuncData(ins, outs, variadic) == [tag |-> "Func", ins |-> ins, outs |-> outs, variadic |-> variadic]

\* Too many parameters leave the lists empty; an array that is not mapped fails.
decode_func(t) ==
    IF Len(t.ins) > MaxParams \/ Len(t.outs) > MaxParams THEN FuncData(<<>>, <<>>, t.variadic)
    ELSE IF t.whole \/ t.ins \o t.outs = <<>> THEN FuncData(t.ins, t.outs, t.variadic)
    ELSE NoData

decode_interface(t) ==
    IF Len(t.imethods) > MaxIMethods \/ ~t.whole THEN NoData
    ELSE [tag |-> "Interface", methods |-> t.imethods]

\* The kinds whose data a signature needs.
decode_kind(a) ==
    LET t == prog.types[a]
    IN  CASE t.kind = "Func" -> decode_func(t)
          [] t.kind = "Interface" -> decode_interface(t)
          [] OTHER -> NoData

-----------------------------------------------------------------------------
(* The method tables (funcsig::recover_methods_from_types).                *)
Primitive == {"Bool", "Int", "Int8", "Int16", "Int32", "Int64", "Uint", "Uint8", "Uint16", "Uint32",
              "Uint64", "Uintptr", "Float32", "Float64", "Complex64", "Complex128", "String",
              "UnsafePointer"}
Unsized == 999

\* Go's own layout: where a type's UncommonType begins behind its header.
abi_extension(kind) ==
    CASE kind \in Primitive -> 0
      [] kind \in {"Pointer", "Slice", "Func"} -> 8
      [] kind = "Chan" -> 16
      [] kind = "Array" -> 24
      [] kind \in {"Struct", "Interface"} -> 32
      [] OTHER -> 64

\* Mutant of kind_extension_size: the struct's slice header without its capacity.
extension_without_cap(kind) ==
    CASE kind \in Primitive -> 0
      [] kind \in {"Pointer", "Slice"} -> 8
      [] kind = "Chan" -> 16
      [] kind \in {"Array", "Struct"} -> 24
      [] kind = "Interface" -> 32
      [] OTHER -> Unsized

kind_extension_size(kind) ==
    CASE kind \in Primitive -> 0
      [] kind = "Func" -> 4
      [] kind \in {"Pointer", "Slice"} -> 8
      [] kind = "Chan" -> 16
      [] kind = "Array" -> 24
      [] kind \in {"Struct", "Interface"} -> 32
      [] OTHER -> Unsized

\* Read at another place than the compiler's, the table is whatever lies there.
TableRead(t) == IF kind_extension_size(t.kind) = abi_extension(t.kind) THEN t.table ELSE prog.stray

FromOffset(x) == IF x = Absent THEN 0 ELSE x

Method(receiver, name, mtyp, tfn) == [receiver |-> receiver, name |-> name, mtyp |-> mtyp, tfn |-> tfn]

methods_for_type(a) ==
    LET t == prog.types[a]
        read == TableRead(t)
    IN  IF \/ ~t.uncommon
           \/ kind_extension_size(t.kind) = Unsized
           \/ ~t.table_mapped
           \/ Len(read) > MaxMethods
        THEN <<>>
        ELSE [k \in DOMAIN read |->
                Method(TypeName(a), read[k].name, FromOffset(read[k].mtyp), FromOffset(read[k].tfn))]

FromType ==
    /\ stage = "types"
    /\ mi <= Len(prog.recovered)
    /\ methods' = methods \o methods_for_type(prog.recovered[mi])
    /\ mi' = mi + 1
    /\ UNCHANGED <<prog, itabs, merged, sigs, stage>>

TypesDone ==
    /\ stage = "types"
    /\ mi > Len(prog.recovered)
    /\ mi' = 1
    /\ stage' = "itablinks"
    /\ UNCHANGED <<prog, methods, itabs, merged, sigs>>

-----------------------------------------------------------------------------
(* The dispatch tables (itabs::recover_all).                               *)
read_type_name(a, placeholder) == IF Readable(a) THEN Stored(a) ELSE <<0, placeholder, a>>

\* read_interface_method_names: nothing when the address lies outside the types, or
\* the count is 0 or too high.
SlotNames(inter) ==
    IF Mapped(inter) /\ prog.types[inter].inside /\ prog.types[inter].whole
       /\ Len(prog.types[inter].imethods) <= MaxSlots
    THEN [s \in DOMAIN prog.types[inter].imethods |-> prog.types[inter].imethods[s].name]
    ELSE <<>>

\* The slots up to the first that is not mapped.
Populated(names, fun) ==
    LET n == IF Len(names) < Len(fun) THEN Len(names) ELSE Len(fun)
    IN  [s \in 1 .. n |-> [name |-> names[s], fn |-> fun[s]]]

parse_itab(a) ==
    LET tab == prog.itab[a]
        slots == Populated(SlotNames(tab.inter), tab.fun)
    IN  [addr |-> a,
         interface |-> read_type_name(tab.inter, "iface@"),
         concrete |-> read_type_name(tab.typ, "type@"),
         methods |-> slots,
         incomplete |-> IF slots = <<>> THEN tab.fun # <<>> /\ tab.fun[1] = 0
                        ELSE \E s \in DOMAIN slots : slots[s].fn = 0]

\* A zero link and an itab whose header is not mapped are passed over.
ParseItab ==
    /\ stage = "itablinks"
    /\ mi <= Len(prog.links)
    /\ itabs' = IF prog.links[mi] \in DOMAIN prog.itab THEN Append(itabs, parse_itab(prog.links[mi]))
                ELSE itabs
    /\ mi' = mi + 1
    /\ UNCHANGED <<prog, methods, merged, sigs, stage>>

LinksDone ==
    /\ stage = "itablinks"
    /\ mi > Len(prog.links)
    /\ mi' = 1
    /\ stage' = "itabs"
    /\ UNCHANGED <<prog, methods, itabs, merged, sigs>>

-----------------------------------------------------------------------------
(* Methods through interfaces (funcsig::recover_methods_from_itabs).       *)
Starred(n) == <<n[1] + 1, n[2], n[3]>>
Bare(n) == <<n[1] - 1, n[2], n[3]>>

\* iface_by_name: both spellings, the last interface of a name replacing the others.
Spelt(n) == {k \in DOMAIN prog.recovered :
               /\ prog.types[prog.recovered[k]].kind = "Interface"
               /\ n \in {TypeName(prog.recovered[k]), Starred(TypeName(prog.recovered[k]))}}
LastOf(K) == CHOOSE k \in K : \A m \in K : m <= k

Found(n) == Spelt(n) # {} \/ (n[1] > 0 /\ Spelt(Bare(n)) # {})
Interface(n) == prog.recovered[LastOf(IF Spelt(n) # {} THEN Spelt(n) ELSE Spelt(Bare(n)))]

\* Slot by slot; an empty slot and one the declaration does not have are left out.
FromSlots(it, decl) ==
    LET upTo[n \in 0 .. Len(it.methods)] ==
          IF n = 0 THEN <<>>
          ELSE IF it.methods[n].fn # 0 /\ n \in DOMAIN decl
          THEN Append(upTo[n - 1], Method(it.concrete, it.methods[n].name, decl[n].typ, it.methods[n].fn))
          ELSE upTo[n - 1]
    IN  upTo[Len(it.methods)]

Dispatched(it) ==
    IF ~Found(it.interface) \/ decode_kind(Interface(it.interface)).tag # "Interface" THEN <<>>
    ELSE FromSlots(it, decode_kind(Interface(it.interface)).methods)

FromItab ==
    /\ stage = "itabs"
    /\ mi <= Len(itabs)
    /\ methods' = methods \o Dispatched(itabs[mi])
    /\ mi' = mi + 1
    /\ UNCHANGED <<prog, itabs, merged, sigs, stage>>

ItabsDone ==
    /\ stage = "itabs"
    /\ mi > Len(itabs)
    /\ mi' = 1
    /\ stage' = "merge"
    /\ UNCHANGED <<prog, methods, itabs, merged, sigs>>

-----------------------------------------------------------------------------
(* merge_methods and signatures_by_pc.                                     *)
SameMethod(m, n) == m.receiver = n.receiver /\ m.name = n.name /\ m.tfn = n.tfn

Merge ==
    /\ stage = "merge"
    /\ mi <= Len(methods)
    /\ merged' = IF methods[mi].tfn # 0 /\ \E k \in DOMAIN merged : SameMethod(merged[k], methods[mi])
                 THEN merged ELSE Append(merged, methods[mi])
    /\ mi' = mi + 1
    /\ UNCHANGED <<prog, methods, itabs, sigs, stage>>

MergeDone ==
    /\ stage = "merge"
    /\ mi > Len(methods)
    /\ mi' = 1
    /\ stage' = "render"
    /\ UNCHANGED <<prog, methods, itabs, merged, sigs>>

render_type_name(a) == IF a = 0 THEN <<0, "<nil>", 0>> ELSE TypeName(a)

\* TypeCache::get: an address that is not 0 and parses, whether seeded or read now.
Cached(a) == a # 0 /\ Mapped(a)

Renders(m) == Cached(m.mtyp) /\ decode_kind(m.mtyp).tag = "Func"
render_method_signature(m) ==
    LET f == decode_kind(m.mtyp)
    IN  [ins |-> [k \in DOMAIN f.ins |-> render_type_name(f.ins[k])],
         outs |-> [k \in DOMAIN f.outs |-> render_type_name(f.outs[k])],
         variadic |-> f.variadic]

\* The first signature of an address stays.
Signed(m) ==
    IF m.tfn # 0 /\ m.tfn \notin DOMAIN sigs /\ Renders(m)
    THEN [pc \in DOMAIN sigs \cup {m.tfn} |-> IF pc = m.tfn THEN render_method_signature(m) ELSE sigs[pc]]
    ELSE sigs

Render ==
    /\ stage = "render"
    /\ mi <= Len(merged)
    /\ sigs' = Signed(merged[mi])
    /\ mi' = mi + 1
    /\ UNCHANGED <<prog, methods, itabs, merged, stage>>

Finish ==
    /\ stage = "render"
    /\ mi > Len(merged)
    /\ stage' = "done"
    /\ UNCHANGED <<prog, mi, methods, itabs, merged, sigs>>

Step ==
    \/ FromType
    \/ TypesDone
    \/ ParseItab
    \/ LinksDone
    \/ FromItab
    \/ ItabsDone
    \/ Merge
    \/ MergeDone
    \/ Render
    \/ Finish

Next == (stage = "idle" /\ \E p \in Programs : Start(p)) \/ Step

Spec == Init /\ [][Next]_vars

-----------------------------------------------------------------------------
(* What the program declares, followed by its own pointers.                *)
Recovered == {prog.recovered[k] : k \in DOMAIN prog.recovered}
Linked == {prog.links[k] : k \in DOMAIN prog.links} \cap DOMAIN prog.itab

\* The func types declared for the code at pc, in a method table or for a slot.
InTables(pc) ==
    {e.mtyp : e \in {f \in UNION {{prog.types[a].table[k] : k \in DOMAIN prog.types[a].table} :
                                    a \in Recovered} : f.tfn = pc}}
InSlots(pc) ==
    UNION {{prog.types[prog.itab[a].inter].imethods[s].typ :
              s \in {s \in DOMAIN prog.types[prog.itab[a].inter].imethods \cap DOMAIN prog.itab[a].fun :
                       prog.itab[a].fun[s] = pc}} :
             a \in {b \in Linked : Mapped(prog.itab[b].inter)}}

FuncType(a) == Mapped(a) /\ prog.types[a].kind = "Func"
Small(t) == Len(t.ins) <= MaxParams /\ Len(t.outs) <= MaxParams
Declaration(a) ==
    LET t == prog.types[a]
    IN  [ins |-> [k \in DOMAIN t.ins |-> render_type_name(t.ins[k])],
         outs |-> [k \in DOMAIN t.outs |-> render_type_name(t.outs[k])],
         variadic |-> t.variadic]

NamesSeparate ==
    \A a, b \in {c \in DOMAIN prog.types : prog.types[c].kind = "Interface"} :
      a # b => TypeName(a) # TypeName(b) /\ TypeName(a) # Starred(TypeName(b))

Methodless(kind) == \A a \in Recovered : prog.types[a].kind = kind => ~prog.types[a].uncommon

\* Types whose method table the reader claims to find.
Tabled(a) == prog.types[a].uncommon /\ prog.types[a].table_mapped
             /\ prog.types[a].kind # "Map" /\ Len(prog.types[a].table) <= MaxMethods
Mentioned(a) == {prog.types[a].ins[k] : k \in DOMAIN prog.types[a].ins}
                  \cup {prog.types[a].outs[k] : k \in DOMAIN prog.types[a].outs}
Resolves(a) == \A p \in Mentioned(a) : Cached(p)
Sound(a) == /\ FuncType(a)
            /\ prog.types[a].whole \/ prog.types[a].ins \o prog.types[a].outs = <<>>
            /\ Resolves(a)

\* A signature shown for an address is that of a func type the program itself declares for
\* the code there, through every table, slot and interface name on the way.  A type in it
\* that does not resolve is shown by its address, and does not withhold the signature.
SignaturesTrue ==
    \A pc \in DOMAIN sigs :
      \E a \in InTables(pc) \cup InSlots(pc) :
         FuncType(a) /\ (Small(prog.types[a]) => sigs[pc] = Declaration(a))

\* And no method whose table or interface was recovered goes without, unless its type does not
\* read, or mentions one that does not, or a table gives it such a type: merge_methods then
\* keeps that record and drops the slot's.
SignaturesComplete ==
    /\ \A a \in {b \in Recovered : Tabled(b)} :
         \A k \in DOMAIN prog.types[a].table :
           LET e == prog.types[a].table[k] IN e.tfn # Absent /\ Sound(e.mtyp) => e.tfn \in DOMAIN sigs
    /\ \A a \in {b \in Linked : /\ prog.itab[b].inter \in Recovered
                                /\ prog.types[prog.itab[b].inter].named
                                /\ SlotNames(prog.itab[b].inter) # <<>>} :
         \A s \in DOMAIN prog.itab[a].fun \cap DOMAIN SlotNames(prog.itab[a].inter) :
           LET fn == prog.itab[a].fun[s]
           IN  (/\ fn # 0
                /\ Sound(prog.types[prog.itab[a].inter].imethods[s].typ)
                /\ \A m \in InTables(fn) : Sound(m)) => fn \in DOMAIN sigs

\* Every method whose table or interface was recovered gets a signature, and only one its
\* program declares for it, where interface names are unique and no func type has methods.
SignaturesExact ==
    stage = "done" /\ NamesSeparate /\ Methodless("Func") => SignaturesTrue /\ SignaturesComplete

\* The module's doc: the UncommonType sits behind the header and the kind's extension, and
\* every type with the uncommon flag has its method table walked.
FuncMethodsFound ==
    stage = "done" /\ NamesSeparate => SignaturesComplete
=============================================================================
