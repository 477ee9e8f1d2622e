-------------------------------- MODULE Rewrite --------------------------------
(***************************************************************************)
(* rewrite (src/src/rewrite/mod.rs): the recovered functions as a real     *)
(* symbol table at the end of an ELF or PE file, with the header made to   *)
(* point at it.  A file is its header fields, its size, and what lies at   *)
(* which offset: section tables, string tables (from offset to word),      *)
(* symbol tables, code.  Sizes and alignments are those of the formats.    *)
(***************************************************************************)
EXTENDS Integers, Sequences, FiniteSetsExt

CONSTANTS
    ShnumRange,     \* the sections e_shnum can count (2^16)
    ValueRange      \* the addresses a COFF symbol's value can hold (2^32)

SHDR_SIZE == 64
SYM_SIZE == 24
COFF_SYMBOL_SIZE == 18
SHT_STRTAB == "STRTAB"
SHT_SYMTAB == "SYMTAB"

Refused == [tag |-> "Refused"]
Panicked == [tag |-> "Panicked"]
Written(f) == [tag |-> "Written", file |-> f]

At(f, o) == IF o \in DOMAIN f.at THEN f.at[o] ELSE <<>>

Align(n, to) == ((n + to - 1) \div to) * to

\* A file's bytes with something more at an offset.
Put(at, o, what) == [p \in DOMAIN at \cup {o} |-> IF p = o THEN what ELSE at[p]]

\* How long a string table is after each of some strings, one behind the other, of so many
\* bytes each; the first bytes of the table are something else.
Lengths(bytes, first) ==
    LET upTo[k \in 0 .. Len(bytes)] == IF k = 0 THEN first ELSE upTo[k - 1] + bytes[k] IN upTo

NameOffset(bytes, first, k) == Lengths(bytes, first)[k - 1]
TableSize(bytes, first) == Lengths(bytes, first)[Len(bytes)]

\* The names that take bytes of the table, each at its offset.
StringTable(fns, bytes, first) ==
    LET kept == {k \in DOMAIN fns : bytes[k] > 0}
    IN  [o \in {NameOffset(bytes, first, k) : k \in kept} |->
           fns[CHOOSE k \in kept : NameOffset(bytes, first, k) = o].name]

\* The first of some sections that holds code, counted from first; 1 without one.
TextIndex(execs, first) ==
    LET E == {k \in DOMAIN execs : execs[k]}
    IN  IF E = {} THEN 1 ELSE Min(E) + first - 1

-----------------------------------------------------------------------------
make_shdr(name, type, off, size, link) ==
    [name |-> name, type |-> type, exec |-> FALSE, off |-> off, size |-> size, link |-> link]

\* Mutant of StrtabIndex: .symtab linked to itself.
SymtabIndex(shnum) == shnum

\* Where the new .strtab is in the new section table.
StrtabIndex(shnum) == shnum + 1

\* A name and its null.
ElfBytes(fns) == [k \in DOMAIN fns |-> fns[k].len + 1]

\* The old bytes; .symtab, .strtab, and a .shstrtab that begins with the old one; a section
\* table that begins with the old one.
ElfWithSymbols(f, fns) ==
    LET shdrs == SubSeq(At(f, f.shoff), 1, f.shnum)
        old == shdrs[f.shstrndx + 1]
        text == TextIndex([k \in DOMAIN shdrs |-> shdrs[k].exec], 0)
        bytes == ElfBytes(fns)
        symtab == Align(f.size, 8)
        symtab_size == SYM_SIZE * (Len(fns) + 1)
        strtab == symtab + symtab_size
        shstrtab == strtab + TableSize(bytes, 1)
        shstrtab_size == old.size + 26
        shoff == Align(shstrtab + shstrtab_size, 8)
        new == <<make_shdr(old.size, SHT_SYMTAB, symtab, symtab_size, StrtabIndex(f.shnum)),
                 make_shdr(old.size + 8, SHT_STRTAB, strtab, TableSize(bytes, 1), 0),
                 make_shdr(old.size + 16, SHT_STRTAB, shstrtab, shstrtab_size, 0)>>
        words == Put(Put(Put(At(f, old.off), old.size, ".symtab"),
                         old.size + 8, ".strtab"), old.size + 16, ".shstrtab")
        symbols == [k \in DOMAIN fns |->
                      [name |-> NameOffset(bytes, 1, k), shndx |-> text, value |-> fns[k].address]]
    IN  [f EXCEPT !.size = shoff + SHDR_SIZE * (f.shnum + 3),
                  !.shoff = shoff,
                  !.shnum = (f.shnum + 3) % ShnumRange,
                  !.shstrndx = (f.shnum + 2) % ShnumRange,
                  !.at = Put(Put(Put(Put(f.at, symtab, symbols), strtab, StringTable(fns, bytes, 1)),
                                 shstrtab, words), shoff, shdrs \o new)]

\* A name table index past the section table is a slice out of range.
write_symbols_as_elf(f, fns) ==
    IF \/ f.container # "Elf"
       \/ ~f.little_endian
       \/ ~f.header                                 \* size, magic, class, data
       \/ f.shentsize # SHDR_SIZE
       \/ f.shoff + f.shnum * SHDR_SIZE > f.size
    THEN Refused
    ELSE IF f.shstrndx >= f.shnum THEN Panicked
    ELSE LET names == At(f, f.shoff)[f.shstrndx + 1]
         IN  IF names.off + names.size > f.size THEN Refused ELSE Written(ElfWithSymbols(f, fns))

-----------------------------------------------------------------------------
\* Eight bytes of name fit in the record; a longer one is an offset into the strings, which
\* begin behind their own size.
CoffBytes(fns) == [k \in DOMAIN fns |-> IF fns[k].len <= 8 THEN 0 ELSE fns[k].len + 1]
CoffName(fns, k) ==
    IF fns[k].len <= 8 THEN [tag |-> "inline", word |-> fns[k].name]
    ELSE [tag |-> "offset", off |-> NameOffset(CoffBytes(fns), 4, k)]

\* Relative to the image, and never below it; what does not fit the field is cut off.
CoffValue(f, address) == IF address < f.base THEN 0 ELSE (address - f.base) % ValueRange

PeWithSymbols(f, fns) ==
    LET symptr == Align(f.size, 4)
        strings == symptr + COFF_SYMBOL_SIZE * Len(fns)
        symbols == [k \in DOMAIN fns |->
                      [name |-> CoffName(fns, k), section |-> TextIndex(f.execs, 1),
                       value |-> CoffValue(f, fns[k].address)]]
        before == IF fns = <<>> THEN f.at ELSE Put(f.at, symptr, symbols)
    IN  [f EXCEPT !.size = strings + TableSize(CoffBytes(fns), 4),
                  !.symptr = symptr,
                  !.nsyms = Len(fns),
                  !.at = Put(before, strings, StringTable(fns, CoffBytes(fns), 4))]

write_symbols_as_pe(f, fns) ==
    IF \/ f.container # "Pe"
       \/ ~f.little_endian
       \/ ~f.header                 \* size, e_lfanew, signature, optional header, sections
       \/ f.opt_magic \notin {"0x20b", "0x10b"}
    THEN Refused
    ELSE Written(PeWithSymbols(f, fns))

-----------------------------------------------------------------------------
(* What nm and its like read: external, as the formats have it.            *)
Sections(f) == At(f, f.shoff)
SectionName(f, k) == At(f, Sections(f)[f.shstrndx + 1].off)[Sections(f)[k].name]

ElfSymbols(f, k) ==
    LET h == Sections(f)[k]
        words == At(f, Sections(f)[h.link + 1].off)
    IN  [m \in DOMAIN At(f, h.off) |->
           [name |-> words[At(f, h.off)[m].name], section |-> At(f, h.off)[m].shndx,
            address |-> At(f, h.off)[m].value]]

\* Where a section is in memory, relative to the image.
VirtualAddress(f, section) == IF section \in DOMAIN f.vas THEN f.vas[section] ELSE 0

\* The value of an external symbol counts from the start of its section.
PeSymbols(f) ==
    [m \in 1 .. f.nsyms |->
       LET s == At(f, f.symptr)[m]
       IN  [name |-> IF s.name.tag = "inline" THEN s.name.word
                     ELSE At(f, f.symptr + COFF_SYMBOL_SIZE * f.nsyms)[s.name.off],
            section |-> s.section, address |-> f.base + VirtualAddress(f, s.section) + s.value]]

\* A symbol is of a function: its name, its address, and a section that holds code, when one does.
Shows(symbol, fn, execs) ==
    /\ symbol.name = fn.name
    /\ symbol.address = fn.address
    /\ (\E k \in DOMAIN execs : execs[k]) => execs[symbol.section]

\* The old bytes are still where they were, and nothing of them is what the tables now use.
Superset(old, new) ==
    /\ \A o \in DOMAIN old.at : new.at[o] = old.at[o]
    /\ \A o \in DOMAIN new.at \ DOMAIN old.at : o >= old.size /\ o < new.size

\* A rewritten ELF file keeps every section at its index under its name, and has a .symtab
\* that gives every recovered function, in order, its name, its address and the code section.
ElfReadsBack(old, fns, new) ==
    LET n == Len(Sections(old))
    IN  /\ Len(Sections(new)) = new.shnum
        /\ new.shoff % 8 = 0
        /\ \A k \in 1 .. n : Sections(new)[k] = Sections(old)[k] /\ SectionName(new, k) = SectionName(old, k)
        /\ \E k \in n + 1 .. new.shnum :
             /\ SectionName(new, k) = ".symtab"
             /\ Sections(new)[k].off % 8 = 0
             /\ SectionName(new, Sections(new)[k].link + 1) = ".strtab"
             /\ Len(ElfSymbols(new, k)) = Len(fns)
             /\ \A m \in DOMAIN fns :
                  Shows(ElfSymbols(new, k)[m], fns[m], [j \in 0 .. n - 1 |-> Sections(old)[j + 1].exec])

InImage(f, address) == address - f.base \in 0 .. ValueRange - 1

\* A rewritten PE file has every recovered function, as far as its address is in the image, in
\* order and in a code section.  The code writes an RVA where the format counts from the start
\* of the section: every address reads too high by that of its section, and by no more.
PeReadsBack(old, fns, new) ==
    /\ new.symptr % 4 = 0
    /\ new.nsyms = Len(fns)
    /\ \A k \in DOMAIN fns :
         InImage(old, fns[k].address) =>
           LET symbol == PeSymbols(new)[k]
               shift == VirtualAddress(old, symbol.section)
           IN  Shows([symbol EXCEPT !.address = @ - shift], fns[k], old.execs)

\* Every symbol of a function in the image is at the function's address.
PeAddressesRight(old, fns, new) ==
    \A k \in DOMAIN fns : InImage(old, fns[k].address) => PeSymbols(new)[k].address = fns[k].address

ReadsBack(old, fns, new) ==
    /\ Superset(old, new)
    /\ IF old.container = "Elf"
       THEN old.shnum + 3 < ShnumRange => ElfReadsBack(old, fns, new)
       ELSE PeReadsBack(old, fns, new)
=============================================================================
