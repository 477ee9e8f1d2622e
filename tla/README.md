# unstrip: a TLA+ verification project

unstrip is a command-line tool and library that recovers what the Go linker left in
a stripped binary: function names and their PCs, inline trees, type descriptors,
interface tables, the call graph, goroutine spawns and more. It is a sequential
program over one file, read once; only `--symbols-as` writes one. Nothing in it runs
concurrently and nothing is sent, so the hard behaviours are not interleavings of threads.
They are:

- *several readers of one table*, each with a loop of its own, whose reports must agree;
- *searches and walks over data no linker vouches for*: unsorted, truncated, cyclic,
  larger than the caps;
- *passes that consume what earlier passes left*, in the order of a `HashMap`;
- *caps* (depth, nodes, queue, entries) that must be honoured and must be reported;
- *numeric edges*: 32-bit offsets, sentinels, `-1` as an index, addresses with a high bit;
- *a file written in place*, where a command may end between two steps, and whose output is
  the input of a later command;
- *one question answered in several places*: three verdicts on obfuscation, two spellings of
  an interface, two sources of methods.

The modules below are translated from the Rust source under `src/src`; its docs and
tests were read for what they promise, and where they promise something else a run shows
it or section 3 quotes it. Paths in this file are relative to the repository, so `pclntab` is
`src/pclntab/mod.rs` there.

## 1. Inventory

| component | state it keeps while it works | operations | reads from | what makes it correct |
|---|---|---|---|---|
| `gobin` | bytes, section map, where the pclntab is, text address | `parse`: classify sections, `locate_pclntab` (three searches), `finish` (clamp, refine); address helpers | container parser | the table found is the right one, and a parsable file is never refused |
| `moduledata` | layout, kind, section, offset tried; the modules listed | `locate`, `scan_section`, `try_parse`, `locate_all` | gobin | first layout that fits; each module once; ends on cycles |
| `pclntab` | interval of a binary search; inline walk | `parse`, `lookup`, `lookup_inline`, `functions`, `pcvalue_at`, `first_pcvalue` | gobin | one function per PC, whichever reader is asked; the runtime's inline stack |
| `inline` | nodes, edges, two maps, a counter | `max_pcvalue`, `decode_inline_tree`, `inline_callgraph` | pclntab, moduledata | an edge for exactly the inlinings recorded, nodes unique |
| `types` | work list, recovered set, scan position | `recover_with_mode` (walk, `--full` scan), `parse_type`, decoders per kind | moduledata | least closed set of the typelinks; bounded; ends |
| `xrefs` | edges; frontier and depths of a search | `find_calls`, `callers_of`, `callees_from` | pclntab | edges are real calls; depth is distance; truncation is told |
| `callsites` | sites, slots still to scan | `find` (direct, itab-slot) | pclntab, itabs | every direct call once; an itab hit is a call of that method |
| `goroutines` | spawns | `find_spawns`, backward search for the funcval | pclntab | every spawn; a resolved target is the one passed |
| `dataxref` | references | `find_refs` | pclntab | skipping ahead does not lose the place |
| `diff` | pairings, what is matched | `compute`, port script | pclntab, signatures | a partition of both builds, independent of map order |
| `itabs`, `funcsig` | itabs, methods from two sources, the merged list, signatures by PC | `recover_all`, `recover_methods_from_types`, `recover_methods_from_itabs`, `merge_methods`, `signatures_by_pc` | types, moduledata | a signature is one the program declares for that code, and every method reached has one |
| `garble`, with the detector of `output` | counts; the scan for the dictionary and the best one so far | `detect`, `assess`, `detect_garble`, `detect_go_version`, `recover_reflect_names` | gobin, pclntab | the verdicts agree; a planted dictionary is found whole |
| `rewrite` | the image of the file to write | `write_symbols_as_elf`, `write_symbols_as_pe` | gobin, pclntab | old bytes and sections stay, the new table reads back as the functions |
| `bin/unstrip` | the command, the binary it opened, the files | `run`: twenty-one modes, `--symbols-as` among them; exit codes | all | every command ends; it touches no file it was not told to |
| `buildinfo`, `strings`, `fingerprint`, `probe`, `dataview`, `capabilities`, `stdlib`, `itabsig` | none beyond a pass | decode, look up, render | gobin | data and formatting, not modelled |
| `export`, the rest of `output`, `dispatch`, `plugin` | none | text and scripts | all | formatting, not modelled |

How they interact: `bin/unstrip` opens a file with `GoBinary::parse`, builds `Pclntab`
over its bytes, and calls one analysis. Analyses share state only through immutable
values: the section map, the functab, the module data. What can go wrong between two of
them is therefore *disagreement*: `lookup` against `functions`, `lookup_inline`'s second
search against `lookup`, the inline walk against `decode_inline_tree`, `find_calls`
against `callsites` and `goroutines`, `itabs` against the slot arithmetic of `callsites`,
the `--full` scan against the walk, the text address refined in `finish` against the
module located later. Most properties here state such an agreement.

`PROJECT.json` lists under `hazards` the lines where each of these bites, with the
properties that would catch it.

## 2. Modules, and how they map to the code

| module | models | state | one action per |
|---|---|---|---|
| `Locate` | `gobin::locate_pclntab`, `scan_for_magic`, `scan_for_pcheader`, `detect_pre118_magic`, `pcheader_at`, `finish`; `moduledata::locate`, `scan_section`, `locate_all` | section map, magic and offset tried, table found, layout/kind/section tried, modules listed | hit or miss of a magic, aligned offset, section, finish, section scanned, refinement, chain step |
| `Functab` | `lookup`, the second search of `lookup_inline`, `functions` (the operator `Listing`) | the table, the query, `lo`, `hi`, the two answers | probe, unreadable probe, conclusion, of each search |
| `PcValue` | `pcvalue_at`, `first_pcvalue`, `max_pcvalue` | none: pure readers, with the format's own reading as the reference | |
| `InlineWalk` | the walk of `lookup_inline`; `decode_inline_tree` as `Decoded`/`DecodeRefused` | index, offset, frames | step of the walk, end |
| `InlineGraph` | `inline_callgraph` | nodes, edges, `named_nodes`, `anon_nodes`, `next_anon` | physical node, function, root record, callee with and without a node |
| `XrefBfs` | `callers_of` and `callees_from`, which are one search in two directions | depths, frontier, next level, truncated | edge looked at, node of the frontier, level, end |
| `TypeWalk` | `recover_focused`, `linear_scan_types_region` | queue, seen, child index, scan offset, extras | pop, child pushed or dropped, record, scan step |
| `TextSweep` | `find_calls`, `callsites::find`, `find_spawns`, `find_refs`, one after the other on one program | position, the four result lists | byte or word of each sweep |
| `Matching` | what the doc of `diff` promises, with no order, index or address set in it | builds, report, complete | call, report growing, completion |
| `DiffMatch` | `diff::compute`, shown to implement `Matching` | pairings, matched sets, work of the current pass | function paired or left, pass begun |
| `Methods` | `compute_signatures`: `itabs::recover_all`, the `funcsig` functions, `parse_type` as far as they need it | the methods, itabs, merged list and signatures so far | type, itab link, itab, method merged, method rendered |
| `Garble` | `garble::detect`, `assess`, `recover_reflect_names`; `output::detect_garble`, `GarbleReport::verdict`, `detect_go_version` | data cells, place of the scan, best dictionary | cell passed, run taken, section left; the verdicts are operators |
| `Rewrite` | `write_symbols_as_elf` and `_pe`, and what `nm` then reads | none: from a file and functions to a file | |
| `Cli` | `run` of `bin/unstrip.rs`, over a script of commands | files, script, the binary in hand, where the command is | mode's beginning and end, each component's step, file created, written, mode set |

`Basics` and the modules named `...Proofs` hold lemmas and theorems, the modules named
`MC...` the instances TLC checks. Operators named in a comment "Mutant of X" are plausible
bugs put in place of X; each property of a passing run is shown to fail with one of them.

What is composed: `TextSweep` runs the four sweeps over the *same* program, because their
agreement is the property. `Locate` composes `gobin` and `moduledata`, because `finish`
calls `ModuleData::locate` on a half-built binary and the chain walk uses the table the
three searches found. `Cli` composes `DiffMatch` (extended), `Methods`, `Garble` and `Rewrite`
(instances): a command chooses a mode, the mode runs them in the code's order, and `--symbols-as` writes what
the next command reads. `InlineWalk` extends `PcValue` because the walk and the tree decoder
read the same stream; its machine is named `WalkInit` to `WalkSpec`, those of `XrefBfs` and
`TypeWalk` `BfsInit` and `RecoverInit` onwards, because they share a run or a module of proofs
with another.

What is abstracted, per module:

- `Functab`: a `_func` record decodes or does not; names are not in it. `u64` is
  `0..Top`, `u32` text offsets are taken modulo `OffMod`.
- `PcValue`, `InlineWalk`: a stream is the list of pairs its varints decode to. A stream
  that stops early is a shorter list: every reader treats both alike. PCs wrap at `Wrap`.
- `InlineGraph`: `decode_inline_tree` gives a tree or refuses it.
- `TypeWalk`: a binary gives each address its children or a failure; the per-kind
  decoders are data.
- `TextSweep`: each loop has its bound, its opcode test and its target in operators of its own,
  as the code has them three times. Of the references, the forms the sweep recognises (`FF`, and
  `48` with `8D`, `8B`, `89`, `39`, `3B`) are told from those it does not (a `REX` prefix
  `4C`, as a load into r8 to r15 has) and from a `PUSH`, which it steps over. The itab slots still to be swept for are a set, of which the first in table
  order is next, as the nested loop takes them. Bytes are laid out from instructions with the lengths of the real
  encodings; the sweeps see the byte map only. An immediate may hold bytes that read as an
  instruction, which is how a sweep without a disassembler goes wrong.
- `DiffMatch`: a masked-code signature is a value or absent. The program itself calls
  `compute` without signatures; the flag `relift` stands for the library's callers that pass
  them.
- `Methods`: a type is a record of what its descriptor decodes to, or an unmapped address. A
  method table looked for at another offset than the compiler's reads as `stray`, which is
  any table. How a signature is spelt is left out: it is the names of its types.
- `Garble`: a name is a shape (prefix family, lengths, character classes) with a count, a
  dictionary string its rank in byte order. Ratios are compared in integers, so the
  rounding of `f32` is left out.
- `Rewrite`: a file is a map from offset to content, with the sizes of the real headers and
  symbols. What is read back is read as the formats have it and not as the code writes it: the
  value of a COFF symbol counts from its section (`PeSymbols`, `VirtualAddress`). Offsets of names are running sums of their lengths (`Lengths`), as the code's
  growing string table gives them. Field widths are cut down (`ShnumRange` for `u16`, `ValueRange` for `u32`).
- `Cli`: clap's parsing is left out but for its outcome: `-h` and `--help` end with 0, arguments
  it does not accept with 2 (`Arguments`). A Mach-O file is opened like the others and refused
  by the rewriter alone. What a mode prints is left out; a recovery that yields an error is a name in
  `fails`. A file cut short in the writing is `Torn` and does not parse.
- `Locate`: a file is a row of half-pointer words; a word begins a header, holds a
  pointer, or neither. `climbs`, `pads` and `text` stand for the three tests of
  `pcheader_at`. The range checks of `try_parse` are the set of layouts under which they
  pass; its comparison of the first field with the table's address is modelled.

## 3. Runs: what is checked, and the bounds

Three runs check two components each. They share no state, only a subject: the two users of an
inline tree, the search over call edges and the sweeps that find them, the module data and the
types found in it. Each of a pair meets all of its inputs while the other rests on its least one
(`MCInlineTrees`, `MCXrefs`, `MCModuledata`), so such a run is the two explorations side by
side, with the fairness of the component that has a liveness property.

Every passing run explores its state space exhaustively. `CHECK_DEADLOCK FALSE` is set
everywhere because every component is a call that returns: its last state has no
successor.

| run | checks | bounds, and why they are enough |
|---|---|---|
| `functab` | what `lookup` returns spans the PC and decodes; `None` is right on complete sorted tables; lookup and the listing name the same function; the second search ends at the first one's function; both end | every table of at most 3 entries and a sentinel over addresses 0..4, *in any order*, any claimed count, any query. Three entries give a middle probe with something on each side; the u32 modulus 3 is below the address range, so offsets wrap |
| `inline_trees`, `InlineWalk` | the stack is the runtime's on compiler-made trees, cut at the cap; the walk stays in the tree the decoder returns; the readers of a stream agree; the walk ends | streams of up to 3 records with deltas -2..2, trees of up to 4 entries with any parent; depth cap 2 is below the longest chain, index cap 3 is reachable |
| `inline_trees`, `InlineGraph` | an edge for exactly the inlinings of decoded trees; the graph can be read by its addresses | two functions with up to two records each: a callee shared by both, a name with and without a function, stripped names at equal and different sites, a refused tree, two functions of one name |
| `xrefs`, `XrefBfs` | depth is distance; an answer not marked truncated is complete; the cap is honoured exactly; the search ends | all lists of up to three calls among three functions, and diamonds over four; depths 0, 1, 2, 4; caps 0, 1, 2, 9 |
| `moduledata`, `TypeWalk` | the walk recovers what the typelinks lead to, no more and no less; its ceiling loses nothing; memory bounded; `--full` lists every plausible header once; it ends | room for three headers, pointers into the middle of one and outside the region; cyclic, repeated and self children; queue factor 1 (4 in the code) so that the queue does fill |
| `xrefs`, `TextSweep` | every direct call found once; the three call sweeps agree; an adjacent spawn resolves; skipping ahead loses no reference | all programs of up to three instructions from fourteen on amd64, four from seven on arm64; two positions of the caller's entry, four kinds of target. A wrong stride or bound shows with two neighbouring instructions, a stale backward match with three |
| `moduledata`, `Locate` | the least valid header with a released magic is found; a parsable file is never called unsupported; the module data is the first in the order of layouts, kinds, sections and offsets; the chain lists each module once, the first new one its predecessor leads to | files of ten words, seven kinds of word in three places under three section maps; four magics of the found table, a second table, and module data whose fields point at either table, at each other, at themselves and at memory without bytes. `WINDOW` is 4 words, so a tail can end before the pointer |
| `cli` | every command ends with an exit code; no file changes but the one it was told to write; a rewritten file reads back; the verdicts agree; a dictionary is found whole; signatures are those declared; diff partitions both builds and implements `Matching` | scripts of one or two commands, in six families: all pairs of tables of up to three functions over two names and two signatures, tables that repeat an address included, in every order of the `HashMap`s (ambiguity needs two namesakes on a side, a third function then takes part in a later pass); the programs of `MCMethods`, where each cap is passed by one, and names, types and tables that cannot be read occur; populations on both sides of every threshold of the detectors; dictionaries of one to three pairs between headers that extend, shift or rival them; ELF and PE files, sound and not, rewritten, overwritten and rewritten again; and every mode with each failure, flag and pair of options |
| `cli_panic` | fails: no command ends in a panic | the rewriting sessions of `cli` |
| `output_over_input` | fails: the input changes on a confirmed `--in-place` only | the sessions of `cli` |
| `pe_symbols` | fails: a symbol of a rewritten PE file reads at its function's address | the sessions of `cli` |
| `inline_walk_arm64` | fails: `pcvalue_at` on an arm64 stream | quantum 4 |
| `callsites` | fails: a site reported for an itab's method is of that method or that itab | the arm64 programs of `xrefs` |
| `locate_chain` | fails: a chained module with a table of its own is listed | the files of `moduledata` |
| `func_methods` | fails: the methods of a named func type have signatures | programs with one such type |

The properties are commented in the modules. Some are worth a word here:

- `SameFunction` (`Functab`): `lookup_inline` searches twice instead of keeping the index.
  The two searches use different arithmetic (`u64` entries, `u32` offsets). They agree on
  any sorted table *with a sentinel*; without one the last span runs to `u64::MAX` and the
  truncated query lands elsewhere. The guard `nfunc < avail` in the property is that case.
- `ReadersAgree` (`InlineWalk`): frames shown for a PC are nodes of the call graph,
  although the tree's length is stored nowhere and each reader infers it. The caps differ
  by one (`>` against `>=`), which the property spells out.
- `CeilingLosesNothing` (`TypeWalk`): the comment in the loop says that what is left in
  the queue at the ceiling is a duplicate or outside. It is true where headers do not
  overlap; the property has that premise.
- `CapHonoured` (`XrefBfs`): `truncated` is set when the cap is reached, also when nothing
  was cut; and a cap of zero still reports one node.
- `ImplementsMatching` (`DiffMatch`): the passes with their unique-key indexes, walked in
  any order, are a refinement of `Matching`, which has neither passes in time nor order:
  `Abstract == INSTANCE Matching WITH report <- {pairings[k] : ...}`. Each step adds a
  pairing that belongs to the answer, and the last leaves it complete. Where a table gives
  an address twice nothing is promised of the pairing; `Accounted` still holds.
- `AnchorIsFirst`, `ChainExact` (`Locate`): first in the order of layouts, then kinds, then
  sections, then offsets; and each module the first new one that the tail of the one before it
  leads to. A field in front of the next pointer that holds the address of an unlisted module is
  followed: recognised by its shape, it is no different.
- `SweepsAgree` (`TextSweep`): three loops, each with a bound, an opcode test and a target of
  its own, over the same bytes; its mutant changes one of them.
- `AdjacentSpawnResolved`, `ReferencesFound` (`TextSweep`): each leaves out a case in which the
  code does not do what is written of it, the pair that begins .text and the loads the sweep
  does not recognise; both are quoted under *Differences* below. `ReferencesFound` has no premise on the immediates: what an
  immediate reads as is reported, and what a false match runs over (`Covered`) is lost.
- `SignaturesExact` (`Methods`): what is shown for an address is declared for it, and every
  method reached whose types resolve has a signature. Two premises are limits of the code:
  interfaces print different names, and no func type has methods, which `func_methods` shows to
  fail. A method with a type in it that does not resolve may have a signature with a
  placeholder, where the doc promises none. What is written of these is quoted under
  *Differences* below. A method whose
  table gives a type that does not read is left
  out: `merge_methods` keeps that record and drops the slot's, which would have rendered.
- `VerdictsAgree` (`Cli`): `maybe_warn_garbled` says the warning "and the explicit detector
  never disagree on the same binary", and they do not, about any two commands over the same
  recovered data. What docs/USAGE.md says of the warning's threshold and of the exit code is
  another matter, and the code does neither: see *Differences* below.
- `TypeOK` (`Cli`): 2 is the exit code of arguments that are not accepted and of nothing else;
  101, a panic, is reached only by the rewriter. That it is reached at all is `cli_panic`.
- `NamesRecovered` (`Garble`): the planted dictionary is found whole unless another stretch
  of headers is as long and as sorted as it; runs beside it, shifted alignments and a key
  column that goes on into other data are in the instances.
- `RoundTrip` (`Cli`): read back by what `nm` does, written from the formats. It holds for a
  file that is itself a rewritten one, and for one that overwrites its input. In an ELF file
  names, sections and addresses are right; in a PE file every address is too high by that of
  the code section, which is the finding `pe_symbols`, and `RoundTrip` says that nothing else is
  wrong with it. The number of sections is assumed to stay inside its field.
- `FilesKept` (`Cli`): no file but the output changes, and the input only on `--output` of
  that very path or a confirmed `--in-place`. That `--output <input>` needs no `--yes`
  contradicts docs/USAGE.md: `output_over_input`.
- `TableSearchRight` (`Locate`): the third search runs only when the first two failed; a
  file they could parse is never reported as an unsupported version. The structural scan is
  aligned and the magic scan is not, so what is guaranteed differs for the two: any offset
  for a released magic, an aligned offset in a data section for a rewritten one.

### Findings

| run | the code | what is written |
|---|---|---|
| `inline_walk_arm64` | `pcvalue_at` scales PC deltas by a constant 1 (`pclntab/mod.rs:844`) although the header's quantum is parsed | "pc_delta * quantum" (`pclntab/mod.rs:832`); arm64 is listed as supported |
| `callsites` | itab methods are looked for behind 40 bytes (`callsites/mod.rs:37`), `itabs` reads them behind 24 | "never \"false positive\"" (`callsites/mod.rs:22`) |
| `callsites` | the LDR's base register is not looked at (`callsites/mod.rs:422`) | "never produces a false positive" (`callsites/mod.rs:371`) |
| `locate_chain` | `try_parse` requires the binary's one pclntab address (`moduledata/mod.rs:484`) | plugins and shared libraries: "this is the path that surfaces them" (`moduledata/mod.rs:288`) |
| `func_methods` | the UncommonType of a func type is read 4 bytes early (`funcsig/mod.rs:354`) | the parameters of the same type are read behind "8 bytes of extension" (`types/mod.rs:561-569`) |
| `cli_panic` | `e_shstrndx` slices the section headers unchecked (`rewrite/mod.rs:137`) | "reads that would run past the end return an error rather than panicking" (`README.md:473`) |
| `output_over_input` | `--output` is never compared with the input (`bin/unstrip.rs:455`) | "only `--in-place --yes` mutates the input" (`docs/USAGE.md:126`) |
| `pe_symbols` | a symbol's value counts from the image, not from its section (`rewrite/mod.rs:502`) | "a populated COFF symbol table ... so `dumpbin /symbols` and WinDbg pick it up" (`docs/USAGE.md:130`) |

### Differences that no run is spent on

Of what the code does:

- `maybe_warn_garbled` warns at `a.confidence >= 0.75` (`bin/unstrip.rs:1510`), that is on every
  verdict of garbled there is: two votes of four give 0.75. docs/USAGE.md:119 has it fire when
  "the heuristic returns confidence >= 0.9". `VerdictsAgree` is about the code's threshold.
- `--detect-garble` ends in `std::process::exit(assessment.exit_code())` (`bin/unstrip.rs:527`), 1
  for a clean binary. docs/USAGE.md:90 says it "exits 0 with `is_garbled=true|false`; the
  heuristic itself does not fail the run". README.md:118 and the comment at
  `bin/unstrip.rs:523` have the code's contract, and so has `VerdictsAgree`.
- `render_type_name` gives a placeholder, `type@0x...`, for an address that is no type
  (`funcsig/mod.rs:537`), and the signature is shown. The doc of `render_method_signature` says it
  returns `None` when "Any of the parameter or return type addresses fails to resolve"
  (`funcsig/mod.rs:447-451`). `SignaturesExact` demands no signature there and forbids none.
- `recover_methods_from_itabs` finds an itab's interface by its printed name
  (`funcsig/mod.rs:135`), which in Go two packages of one name may share: the last interface
  inserted stands for both, and code behind the other gets its signature. The doc says that the
  mtyp "points at the interface-declared funcType" (`funcsig/mod.rs:110-114`). `SignaturesExact`
  has the premise `NamesSeparate`.
- `resolve_arm64_target` leaves its loop under offset 8 (`goroutines/mod.rs:344`), so a pair that
  begins .text is never read and its spawn is not resolved. The doc says "We scan back 1-8
  instructions for an ADRP/ADD pair" (`goroutines/mod.rs:331`). `AdjacentSpawnResolved` leaves
  out that pair.
- `find_refs` takes the prefix `48` for a 64-bit form and no other (`dataxref/mod.rs:148`); a load
  into r8 to r15 has `4C` and is not reported. docs/USAGE.md:61 says "Readers cover LEA,
  MOV-load, CMP-against-memory". `ReferencesFound` is about the forms the sweep recognises.

Of wording: `gobin/mod.rs:706` still
says Go 1.16 is not read, which `scan_for_magic` does; `describe_mach` says fat files are
refused, which `parse` now selects a slice of; `goroutines/mod.rs:49` documents the line of
the call site where the entry line of the function is given; `README.md:242` describes
`--diff` in two passes where `compute` has more. From the modules of the program itself:

- `README.md:118` and `garble`'s doc have an indeterminate verdict with exit code 2; the magic
  and the version can always be judged, so `assess` never gives it (`TypeOK` of `Cli` says so).
- Exit code 1 of `--detect-garble` is a clean binary and also an error.
- `README.md` leaves the PE rewriter to a later version; it is there. The docs of `rewrite`
  speak of one and of two new sections; there are three, and `st_size` is always 0.
- `detect_go_version` requires a dot that its prefix already has, and takes the first place
  that runs on for long enough.
- `itabs::read_type_name` does not take off the extra star that `types` does, which is why
  `funcsig` looks interfaces up in two spellings.
- `--xref-refs` with readers and writers both given looks only at the readers' address.
- `strings::extract` slices a section's range without clamping the offset.
- `garble`'s doc speaks of two of three signals where four are fused.

## 4. Fairness

`Functab`, `InlineWalk`, `XrefBfs`, `TypeWalk` and `Cli` (and the instances that run them) assume weak fairness of their
next-state relation: the component is a function on one thread whose loop runs as long as it
can, and nothing outside can stop it. That is all the fairness there is. In `Cli`, `RunEnds`
says that every command comes to an exit code, through every loop of the components it
composes; a write that fails ends the command, and is a branch of the same step. The other
modules state none and are checked for safety only. That `lookup` also ends *soon* is the
action property `IntervalHalves`, which is proved.

## 5. Proofs

Every module that has a behaviour is proved about, for all values of its constants: every
table, stream, tree, call list, region, program, pair of builds, file and script in the
module's input domain, not just the instances of the runs. Every safety invariant of the
passing runs is a theorem.

| module | theorems (`Spec => []P` unless another form is given) | inductive invariant |
|---|---|---|
| `FunctabProofs` | `TypeCorrect`, `LookupSound`, `LookupComplete`, `LookupCorrect` (the two together), `LookupMatchesListing`, `SearchesAgree`, and `LogarithmicSearch` (an action property) | `SearchInv`: what lies below `lo` starts at or before the PC, what lies from `hi` on starts behind it; `RelocateInv`, the same over `u32` offsets; `RelocateGuard`. On a sorted table the two together pin the answer |
| `FunctabProofs`, of `InlineWalk` | `WalkTypeCorrect` (of `WalkTypeOK`), `WalkReadersAgree` (`ReadersAgree`), `StackIsRuntimes` (`StackMatchesRuntime`, for quantum 1) | the walk is inside the function, at its end, or in a tree that fills the cap, and its frames are entries the decoder returns (`TreeInv`); the frames are the first part of the chain of parents, `Outward`, from the index the stream holds at the query (`StackInv`) |
| `InlineGraphProofs` | `TypeCorrect`, `WellFormed` (with `NoDanglingEdge`, `NoCollision`, `NoDuplicate`), `GraphSound`, `GraphComplete`, `GraphExact` | the maps and the node list agree (`NamesFiled`, `SitesFiled`), synthetic addresses lie between the high bit and the counter (`SyntheticRange`), functions come first (`PhysicalFirst`), all records passed have their edge (`PassedHaveEdges`) |
| `XrefBfsProofs` | `TypeCorrect` (of `BfsTypeOK`), `ShortestDistance`, `Completeness`, `SearchIsExact`, `CapKept` | labels are lengths of walks (`LabelsReach`), frontier and next level are exactly the names with those labels, and everything one call from an expanded node is labelled no deeper (`OlderExpanded`, `CurrentExpanded`); the count against the cap (`CountInv`) |
| `TypeWalkProofs` | `TypeCorrect` (of `RecoverTypeOK`), `Soundness`, `Completeness`, `WalkExact`, `CeilingIsHarmless`, `MemoryBounded`, `Uniqueness`, `ScanCompleteness`, `FullListed` | what is seen, queued or in hand lies in every closed set (`Sound`); every link and every child of a seen type is known (`LinksKnown`, `ChildrenKnown`); the scan's position separates what is decided from what is not (`ExtrasBehind`, `ScannedFound`). `CeilingIsHarmless` adds a pigeonhole argument on the slots of the region |
| `TextSweepProofs` | `TypeCorrect`, `DirectSitesFound`, `SweepsAlwaysAgree`, `AdjacentIsResolved`, `AllReferencesFound` (of `TypeOK`, `DirectSitesRight`, `SweepsAgree`, `AdjacentSpawnResolved`, `ReferencesFound`) | each of the three call sweeps has reported exactly what reads as a call below its offset (`EdgesInv`, `SitesInv`, `SpawnsInv`), on arm64 at multiples of four; every spawn so far is resolved as the instruction before it says; the skipping sweep has reported the references that begin below its offset (`RefsInv`). The lemmas under it say where instructions begin (`StartsApart`) and what each byte of the section reads as (`ByteKinds`) |
| `LocateProofs` | `TypeCorrect`, `TableFound`, `AnchorFirst`, `ChainRight` (of `TypeOK`, `TableSearchRight`, `AnchorIsFirst`, `ChainExact`) | what the searches have passed holds no header they would take (`SearchInv`); places left behind, in the order of layouts, kinds, sections and offsets, hold no candidate, and the one anchored is sound (`AnchorInv`); each module listed is the first new one that the tail of the one before it leads to, and the last one read leads to nothing new (`ChainInv`) |
| `CliProofs`, of `DiffMatch` | `DiffAccounted` (of `Accounted`), `DiffImplements` (`Spec => ImplementsMatching`) | `DiffInv`: pairings and matched sets account for each other; an index holds exactly the functions that are alone with their key among those left (`IsIndex`); during a pass the report is that of the rounds before and of the keys looked at (`Looked`). With it every step is one of `Matching` or changes nothing `Matching` sees |
| `CliProofs`, of `Cli` | for any session, `Begin(fs, commands) /\ Runs => ...`: `CliTypeCorrect`, `SessionAccounted`, `SessionImplements`, `FilesSafe` (`FilesKept`), `VerdictsSame` (`VerdictsAgree`) | `SessionInv`: a writing stage is entered only by a command that writes and was confirmed, with an image of the container that was read (`StageInv`); every entry of the log follows from the verdict on the binary it was about (`LogInv`); and `DiffInv`, because every command may follow a diff |
| `CliProofs`, of `Cli` with `Garble` | `SessionNames` (`NamesRecovered`) | `NamesInv`, for every table that stands out as a dictionary: the scan is never inside its headers; once behind them, the best so far is at least as long; and what is best so far is a stretch of a run that does not begin inside the table (`Chosen`) |
| `CliProofs`, of `Cli` with `Methods` | `SessionSignatures` (`SignaturesExact`) | `SignInv`: each of the five loops has recorded exactly what it passed; a method of the merged list is from one of the two sources, and what is rendered for an address is declared for it. The theorem has the premises of the property: interface names that differ, no methods on func types, and for completeness types that resolve |
| `CliProofs`, of `Cli` with `Rewrite` | `SessionRewrites` (`RoundTrip`), for `Layouts(fs, commands)` | `LayInv`: every file, the binary in hand and the image are laid out as a linker does; the image of a writing stage reads back as the functions of the binary, a PE image but for the address of the code section in each; the section count leaves room for the rewrites still to come |
| `Basics` | | lemmas on sequences, residues, quotients, the least and the greatest number of a set, induction along an interval (`UpTo`), and the solution of a recurrence (`RecurrenceExists`) |

Why a strengthening is needed: few of the properties are inductive as they stand.
`NoneIsRight`, for instance, says nothing during the search; `DepthIsDistance` says nothing before the end;
an edge's target exists only because the map it was taken from is filed in the node list.
`FilesKept` speaks of one step, and holds of it because of what an earlier step tested.
`SweepsAgree` compares three loops that ran one after the other; what connects them is the
set of calls in the bytes, which none of them holds. `RoundTrip` is about the file one command
wrote; it holds of a file rewritten twice only because the image of a write is again a file
the rewriter's arithmetic is right for.

Loops that the model writes as recursive functions (`pcvalue_at` and its kin, `FromSlots`,
`Lengths`) need an induction with a predicate, and the installed provers cannot instantiate
one. The proofs go round it: `RecurrenceExists` gives the function that the recursion defines
on an interval, and what it computes follows along the interval by `UpTo`, or from the least
counterexample by `LeastNumber`; both of those are about a set of numbers, not a predicate.

Assumptions: those named `...Assumption` in the modules, and for the theorems about sessions
the hypothesis `Session`. They are the domains of the inputs (`Calls \subseteq Seq(Call)`),
finiteness of name and address sets, positive moduli and sizes, and

- that functions live below the high bit that marks synthetic nodes
  (`TextAddr \subseteq 1 .. AnonBit - 1`), which is where a user-space program has them;
- that `None` is no offset and no table (`LocateAssumption`), and `NoAddr` no address;
- that an address of the file holds one funcval (`SweepAssumption`);
- that the default output path is not the input (`SiblingAssumption`): it has a suffix more;
- that an itab's slots give out before its interface's methods do (`CapsAssumption`: 256 and
  1024 in the code), that a dictionary has a pair (`NamePairsAssumption`), and that widths and
  lengths are numbers (`FormatAssumption`);
- `WalkAssumption`: a record's PC delta and a function's size are 32 bits wide, a parent PC is
  a signed number. `StackIsRuntimes` assumes quantum 1, because with quantum 4 the property
  is false: that is the finding `inline_walk_arm64`;
- `Session`: the files there at the start have the fields the model reads, the functions of
  each are a sequence of functions, its data cells and its dictionary are such, a file that
  parses is not the placeholder of one that does not, and a command names a path that has a
  default output. Its program is as a compiler emits it (`Compiled`): no type at address 0,
  an itab's interface is an interface, and the declarations of one method at one code address
  have one type (`OneType`); without that last one `merge_methods` has to choose;
- `Layouts`, for `SessionRewrites` only: nothing lies behind a file's end, an ELF header
  counts its section table and every section's name is in the table of names, which
  `write_symbols_as_elf` takes from the linker unchecked; a PE file's sections have addresses;
  and the section count stays inside
  its 16 bits for as many rewrites as there are commands.

Every session of the run `cli` satisfies `Session` and `Layouts`: no hypothesis excludes what
the run explores.

TLC evaluates the named assumptions in the runs.

Only model-checked: the liveness properties `SearchesEnd`, `WalkEnds`, `SearchEnds`,
`WalkTerminates` and `RunEnds`, because the prover has no rule for fairness.

## 6. Not modelled, and why

- Container formats: ELF, PE and Mach-O are parsed by an external crate; the section map is
  an input of `Locate`. The choice of a fat slice is a maximum over a list.
- Data decoding: `_func` records, names, type headers, module data fields, build info. They
  give the inputs of the modules; a decoding that fails is an input too.
- Formatting and scripts (`export`, the rest of `output`, `dispatch`, `plugin`, `probe`,
  `dataview`): what is printed is no state of the program.
- `strings`, `capabilities`, `fingerprint`, `buildinfo`: one pass over data, with no property
  that would not repeat the pass. `Cli` has them as modes that may fail.
- `dataxref::referenced_addresses`, the same sweep with a set as its result.
- Two functions that share a name are one node of `XrefBfs` (`xrefs/mod.rs:198`), and the
  address shown is that of the first edge: names are what the report prints, and no doc
  promises to tell them apart.
- A PE or ELF file whose section count does not fit its field after three more: `RoundTrip`
  assumes it does.

## 7. Plan

Done, in this order: `Functab` (the query everything rests on), `PcValue` and `InlineWalk`,
`InlineGraph`, `XrefBfs`, `TypeWalk`, `TextSweep`, `DiffMatch` with `Matching`, `Locate`,
`Methods`, `Garble`, `Rewrite`, and `Cli`, which composes the last five with the file system.

What is left to model: the parse of the three header layouts in `pclntab`, as a bridge
between `Locate` and `Functab`.

No safety property of the runs is left unproved. With that bridge, the table that
`TableFound` says is found would be the one the theorems on `Functab` are about.
