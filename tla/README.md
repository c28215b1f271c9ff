# A verification development for liborl

liborl reads ELF, COFF and OMF object files for a client. This directory holds
TLA+ models of it, model-checked with TLC, and theorems about them, proved with
TLAPS. Paths below are relative to the repository, e.g. `src/elf/elfload.c`.

## The system

liborl is a sequential C library. The client supplies `cli_read`, `cli_seek`,
`cli_alloc` and `cli_free` (`struct orl_funcs`) and calls the `ORL...`
functions of `include/orl.h`; ORL calls the client back while it scans
sections, symbols and relocations, and the client may call ORL from a callback.
There are no threads, and nothing is written to disk. What makes the code hard
is elsewhere: two lists of handles that must stay in step, tables that are built
on the first use in whatever order the client chooses, entries that are
rewritten in place, loads that fail half way, and parsers that keep state from
one record to the next.

| component | state it keeps | operations | hard behaviour |
|---|---|---|---|
| entry points (`orlentry.c`, `orlflhnd.c`) | the ORL handle, its list of file handles, the last error | `ORLInit`, `ORLFini`, `ORLFileIdentify`, `ORLFileInit`, `ORLFileFini`, `ORLGetError`; the rest forwards to a reader | a file is on two lists; a refused file has been linked and allocated before it is refused |
| name index (`orlhash.c`, `strcasecmp.c`) | buckets of entries with lists of data | create, insert, query, free | names are folded twice, for hashing and for comparing |
| ELF reader (`elf/`) | section handles in two orders, lazily built symbols, relocations and name table | load, scans, queries, close | order of the scans, in-place byte swaps, failed loads |
| COFF reader (`coff/`) | section handles in one order, lazily built symbols, relocations, name table and line numbers | as ELF, and the line numbers of a section | line numbers rewritten in place with the help of symbols made later, a string table found by position, files that are cut off |
| COFF import libraries (`coffimpl.c`) | the object file that is made up, its string table | `convert_import_library_init`, `ImportLibRead`, `ImportLibSeek` | what is declared first and written later must agree |
| OMF reader (`omf/`) | names, sections, groups, symbols and comments, filled record by record; the iterated data and backpatches that wait for the next records | load (a handler for each record), scans, close | what a record means depends on the records before and behind it |
| linker directives (`elflwlv.c`, `cofflwlv.c`) | a position in a text | `ElfParseDrectve`, `CoffParseDrectve`, reached through `ORLNoteSecScan` | a length counted beside a pointer |

The makefile builds ELF and COFF. The OMF sources do not compile at this commit
(`omfentr.c:364` lacks a comma, `omfmunge.c` calls a member `class` that
`omfdrctv.c` calls `clazz`); they are modelled as they read.

## Modules

| module | models | role |
|---|---|---|
| `SectionNames` | what a name index promises | abstract specification |
| `OrlHash` | `orlhash.c` | implements `SectionNames` |
| `OrlHashProofs` | | theorems about `OrlHash` |
| `DataLemmas` | | facts about sums, parts of sequences and lists, for the theorems |
| `Sublists` | | the operators `DataLemmas` is about |
| `HashEncode` | `hash_encode`, `strcasecmp` | shows the assumption of `OrlHash` for names |
| `OpenFiles` | what the life-cycle calls promise | abstract specification |
| `OrlHandles` | `orlentry.c`, `orlflhnd.c`, the lists of the ELF and COFF readers | implements `OpenFiles` |
| `OrlHandlesProofs` | | theorems about `OrlHandles` |
| `SectionScans` | what `ORLFileScan` promises (`orl.h:49-54`) | abstract specification |
| `ElfFile` | `elf/` | implements `SectionScans`; uses the operators of `OrlHash` for its name table, and `Drectve` |
| `ElfFileProofs` | | theorems about `ElfFile`, and that it implements `SectionScans` |
| `CoffFile` | `coffload.c`, `coffentr.c`, `cofflwlv.c`, `coffflhn.c` | implements `SectionScans`; uses `OrlHash` as `ElfFile` does |
| `CoffFileProofs` | | theorems about `CoffFile`, and that it implements `SectionScans` |
| `CoffImport` | `coffimpl.c` | the object file of an import entry, which `CoffFile` loads |
| `CoffImportProofs` | | theorems about `CoffImport` |
| `Drectve` | the parser of linker directives (`elflwlv.c`, `cofflwlv.c`) | operators of `ElfFile` and `CoffFile` |
| `Identify` | `ORLFileIdentify` (`orlentry.c`) | operators of `OmfFile` |
| `OmfTables` | the tables of an OMF module (`omfmunge.c`) | operators of `OmfData` |
| `OmfData` | data, iterated data, fixups, backpatches (`omfmunge.c`) | operators of `OmfFile` |
| `OmfFile` | `omfload.c`, `omfentr.c`, `omfdrctv.c`, `omfflhn.c` | the machine over records, and the client |
| `OmfMeaning` | | what the records say, and that `OmfFile` agrees |
| `OmfDataProofs` | | what each operator of `OmfTables` and `OmfData` keeps and takes from `cli_alloc` |
| `OmfFileProofs` | | theorems about `OmfFile` |
| `MC...` | | constants for TLC |

Definitions marked *Faulty* are variants of the definition that follows them,
each with one plausible mistake; nothing uses them. With one of them in the place
of the right definition, some property fails.

### OrlHash

`table` is `hash_table->table`: an array of buckets, each a sequence of
entries, newest first, each with the sequence of its data, oldest first.
`Insert`, `Query`, `Create` and `Free` are the four functions. `blocks` counts
allocations, so that `EveryBlockReached` says that the loops of
`ORLHashTableFree` reach everything. The pair of hash function and comparison
is a constant with the assumption that it is consistent (`ConsistentHash`);
`HashEncode` runs the actual pair on all pairs of equal names.

### OrlHandles

`heap` says what is at every address the allocator may return, so that an
address that is freed can come back as another file's. `files` and `readers`
are the linked lists. A file that is refused goes through both allocations and
both lists in one action, as in the code. When the code frees an uninitialised
pointer (`elfflhn.c:65` after an early failure), or writes through NULL
(`CoffInit`), the C program has no meaning any more: `session` becomes
"undefined" and nothing is claimed of what follows.

### ElfFile

One file at a time. A section handle is the number of its section;
`order` is `sec_handles`, sorted by offset with ties in any order.
What only the load writes is an operator of the image (`SymTab`, `OrigSec`,
`RelocSec`). `symbols`, `relocs`, `names` are what the scans build on first
use, `swaps` counts the byte swaps of each section's entries, `calls` is the
stack of scans whose callbacks are busy. `blocks`, `given`, `refused` and
`bare` record allocations, buffers, failed loads and scans that were given no
relocations.

### CoffFile

As `ElfFile`, but for what COFF does otherwise. A handle is its place in
`coff_sec_hnd`, which is not sorted: the sections of the section table, one
relocation section for each that has relocations, the symbol table, the string
table. `SectionScans` takes that place for the offset by which it orders
sections, so that the order it promises is that of the table. `strings` is
where the load has found the string table: "read", "none" (no long names) or
"inside", when it took other bytes for it. `lines` are the line numbers as they
are in memory, `done` the sections whose entries have been rewritten, `loads`
how the loads so far ended, from which `EveryBlockReached` knows what they left
allocated. `IOFails` lets `cli_read` fail where the code looks at what it returned
and, as `LoadCrashes`, where it does not.

### CoffImport

`CoffCreateImport` is one straight line: it declares sections and symbols,
remembers some symbol numbers, and writes the file with a header made from the
declarations. `todo` holds the calls that line still makes for the entry at hand
(`Declared`, then `Written`), and there is one action per function called.
`number` are its `symbol_...` variables, `out` is `implib_data` piece by piece,
`c_file.room` the size of the block the string table has. The properties read the
file that came out and know nothing of the declarations.

### Drectve

A text is a sequence of characters in which a word counts as one. `Parsed` is the
parser, a recursive function over its position and the number of characters it
believes to be left; the two differ after a comma of a list
(`cofflwlv.c:545`), which the position passes and the number does not. As soon as
the parser decides something by a character behind the text, the result is "wild"
and it is not followed further. The reference works in the other direction: `TextOf` writes a text from
directives, `Says` gives the calls that a directive asks for, and `HeardRight`
compares. `NoteSecScan` of both readers may hear any beginning of the calls, since
the client may stop it at each.

### Identify

`ORLFileIdentify` is called once, before the load; the operators return the
format and the position at which the client's file is left. All seeks of the code are
relative, so `IdentifiedInPlace` asks whether they cancel out.

### The OMF modules

`OmfTables` and `OmfData` have an operator for each function of `omfmunge.c`. It
takes the file handle `o` and returns it changed, with the outcome in `o.ret`;
after an outcome other than "OKAY" its callers do nothing more (`Then`). An assertion that
fails, a NULL pointer that is used, a byte behind a block and a loop that never ends are
outcomes that end a program without meaning; `phase` is "broken" then, and `NeverBreaks`
names the only records that may cause it. Numbers of 32 bits are below
`OffsetRange`, and what wraps in the code wraps there: the ends of data, the growth of
contents, the length of an expansion (`Lengths`).

`OmfFile` handles one record in a step (`Record`), or ends at what is not one
(`Unreadable`). `OmfData` keeps iterated data as the code does: the bytes of their
record (`Encoded`) are copied into the section, with fixups that are numbered by their
place in the record, until another record makes `ExpandPrevLIData` read them again
(`WriteAndFixupLIData`), put the data in place and clone the fixups. The
parser works on bytes, with the word size that the file has by then, and so reads
whatever stands there: `WriteBlock` is a call of `writeAndFixupLIData`, `WriteBlocks` its loop over
the blocks inside, and what a call has visited before an error is written all the same.
`Writable` says which repeat counts a record can have.

`OmfMeaning` says what all of this is for. `read` holds the records handled so
far, and everything in the module is told from `read` alone: `Expansion`
enumerates the bytes of iterated data, each with the place in the record it
came from; `ContentsMeet` lays the data of all records into their sections, later ones over
earlier ones, with backpatches as additions, and `RelocsPlaced` gives every
fixup the places that its byte came to. `RelocsDesignate` finds what a fixup
is about among the definitions that precede it. The code does the
same by surgery on shared lists.

Scans change nothing in an OMF handle and call back from a single loop, so that a
scan is a single step whose result is in `answer`; `ScansMeet` compares it with
the records. `OmfSecGetContents` alone changes the handle: it makes the contents as long
as the section.

## Runs

| run | bounds | shows |
|---|---|---|
| `orl_hash` | 2 buckets, 4 names (2 equal but for case, 3 in one bucket), 2 data, 8 blocks | every interleaving of two names in one bucket, a third behind them; the table is `SectionNames` |
| `hash_encode` | names of 8 characters over 7 | seven characters already carry bits into the top nibble |
| `orl_handles` | 6 addresses, 2 formats and one that is not built | three files, enough for the first, the middle and the last of a list |
| `elf_file` | 5 images of up to 6 sections, one with all texts of up to two linker directives, scans nested twice, one failed load | all orders of first uses, from within each other; every scan ends |
| `elf_empty_reloc` | one image | refutes `elfload.c:438-440` (see Findings) |
| `elf_bss` | one image | refutes a claim of `README.md` (see Findings) |
| `coff_file` | 10 images of up to 2 sections and 6 symbols, one with linker directives, scans nested twice, 2 loads, reads that fail | all orders of first uses, files cut off in and behind their symbols and in their strings, import libraries |
| `coff_relocs` | two of these images | refutes a claim of `README.md` (see Findings) |
| `coff_strings` | one image | refutes `coffload.c:472` (see Findings) |
| `coff_import` | 3 machines and an unknown one, 4 kinds of names with 3 prefixes and 2 suffixes, lengths from 1 to 1000 | names that fit a symbol, that do not, and that make the string table grow |
| `omf_file` | five alphabets of 8 to 19 records, up to 3 of them in any order behind the records of a head, an end of the module or of the file anywhere; the beginnings of files of all formats, alone and in an archive | records whose meaning depends on others: data over data, iterated data with fixups in front and behind, backpatches before and after their data, COMDATs continued, fixups on the headers of iterated data with what lets their error be forgotten, iterated data of both word sizes with a comment behind them that changes the word size, data that end where 32 bits do not reach, alignments that are none |
| `import_long` | a name of 2100 characters | refutes `coffimpl.c:52-54` (see Findings) |

In `omf_file`, bytes have 4 values (`Radix`), so that a backpatch carries and the words
of a record, of two or four such bytes, hold what its blocks need; blocks of contents grow
in steps of 8 bytes, so that data written one after the other need another block; offsets are
below 32, so that a segment of the greatest size (31) wraps in `CheckSegmentLength`, data
at 30 in `PutLEData`, and data that expand to 33 bytes (`Huge`) in `Lengths`. `Wide` and `Zeros`
are blocks that mean something when their words of four bytes are read as two: `Wide`
a block inside another that is not repeated, where the loop never ends, `Zeros` other data.
Three records suffice for what the code relates: data, their fixups, and the
record that makes them final.

Deadlock is not checked where the model may really stop: when the program has
lost its meaning, in `hash_encode` when the names are at their
longest, in `coff_import` when the file is finished, and in `omf_file` when a file is
refused or closed.

Fairness: only `elf_file` assumes any, that a callback answers sometime,
however often it calls ORL first (strong fairness for every depth of nesting).
It is an assumption about the client; the library itself runs to its return, which
is weak fairness of `ReturnUncalled`, the end of a scan that called nobody.

## Findings

* `elfload.c:469`: an empty relocation section is not ignored; the second
  pass uses the index -1 that was to mark it.
* `elfload.c:583`: the contents of `SHT_NOBITS` sections are read from the
  file, so that an object with a large `.bss` is refused.
* `cofflwlv.c:395`: no scan gives the relocations of a COFF section, whose
  number is computed with the size of the wrong structure; four or more are
  written behind a block.
* `coffload.c:476`: the string table is looked for where the load has read to,
  not behind the symbol table; with a section behind it, it is lost.
* `coffimpl.c:132`: the string table of an import entry is doubled once, which
  is not enough for every long name. (With `AllocFails` TRUE `StringsFit` fails
  for shorter names too: a table that could not be doubled is used as if it had
  been.)
* Noted while modelling, without a run: `coffimpl.c:361` never skips the `?`
  that line 326 says it does; `coffimpl.c:243` frees `implib_data` only when it is
  NULL, `coffload.c:268` allocates two arrays that nothing frees
  (`EveryBlockReached` counts both).
* The parser of linker directives does not count the commas of a list
  (`cofflwlv.c:545`, the same in `elflwlv.c`) and looks at the character behind
  the last entry; a directive without a colon in front of the end takes its length below
  zero. A directive it does not know that has an argument, or an
  export with attributes (`-export:f,DATA`), makes the rest unheard.
  `MayStray` and `Ends` name these texts, and `DirectivesHeard` holds of the others.
* OMF, which nothing builds: an assertion refuses a BAKPAT behind iterated data
  (`omfmunge.c:626`), which the comment at line 728 allows; the error of an
  expansion is forgotten when backpatches wait as well (`omfmunge.c:735`), the
  contents then are not what the records say (`ErrorForgotten`) and its fixups
  are lost with the next iterated data; the word size of iterated data is
  decided when they are added (`omfmunge.c:955`) and, from the state of the file,
  once more when they are expanded (`omfmunge.c:488-493`), and a comment that says
  EASY OMF may come between without finishing them (`omfload.c:411-420`): data
  with 32-bit counts are then an error, other data, or a loop that never ends,
  and when backpatches wait the error is forgotten and the file opens with the
  bytes of the record unexpanded (`Misread`, an exception of `ContentsMeet`,
  `RelocsPlaced`, `RelocsDesignate` and `NeverBreaks`); a block with blocks inside that is not
  repeated is not gone past (`omfmunge.c:515`), which only such data reach, as
  the length of others is 0 and they are refused; offset and length are
  added in 32 bits (`omfmunge.c:940`, `993`, `1455`) and so is the length of an
  expansion (`omfmunge.c:785-789`), so that what wraps passes for small and the copy goes
  beside the contents; an alignment that is none fails an assertion
  (`omfload.c:143-145`) where other wrong fields refuse the file; `omfmunge.c:958`
  writes the whole record of iterated data into a section that may be smaller; an
  iterated COMDAT gets the size of its record and is refused once it expands to
  more (`omfmunge.c:1455`); a CEXTDEF in a module without external names is a
  NULL pointer (`omfmunge.c:1306`); `omfload.c:889` leaves `segs`; no scan by name
  finds a COMDAT (`omfentr.c:135` asks for segments only); a fixup in a COMDAT
  whose frame is the place of the fixup gets the number of the COMDAT among the
  COMDATs as that of a segment (`omfmunge.c:1132`). `NeverBreaks`,
  `EveryBlockReached`, `RelocsDesignate` and `ScansMeet` name each as an
  exception.

## Proofs

For every value of the constants, under the named assumptions of the modules
only (`HashAssumptions` and `NamesAssumption` for names and their hash,
`ImagesAssumption` for the files that are read, `InputsAssumption` for import
entries, and for OMF `FilesAssumption`, that a record says of its own lists and
numbers what is so, `SizeAssumption` for the steps of contents,
`BlocksAssumption`, `NestingAssumption` and `RadixAssumption` for iterated data): any number of
files, sections, symbols, names, records and scans.

* `OrlHashProofs`: `TypeCorrect`, `EntriesAreUnique`, `NothingLeaks`,
  `Refinement`. The inductive invariant is the type, `OneEntryPerKey` and the
  count of blocks: a walk that stops at the first match is right only because
  there is one entry per folded name, and there is one only because the walk
  looked before it inserted. The count is a sum over buckets and entries, of
  which an insertion changes one term.
* `OrlHandlesProofs`: `TypeCorrect`, `HandlesAreOwned`, `SessionsLeaveNothing`,
  `ListsHaveTheSameOrder`, `Refinement`. The inductive invariant adds to the
  properties that free cells are empty and that a reader's handle has an
  enabled format. The lemmas about lists (`ConsOnce`, `RemoveOnce`,
  `UnlinkLast`) carry the argument: unlinking what was just pushed gives the
  list before, so a refused file leaves no trace. For the order, the list of a
  reader is the list of files, those of its format only, mapped to their
  handles; pushing and unlinking commute with that (`ThoseInFront`).
* `ElfFileProofs`: `TypeCorrect`, `EntriesAreSwappedOnce`, `NothingLeaks`,
  `TablesAreBacked`, `OnlyOneBareScan`, `RefusedFilesGiveBack`. The inductive
  invariant has a part for the phases, one for the tables (a table is there if
  and only if its entries are swapped, and once), one for the names, one for
  the scans in progress (what is called back is in the tables now) and one for
  the blocks. That entries are swapped once, whichever of the scans comes
  first, is a consequence of the second part alone; that scans nested in each
  other keep it needs the fourth.
* `CoffFileProofs`: `TypeCorrect`, `LinesAreConvertedOnce`, `NothingLeaks`,
  `TablesAreBacked`, `CutOffFilesAreRefused`. The argument is that of ELF, with
  the line numbers instead of the swaps: `lines` is the conversion of the
  image's numbers at the sections in `done` and the image's own elsewhere, and
  a conversion needs the symbols, which are made before. What earlier loads
  left allocated is a sum over `loads`.
* Both, in their second halves: `ScansAreServed`, the refinement of
  `SectionScans`. `Load` maps to `Open`, `FileScan` to `Begin`, an answer to
  `Return` or `Other`, a scan that called nobody to `ReturnUncalled` or
  `Other`, `Close` to `Close`, the rest to `Other`. The invariant adds that the
  name table, if there is one, is the table of the sections in order, and that
  a scan that waits has called with what it walks along. The key lemma: what
  the table has for a name is the sublist of the sections that bear it, in the
  order of the scan.
* `CoffImportProofs`: `TypeCorrect`, `RelocationsReferToTheirSymbols`,
  `HeadersMeetTheirData`, `NamesAreFound`, `ShortNamesFit`. The inductive invariant says of the calls still to be made what they will do: the
  declared sections and the ones in `todo` are together the `Plan` of the entry
  (`SectionsInv`), so that there are six at most. Every call adds two symbols
  at most and the calls are 17 at most, the first a section (`SymbolsInv`), so
  that 32 symbols suffice. A remembered symbol is in its section (`Ready`), and
  what a relocation needs is remembered or will be (`NumbersInv`). All of these
  are properties of lists of calls that their parts have one by one
  (`GoodConcat`, `PartConcat`, `StartsConcat`, `OffersConcat`). For the places
  in the file, what is written followed by what is still to be written is the
  headings and `Written(import)` (`PiecesInv`); `Laid` says of a list of pieces
  and a list of sections that the pieces of each section fill its data and its
  relocations and are nowhere else, the parts of `Written` have it (`CodeLaid`,
  `TableLaid`, `NameLaid`) and so have two parts one behind the other
  (`LaidConcat`), and what a header says is the sum of what is in front of it
  (`PlacesInv`). These three theorems hold with `AllocFails` too.
  `NamesAreFound` needs that no larger table is refused: `AddCoffString` then
  returns without the name, and the symbol keeps its offset. Its invariant is
  that the size of the table is the sum of its strings and that every symbol
  with an offset has its string there (`StringsInv`). `ShortNamesFit` says for
  which lengths the defect of run `import_long` cannot happen: with names of at
  most 1014 characters, and 1003 of DLLs, every symbol fits the table as it is
  at first, and a table that is doubled once has room for it (`RoomInv`). The
  lengths are the only hypothesis beside `AllocFails`; the passing run is within
  them.
* `OmfFileProofs`: `IdentifiedInPlaceHolds`, `TypeCorrect`,
  `EveryBlockReachedHolds`. The first is about `Identify`: the seeks of the code cancel
  out whatever the bytes are, also behind a read that failed. The invariant
  (`Inv`) of the other two says of a file that is being loaded or is open that
  its handle is `Sound`, which is `TypeOK` with the shape of every table, and how
  its `Surplus` stands: the blocks that it has cost and that `freeFileHandle`
  will not reach. `OmfDataProofs` shows operator by operator that a handler
  keeps a handle sound and what it adds to the surplus: nothing (`Keeps`), or a
  number (`Costs`). For what waits, this depends on the order of records, which
  is `Tells`: a handler may leave a surplus if it fails, or if an expansion
  fails whose fixups wait while backpatches wait too; and fixups wait only
  behind iterated data that do (`Tidy`), unless this has happened. `Tells`
  composes (`TellsInTurn`), and so has every record it, of any number of parts
  (`EachTells`, an induction over the fold). That the parser of iterated data has
  a result for whatever bytes there are, and counts what it clones, is shown
  along its recursion: blocks inside are read with fewer bytes left, or fewer
  blocks to go (`FixedPoint`); a byte is below `Radix` (`RadixAssumption`), which
  bounds the counts. The count of blocks is the sum of
  what hangs on the sections and of the sizes of the tables (`ReachedParts`), of
  which each operator changes one or two.
* `DataLemmas` holds what the others keep needing: an induction over numbers
  and over finite sets, each from a least counterexample, and with it what
  `SumFunctionOnSet` and the lists of `Sublists` do when one member comes,
  goes or changes, and what lists of numbers one behind the other add up to.

The theorem about `SectionScans` and `ElfFile` is about `Spec`, the run about
`FairSpec`, which is `Spec` with fairness.

Model-checked only, and why:

* `HashEncode`: bitwise operators, which the provers do not know;
* `DirectivesHeard`: what a recursive parser computes for every text;
* `ContentsMeet`, `RelocsPlaced`: that two recursions over nested blocks, one in
  place and one on lists, compute the same bytes (induction over data), and
  powers of `Radix`;
* `RelocsDesignate`, `ScansMeet`, `NeverBreaks`: they speak of the records of a
  kind in their order (`SelectSeq`), for which there are no facts to cite;
* that scans end: liveness.

## Not modelled

Sizes of blocks and failures of allocation where the code does not look; the
getters, which return what the load set; the tables that translate relocation
types; byte layouts of headers; headers outside of the well-formed images named
in `ElfFile`.

Of the parser of directives: that tabs and equal signs count as spaces, and that
commands are told by their beginnings in any case of letters. Of OMF: the numbers of
lines, and the copy of an iterated record of more than 1024 bytes (`omfmunge.c:595-601`),
a block that is given back when the expansion succeeds and lost when it ends in an
error (616-617): `EveryBlockReached` says nothing of it. String helpers are modelled by what they do where they
are used; the definitions of formats are constants and layouts.

## Plan

1. Done: `OrlHash`, `HashEncode`, `OrlHandles`, `ElfFile`, `CoffFile`,
   `CoffImport`; the theorems about the first and the third.
2. Done: the OMF modules, `Identify`, `Drectve`.
3. Done: proofs about `ElfFile`, `CoffFile`, their refinement of `SectionScans`;
   about every property of `CoffImport`.
4. Done: proofs about `Identify`, and about the type and the blocks of `OmfFile`.
5. Left to TLC: what is listed above under the proofs.
