------------------------------ MODULE CoffFile ------------------------------
(***************************************************************************)
(* One COFF file: loading it (coffload.c), scanning its sections and       *)
(* symbols through callbacks (coffentr.c), the tables built on first use   *)
(* (cofflwlv.c) and closing it (coffflhn.c).                               *)
(*                                                                         *)
(* A handle is its place in coff_sec_hnd, which lists the sections of the  *)
(* section table (orig_sec_hnd is that prefix), a section of relocations   *)
(* for every section that has some, the symbol table and the string table. *)
(* Places in the file are in units of one entry of a table, one section    *)
(* byte and one size word alike.                                           *)
(*                                                                         *)
(* `calls' is the C stack of scans, innermost first, as in ElfFile.  An    *)
(* import library entry is read from the object file that CoffImport       *)
(* models; its image is that object file.  The client does not close a     *)
(* file from within its scan, and allocation succeeds.                     *)
(*                                                                         *)
(* The images are well-formed up to where the file ends: symbol indices    *)
(* name symbols, a function's line numbers come with symbols, the last     *)
(* symbol has its auxiliary entries, and no .bf is the first of them.      *)
(***************************************************************************)
EXTENDS Naturals, Sequences, FiniteSets, Functions, FiniteSetsExt, Drectve, Sublists

CONSTANTS
  Images,       \* the files that may be opened
  HashSize,     \* SEC_NAME_HASH_TABLE_SIZE
  HashOf, FoldOf, NoTable,    \* as in OrlHash, for the section names
  RelName, SymName, StrName,  \* SectionNames: ".rel", ".symtab", ".strtab"
  RelocSize,      \* sizeof( struct coff_reloc )
  OrlRelocSize,   \* sizeof( struct orl_reloc_struct )
  PointerSize,    \* sizeof( orl_reloc )
  ANY,          \* the NULL name of ORLFileScan
  STOP,         \* an orl_return other than ORL_OKAY that the client answers
  IOFails,      \* may cli_read fail on what is in the file?
  MaxCalls,     \* bound of the model: how deep callbacks call ORL
  MaxLoads      \* bound of the model: how often a file is loaded

ASSUME SizesAssumption ==
  RelocSize \in Nat \ {0} /\ OrlRelocSize \in Nat \ {0} /\ PointerSize \in Nat

\* The symbols of a file are numbered from 1, their auxiliary entries included,
\* which the loops over the symbols skip.  Stripped images have no symbols,
\* whatever their header says.
HeadsOf(f) ==
  LET Upto[i \in 0 .. Len(f.syms)] ==
        IF i = 0 THEN {}
        ELSE LET before == Upto[i - 1]
             IN  IF i = 1 \/ \E j \in before : j + f.syms[j].aux + 1 = i
                 THEN before \cup {i} ELSE before
  IN  IF f.symoff = 0 THEN {} ELSE Upto[Len(f.syms)]

\* A line number is a uint16_t.
TwoTo16 == 65536
LineNumbers == 0 .. TwoTo16 - 1

ASSUME ImagesAssumption ==
  \A f \in Images :
    /\ f.import \in {"no", "yes", "unsupported"}
    /\ {f.hdr, f.symoff, f.strs, f.eof} \subseteq Nat
    /\ f.secs \in Seq(Range(f.secs)) /\ f.syms \in Seq(Range(f.syms))
    /\ \A i \in DOMAIN f.secs :
         LET s == f.secs[i] IN
         /\ s.kind \in {"prog", "bss", "note", "other"}
         /\ s.name \in DOMAIN HashOf
         /\ {s.off, s.size, s.relocs, s.reloff} \subseteq Nat
         /\ s.lines \in Seq([num : LineNumbers, ref : Nat])
         /\ \A j \in DOMAIN s.lines : s.lines[j].num = 0 => s.lines[j].ref \in HeadsOf(f)
    /\ \A i \in DOMAIN f.syms :
         {f.syms[i].value, f.syms[i].aux, f.syms[i].line} \subseteq Nat
    /\ \A i \in HeadsOf(f) : i + f.syms[i].aux <= Len(f.syms) /\ (i = 1 => ~f.syms[i].bf)

\* What OrlHash assumes of the table of names.
ASSUME NamesAssumption ==
  /\ HashSize \in Nat \ {0}
  /\ HashOf \in [DOMAIN HashOf -> 0 .. HashSize - 1]
  /\ DOMAIN FoldOf = DOMAIN HashOf
  /\ \A j, k \in DOMAIN HashOf : FoldOf[j] = FoldOf[k] => HashOf[j] = HashOf[k]
  /\ {RelName, SymName, StrName} \subseteq DOMAIN HashOf
  /\ NoTable \notin [0 .. HashSize - 1 -> Seq([key : DOMAIN HashOf, data : Seq(Nat) \ {<<>>}])]

VARIABLES
  img,        \* the file
  phase,      \* "closed", "open", or how the program lost its meaning
  strings,    \* where the contents of the string table were found
  symbols,    \* is symbol_handles not NULL?
  names,      \* sec_name_hash_table
  relocs,     \* the handles whose assoc.reloc.relocs is not NULL
  lines,      \* the line numbers of every section, as they are in memory
  done,       \* the sections with relocs_done
  calls,      \* the scans in progress
  result,     \* what the last call returned
  blocks,     \* blocks taken from cli_alloc and not given back to cli_free
  loads,      \* how the loads so far ended, in their order
  heard       \* the scan of a .drectve section that is just over, <<>> for none

vars == <<img, phase, strings, symbols, names, relocs, lines, done, calls,
          result, blocks, loads, heard>>

Hash == INSTANCE OrlHash
          WITH Keys <- DOMAIN HashOf, Datas <- Nat, Size <- HashSize,
               MaxBlocks <- 0, table <- names, blocks <- 0, answer <- <<>>

-----------------------------------------------------------------------------
(* The handles that load_coff_sec_handles makes.                           *)

Secs == DOMAIN img.secs
Relocated == {h \in Secs : img.secs[h].relocs # 0}
RelocSec(h) ==   \* assoc.normal.reloc_sec, 0 for NULL
  IF h \in Relocated
  THEN Len(img.secs) + Cardinality({g \in Relocated : g <= h}) ELSE 0
RelocSecs == {RelocSec(h) : h \in Relocated}
OrigSec(r) == CHOOSE h \in Relocated : RelocSec(h) = r
SymTab == Len(img.secs) + Cardinality(Relocated) + 1
StrTab == SymTab + 1
Handles == 1 .. StrTab

Prog(h) == h \in Secs /\ img.secs[h].kind \in {"prog", "bss"}

NameOf(h) ==
  CASE h \in Secs      -> img.secs[h].name
    [] h \in RelocSecs -> RelName
    [] h = SymTab      -> SymName
    [] h = StrTab      -> StrName

NumSymbols == IF img.symoff = 0 THEN 0 ELSE Len(img.syms)

Off(h) ==
  CASE h \in Secs      -> img.secs[h].off
    [] h \in RelocSecs -> img.secs[OrigSec(h)].reloff
    [] h = SymTab      -> img.symoff
    [] h = StrTab      -> img.symoff + NumSymbols

\* The size of the string table is determined later.
SizeOf(h) ==
  CASE h \in Secs      -> img.secs[h].size
    [] h \in RelocSecs -> img.secs[OrigSec(h)].relocs
    [] h = SymTab      -> NumSymbols
    [] h = StrTab      -> 0

\* Faulty: looks at the sections of the section table only.
SectionsEnd ==
  Max({img.hdr} \cup {Off(h) + SizeOf(h) : h \in {g \in Secs : img.secs[g].kind # "bss"}})

\* How far the rest of the file is read at once: to the end of the last of all
\* handles that are not uninitialized data.
BufEnd ==
  Max({Off(h) + SizeOf(h) : h \in {g \in Handles : g \in Secs => img.secs[g].kind # "bss"}})

-----------------------------------------------------------------------------
(* Symbols and line numbers.                                               *)

Heads == HeadsOf(img)

\* prev: the symbol before, the first is its own.
Prev(i) == IF i = 1 THEN 1 ELSE Max({j \in Heads : j < i})

\* has_bf: a .bf symbol with an auxiliary entry follows.
HasBf(i) == \E j \in Heads : img.syms[j].bf /\ img.syms[j].aux >= 1 /\ Prev(j) = i

\* Faulty: keeps more of the sum than a uint16_t holds.
ConvertedWide(t) ==
  LET Bf(i)   == i + img.syms[i].aux + 2
      Base[i \in 0 .. Len(t)] ==
        IF i = 0 THEN 0
        ELSE IF t[i].num = 0 /\ HasBf(t[i].ref) THEN img.syms[Bf(t[i].ref)].line
        ELSE Base[i - 1]
  IN  [i \in DOMAIN t |->
         [num |-> t[i].num + Base[i],
          ref |-> IF t[i].num = 0 THEN img.syms[t[i].ref].value ELSE t[i].ref]]

\* The loop of CoffConvertLines, which writes every entry over the one it has
\* read.  An entry numbered 0 names the symbol of a function, and the auxiliary
\* entry of its .bf symbol has the base of the entries that follow.
Converted(t) ==
  LET Bf(i)   == i + img.syms[i].aux + 2
      Base[i \in 0 .. Len(t)] ==
        IF i = 0 THEN 0
        ELSE IF t[i].num = 0 /\ HasBf(t[i].ref) THEN img.syms[Bf(t[i].ref)].line
        ELSE Base[i - 1]
  IN  [i \in DOMAIN t |->
         [num |-> (t[i].num + Base[i]) % TwoTo16,
          ref |-> IF t[i].num = 0 THEN img.syms[t[i].ref].value ELSE t[i].ref]]

LinesInFile == [h \in Secs |-> img.secs[h].lines]

-----------------------------------------------------------------------------
Undefined == {"null_header", "wild_name", "wild_write", "wild_text"}

\* A scan in progress: what it walks, the name it wants, its loop index.
Call == [op : {"all", "named", "symbols"}, want : DOMAIN HashOf \cup {ANY}, at : Nat]

Outcomes == {"loaded", "no_size", "machine", "table", "rest", "strings"}

TypeOK ==
  /\ img \in Images
  /\ phase \in {"closed", "open"} \cup Undefined
  /\ strings \in {"none", "read", "inside"}
  /\ symbols \in BOOLEAN
  /\ relocs \subseteq RelocSecs
  /\ DOMAIN lines = Secs
  /\ \A h \in Secs : lines[h] \in Seq([num : LineNumbers, ref : Nat])
  /\ done \subseteq Secs
  /\ calls \in Seq(Call)
  /\ result \in {"OKAY", "FALSE", "ERROR", STOP}
  /\ blocks \in Nat
  /\ loads \in Seq(Outcomes)
  /\ \A i \in DOMAIN heard : heard[i].note \in img.notes

NothingBuilt ==
  /\ symbols = FALSE /\ names = NoTable /\ relocs = {}
  /\ lines = LinesInFile /\ done = {}

Init ==
  /\ img \in Images
  /\ phase = "closed"
  /\ strings = "none"
  /\ NothingBuilt
  /\ calls = <<>>
  /\ result = "OKAY"
  /\ blocks = 0
  /\ loads = <<>>
  /\ heard = <<>>

-----------------------------------------------------------------------------
(* Loading.  What is made up for an import library entry can be read.      *)

Known == img.machine /\ img.import # "unsupported"
MayFail == IOFails /\ img.import = "no"
RestInFile == img.hdr <= BufEnd /\ BufEnd <= img.eof

\* The size of the string table is what follows the part of the file that has
\* been read, be it the string table or not; an absurd or empty one, and one
\* that cannot be read, counts as none.
StringSizes ==
  IF img.symoff = 0 \/ BufEnd = img.eof THEN {0}
  ELSE IF BufEnd = Off(StrTab) THEN {img.strs}
  ELSE {0, 1}

FoundStrings(size) ==
  IF size = 0 THEN "none" ELSE IF BufEnd = Off(StrTab) THEN "read" ELSE "inside"

\* Its contents come after its size word and are read if they follow.
StringsInFile(size) ==
  FoundStrings(size) = "read" => BufEnd + 1 + size <= img.eof

\* A load allocates the file handle, coff_sec_hnd and its handles, the names
\* that are in the section table; for a file with sections orig_sec_hnd and the
\* two arrays of where their relocations are; and implib_data.
Made ==
  2 + StrTab + Cardinality({h \in Secs : ~img.secs[h].long})
    + (IF Secs = {} THEN 0 ELSE 3) + (IF img.import = "yes" THEN 1 ELSE 0)

\* The symbols of an open file are one block, and one for every name that
\* fills its field.
SymbolBlocks ==
  IF NumSymbols = 0 THEN 0 ELSE 1 + Cardinality({i \in Heads : img.syms[i].eight})

\* Faulty: takes the symbol names for part of the file.
ReachedWithoutNames ==
  2 + StrTab + Cardinality({h \in Secs : ~img.secs[h].long})
    + (IF Secs = {} THEN 0 ELSE 1)
    + Cardinality(relocs)
    + (IF symbols THEN 1 ELSE 0)
    + (IF names = NoTable THEN 0 ELSE 2 + Hash!Reached(names))

\* What free_coff_file_hnd frees of a file with handles.  DataImpLibFini frees
\* implib_data only when it is NULL.
Reached ==
  2 + StrTab + Cardinality({h \in Secs : ~img.secs[h].long})
    + (IF Secs = {} THEN 0 ELSE 1)
    + Cardinality(relocs)
    + (IF symbols THEN SymbolBlocks ELSE 0)
    + (IF names = NoTable THEN 0 ELSE 2 + Hash!Reached(names))

CanLoad == phase = "closed" /\ Len(loads) < MaxLoads

Load ==
  /\ CanLoad
  /\ Known
  /\ RestInFile
  /\ \/ \E size \in StringSizes :
          /\ StringsInFile(size)
          /\ strings' = FoundStrings(size)
          /\ loads' = Append(loads, "loaded")
     \/ /\ MayFail /\ img.symoff # 0
        /\ strings' = "none"
        /\ loads' = Append(loads, "no_size")
  /\ phase' = "open"
  /\ blocks' = blocks + Made
  /\ result' = "OKAY"
  /\ UNCHANGED <<img, symbols, names, relocs, lines, done, calls, heard>>

\* A load of a machine ORL does not know ends before it makes handles, and so
\* does one that cannot read the section table; what it frees then is the file
\* handle.  The import library reader leaves its data and its strings behind.
LoadFailsEarly ==
  /\ CanLoad
  /\ \/ /\ ~Known
        /\ loads' = Append(loads, "machine")
        /\ blocks' = blocks + IF img.import = "unsupported" THEN 2 ELSE 0
     \/ /\ Known /\ MayFail /\ Secs # {}
        /\ loads' = Append(loads, "table")
        /\ blocks' = blocks
  /\ result' = "ERROR"
  /\ UNCHANGED <<img, phase, strings, symbols, names, relocs, lines, done, calls, heard>>

\* The handles are made, but the rest of the file or the string table cannot
\* be read: the file handle is freed with what it reaches.
LoadFails ==
  /\ CanLoad
  /\ Known
  /\ \/ /\ (~RestInFile \/ MayFail)
        /\ loads' = Append(loads, "rest")
     \/ /\ RestInFile
        /\ \E size \in StringSizes :
             ~StringsInFile(size) \/ (MayFail /\ FoundStrings(size) = "read")
        /\ loads' = Append(loads, "strings")
  /\ blocks' = blocks + Made - Reached
  /\ result' = "ERROR"
  /\ UNCHANGED <<img, phase, strings, symbols, names, relocs, lines, done, calls, heard>>

\* What cli_read returns for the headers is used unseen.
LoadCrashes ==
  /\ CanLoad
  /\ IOFails
  /\ phase' = "null_header"
  /\ UNCHANGED <<img, strings, symbols, names, relocs, lines, done, calls,
                 result, blocks, loads, heard>>

\* CoffFileFini: free_coff_file_hnd.
Close ==
  /\ phase = "open"
  /\ calls = <<>> /\ heard = <<>>
  /\ phase' = "closed"
  /\ strings' = "none"
  /\ symbols' = FALSE /\ names' = NoTable /\ relocs' = {}
  /\ lines' = LinesInFile /\ done' = {}
  /\ blocks' = blocks - Reached
  /\ result' = "OKAY"
  /\ UNCHANGED <<img, calls, loads, heard>>

-----------------------------------------------------------------------------
(* Scanning.                                                               *)

\* The client calls ORL when no scan is in progress, or from the callback of one.
CanCall ==
  /\ phase = "open" /\ heard = <<>>
  /\ Len(calls) < MaxCalls
  /\ calls # <<>> => calls[1].at # 0

\* Names in a string table that was not found point beside NULL.  Those of
\* static symbols are compared with the name of their section.
LongNames == {h \in Secs : img.secs[h].long}
WildNames == strings = "none" /\ names = NoTable /\ LongNames # {}
WildSymbols ==
  /\ strings = "none" /\ ~symbols
  /\ \E i \in Heads : img.syms[i].long \/ img.syms[i].static \in LongNames

\* Faulty: the sections of the section table only.
NameTableOfSections ==
  LET With(t, h) == [t EXCEPT ![HashOf[NameOf(h)]] = Hash!Inserted(@, NameOf(h), h)]
      Upto[i \in 0 .. Len(img.secs)] ==
        IF i = 0 THEN [b \in 0 .. HashSize - 1 |-> <<>>] ELSE With(Upto[i - 1], i)
  IN  Upto[Len(img.secs)]

\* CoffBuildSecNameHashTable: every handle under its name, in their order.
NameTable ==
  LET With(t, h) == [t EXCEPT ![HashOf[NameOf(h)]] = Hash!Inserted(@, NameOf(h), h)]
      Upto[i \in 0 .. StrTab] ==
        IF i = 0 THEN [b \in 0 .. HashSize - 1 |-> <<>>] ELSE With(Upto[i - 1], i)
  IN  Upto[StrTab]

\* The indices at which the loop of a scan calls the client.
Stops(c, table) ==
  CASE c.op = "all"     -> Handles
    [] c.op = "named"   -> DOMAIN Hash!Lookup(table[HashOf[c.want]], c.want)
    [] c.op = "symbols" -> Heads

\* A scan begins: it calls the client, or (at 0) has nothing to call it for.
Enter(op, want, table) ==
  LET c == [op |-> op, want |-> want, at |-> 0]
  IN  /\ calls' = <<[c EXCEPT !.at = IF Stops(c, table) = {} THEN 0 ELSE Min(Stops(c, table))]>>
                    \o calls
      /\ result' = result

\* CoffFileScan
FileScan(name) ==
  /\ CanCall
  /\ name = ANY \/ ~WildNames
  /\ IF name = ANY
     THEN /\ Enter("all", ANY, names)
          /\ UNCHANGED <<names, blocks>>
     ELSE LET table == IF names = NoTable THEN NameTable ELSE names
          IN  /\ names' = table
              /\ blocks' = IF names = NoTable THEN blocks + 2 + Hash!Reached(table)
                           ELSE blocks
              /\ Enter("named", name, table)
  /\ UNCHANGED <<img, phase, strings, symbols, relocs, lines, done, loads, heard>>

\* CoffCreateSymbolHandles, which a scan of symbols or relocations and the line
\* numbers of a section call while symbol_handles is NULL; without symbols it
\* stays so.  The client is called, or is answered, after it.
EnsureSymbols(more) ==
  /\ ~WildSymbols
  /\ symbols' = (NumSymbols # 0)
  /\ blocks' = blocks + more + IF symbols THEN 0 ELSE SymbolBlocks

\* A name in a string table that is not there is compared with names.
FollowWildName ==
  /\ CanCall
  /\ WildNames \/ WildSymbols
  /\ phase' = "wild_name"
  /\ UNCHANGED <<img, strings, symbols, names, relocs, lines, done, calls,
                 result, blocks, loads, heard>>

\* Faulty: takes the symbols for made.
SymbolSecScanUnready ==
  /\ CanCall
  /\ Enter("symbols", ANY, names)
  /\ UNCHANGED <<img, phase, strings, symbols, names, relocs, lines, done, blocks, loads, heard>>

\* CoffSymbolSecScan of the symbol table
SymbolSecScan ==
  /\ CanCall
  /\ EnsureSymbols(0)
  /\ Enter("symbols", ANY, names)
  /\ UNCHANGED <<img, phase, strings, names, relocs, lines, done, loads, heard>>

\* How many relocations CoffCreateRelocs makes of a section r of relocations.
NumRelocs(r) == (SizeOf(r) * RelocSize) \div OrlRelocSize

\* The array has the room of NumRelocs pointers and is written as that many
\* structures; without any it is whatever cli_alloc returns for no bytes, and
\* the scan is an error.
ScanRelocs(r) ==
  /\ CanCall
  /\ IF r \in relocs
     THEN /\ result' = "ERROR"
          /\ UNCHANGED <<phase, symbols, relocs, blocks>>
     ELSE IF NumRelocs(r) * OrlRelocSize > NumRelocs(r) * PointerSize
     THEN /\ EnsureSymbols(1)
          /\ phase' = "wild_write"
          /\ UNCHANGED <<relocs, result>>
     ELSE /\ \/ EnsureSymbols(0) /\ relocs' = relocs
             \/ EnsureSymbols(1) /\ relocs' = relocs \cup {r}
          /\ result' = "ERROR"
          /\ UNCHANGED phase
  /\ UNCHANGED <<img, strings, names, lines, done, calls, loads, heard>>

\* CoffRelocSecScan
RelocSecScan(r) == r \in RelocSecs /\ ScanRelocs(r)

\* CoffSecScanReloc and CoffSecQueryReloc of a section that has relocations
SecScanReloc(h) == Prog(h) /\ RelocSec(h) # 0 /\ ScanRelocs(RelocSec(h))

\* Both of a section without relocations, or of one without program bits; the
\* other scans of a section of the wrong type.
ScanNothing(h) ==
  /\ CanCall
  /\ \/ result' = "ERROR"
     \/ Prog(h) /\ RelocSec(h) = 0 /\ result' = "FALSE"
  /\ UNCHANGED <<img, phase, strings, symbols, names, relocs, lines, done,
                 calls, blocks, loads, heard>>

\* Faulty: converts them for every call.
SecGetLinesAgain(h) ==
  /\ CanCall
  /\ h \in Secs /\ img.secs[h].lines # <<>>
  /\ EnsureSymbols(0)
  /\ lines' = [lines EXCEPT ![h] = Converted(@)]
  /\ done' = done \cup {h}
  /\ UNCHANGED <<img, phase, strings, names, relocs, calls, result, loads, heard>>

\* CoffSecGetLines of a section that has line numbers
SecGetLines(h) ==
  /\ CanCall
  /\ h \in Secs /\ img.secs[h].lines # <<>>
  /\ EnsureSymbols(0)
  /\ lines' = [lines EXCEPT ![h] = IF h \in done THEN @ ELSE Converted(@)]
  /\ done' = done \cup {h}
  /\ UNCHANGED <<img, phase, strings, names, relocs, calls, result, loads, heard>>

\* A scan that has called the client for nothing returns.
ReturnUncalled ==
  /\ phase = "open"
  /\ calls # <<>> /\ calls[1].at = 0
  /\ calls' = Tail(calls)
  /\ result' = "OKAY"
  /\ UNCHANGED <<img, phase, strings, symbols, names, relocs, lines, done, blocks, loads, heard>>

\* The client answers the innermost scan, which goes on or returns.
Answer(a) ==
  /\ phase = "open"
  /\ calls # <<>> /\ calls[1].at # 0
  /\ LET c     == calls[1]
         later == {i \in Stops(c, names) : i > c.at}
     IN  IF a = "OKAY" /\ later # {}
         THEN calls' = <<[c EXCEPT !.at = Min(later)]>> \o Tail(calls) /\ result' = result
         ELSE calls' = Tail(calls) /\ result' = a
  /\ UNCHANGED <<img, phase, strings, symbols, names, relocs, lines, done, blocks, loads, heard>>

\* CoffParseDrectve
CoffParseDrectve(note) == Hearings(TextOf(note))

\* CoffNoteSecScan.  It changes nothing, so that it need not be looked at from
\* within other scans, and returns ORL_OKAY whatever the client answers.
NoteSecScan(h) ==
  /\ CanCall /\ calls = <<>>
  /\ h \in Secs /\ img.secs[h].kind = "note"
  /\ \E note \in img.notes : \E it \in CoffParseDrectve(note) :
       /\ heard' = <<[note |-> note, said |-> it]>>
       /\ phase' = IF it.wild THEN "wild_text" ELSE phase
  /\ result' = "OKAY"
  /\ UNCHANGED <<img, strings, symbols, names, relocs, lines, done, calls, blocks, loads>>

\* The client goes on to something else.
Forget ==
  /\ phase = "open" /\ heard # <<>>
  /\ heard' = <<>>
  /\ UNCHANGED <<img, phase, strings, symbols, names, relocs, lines, done, calls,
                 result, blocks, loads>>

Next ==
  \/ Load
  \/ LoadFailsEarly
  \/ LoadFails
  \/ LoadCrashes
  \/ Close
  \/ FollowWildName
  \/ \E name \in DOMAIN HashOf \cup {ANY} : FileScan(name)
  \/ SymbolSecScan
  \/ \E h \in Handles : \/ RelocSecScan(h)
                        \/ SecScanReloc(h)
                        \/ ScanNothing(h)
                        \/ SecGetLines(h)
                        \/ NoteSecScan(h)
  \/ Forget
  \/ ReturnUncalled
  \/ \E a \in {"OKAY", STOP} : Answer(a)

Spec == Init /\ [][Next]_vars

-----------------------------------------------------------------------------
(* Properties.                                                             *)

\* The line numbers of a section as they should be: with the line of the .bf
\* symbol behind the last function symbol up to them.
Follower(i) == i + img.syms[i].aux + 1
BfFollows(i) ==
  /\ Follower(i) \in Heads
  /\ img.syms[Follower(i)].bf /\ img.syms[Follower(i)].aux >= 1
Starts(t, i) == {j \in 1 .. i : t[j].num = 0 /\ BfFollows(t[j].ref)}
BaseLine(t, i) ==
  IF Starts(t, i) = {} THEN 0 ELSE img.syms[Follower(t[Max(Starts(t, i))].ref) + 1].line
Based(t) ==
  [i \in DOMAIN t |->
     [num |-> (t[i].num + BaseLine(t, i)) % TwoTo16,
      ref |-> IF t[i].num = 0 THEN img.syms[t[i].ref].value ELSE t[i].ref]]

\* The line numbers of a section are those of the file until they are asked for
\* and then, however often, those of the file with the base of their function
\* added, in the 16 bits they have: CoffConvertLines writes them over the
\* entries it reads, so that a second pass, or symbols whose has_bf is not set
\* yet, would give others.
LinesConvertedOnce ==
  \A h \in Secs :
    lines[h] = IF h \in done THEN Based(img.secs[h].lines) ELSE img.secs[h].lines

\* free_coff_file_hnd reaches every block of an open file, whatever was built,
\* but for three: what is left after any number of loads are the two arrays
\* reloc_sec_offset and reloc_sec_size of every file that had sections, and the
\* data of every import library, with its strings if it was refused.
EveryBlockReached ==
  LET Left(o) == CASE o = "machine" -> IF img.import = "unsupported" THEN 2 ELSE 0
                   [] o = "table"   -> 0
                   [] OTHER         -> (IF Secs = {} THEN 0 ELSE 2)
                                         + (IF img.import = "yes" THEN 1 ELSE 0)
      left == SumFunction([i \in DOMAIN loads |-> Left(loads[i])])
  IN  phase \in {"closed", "open"} => blocks = left + IF phase = "open" THEN Reached ELSE 0

\* Line numbers and relocations are made only of symbols that exist; a scan in
\* progress walks symbols or names that do.
TablesBacked ==
  /\ NumSymbols # 0 /\ done \cup relocs # {} => symbols
  /\ \A i \in DOMAIN calls :
       /\ calls[i].op = "symbols" /\ calls[i].at # 0 => symbols
       /\ calls[i].op = "named" => names # NoTable

\* A file that is cut off within a section, its relocations or its symbols is
\* refused, and so is one whose string table was read in part.  A file that has
\* a string table, in the place where it is looked for, is opened without it
\* only when its size could not be read, or was not there: such a file counts as
\* one without (coffload.c:467-497), and only then names are taken from a string
\* table that is not there.
NothingTruncated ==
  LET expected == img.symoff # 0 /\ img.strs # 0 /\ BufEnd = Off(StrTab)
  IN  /\ phase = "open" =>
           /\ \A h \in Handles :
                SizeOf(h) # 0 /\ (h \in Secs => img.secs[h].kind # "bss")
                  => Off(h) + SizeOf(h) <= img.eof
           /\ strings = "read" => Off(StrTab) + 1 + img.strs <= img.eof
      /\ phase = "wild_name" /\ expected
           => loads[Len(loads)] = "no_size" \/ img.eof = Off(StrTab)

\* The client hears what the linker directives say, in their order; the parser
\* looks behind the section only where a list is continued or ends it, or a
\* directive has no colon (cofflwlv.c:550-581): see HeardRight.
DirectivesHeard ==
  heard # <<>> => HeardRight(heard[1].note, heard[1].said)

\* Whatever the callbacks call in between, a scan of sections visits what
\* SectionScans says it should, in the order of the section table, relocations,
\* symbols and strings last, although the names are looked up in a hash table.
ScanLeft(c) ==
  LET list == IF c.op = "all" THEN [h \in Handles |-> h]
              ELSE Hash!Lookup(names[HashOf[c.want]], c.want)
  IN  IF c.at = 0 THEN <<>> ELSE SubSeq(list, c.at, Len(list))

SectionCall == [op : {"all", "named"}, want : DOMAIN HashOf \cup {ANY}, at : Nat]
SectionCalls == Those(calls, SectionCall)
ClientScans ==
  LET cs == SectionCalls
  IN  [i \in DOMAIN cs |-> [name |-> cs[i].want, left |-> ScanLeft(cs[i])]]
ClientFile == [secs |-> [h \in Handles |-> [name |-> NameOf(h), off |-> h]]]
ClientSections ==
  IF phase \in {"closed", "null_header"} THEN <<>> ELSE [h \in Handles |-> h]

Client == INSTANCE SectionScans
            WITH img <- ClientFile,
                 sections <- ClientSections,
                 scans <- ClientScans,
                 Answers <- {"OKAY", "FALSE", "ERROR", STOP}

ImplementsSectionScans == Client!Spec

\* coffload.c:472: the string table "always follows the symbol table, but may
\* not exist".  A file that has one is opened with it, if it can be read.
StringsFound ==
  phase = "open" /\ loads[Len(loads)] = "loaded" /\ img.symoff # 0 /\ img.strs # 0
    => strings # "none"

\* README.md:7: the library "supports reading OMF objects, COFF (including PE)".
\* The relocations of a section that has some can be scanned.
RelocsScanned ==
  [][\A h \in Secs : SecScanReloc(h) => result' # "ERROR" /\ phase' = "open"]_vars

=============================================================================
