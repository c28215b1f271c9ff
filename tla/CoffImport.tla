----------------------------- MODULE CoffImport -----------------------------
(***************************************************************************)
(* CoffCreateImport of coffimpl.c: the object file that is made up in      *)
(* memory for an entry of an import library.  A first part declares        *)
(* sections and symbols one by one and remembers the numbers of some of    *)
(* the symbols, a second one writes the file piece by piece.  A name is    *)
(* its length; contents are pieces with a length, in the order in which    *)
(* they are written.                                                       *)
(***************************************************************************)
EXTENDS Integers, Sequences, Functions

CONSTANTS
  NameLens,         \* lengths of names, without decoration
  DllLens,          \* lengths of names of DLLs
  AllocFails        \* whether a larger string table may be refused

ASSUME InputsAssumption ==
  /\ NameLens \subseteq Nat \ {0}
  /\ DllLens \subseteq Nat
  /\ AllocFails \in BOOLEAN

MAX_NUM_COFF_LIB_SECTIONS == 8
MAX_NUM_COFF_LIB_SYMBOLS == 32
INIT_MAX_SIZE_COFF_STRING_TABLE == 1024
HeaderSize == 20
SectionSize == 40
RelocSize == 10
SymbolSize == 18
NAME_LEN == 8       \* COFF_SYM_NAME_LEN

Kept == {"text", "imp", "idata6", "toc"}   \* the symbol_... variables
NotSet == -1

VARIABLES
  import,           \* the entry: machine, ordinal or name, lengths
  todo,             \* the calls that are still to be made
  c_file,           \* struct coff_lib_file
  number,           \* the remembered numbers of symbols
  out,              \* the pieces in implib_data
  stage             \* "declare", "write", "done", "refused"

vars == <<import, todo, c_file, number, out, stage>>

-----------------------------------------------------------------------------
(* The calls of the first part. *)

Section(name, size, relocs) ==
  [call |-> "section", name |-> name, size |-> size, relocs |-> relocs]
SymSec(keep) == [call |-> "symsec", keep |-> keep]
Symbol(name, len, here, keep) ==
  [call |-> "symbol", name |-> name, len |-> len, here |-> here, keep |-> keep]

\* getImportName: UNDECORATE cuts a suffix @nn, and it and NO_PREFIX skip one @ or
\* _ at the front, but no ?, although coffimpl.c:326 says so.
SymbolLen(i) == i.name + i.suffix + IF i.mark = "none" THEN 0 ELSE 1
DllSymbolLen(i) ==
  LET suffix == IF i.type = "undecorate" THEN 0 ELSE i.suffix
      mark   == IF i.mark = "none" \/ (i.type \in {"no_prefix", "undecorate"} /\ i.mark # "?")
                THEN 0 ELSE 1
  IN  mark + i.name + suffix

\* The code with its tables, which needs the name of the function and of itself.
CodeCalls(i) ==
  CASE i.machine = "alpha" ->
         <<Section(".text", 12, 3), SymSec("none"),
           Symbol("text", SymbolLen(i), TRUE, "text")>>
    [] i.machine = "powerpc" ->
         <<Section(".text", 24, 1), SymSec("none"),
           Symbol("text", SymbolLen(i) + 2, TRUE, "text")>>
           \o <<Section(".pdata", 20, 4), SymSec("none"), Section(".reldata", 8, 2)>>
           \o (IF i.type = "ordinal" THEN <<>> ELSE <<SymSec("none")>>)
           \o <<Symbol("name", SymbolLen(i), TRUE, "none")>>
    [] i.machine = "i386" ->
         <<Section(".text", 6, 1), SymSec("none"),
           Symbol("text", SymbolLen(i), TRUE, "text")>>
    [] OTHER -> <<>>

\* The import tables, and the name if it is not imported by its ordinal.
NameSize(i) == 2 + (DllSymbolLen(i) \div 2) * 2 + 2
ImportCalls(i) ==
  LET named == IF i.type = "ordinal" THEN 0 ELSE 1
  IN  <<Section(".idata$5", 4, named), SymSec("none"),
        Symbol("imp", SymbolLen(i) + 6, TRUE, "imp")>>
        \o <<Section(".idata$4", 4, named), SymSec("none")>>
        \o (IF i.type = "ordinal" THEN <<>>
            ELSE <<Section(".idata$6", NameSize(i), 0), SymSec("idata6")>>)

\* What is defined elsewhere.
OtherCalls(i) ==
  (IF i.machine = "powerpc" THEN <<Symbol("toc", 4, FALSE, "toc")>> ELSE <<>>)
    \o <<Symbol("descriptor", i.dll + 20, FALSE, "none")>>

Declared(i) == CodeCalls(i) \o ImportCalls(i) \o OtherCalls(i)

(* The pieces of the second part, with the sections they are meant for. *)

Data(sec, len) == [sec |-> sec, what |-> "data", len |-> len]
Reloc(sec, keep) == [sec |-> sec, what |-> "reloc", len |-> RelocSize, keep |-> keep]

\* Faulty: the name ends at an even offset without a padding byte as well.
PaddingAlways(i) == <<Data(".idata$6", 1)>>

\* The byte behind a name of even length.
Padding(i) == IF DllSymbolLen(i) % 2 = 0 THEN <<Data(".idata$6", 1)>> ELSE <<>>

CodePieces(i) ==
  CASE i.machine = "alpha" ->
         <<Data(".text", 12), Reloc(".text", "imp"), Reloc(".text", "text"),
           Reloc(".text", "imp")>>
    [] i.machine = "powerpc" ->
         <<Data(".text", 24), Reloc(".text", "imp")>>
           \o (<<Data(".pdata", 20)>> \o [k \in 1 .. 4 |-> Reloc(".pdata", "text")])
           \o <<Data(".reldata", 8), Reloc(".reldata", "text"), Reloc(".reldata", "toc")>>
    [] i.machine = "i386" -> <<Data(".text", 6), Reloc(".text", "imp")>>

\* An entry of an import table.
TablePieces(i, sec) ==
  IF i.type = "ordinal" THEN <<Data(sec, 2), Data(sec, 2)>>
  ELSE <<Data(sec, 4), Reloc(sec, "idata6")>>

\* The name, with its hint.
NamePieces(i) ==
  IF i.type = "ordinal" THEN <<>>
  ELSE <<Data(".idata$6", 2), Data(".idata$6", DllSymbolLen(i) + 1)>> \o Padding(i)

Written(i) ==
  CodePieces(i) \o TablePieces(i, ".idata$5") \o TablePieces(i, ".idata$4") \o NamePieces(i)

-----------------------------------------------------------------------------
Imports ==
  [machine : {"i386", "alpha", "powerpc", "other"},
   type : {"ordinal", "name", "no_prefix", "undecorate"},
   mark : {"none", "_", "?"}, name : NameLens, suffix : {0, 2}, dll : DllLens]

Init ==
  /\ import \in Imports
  /\ todo = Declared(import)
  /\ c_file = [section |-> <<>>, symbol |-> <<>>, string_table |-> <<>>,
               string_table_size |-> 0,
               max_string_table_size |-> INIT_MAX_SIZE_COFF_STRING_TABLE,
               room |-> INIT_MAX_SIZE_COFF_STRING_TABLE,   \* of the block
               sym_table |-> 0]
  /\ number = [k \in Kept |-> IF k \in {"idata6", "toc"} THEN 0 ELSE NotSet]
  /\ out = <<>>
  /\ stage = "declare"

\* The machine is none of the three.
Refuse ==
  /\ stage = "declare" /\ import.machine = "other"
  /\ stage' = "refused"
  /\ UNCHANGED <<import, todo, c_file, number, out>>

\* The next call is one of these, and is made.
Called(call) ==
  /\ stage = "declare" /\ import.machine # "other"
  /\ todo # <<>> /\ Head(todo).call = call
  /\ todo' = Tail(todo)
  /\ UNCHANGED <<import, out, stage>>

\* No name of a section is too long for its header.
AddCoffSection ==
  LET s == Head(todo)
  IN  /\ Called("section")
      /\ c_file' = [c_file EXCEPT !.section =
           Append(@, [name |-> s.name, size |-> s.size, num_relocs |-> s.relocs,
                      rawdata_ptr |-> 0, reloc_ptr |-> 0])]
      /\ UNCHANGED number

Remembered(keep, n) == IF keep \in Kept THEN [number EXCEPT ![keep] = n] ELSE number

Entry(name, sec, offset, aux) == [name |-> name, sec |-> sec, offset |-> offset, aux |-> aux]

\* Faulty: remembers the number of the last of the two entries.
AddCoffSymSecLast ==
  LET sec == Len(c_file.section)
  IN  /\ Called("symsec")
      /\ c_file' = [c_file EXCEPT !.symbol =
           @ \o <<Entry("section", sec, 0, FALSE), Entry("section", sec, 0, TRUE)>>]
      /\ number' = Remembered(Head(todo).keep, Len(c_file.symbol) + 1)

\* The symbol of the last section takes two entries, and is counted as two.
AddCoffSymSec ==
  LET sec == Len(c_file.section)
  IN  /\ Called("symsec")
      /\ c_file' = [c_file EXCEPT !.symbol =
           @ \o <<Entry("section", sec, 0, FALSE), Entry("section", sec, 0, TRUE)>>]
      /\ number' = Remembered(Head(todo).keep, Len(c_file.symbol))

\* Faulty: only sees that the table is full when it is.
FullAlready(cf, len) == cf.string_table_size >= cf.max_string_table_size

Full(cf, len) == cf.string_table_size + len + 1 >= cf.max_string_table_size

\* The table grows once for a string, and keeps its old block if it cannot.
AddCoffString(cf, name, len, fails) ==
  LET grow   == Full(cf, len)
      max    == IF grow THEN 2 * cf.max_string_table_size ELSE cf.max_string_table_size
      larger == [cf EXCEPT !.max_string_table_size = max]
  IN  IF grow /\ fails THEN larger
      ELSE [larger EXCEPT !.room = IF grow THEN max ELSE @,
                          !.string_table = Append(@, [name |-> name, len |-> len + 1]),
                          !.string_table_size = @ + len + 1]

\* Faulty: forgets the size at the head of the string table.
NameOffsetBare(cf) == cf.string_table_size

\* Where the next string will be, from the start of the string table.
NameOffset(cf) == cf.string_table_size + 4

\* Faulty: numbers symbols from 1, as sections are.
NextNumberFromOne == Len(c_file.symbol) + 1

\* Symbols are numbered from 0.
NextNumber == Len(c_file.symbol)

AddCoffSymbol ==
  LET s    == Head(todo)
      long == s.len > NAME_LEN
      new  == [c_file EXCEPT !.symbol =
                 Append(@, Entry(s.name, IF s.here THEN Len(c_file.section) ELSE 0,
                                 IF long THEN NameOffset(c_file) ELSE 0, FALSE))]
  IN  /\ Called("symbol")
      /\ \E fails \in {FALSE, AllocFails} :
           c_file' = IF long THEN AddCoffString(new, s.name, s.len, fails) ELSE new
      /\ number' = Remembered(s.keep, NextNumber)

-----------------------------------------------------------------------------
Room(s) == s.size + s.num_relocs * RelocSize

\* Where the first n sections with their relocations end.
Before(n) ==
  HeaderSize + Len(c_file.section) * SectionSize
    + SumFunction([m \in 1 .. n |-> Room(c_file.section[m])])

\* CreateCoffFileHeader places what will be written, and CreateCoffSections
\* writes the table of sections behind the header.
CreateCoffFileHeader ==
  LET secs == c_file.section
  IN  /\ stage = "declare" /\ import.machine # "other" /\ todo = <<>>
      /\ c_file' = [c_file EXCEPT
           !.section = [n \in DOMAIN secs |->
                          [secs[n] EXCEPT !.rawdata_ptr = Before(n - 1),
                                          !.reloc_ptr = Before(n - 1) + secs[n].size]],
           !.sym_table = Before(Len(secs))]
      /\ out' = <<[sec |-> "file", what |-> "header", len |-> HeaderSize],
                  [sec |-> "file", what |-> "sections", len |-> Len(secs) * SectionSize]>>
      /\ todo' = Written(import)
      /\ stage' = "write"
      /\ UNCHANGED <<import, number>>

AddDataImpLib ==
  /\ stage = "write" /\ todo # <<>> /\ Head(todo).what = "data"
  /\ out' = Append(out, Head(todo))
  /\ todo' = Tail(todo)
  /\ UNCHANGED <<import, c_file, number, stage>>

CreateCoffReloc ==
  /\ stage = "write" /\ todo # <<>> /\ Head(todo).what = "reloc"
  /\ out' = Append(out, [sec |-> Head(todo).sec, what |-> "reloc", len |-> RelocSize,
                         sym_tab_index |-> number[Head(todo).keep]])
  /\ todo' = Tail(todo)
  /\ UNCHANGED <<import, c_file, number, stage>>

\* CreateCoffSymbols and CreateCoffStringTable; the string table goes with it.
CreateCoffTables ==
  /\ stage = "write" /\ todo = <<>>
  /\ out' = out \o <<[sec |-> "file", what |-> "symbols", len |-> Len(c_file.symbol) * SymbolSize],
                     [sec |-> "file", what |-> "size", len |-> 4]>>
                \o [n \in DOMAIN c_file.string_table |->
                      [sec |-> "file", what |-> c_file.string_table[n].name,
                       len |-> c_file.string_table[n].len]]
  /\ c_file' = [c_file EXCEPT !.string_table_size = @ + 4, !.room = 0]
  /\ stage' = "done"
  /\ UNCHANGED <<import, todo, number>>

Next == Refuse \/ AddCoffSection \/ AddCoffSymSec \/ AddCoffSymbol
          \/ CreateCoffFileHeader \/ AddDataImpLib \/ CreateCoffReloc \/ CreateCoffTables

Spec == Init /\ [][Next]_vars

-----------------------------------------------------------------------------
\* The fixed arrays are large enough, the symbols have sections that exist, and
\* the remembered numbers are those of symbols.
TypeOK ==
  /\ Len(c_file.section) <= MAX_NUM_COFF_LIB_SECTIONS
  /\ Len(c_file.symbol) <= MAX_NUM_COFF_LIB_SYMBOLS
  /\ \A n \in DOMAIN c_file.symbol : c_file.symbol[n].sec \in 0 .. Len(c_file.section)
  /\ \A k \in Kept : number[k] \in {NotSet, 0} \cup 0 .. Len(c_file.symbol) - 1
  /\ stage \in {"declare", "write", "done", "refused"}

\* "I put in some safety code in the string table because if the user declares
\* long function names (very long like > 512) it is possible that 1k will not
\* suffice for the string table size" (coffimpl.c:52-54): what is copied into the
\* block of the string table fits.
StringsFit == stage # "done" => c_file.string_table_size <= c_file.room

\* The bytes in front of a piece, and the pieces of one kind.
At(n) == SumFunction([m \in 1 .. n - 1 |-> out[m].len])
Pieces(sec, what) == {n \in DOMAIN out : out[n].sec = sec /\ out[n].what = what}

\* The pieces fill exactly what starts at ptr and takes size bytes.
Fill(pieces, ptr, size) ==
  /\ size = 0 <=> pieces = {}
  /\ \A n \in pieces :
       /\ At(n) = ptr \/ n - 1 \in pieces
       /\ At(n + 1) = ptr + size \/ n + 1 \in pieces

\* Every section is written where its header says (coffimpl.c:284-290) and as
\* long, and the symbol table where the file header says: the header is made
\* from the declarations before any of it is written.
PointersMeetData ==
  stage = "done" =>
    /\ \A n \in DOMAIN c_file.section :
         LET s == c_file.section[n]
         IN  /\ Fill(Pieces(s.name, "data"), s.rawdata_ptr, s.size)
             /\ Fill(Pieces(s.name, "reloc"), s.reloc_ptr, s.num_relocs * RelocSize)
    /\ Fill(Pieces("file", "symbols"), c_file.sym_table, Len(c_file.symbol) * SymbolSize)

SecName(n) == IF n = 0 THEN "none" ELSE c_file.section[n].name

\* A relocation refers to the symbol of what it stands for, whatever was
\* declared in between: code and its table to the function and the import
\* address, the import tables to the section with the name.
RelocsMeetSymbols ==
  LET Meant == [sec \in {".text", ".pdata", ".reldata", ".idata$5", ".idata$4"} |->
                  CASE sec = ".text" -> {<<"text", ".text">>, <<"imp", ".idata$5">>}
                    [] sec = ".pdata" -> {<<"text", ".text">>}
                    [] sec = ".reldata" -> {<<"text", ".text">>, <<"toc", "none">>}
                    [] OTHER -> {<<"section", ".idata$6">>}]
  IN  \A n \in DOMAIN out :
        out[n].what = "reloc" =>
          /\ out[n].sym_tab_index \in 0 .. Len(c_file.symbol) - 1
          /\ LET sym == c_file.symbol[out[n].sym_tab_index + 1]
             IN  ~sym.aux /\ <<sym.name, SecName(sym.sec)>> \in Meant[out[n].sec]

\* A name that is too long for its symbol is in the string table where the symbol
\* says, counted from the size in front of the strings, which covers them all.
NamesFound ==
  stage = "done" =>
    \A start \in Pieces("file", "size") :
      /\ \A n \in DOMAIN c_file.symbol :
           LET sym == c_file.symbol[n]
           IN  sym.offset # 0 =>
                 \E piece \in Pieces("file", sym.name) : At(piece) = At(start) + sym.offset
      /\ At(Len(out) + 1) = At(start) + c_file.string_table_size

=============================================================================
