------------------------------ MODULE ElfFile ------------------------------
(***************************************************************************)
(* One ELF file: loading it (elfload.c), scanning its sections, symbols    *)
(* and relocations through callbacks (elfentr.c), the tables the scans     *)
(* build on first use (elflwlv.c) and closing it (elfflhn.c).              *)
(*                                                                         *)
(* A section handle is the number of its section, its place in             *)
(* orig_sec_handles; sec_handles is `order'.  Sizes are in entries for the *)
(* tables and in bytes of the same width for the rest.  The unions and     *)
(* arrays that only the load writes are operators of the image.            *)
(*                                                                         *)
(* A scan calls the client for one entry after the other, and the client   *)
(* may call ORL again before it answers; `calls' is the C stack, innermost *)
(* call first.  The client does not close a file from within its scan.     *)
(* Allocation succeeds, which the code takes for granted.                  *)
(*                                                                         *)
(* The images are well-formed: links are section numbers or 0, a symbol    *)
(* table has a string table, sh_info of a relocation section is 0 or a     *)
(* PROGBITS section, there is at least one section and e_shstrndx is one.  *)
(***************************************************************************)
EXTENDS Naturals, Sequences, FiniteSets, Functions, FiniteSetsExt, Drectve, Sublists

CONSTANTS
  Images,       \* the files that may be opened
  HashSize,     \* SEC_NAME_HASH_TABLE_SIZE
  HashOf, FoldOf, NoTable,    \* as in OrlHash, for the section names
  Offsets,      \* the offsets a client asks for the relocations of
  ANY,          \* the NULL name of ORLFileScan
  STOP,         \* an orl_return other than ORL_OKAY that the client answers
  MaxCalls,     \* bound of the model: how deep callbacks call ORL
  MaxRefused    \* bound of the model: loads that fail

Tables == {"sym", "rel"}    \* the sections with entries of a fixed size

ASSUME ImagesAssumption ==
  \A f \in Images :
    /\ f.secs \in Seq(Range(f.secs)) /\ f.secs # <<>>
    /\ \A i \in DOMAIN f.secs :
         LET s == f.secs[i] IN
         /\ s.type \in Tables \cup {"prog", "nobits", "str", "note"}
         /\ s.name \in DOMAIN HashOf
         /\ s.off \in Nat
         /\ s.ents \in Seq(Nat)
         /\ s.type \in Tables => s.size = Len(s.ents)
         /\ s.type = "rel" => /\ s.link \in {0} \cup {j \in DOMAIN f.secs : f.secs[j].type = "sym"}
                              /\ s.info \in {0} \cup {j \in DOMAIN f.secs : f.secs[j].type = "prog"}

\* What OrlHash assumes of the table of names.
ASSUME NamesAssumption ==
  /\ HashSize \in Nat \ {0}
  /\ HashOf \in [DOMAIN HashOf -> 0 .. HashSize - 1]
  /\ DOMAIN FoldOf = DOMAIN HashOf
  /\ \A j, k \in DOMAIN HashOf : FoldOf[j] = FoldOf[k] => HashOf[j] = HashOf[k]
  /\ NoTable \notin [0 .. HashSize - 1 -> Seq([key : DOMAIN HashOf, data : Seq(Nat) \ {<<>>}])]

VARIABLES
  img,        \* the file: [secs, eof]
  phase,      \* "closed", "open", or how the program lost its meaning
  order,      \* sec_handles
  symbols,    \* the symbol tables whose assoc.sym.symbols is not NULL
  relocs,     \* orel->section for every section with assoc.reloc.relocs
  swaps,      \* how often the entries of a section had their bytes swapped
  names,      \* sec_name_hash_table
  calls,      \* the scans in progress
  result,     \* what the last call returned
  blocks,     \* blocks taken from cli_alloc and not given back to cli_free
  given,      \* sections whose buffer the last load read and ORL has not given
              \* to cli_free; the buffers of the headers it never does
  refused,    \* why loads failed, in their order
  bare,       \* per symbol table the scans that went on without relocations
  heard       \* the scan of a .drectve section that is just over, <<>> for none

vars == <<img, phase, order, symbols, relocs, swaps, names, calls, result,
          blocks, given, refused, bare, heard>>

Hash == INSTANCE OrlHash
          WITH Keys <- DOMAIN HashOf, Datas <- Nat, Size <- HashSize,
               MaxBlocks <- 0, table <- names, blocks <- 0, answer <- <<>>

Secs == DOMAIN img.secs
Type(h) == img.secs[h].type
SizeOf(h) == img.secs[h].size
SymTab(r) == img.secs[r].link      \* assoc.reloc.symbol_table
OrigSec(r) == img.secs[r].info     \* assoc.reloc.orig_sec, 0 for NULL

\* assoc.normal.reloc_sec: the last of the relocation sections that name h and
\* are not empty; 0 for NULL.
RelocSec(h) ==
  LET rs == {r \in Secs : Type(r) = "rel" /\ SizeOf(r) # 0 /\ OrigSec(r) = h}
  IN  IF rs = {} THEN 0 ELSE Max(rs)

Undefined == {"wild_free", "wild_link", "null_reloc", "wild_text"}
Ops == {"all", "named", "symbols", "relocs", "query"}

\* A scan in progress: what it walks (section `sec', or the sections), the name
\* or offset it wants, whether its relocations are there, and the loop index.
Call == [op : Ops, sec : Secs \cup {0}, want : DOMAIN HashOf \cup Offsets \cup {ANY},
         real : BOOLEAN, at : Nat]

TypeOK ==
  /\ img \in Images
  /\ phase \in {"closed", "open"} \cup Undefined
  /\ order \in Seq(Secs)
  /\ symbols \subseteq Secs
  /\ DOMAIN relocs \subseteq Secs
  /\ \A r \in DOMAIN relocs : relocs[r] \in Secs \cup {0}
  /\ swaps \in [Secs -> Nat]
  /\ calls \in Seq(Call)
  /\ result \in {"OKAY", "FALSE", "ERROR", STOP}
  /\ blocks \in Nat
  /\ given \subseteq Secs
  /\ refused \in Seq({"early", "io", "eof"})
  /\ bare \in [Secs -> Nat]
  /\ \A i \in DOMAIN heard : heard[i].note \in img.notes

Zero == [h \in Secs |-> 0]

Init ==
  /\ img \in Images
  /\ phase = "closed"
  /\ order = <<>>
  /\ symbols = {} /\ relocs = <<>> /\ swaps = Zero
  /\ names = NoTable
  /\ calls = <<>>
  /\ result = "OKAY"
  /\ blocks = 0
  /\ given = {}
  /\ refused = <<>>
  /\ bare = Zero
  /\ heard = <<>>

-----------------------------------------------------------------------------
(* Loading.                                                                *)

\* What qsort may leave in sec_handles: it is not stable.
Sorted ==
  {s \in [1 .. Len(img.secs) -> Secs] :
     /\ IsInjective(s)
     /\ \A i \in 1 .. Len(s) - 1 : img.secs[s[i]].off <= img.secs[s[i + 1]].off}

\* The second pass over the sections reads orig_sec_handles[-1] for a
\* relocation section that has no symbol table, or that the first pass took
\* for one of a pair and marked to be ignored because it is empty.
WildLink == \E r \in Secs : Type(r) = "rel" /\ (SizeOf(r) = 0 \/ SymTab(r) = 0)

\* cli_read returns NULL for what is not in the file.  Contents are read for
\* every section with a size, NOBITS or not.
BeyondEOF(h) == SizeOf(h) # 0 /\ img.secs[h].off + SizeOf(h) > img.eof

\* Faulty: frees the section handles through either array.
ReachedTwice ==
  3 + 2 * Len(img.secs) + Cardinality(symbols) + Cardinality(DOMAIN relocs)
    + IF names = NoTable THEN 0 ELSE 2 + Hash!Reached(names)

\* What free_elf_file_hnd frees, of a file with section handles: the file
\* handle, the two arrays, every section handle, the arrays of relocations and
\* of symbols, and the hash table.
Reached ==
  3 + Len(img.secs) + Cardinality(symbols) + Cardinality(DOMAIN relocs)
    + IF names = NoTable THEN 0 ELSE 2 + Hash!Reached(names)

\* The section handles and their arrays are made, the sections sorted, their
\* contents read and named.  name_index and the two index arrays are freed.
Load ==
  /\ phase = "closed"
  /\ ~WildLink
  /\ \A h \in Secs : ~BeyondEOF(h)
  /\ order' \in Sorted
  /\ phase' = "open"
  /\ symbols' = {} /\ relocs' = <<>> /\ swaps' = Zero /\ names' = NoTable
  /\ bare' = Zero
  /\ blocks' = blocks + 3 + Len(img.secs)
  /\ given' = {h \in Secs : SizeOf(h) # 0}
  /\ result' = "OKAY"
  /\ UNCHANGED <<img, calls, refused, heard>>

\* A header cannot be read.  The handle is freed; so is orig_sec_handles, which
\* nobody has set (elfflhn.c:65): harmless only if it happens to be NULL.
LoadFailsEarly ==
  /\ phase = "closed"
  /\ Len(refused) < MaxRefused
  /\ phase' \in {"closed", "wild_free"}
  /\ refused' = Append(refused, "early")
  /\ given' = {}
  /\ result' = "ERROR"
  /\ UNCHANGED <<img, order, symbols, relocs, swaps, names, calls, blocks, bare, heard>>

\* Faulty: stops before the first section.
FreedBuffersButFirst(s, k) == {s[j] : j \in 2 .. k - 1}

\* The contents the load gives to cli_free when those of sec_handles[k] cannot
\* be read.
FreedBuffers(s, k) == {s[j] : j \in 1 .. k - 1}

\* The contents of the k-th section cannot be read: the buffers of those before
\* it are given back and the file handle is freed with all it reaches, but not
\* name_index.
LoadFails ==
  /\ phase = "closed"
  /\ ~WildLink
  /\ Len(refused) < MaxRefused
  /\ \E s \in Sorted : \E k \in DOMAIN s :
       /\ SizeOf(s[k]) # 0
       /\ \A j \in 1 .. k - 1 : ~BeyondEOF(s[j])
       /\ refused' = Append(refused, IF BeyondEOF(s[k]) THEN "eof" ELSE "io")
       /\ given' = {h \in {s[j] : j \in 1 .. k - 1} : SizeOf(h) # 0} \ FreedBuffers(s, k)
  /\ blocks' = blocks + 1
  /\ result' = "ERROR"
  /\ UNCHANGED <<img, phase, order, symbols, relocs, swaps, names, calls, bare, heard>>

\* The load reads beside orig_sec_handles.
LoadWild ==
  /\ phase = "closed"
  /\ WildLink
  /\ phase' = "wild_link"
  /\ UNCHANGED <<img, order, symbols, relocs, swaps, names, calls, result,
                 blocks, given, refused, bare, heard>>

\* ElfFileFini: free_elf_file_hnd.  The buffers of the sections are not given
\* back.
Close ==
  /\ phase = "open"
  /\ calls = <<>> /\ heard = <<>>
  /\ phase' = "closed"
  /\ order' = <<>>
  /\ symbols' = {} /\ relocs' = <<>> /\ swaps' = Zero /\ names' = NoTable
  /\ bare' = Zero
  /\ blocks' = blocks - Reached
  /\ result' = "OKAY"
  /\ UNCHANGED <<img, calls, given, refused, heard>>

-----------------------------------------------------------------------------
(* What the scans build on first use.                                      *)

\* Faulty: inserts the sections in the order of orig_sec_handles.
NameTableByIndex ==
  LET empty == [b \in 0 .. HashSize - 1 |-> <<>>]
      With(t, h) ==
        LET k == img.secs[h].name
        IN  [t EXCEPT ![HashOf[k]] = Hash!Inserted(@, k, h)]
      Upto[i \in 0 .. Len(order)] ==
        IF i = 0 THEN empty ELSE With(Upto[i - 1], i)
  IN  Upto[Len(order)]

\* ElfBuildSecNameHashTable: every section under its name, in their order.
NameTable ==
  LET empty == [b \in 0 .. HashSize - 1 |-> <<>>]
      With(t, h) ==
        LET k == img.secs[h].name
        IN  [t EXCEPT ![HashOf[k]] = Hash!Inserted(@, k, h)]
      Upto[i \in 0 .. Len(order)] ==
        IF i = 0 THEN empty ELSE With(Upto[i - 1], order[i])
  IN  Upto[Len(order)]

\* ElfCreateSymbolHandles: the bytes of every entry are swapped in place.
CreateSymbolHandles(s) ==
  /\ symbols' = symbols \cup {s}
  /\ swaps' = [swaps EXCEPT ![s] = @ + 1]
  /\ blocks' = blocks + 1

\* Faulty: does not look for the symbols.
CreateRelocsAnyway(h, r) ==
  /\ relocs' = [q \in DOMAIN relocs \cup {r} |-> IF q = r THEN h ELSE relocs[q]]
  /\ swaps' = [swaps EXCEPT ![r] = @ + 1]
  /\ blocks' = blocks + 1
  /\ UNCHANGED <<symbols, bare>>

\* Faulty: waits for somebody else to make the symbols.
CreateRelocsLater(h, r) ==
  IF SymTab(r) \notin symbols
  THEN /\ bare' = [bare EXCEPT ![SymTab(r)] = @ + 1]
       /\ UNCHANGED <<symbols, relocs, swaps, blocks>>
  ELSE CreateRelocsAnyway(h, r)

\* ElfCreateRelocs of a section r without relocs.  If the symbols of its symbol
\* table are not there, it makes them and nothing else.
CreateRelocs(h, r) ==
  IF SymTab(r) \notin symbols
  THEN /\ CreateSymbolHandles(SymTab(r))
       /\ bare' = [bare EXCEPT ![SymTab(r)] = @ + 1]
       /\ UNCHANGED relocs
  ELSE /\ relocs' = [q \in DOMAIN relocs \cup {r} |-> IF q = r THEN h ELSE relocs[q]]
       /\ swaps' = [swaps EXCEPT ![r] = @ + 1]
       /\ blocks' = blocks + 1
       /\ UNCHANGED <<symbols, bare>>

\* Faulty: makes them for every scan.
EnsureRelocsAgain(h, r) == CreateRelocs(h, r)

\* The relocations of r are there when a scan of r, for section h, sets out.
EnsureRelocs(h, r) ==
  IF r \in DOMAIN relocs
  THEN UNCHANGED <<symbols, relocs, swaps, blocks, bare>>
  ELSE CreateRelocs(h, r)

\* Are they really?
HasRelocs(r) == r \in DOMAIN relocs \/ SymTab(r) \in symbols

-----------------------------------------------------------------------------
(* Scanning.                                                               *)

\* The indices at which the loop of a scan calls the client.
Stops(c, table) ==
  CASE c.op = "all"     -> DOMAIN order
    [] c.op = "named"   -> DOMAIN Hash!Lookup(table[HashOf[c.want]], c.want)
    [] c.op = "query"   -> {i \in DOMAIN img.secs[c.sec].ents :
                              img.secs[c.sec].ents[i] = c.want}
    [] OTHER            -> DOMAIN img.secs[c.sec].ents

\* The client calls ORL when no scan is in progress, or from the callback of one.
CanCall ==
  /\ phase = "open" /\ heard = <<>>
  /\ Len(calls) < MaxCalls
  /\ calls # <<>> => calls[1].at # 0

\* A scan begins: it calls the client, or (at 0) has nothing to call it for.
Enter(c, table) ==
  /\ calls' = <<[c EXCEPT !.at = IF Stops(c, table) = {} THEN 0 ELSE Min(Stops(c, table))]>>
                \o calls
  /\ result' = result

Scan(op, sec, want, real) == [op |-> op, sec |-> sec, want |-> want, real |-> real, at |-> 0]

\* ElfFileScan
FileScan(name) ==
  /\ CanCall
  /\ IF name = ANY
     THEN /\ Enter(Scan("all", 0, ANY, TRUE), names)
          /\ UNCHANGED <<names, blocks>>
     ELSE LET table == IF names = NoTable THEN NameTable ELSE names
          IN  /\ names' = table
              /\ blocks' = IF names = NoTable THEN blocks + 2 + Hash!Reached(table)
                           ELSE blocks
              /\ Enter(Scan("named", 0, name, TRUE), table)
  /\ UNCHANGED <<img, phase, order, symbols, relocs, swaps, given, refused, bare, heard>>

\* Faulty: makes the symbols for every scan.
SymbolSecScanAgain(s) ==
  /\ CanCall
  /\ Type(s) = "sym"
  /\ CreateSymbolHandles(s)
  /\ Enter(Scan("symbols", s, ANY, TRUE), names)
  /\ UNCHANGED <<img, phase, order, relocs, names, given, refused, bare, heard>>

\* ElfSymbolSecScan
SymbolSecScan(s) ==
  /\ CanCall
  /\ Type(s) = "sym"
  /\ IF s \in symbols THEN UNCHANGED <<symbols, swaps, blocks>>
     ELSE CreateSymbolHandles(s)
  /\ Enter(Scan("symbols", s, ANY, TRUE), names)
  /\ UNCHANGED <<img, phase, order, relocs, names, given, refused, bare, heard>>

\* ElfRelocSecScan
RelocSecScan(r) ==
  /\ CanCall
  /\ Type(r) = "rel"
  /\ EnsureRelocs(OrigSec(r), r)
  /\ Enter(Scan("relocs", r, ANY, HasRelocs(r)), names)
  /\ UNCHANGED <<img, phase, order, names, given, refused, heard>>

\* ElfSecScanReloc of a section that has relocations
SecScanReloc(h) ==
  LET r == RelocSec(h)
  IN  /\ CanCall
      /\ Type(h) = "prog"
      /\ r # 0
      /\ EnsureRelocs(h, r)
      /\ Enter(Scan("relocs", r, ANY, HasRelocs(r)), names)
      /\ UNCHANGED <<img, phase, order, names, given, refused, heard>>

\* ElfSecQueryReloc of a section that has relocations; it looks at the offset
\* of each of them.
SecQueryReloc(h, offset) ==
  LET r == RelocSec(h)
  IN  /\ CanCall
      /\ Type(h) = "prog"
      /\ r # 0
      /\ EnsureRelocs(h, r)
      /\ IF HasRelocs(r)
         THEN Enter(Scan("query", r, offset, TRUE), names) /\ UNCHANGED phase
         ELSE phase' = "null_reloc" /\ UNCHANGED <<calls, result>>
      /\ UNCHANGED <<img, order, names, given, refused, heard>>

\* SecScanReloc and SecQueryReloc of a section without relocations, or of one
\* that is not PROGBITS; the other scans of a section of the wrong type.
ScanNothing(h) ==
  /\ CanCall
  /\ \/ result' = "ERROR"
     \/ Type(h) = "prog" /\ RelocSec(h) = 0 /\ result' = "FALSE"
  /\ UNCHANGED <<img, phase, order, symbols, relocs, swaps, names, calls,
                 blocks, given, refused, bare, heard>>

\* A scan that has called the client for nothing returns.
ReturnUncalled ==
  /\ phase = "open"
  /\ calls # <<>> /\ calls[1].at = 0
  /\ calls' = Tail(calls)
  /\ result' = "OKAY"
  /\ UNCHANGED <<img, phase, order, symbols, relocs, swaps, names, blocks,
                 given, refused, bare, heard>>

\* Faulty: the loop goes on to another entry, not to a later one.
AnswerAround(a) ==
  /\ phase = "open"
  /\ calls # <<>> /\ calls[1].at # 0
  /\ LET c     == calls[1]
         later == {i \in Stops(c, names) : i # c.at}
     IN  IF a = "OKAY" /\ later # {}
         THEN calls' = <<[c EXCEPT !.at = Min(later)]>> \o Tail(calls) /\ result' = result
         ELSE calls' = Tail(calls) /\ result' = a
  /\ UNCHANGED <<img, phase, order, symbols, relocs, swaps, names, blocks,
                 given, refused, bare, heard>>

\* The client answers the innermost scan, which goes on or returns.
Answer(a) ==
  /\ phase = "open"
  /\ calls # <<>> /\ calls[1].at # 0
  /\ LET c     == calls[1]
         later == {i \in Stops(c, names) : i > c.at}
     IN  IF a = "OKAY" /\ later # {}
         THEN calls' = <<[c EXCEPT !.at = Min(later)]>> \o Tail(calls) /\ result' = result
         ELSE calls' = Tail(calls) /\ result' = a
  /\ UNCHANGED <<img, phase, order, symbols, relocs, swaps, names, blocks,
                 given, refused, bare, heard>>

\* ElfParseDrectve
ElfParseDrectve(note) == Hearings(TextOf(note))

\* ElfNoteSecScan.  It changes nothing, so that it need not be looked at from
\* within other scans, and returns ORL_OKAY whatever the client answers.
NoteSecScan(h) ==
  /\ CanCall /\ calls = <<>>
  /\ Type(h) = "note"
  /\ \E note \in img.notes : \E it \in ElfParseDrectve(note) :
       /\ heard' = <<[note |-> note, said |-> it]>>
       /\ phase' = IF it.wild THEN "wild_text" ELSE phase
  /\ result' = "OKAY"
  /\ UNCHANGED <<img, order, symbols, relocs, swaps, names, calls, blocks,
                 given, refused, bare>>

\* The client goes on to something else.
Forget ==
  /\ phase = "open" /\ heard # <<>>
  /\ heard' = <<>>
  /\ UNCHANGED <<img, phase, order, symbols, relocs, swaps, names, calls, result,
                 blocks, given, refused, bare>>

Next ==
  \/ Load
  \/ LoadFailsEarly
  \/ LoadFails
  \/ LoadWild
  \/ Close
  \/ \E name \in DOMAIN HashOf \cup {ANY} : FileScan(name)
  \/ \E h \in Secs : \/ SymbolSecScan(h)
                     \/ RelocSecScan(h)
                     \/ SecScanReloc(h)
                     \/ ScanNothing(h)
                     \/ \E offset \in Offsets : SecQueryReloc(h, offset)
                     \/ NoteSecScan(h)
  \/ Forget
  \/ ReturnUncalled
  \/ \E a \in {"OKAY", STOP} : Answer(a)

Spec == Init /\ [][Next]_vars

\* The client's callbacks answer sometime, however often they call ORL first.
FairSpec ==
  /\ Spec
  /\ \A d \in 1 .. MaxCalls :
       SF_vars(Len(calls) = d /\ \E a \in {"OKAY", STOP} : Answer(a))
  /\ WF_vars(ReturnUncalled)

-----------------------------------------------------------------------------
(* Properties.                                                             *)

\* The bytes of an entry are swapped in place when its section is first walked,
\* in every order of scans, nested or not, and never again: a second swap would
\* undo the first (ElfCreateSymbolHandles and ElfCreateRelocs run only while
\* assoc.sym.symbols and assoc.reloc.relocs are NULL).
SwappedOnce ==
  phase = "open" =>
    \A h \in Secs : swaps[h] = IF h \in symbols \cup DOMAIN relocs THEN 1 ELSE 0

\* free_elf_file_hnd reaches every block of an open file, whatever was built of
\* its tables; when no file is open nothing is left but the name_index of every
\* load that failed while it read the sections (elfload.c:582-593).
EveryBlockReached ==
  LET leaked == Cardinality({i \in DOMAIN refused : refused[i] # "early"})
  IN  phase \in {"closed", "open"} =>
        blocks = leaked + IF phase = "open" THEN Reached ELSE 0

\* Relocations belong to the section that their relocation section is for,
\* whichever of the three scans made them, and the symbols they point to exist;
\* a scan in progress walks an array that exists, unless it set out without one.
TablesBacked ==
  /\ \A r \in DOMAIN relocs : relocs[r] = OrigSec(r) /\ SymTab(r) \in symbols
  /\ \A i \in DOMAIN calls :
       /\ calls[i].op = "symbols" => calls[i].sec \in symbols
       /\ calls[i].op \in {"relocs", "query"} /\ calls[i].real
            => calls[i].sec \in DOMAIN relocs

\* At most one scan of relocations per symbol table hands its client relocations
\* that are not there, the first one of a client that has not scanned the
\* symbols before: from then on the symbols exist (elflwlv.c:476-480).
OneBareScan == \A s \in Secs : bare[s] <= 1

\* A load that fails gives the buffers of all sections back to the client, and
\* so leaves it with none that it does not know of (the loop at elfload.c:586).
RefusedGivesBack == phase = "closed" /\ result = "ERROR" => given = {}

\* The client hears what the linker directives say, in their order; the parser
\* looks behind the section only where a list is continued or ends it, or a
\* directive has no colon (elflwlv.c:623-654): see HeardRight.
DirectivesHeard ==
  heard # <<>> => HeardRight(heard[1].note, heard[1].said)

\* Whatever the callbacks call in between, a scan of sections visits what
\* SectionScans says it should, in the order of the offsets although the names
\* are looked up in a hash table, and stops and returns as its callback says.
ScanLeft(c) ==
  LET list == IF c.op = "all" THEN order
              ELSE Hash!Lookup(names[HashOf[c.want]], c.want)
  IN  IF c.at = 0 THEN <<>> ELSE SubSeq(list, c.at, Len(list))

SectionCall ==
  [op : {"all", "named"}, sec : Nat, want : DOMAIN HashOf \cup Offsets \cup {ANY},
   real : BOOLEAN, at : Nat]
SectionCalls == Those(calls, SectionCall)
ClientScans ==
  LET cs == SectionCalls
  IN  [i \in DOMAIN cs |-> [name |-> cs[i].want, left |-> ScanLeft(cs[i])]]

Client == INSTANCE SectionScans
            WITH sections <- order,
                 scans <- ClientScans,
                 Answers <- {"OKAY", "FALSE", "ERROR", STOP}

ImplementsSectionScans == Client!Spec

\* Every scan comes to an end if its callbacks answer.
ScansEnd == calls # <<>> ~> (calls = <<>> \/ phase \in Undefined)

\* elfload.c:438-440: one of a pair of relocation sections may be empty, and
\* "We have to ignore the empty one!"
EmptyRelocIgnored ==
  phase = "wild_link" => \E r \in Secs : Type(r) = "rel" /\ SizeOf(r) # 0 /\ SymTab(r) = 0

\* README.md: "the ability to load GCC-generated ELF files": a file is refused
\* only when it cannot be read.
LoadsGccFiles == \A i \in DOMAIN refused : refused[i] # "eof"

=============================================================================
