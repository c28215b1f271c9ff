------------------------------ MODULE OmfTables ------------------------------
(***************************************************************************)
(* The file handle of an OMF module and the tables the records of the      *)
(* module fill: names, external names, sections, groups, symbols,          *)
(* relocations and comments (the new-, find- and OmfAdd- functions of      *)
(* omfmunge.c).  The indices in a record count from 1, in the order in     *)
(* which the records define things.                                        *)
(*                                                                         *)
(* An operation takes the handle `o' and returns it changed; o.ret is      *)
(* what it returned: "OKAY", "ERROR", or how the program lost its meaning: *)
(* a failed assert, a NULL pointer used, a block left, a loop that never   *)
(* ends.  After anything but "OKAY" the callers go no further (Then).      *)
(* o.blocks counts what was taken from cli_alloc and not given back.       *)
(* Allocation succeeds.                                                    *)
(***************************************************************************)
EXTENDS Naturals, Sequences, FiniteSets, SequencesExt, FiniteSetsExt

CONSTANTS
  FoldOf,       \* a name to its representative: letter case is ignored
  ClassOf,      \* what the end of a class name says of a segment: "plain" for
                \* code, text, data and constants, "zero" for BSS and STACK
  NULL,         \* no name
  CodeSize,     \* STD_CODE_SIZE
  OffsetRange   \* 2^32: sizes and offsets are omf_sec_offset

ASSUME SizeAssumption == CodeSize \in Nat \ {0} /\ OffsetRange \in Nat /\ CodeSize <= OffsetRange
ASSUME NamesAssumption ==
  /\ DOMAIN ClassOf = DOMAIN FoldOf
  /\ NULL \notin DOMAIN FoldOf
  /\ \A n \in DOMAIN ClassOf : ClassOf[n] \in {"plain", "zero", "other"}

Names == DOMAIN FoldOf
Broken == {"assert", "null", "wild", "hang"}

\* OMF_SEC_LNAME_INDEX and so on, and OMF_SEC_DATA_CODE_START.
TableIndex == [lnames |-> 0, externs |-> 1, relocs |-> 2, syms |-> 3, notes |-> 4]
DataCodeStart == 5

\* A section; `bytes' is contents with cur_size, <<>> for NULL; `sym' and
\* `group' are numbers in their tables, 0 for NULL; `id' is seg_id.
Section(kind, index) ==
  [kind |-> kind, index |-> index, id |-> 0, name |-> 0, size |-> 0, nobits |-> FALSE,
   sym |-> 0, group |-> 0, lines |-> 0, cur |-> 0, bytes |-> <<>>]

Threads == 0 .. 3

\* A file handle as OmfFileInit and setInitialData leave it.
NewHandle ==
  [ret |-> "OKAY", machine |-> "I8086", arch |-> FALSE, easy |-> FALSE, style |-> "codeview",
   lnames |-> <<>>, externs |-> <<>>, secs |-> <<>>, next |-> 0, segs |-> <<>>,
   comdats |-> <<>>, groups |-> <<>>, syms |-> <<>>, relocs |-> <<>>, notes |-> <<>>,
   frames |-> [t \in Threads |-> [method |-> "seg", idx |-> 0]],
   targets |-> [t \in Threads |-> [method |-> "seg", idx |-> 0]],
   work |-> 0,
   lidata |-> [made |-> FALSE, on |-> FALSE, is32 |-> FALSE, bytes |-> <<>>, fixups |-> <<>>],
   bakpat |-> [on |-> FALSE, fixes |-> <<>>],
   blocks |-> 1]

\* A list, of whatever.
IsList(s) == s \in Seq(ToSet(s))

Fail(o, how) == [o EXCEPT !.ret = how]
Then(o, F(_)) == IF o.ret = "OKAY" THEN F(o) ELSE o

\* Faulty: a table that exists from the start does not move the next index on.
NewSectionLow(o, kind) ==
  LET table == kind \in DOMAIN TableIndex
      index == IF table THEN TableIndex[kind] ELSE o.next
  IN  [o EXCEPT !.secs = Append(@, Section(kind, index)), !.blocks = @ + 1,
                !.next = IF table THEN @ ELSE index + 1]

\* newSection: tables have their own index, the others the next one that is
\* none of a table.
NewSection(o, kind) ==
  LET table == kind \in DOMAIN TableIndex
      index == IF table THEN TableIndex[kind] ELSE Max({o.next, DataCodeStart})
  IN  [o EXCEPT !.secs = Append(@, Section(kind, index)), !.blocks = @ + 1,
                !.next = IF table /\ index < @ THEN @ ELSE index + 1]

\* The section of a table is made with the first entry.
WithTable(o, kind) ==
  IF \E k \in DOMAIN o.secs : o.secs[k].kind = kind THEN o ELSE NewSection(o, kind)

\* Faulty: keeps the array that has become too small.
GrownKept(o, num) == [o EXCEPT !.blocks = @ + 1]

\* checkArraySize: an array of `num' entries gets room for one more; the array
\* it replaces is freed.
Grown(o, num) == [o EXCEPT !.blocks = @ + IF num = 0 THEN 1 ELSE 0]

\* addString
AddString(o, table, name) ==
  LET t == Grown(WithTable(o, table), Len(o[table]))
  IN  [t EXCEPT ![table] = Append(@, name), !.blocks = @ + 1]

\* newSymbol and addToSymbolTable; the first symbol brings a hash table.  `of'
\* is the section or group the symbol stands for.
AddSymbol(o, kind, name, of) ==
  LET t == Grown(WithTable(o, "syms"), Len(o.syms))
  IN  [t EXCEPT !.syms = Append(@, [kind |-> kind, name |-> name, of |-> of]),
                !.blocks = @ + 1 + IF o.syms = <<>> THEN 1 ELSE 0]

\* findSegment, findComDat: the section with a number; 0 is NULL.
Find(table, i) == IF i \in DOMAIN table THEN table[i] ELSE 0

\* OmfGetLName of a file that has names.
LName(o, i) == IF i \in DOMAIN o.lnames THEN o.lnames[i] ELSE NULL

SameName(a, b) == FoldOf[a] = FoldOf[b]

\* Faulty: takes whatever has the name.
FindExternAny(o, i) ==
  LET hits == {k \in DOMAIN o.syms : SameName(o.syms[k].name, o.externs[i])}
  IN  IF i \notin DOMAIN o.externs \/ hits = {} THEN 0 ELSE Min(hits)

\* findExtDefSym: the first symbol under the name that is undefined or common;
\* the symbols of COMDATs are common.
FindExtern(o, i) ==
  LET hits == {k \in DOMAIN o.syms :
                 /\ o.syms[k].kind \in {"undefined", "common", "comdat"}
                 /\ SameName(o.syms[k].name, o.externs[i])}
  IN  IF i \notin DOMAIN o.externs \/ hits = {} THEN 0 ELSE Min(hits)

\* findComDatByName: by the index of the name.
ComDatByIndex(o, name) ==
  LET ks == {k \in DOMAIN o.comdats : o.secs[o.comdats[k]].name = name}
  IN  IF name = 0 \/ ks = {} THEN 0 ELSE o.comdats[Min(ks)]

\* OmfFindSegOrComdat: a segment by its number, a COMDAT by its name.
SegOrComdat(o, seg, name) ==
  LET Named(n) == \/ n = name
                  \/ /\ LName(o, name) # NULL
                     /\ SameName(LName(o, n), LName(o, name))
      ks == {k \in DOMAIN o.comdats : Named(o.secs[o.comdats[k]].name)}
  IN  IF seg # 0 THEN Find(o.segs, seg) ELSE IF ks = {} THEN 0 ELSE o.comdats[Min(ks)]

\* newSegSection, newComDatSection: a section with the next number of its kind.
NewNumbered(o, kind, table) ==
  LET t == NewSection(Grown(o, Len(o[table])), kind)
      k == Len(t.secs)
  IN  [t EXCEPT ![table] = Append(@, k), !.secs[k].id = Len(o[table]) + 1]

-----------------------------------------------------------------------------
(* What the records that define things do.                                 *)

\* OmfAddLName
AddLName(o, name) == AddString(o, "lnames", name)

\* doEXTDEF, doCOMDEF: OmfAddExtName and OmfAddExtDef for a name; not for an
\* empty one (NULL), which takes no number.
AddExtern(o, name, kind) ==
  IF name = NULL THEN o ELSE AddSymbol(AddString(o, "externs", name), kind, name, 0)

\* doCEXTDEF: a symbol, under a name of the names, that is not put in the table
\* of external names, which may not even be there.
AddComdatExtern(o, i) ==
  IF o.lnames = <<>> THEN Fail(o, "assert")
  ELSE IF LName(o, i) = NULL THEN Fail(o, "ERROR")
  ELSE IF o.externs = <<>> THEN Fail(o, "null")
  ELSE AddSymbol(o, "undefined", LName(o, i), 0)

\* OmfAddSegDef.  The class decides whether there are contents; for a class
\* that says nothing the name is looked at, which may be none.
AddSegDef(o, r) ==
  LET t     == NewNumbered(o, "seg", "segs")
      k     == Len(t.secs)
      name  == LName(o, r.name)
      class == LName(o, r.class)
      zero  == class # NULL /\ ClassOf[class] = "zero"
      made  == [t EXCEPT !.secs[k].name = r.name, !.secs[k].size = r.size,
                         !.secs[k].nobits = zero]
  IN  IF o.lnames = <<>> THEN Fail(o, "assert")
      ELSE IF class # NULL /\ ClassOf[class] = "other" /\ name = NULL THEN Fail(o, "null")
      ELSE IF name = NULL THEN Fail(made, "ERROR")
      ELSE AddSymbol([made EXCEPT !.secs[k].sym = Len(o.syms) + 1], "section", name, k)

\* OmfAddPubDef
AddPubDef(o, r, name) ==
  IF r.seg = 0 /\ r.group # 0 THEN Fail(o, "ERROR")
  ELSE AddSymbol(o, IF r.seg = 0 THEN "absolute" ELSE "defined", name, Find(o.segs, r.seg))

\* Faulty: the first group that a segment is in keeps it.
JoinFirst(o, g, seg) ==
  LET k == Find(o.segs, seg)
  IN  IF o.ret # "OKAY" THEN o
      ELSE IF k = 0 THEN Fail(o, "ERROR")
      ELSE [o EXCEPT !.secs[k].group = IF @ = 0 THEN g ELSE @]

\* The loop of OmfAddGrpDef: a segment gets into group g.
Join(o, g, seg) ==
  LET k == Find(o.segs, seg)
  IN  IF o.ret # "OKAY" THEN o
      ELSE IF k = 0 THEN Fail(o, "ERROR")
      ELSE [o EXCEPT !.secs[k].group = g]

Joined(o, g, segs) == FoldLeft(LAMBDA a, seg : Join(a, g, seg), o, segs)

\* doGRPDEF, OmfAddGrpDef: the list of segments is allocated first and belongs to
\* the group once there is one; it is gone through from the end.
AddGrpDef(o, r) ==
  LET g == Len(o.groups) + 1
      list == [o EXCEPT !.blocks = @ + 1]
      made == [Grown(list, Len(o.groups)) EXCEPT
                 !.groups = Append(@, [segs |-> r.segs, sym |-> 0]), !.blocks = @ + 1]
  IN  IF r.name = 0 THEN Fail(list, "ERROR")
      ELSE Then(Joined(made, g, Reverse(r.segs)), LAMBDA b :
             IF o.lnames = <<>> THEN Fail(b, "assert")
             ELSE IF LName(o, r.name) = NULL THEN Fail(b, "ERROR")
             ELSE AddSymbol([b EXCEPT !.groups[g].sym = Len(o.syms) + 1],
                            "group", LName(o, r.name), g))

\* OmfAddComment
AddComment(o, r) ==
  LET t == Grown(WithTable(o, "notes"), Len(o.notes))
  IN  [t EXCEPT !.notes = Append(@, [class |-> r.class, seg |-> r.seg, name |-> r.name]),
                !.blocks = @ + 1]

\* OmfAddLineNum, for every line of a record.
AddLines(o, k, n) ==
  IF n = 0 THEN o
  ELSE [Grown(o, o.secs[k].lines) EXCEPT !.secs[k].lines = @ + n]

\* addReloc
AddReloc(o, reloc) ==
  LET t == Grown(WithTable(o, "relocs"), Len(o.relocs))
  IN  [t EXCEPT !.relocs = Append(@, reloc)]

=============================================================================
