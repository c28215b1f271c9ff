------------------------------- MODULE OmfFile -------------------------------
(***************************************************************************)
(* One OMF module: identifying it (orlentry.c), loading it record by       *)
(* record (omfload.c, with the handlers of OmfTables and OmfData), the     *)
(* scans of the client (omfentr.c, omfdrctv.c) and closing it (omfflhn.c). *)
(*                                                                         *)
(* A record r has its kind r.t and the fields its handler reads.  A file   *)
(* has records img.head and then any of img.body, in any order, each as    *)
(* often as wanted; it may end, or have something unreadable, anywhere.    *)
(*                                                                         *)
(* A section handle is its place in ofh.secs, which is the list at         *)
(* first_sec.  Scans change nothing, so that one is over before the next   *)
(* call is made; the client may stop it at a call.                         *)
(***************************************************************************)
EXTENDS OmfData, Identify

CONSTANTS
  Files,      \* the files that may be opened
  ANY,        \* the NULL name of ORLFileScan
  MaxBody     \* bound of the model: how many records follow the head

ASSUME BodyAssumption == MaxBody \in Nat

\* What a record says of its own lists and numbers is so.
WellFormed(r) ==
  /\ r.t \in {"EXTDEF", "PUBDEF", "LNAMES"} => IsList(r.names)
  /\ r.t = "CEXTDEF" => IsList(r.idxs)
  /\ r.t = "SEGDEF" => r.size \in 0 .. OffsetRange - 1
  /\ r.t = "GRPDEF" => IsList(r.segs)
  /\ r.t = "FIXUPP" => IsList(r.subs)
  /\ r.t = "BAKPAT" => IsList(r.fixes)
  /\ r.t \in {"LEDATA", "LIDATA", "COMDAT"} => r.off \in Nat
  /\ r.t \in {"LEDATA", "COMDAT"} => r.data \in Seq(Nat)
  /\ r.t \in {"LIDATA", "COMDAT"} => r.blocks \in Seq(Blocks)
  /\ r.t = "LINNUM" => r.n \in Nat

ASSUME FilesAssumption ==
  \A f \in Files :
    /\ f.start \in Nat /\ f.eof \in Nat /\ f.lfanew \in Nat /\ f.name \in Nat
    /\ f.fits \in BOOLEAN /\ f.summed \in BOOLEAN
    /\ \A r \in ToSet(f.head) \cup f.body : WellFormed(r)

VARIABLES
  img,      \* the file
  phase,    \* "closed", "identified", "loading", "open", "refused", "done", or
            \* "broken" when the program has lost its meaning
  found,    \* what ORLFileIdentify said of the file
  read,     \* the records handled so far
  ofh,      \* the file handle
  answer    \* the last call of the client on the open file

vars == <<img, phase, found, read, ofh, answer>>

Idle == [op |-> "none", arg |-> 0, seen |-> <<>>, ret |-> "OKAY"]

\* OmfFileFini: what freeFileHandle gives back: the handle, the sections with
\* what hangs on them, the arrays, the groups with their segments, and lidata
\* with the fixups that wait; not backpatches, nor clones of fixups.
Reached(o) ==
  LET Table(n) == IF n = 0 THEN 0 ELSE 1 + n
      Array(n) == IF n = 0 THEN 0 ELSE 1
      Data(s)  == Array(Len(s.bytes)) + Array(s.lines)
  IN  1 + Len(o.secs) + Total([k \in DOMAIN o.secs |-> Data(o.secs[k])])
        + Table(Len(o.lnames)) + Table(Len(o.externs)) + Table(Len(o.relocs))
        + Table(Len(o.notes)) + Table(Len(o.syms)) + Array(Len(o.syms))
        + Array(Len(o.segs)) + Array(Len(o.comdats))
        + Array(Len(o.groups)) + 2 * Len(o.groups)
        + IF o.lidata.made THEN 1 + Len(o.lidata.fixups) ELSE 0

Init ==
  /\ img \in Files
  /\ phase = "closed"
  /\ found = Unrecognized(0)
  /\ read = <<>>
  /\ ofh = NewHandle
  /\ answer = Idle

\* ORLFileIdentify, before ORLFileInit
ORLFileIdentify ==
  /\ phase = "closed"
  /\ \E moved \in Moves(img) : found' = IdentifyFile(img, moved)
  /\ phase' = "identified"
  /\ UNCHANGED <<img, read, ofh, answer>>

-----------------------------------------------------------------------------
(* Loading.                                                                *)

\* OmfFileInit after a record: it goes on, or frees what it has made.
Handled(r, o) ==
  /\ read' = Append(read, r)
  /\ CASE o.ret = "OKAY"  -> /\ ofh' = o
                             /\ phase' = IF r.t = "MODEND" THEN "open" ELSE "loading"
       [] o.ret = "ERROR" -> /\ ofh' = [o EXCEPT !.blocks = @ - Reached(o)]
                             /\ phase' = "refused"
       [] OTHER           -> ofh' = o /\ phase' = "broken"
  /\ UNCHANGED <<img, found, answer>>

\* OmfLoadFileStructure begins where the file was left; the first record must
\* be a THEADR record.
OmfFileInit(r) ==
  /\ phase = "identified" /\ found.format = "OMF"
  /\ r = img.head[1] /\ r.t = "THEADR"
  /\ What(img, found.pos) = "theadr"
  /\ Handled(r, AddSymbol(NewHandle, "file", r.name, 0))

\* Record r may come next.
Next1(r) ==
  /\ phase = "loading"
  /\ IF Len(read) < Len(img.head) THEN r = img.head[Len(read) + 1]
     ELSE r \in img.body /\ Len(read) < Len(img.head) + MaxBody

\* The file ends, or loadRecord, procRecord or a handler finds that a record
\* is none, is too short or is of no known kind.
Unreadable ==
  /\ phase = "loading" \/ (phase = "identified" /\ found.format = "OMF")
  /\ phase' = "refused"
  /\ ofh' = [ofh EXCEPT !.ret = "ERROR", !.blocks = @ - Reached(ofh)]
  /\ UNCHANGED <<img, found, read, answer>>

\* processExplicitFixup: frame and target are in the fixup, or in a thread.  A
\* frame that is that of an explicit target becomes that target.
Fixup(o, s) ==
  LET frame  == IF s.ft \in Threads THEN o.frames[s.ft]
                ELSE [method |-> s.fm, idx |-> IF s.fm \in {"seg", "grp", "ext"} THEN s.fi ELSE 0]
      target == IF s.tt \in Threads THEN o.targets[s.tt] ELSE [method |-> s.tm, idx |-> s.ti]
      taken  == IF frame.method = "targ" /\ s.tt \notin Threads THEN target ELSE frame
  IN  [known |-> s.known, off |-> s.off, fm |-> taken.method, fi |-> taken.idx,
       tm |-> target.method, ti |-> target.idx]

\* processThreadFixup: a frame method without an index leaves the one before.
SetThread(o, s) ==
  IF s.frame
  THEN [o EXCEPT !.frames[s.thread] =
          [method |-> s.method, idx |-> IF s.method \in {"seg", "grp", "ext"} THEN s.idx ELSE @.idx]]
  ELSE [o EXCEPT !.targets[s.thread] = [method |-> s.method, idx |-> s.idx]]

\* What the handler of record r does for x, a part of the record.
Part(o, r, x) ==
  IF o.ret # "OKAY" THEN o
  ELSE CASE r.t = "EXTDEF"  -> AddExtern(o, x, r.kind)
         [] r.t = "CEXTDEF" -> AddComdatExtern(o, x)
         [] r.t = "PUBDEF"  -> AddPubDef(o, r, x)
         [] r.t = "LNAMES"  -> AddLName(o, x)
         [] r.t = "FIXUPP"  -> IF x.explicit THEN AddFixupp(o, Fixup(o, x)) ELSE SetThread(o, x)
         [] r.t = "BAKPAT"  -> AddBakpat(o, [seg |-> r.seg, name |-> r.name, width |-> r.width,
                                             off |-> x.off, disp |-> x.disp])

\* The handlers that go on while a record has something left.
Each(o, r, parts) == FoldLeft(LAMBDA a, x : Part(a, r, x), o, parts)

\* doTHEADR of an additional header record, OmfTheadr
doTHEADR(r) ==
  /\ Next1(r) /\ r.t = "THEADR"
  /\ Handled(r, Then(FinishPrevWork(ofh), LAMBDA o : AddSymbol(o, "file", r.name, 0)))

\* doCOMENT: a comment is kept, and some change how the file is read.
doCOMENT(r) ==
  /\ Next1(r) /\ r.t = "COMENT"
  /\ LET o == AddComment(ofh, r)
     IN  Handled(r,
           CASE r.class = "proc16" -> [o EXCEPT !.machine = "I8086"]
             [] r.class = "proc32" -> [o EXCEPT !.machine = "I386"]
             [] r.class = "easy"   -> [o EXCEPT !.easy = TRUE, !.machine = "I386", !.arch = TRUE]
             [] r.class = "style"  -> [o EXCEPT !.style = r.style]
             [] OTHER              -> o)

\* doMODEND, OmfModEnd
doMODEND ==
  /\ phase = "loading" /\ Len(read) >= Len(img.head)
  /\ Handled([t |-> "MODEND"], FinishPrevWork(ofh))

\* doEXTDEF (r.kind "undefined") and doCOMDEF ("common")
doEXTDEF(r) ==
  /\ Next1(r) /\ r.t = "EXTDEF"
  /\ Handled(r, Each(ofh, r, r.names))

\* doCEXTDEF
doCEXTDEF(r) ==
  /\ Next1(r) /\ r.t = "CEXTDEF"
  /\ Handled(r, Each(ofh, r, r.idxs))

\* doPUBDEF
doPUBDEF(r) ==
  /\ Next1(r) /\ r.t = "PUBDEF"
  /\ Handled(r, Each(ofh, r, r.names))

\* doLNAMES
doLNAMES(r) ==
  /\ Next1(r) /\ r.t = "LNAMES"
  /\ Handled(r, Each(ofh, r, r.names))

\* doSEGDEF: the first 32-bit segment decides the machine, unless that is known.
\* getAlignment fails an assert for a number that is no alignment ("none").
doSEGDEF(r) ==
  /\ Next1(r) /\ r.t = "SEGDEF"
  /\ LET o == IF r.use32 /\ ~ofh.arch THEN [ofh EXCEPT !.machine = "I386", !.arch = TRUE]
              ELSE ofh
     IN  Handled(r, IF r.align = "none" THEN Fail(ofh, "assert") ELSE AddSegDef(o, r))

\* doGRPDEF
doGRPDEF(r) ==
  /\ Next1(r) /\ r.t = "GRPDEF"
  /\ Handled(r, AddGrpDef(ofh, r))

\* doFIXUPP
doFIXUPP(r) ==
  /\ Next1(r) /\ r.t = "FIXUPP"
  /\ Handled(r, Each(ofh, r, r.subs))

\* doBAKPAT, for a segment or (NBKPAT) for a COMDAT by its name
doBAKPAT(r) ==
  /\ Next1(r) /\ r.t = "BAKPAT"
  /\ Handled(r, IF r.seg = 0 /\ r.name = 0 THEN Fail(ofh, "ERROR")
                ELSE Each(ofh, r, r.fixes))

\* doLEDATA
doLEDATA(r) ==
  /\ Next1(r) /\ r.t = "LEDATA"
  /\ Handled(r, IF r.seg = 0 THEN Fail(ofh, "ERROR")
                ELSE AddLEData(ofh, r.seg, r.off, r.data))

\* doLIDATA
doLIDATA(r) ==
  /\ Next1(r) /\ r.t = "LIDATA" /\ Writable(HeaderSize(ofh, r.is32), r.blocks)
  /\ Handled(r, IF r.seg = 0 THEN Fail(ofh, "ERROR")
                ELSE AddLIData(ofh, r.seg, r.off, r.blocks, r.is32))

\* doCOMDAT, which has the alignment of a segment ("seg") or getAlignment, too
doCOMDAT(r) ==
  /\ Next1(r) /\ r.t = "COMDAT" /\ (r.iter => Writable(HeaderSize(ofh, r.is32), r.blocks))
  /\ Handled(r, IF r.align = "none" THEN Fail(ofh, "assert") ELSE AddComDat(ofh, r))

\* doLINNUM: lines of a segment, which are left alone when they are not
\* CodeView's, or (LINSYM) of a COMDAT.
doLINNUM(r) ==
  /\ Next1(r) /\ r.t = "LINNUM"
  /\ LET k == SegOrComdat(ofh, r.seg, r.name)
         ignored == ~r.sym /\ (ofh.style # "codeview" \/ r.seg = 0)
     IN  Handled(r, IF ignored THEN ofh
                    ELSE IF (r.sym /\ r.name = 0) \/ k = 0 THEN Fail(ofh, "ERROR")
                    ELSE AddLines(ofh, k, r.n))

\* The records of procRecord that are simply ignored.
IgnoreRecord(r) ==
  /\ Next1(r) /\ r.t = "IGNORED"
  /\ Handled(r, ofh)

-----------------------------------------------------------------------------
(* The open file.                                                          *)

\* OmfFileFini
OmfFileFini ==
  /\ phase = "open" /\ answer = Idle
  /\ phase' = "done"
  /\ ofh' = [ofh EXCEPT !.blocks = @ - Reached(ofh)]
  /\ UNCHANGED <<img, found, read, answer>>

CanCall == phase = "open" /\ answer = Idle

Answered(op, arg, seen, ret) ==
  /\ answer' = [op |-> op, arg |-> arg, seen |-> seen, ret |-> ret]
  /\ UNCHANGED <<img, phase, found, read, ofh>>

\* A scan calls the client for every element of `list', unless the client stops
\* it, at its first call.
Scanned(op, arg, list, ret) ==
  \/ Answered(op, arg, list, ret)
  \/ list # <<>> /\ Answered(op, arg, <<list[1]>>, "STOP")

\* The client has seen the answer.
Forget ==
  /\ phase = "open" /\ answer # Idle
  /\ answer' = Idle
  /\ UNCHANGED <<img, phase, found, read, ofh>>

StringTable(k) == ofh.secs[k].kind \in {"lnames", "externs"}
ProgBits(k) == ofh.secs[k].kind = "comdat" \/ (ofh.secs[k].kind = "seg" /\ ~ofh.secs[k].nobits)

\* OmfFileScan: all sections but the tables of names, or those of a name: the
\* symbols that stand for a section and nothing else, in their order.
OmfFileScan(name) ==
  LET all   == SelectSeq([k \in DOMAIN ofh.secs |-> k], LAMBDA k : ~StringTable(k))
      named == SelectSeq(ofh.syms, LAMBDA s : s.kind = "section" /\ SameName(s.name, name))
  IN  /\ CanCall
      /\ Scanned("scan", name,
                 IF name = ANY THEN all ELSE [i \in DOMAIN named |-> named[i].of], "OKAY")

\* OmfSecGetContents, OmfExportSegmentContents: the contents grow to the size.
OmfSecGetContents(k) ==
  LET s == ofh.secs[k]
      o == IF s.bytes = <<>> /\ ~ProgBits(k) THEN Fail(ofh, "ERROR")
           ELSE IF s.size = 0 THEN ofh ELSE CheckSegmentLength(ofh, k, s.size)
  IN  /\ CanCall
      /\ phase' = IF o.ret \in Broken THEN "broken" ELSE phase
      /\ ofh' = [o EXCEPT !.ret = "OKAY"]
      /\ answer' = [op |-> "contents", arg |-> k, seen |-> o.secs[k].bytes, ret |-> o.ret]
      /\ UNCHANGED <<img, found, read>>

\* Faulty: compares the sections by the number in their own table.
RelocsOfById(k, off) ==
  LET global == ofh.secs[k].kind = "relocs"
      OfSec(x) == ofh.secs[ofh.relocs[x].sec].id = ofh.secs[k].id
  IN  SelectSeq([x \in DOMAIN ofh.relocs |-> x],
                LAMBDA x : (global \/ OfSec(x)) /\ off \in {ANY, ofh.relocs[x].off})

\* relocScan: the relocations at an offset (ANY: at all) whose section has the
\* index of this one, those of all sections for the section of relocations.
RelocsOf(k, off) ==
  LET global == ofh.secs[k].kind = "relocs"
      OfSec(x) == ofh.secs[ofh.relocs[x].sec].index = ofh.secs[k].index
  IN  SelectSeq([x \in DOMAIN ofh.relocs |-> x],
                LAMBDA x : (global \/ OfSec(x)) /\ off \in {ANY, ofh.relocs[x].off})

RelocScan(op, k, arg, off) ==
  IF ofh.relocs = <<>> THEN Answered(op, arg, <<>>, "FALSE")
  ELSE Scanned(op, arg, RelocsOf(k, off), "TRUE")

\* OmfSecScanReloc, and OmfRelocSecScan for the section of relocations
OmfSecScanReloc(k) ==
  /\ CanCall
  /\ IF ProgBits(k) \/ ofh.secs[k].kind = "relocs"
     THEN RelocScan("relocs", k, k, ANY)
     ELSE Answered("relocs", k, <<>>, "ERROR")

\* OmfSecQueryReloc
OmfSecQueryReloc(k, off) ==
  /\ CanCall
  /\ IF ProgBits(k) THEN RelocScan("query", k, <<k, off>>, off)
     ELSE Answered("query", <<k, off>>, <<>>, "ERROR")

\* OmfSymbolSecScan
OmfSymbolSecScan(k) ==
  /\ CanCall
  /\ IF ofh.secs[k].kind = "syms"
     THEN Scanned("symbols", k, [s \in DOMAIN ofh.syms |-> s], "OKAY")
     ELSE Answered("symbols", k, <<>>, "ERROR")

\* OmfNoteSecScan, OmfParseComments, OmfParseScanTab: default libraries, and
\* the tables in segments and COMDATs that are there.
OmfNoteSecScan(k) ==
  LET Target(n) == IF n.seg = 0 /\ n.name = 0 THEN 0 ELSE SegOrComdat(ofh, n.seg, n.name)
      called == SelectSeq(ofh.notes, LAMBDA n :
                  n.class = "deflib" \/ (n.class = "disasm" /\ Target(n) # 0))
  IN  /\ CanCall
      /\ IF ofh.secs[k].kind = "notes"
         THEN Scanned("notes", k, [i \in DOMAIN called |->
                <<called[i].class, IF called[i].class = "disasm" THEN Target(called[i]) ELSE 0>>],
                "OKAY")
         ELSE Answered("notes", k, <<>>, "ERROR")

\* OmfGroupsScan, with OmfGroupMember for all segments of a group
OmfGroupsScan ==
  LET Member(i) == LET k == Find(ofh.segs, i)
                   IN  IF k = 0 THEN NULL ELSE ofh.syms[ofh.secs[k].sym].name
      group == [g \in DOMAIN ofh.groups |->
                  [i \in DOMAIN ofh.groups[g].segs |-> Member(ofh.groups[g].segs[i])]]
  IN  /\ CanCall
      /\ Scanned("groups", 0, group, "OKAY")

Record(r) ==
  \/ OmfFileInit(r) \/ doTHEADR(r) \/ doCOMENT(r) \/ doEXTDEF(r) \/ doCEXTDEF(r)
  \/ doPUBDEF(r) \/ doLNAMES(r) \/ doSEGDEF(r) \/ doGRPDEF(r) \/ doFIXUPP(r)
  \/ doBAKPAT(r) \/ doLEDATA(r) \/ doLIDATA(r) \/ doCOMDAT(r) \/ doLINNUM(r)
  \/ IgnoreRecord(r)

Client ==
  \/ \E name \in Names \cup {ANY} : OmfFileScan(name)
  \/ \E k \in DOMAIN ofh.secs : \/ OmfSecGetContents(k)
                                 \/ OmfSecScanReloc(k)
                                 \/ \E x \in DOMAIN ofh.relocs :
                                       OmfSecQueryReloc(k, ofh.relocs[x].off)
                                 \/ OmfSymbolSecScan(k)
                                 \/ OmfNoteSecScan(k)
  \/ OmfGroupsScan
  \/ Forget
  \/ OmfFileFini

Next ==
  \/ ORLFileIdentify
  \/ \E r \in ToSet(img.head) \cup img.body : Record(r)
  \/ doMODEND
  \/ Unreadable
  \/ Client

Spec == Init /\ [][Next]_vars

=============================================================================
