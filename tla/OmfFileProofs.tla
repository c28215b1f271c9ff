---------------------------- MODULE OmfFileProofs ----------------------------
(***************************************************************************)
(* Theorems about OmfFile: what ORLFileIdentify says, and the invariant Inv  *)
(* of loading, reading and closing a file, from which its handle is well-   *)
(* formed and its blocks are all reached.                                   *)
(***************************************************************************)
EXTENDS OmfDataProofs

-----------------------------------------------------------------------------
(* Identifying a file.                                                     *)

\* What can be read in two goes can be read in one.
LEMMA ReadTwice ==
  ASSUME NEW f \in Files, NEW p \in Nat
  PROVE  CanRead(f, p, 4) /\ CanRead(f, p + 4, 4) <=> CanRead(f, p, 8)
<1>1. f.eof \in Nat
  BY FilesAssumption
<1> QED
  BY <1>1 DEF CanRead

\* A file that begins with "MZ".
LEMMA PEIsRight ==
  ASSUME NEW f \in Files, What(f, f.start) = "mz", CanRead(f, f.start, 4),
         NEW a, a = IdentifyPE(f, f.start)
  PROVE  RightIn(f, a.format, a.pos)
<1>1. PICK s, o, pe : s = f.start /\ o = f.lfanew % 65536 /\ pe = s + o
  OBVIOUS
<1>2. s \in Nat /\ pe \in Nat
  BY <1>1, FilesAssumption
<1>3. PICK w, v : w = What(f, pe) /\ v = What(f, pe + 4)
  OBVIOUS
<1>4. CanRead(f, pe, 4) /\ CanRead(f, pe + 4, 4) <=> CanRead(f, pe, 8)
  BY <1>2, ReadTwice
<1>5. /\ a.format = IF CanRead(f, s + 60, 4) /\ CanRead(f, pe, 8) /\ w = "pe" /\ v = "machine"
                    THEN "COFF" ELSE "unrecognized"
      /\ a.format # "unrecognized" => a.pos = s
  BY <1>1, <1>3, <1>4 DEF IdentifyPE, As, Unrecognized
<1> QED
  BY <1>1, <1>3, <1>5 DEF RightIn

\* What ORLFileIdentify says of a file is right.
LEMMA IdentifyIsRight ==
  ASSUME NEW f \in Files, NEW moved, NEW a, a = IdentifyFile(f, moved)
  PROVE  RightIn(f, a.format, a.pos)
<1> DEFINE word == What(f, f.start)
<1>1. CASE ~CanRead(f, f.start, 4)
  BY <1>1 DEF IdentifyFile, RightIn, Unrecognized, As
<1>2. CASE CanRead(f, f.start, 4) /\ word = "mz"
  <2>1. a = IdentifyPE(f, f.start)
    BY <1>2 DEF IdentifyFile, IdentifyMachine
  <2> QED
    BY <1>2, <2>1, PEIsRight
<1>3. CASE CanRead(f, f.start, 4) /\ word = "theadr"
  <2> SUFFICES ASSUME CanRead(f, f.start + 4, f.name + 1), f.fits => f.summed
               PROVE  RightIn(f, a.format, a.pos)
    BY <1>3 DEF RightIn
  <2>1. a = IdentifyOmf(f, moved)
    BY <1>3 DEF IdentifyFile
  <2>2. a = IF f.fits THEN As("OMF", f.start) ELSE Unrecognized(f.start)
    BY <2>1, FilesAssumption DEF IdentifyOmf, IdentifyMachine
  <2> QED
    BY <1>3, <2>2, FilesAssumption DEF RightIn, As, Unrecognized
<1>4. CASE CanRead(f, f.start, 4) /\ word \notin {"mz", "theadr"}
  <2>1. a = IF word = "elf" THEN As("ELF", f.start)
            ELSE IF word \in {"machine", "machine_obj"} THEN As("COFF", f.start)
            ELSE Unrecognized(f.start)
    BY <1>4 DEF IdentifyFile, IdentifyMachine
  <2> QED
    BY <1>4, <2>1 DEF RightIn, As, Unrecognized
<1> QED
  BY <1>1, <1>2, <1>3, <1>4

\* What is said of a file is right until it is loaded.
Identified ==
  /\ img \in Files
  /\ phase = "identified" => RightIn(img, found.format, found.pos)

LEMMA IdentifiedInit == Init => Identified
  BY DEF Init, Identified

\* Only ORLFileIdentify says something of a file.
LEMMA IdentifiedNext == Identified /\ [Next]_vars => Identified'
<1> SUFFICES ASSUME Identified, [Next]_vars PROVE Identified'
  OBVIOUS
<1>1. CASE UNCHANGED vars
  BY <1>1 DEF Identified, vars
<1>2. CASE ORLFileIdentify
  <2>1. PICK moved : found' = IdentifyFile(img, moved)
    BY <1>2 DEF ORLFileIdentify
  <2>2. img' = img /\ img \in Files
    BY <1>2 DEF ORLFileIdentify, Identified
  <2>3. RightIn(img, found'.format, found'.pos)
    BY <2>1, <2>2, IdentifyIsRight
  <2> QED
    BY <2>2, <2>3 DEF Identified
<1>3. ASSUME NEW r, NEW o, Handled(r, o)
      PROVE  img' = img /\ phase' # "identified"
  BY <1>3 DEF Handled
<1>4. ASSUME NEW r, Record(r) PROVE img' = img /\ phase' # "identified"
  <2>1. \E q, o : Handled(q, o)
    BY <1>4 DEF Record, OmfFileInit, doTHEADR, doCOMENT, doEXTDEF, doCEXTDEF, doPUBDEF, doLNAMES,
                doSEGDEF, doGRPDEF, doFIXUPP, doBAKPAT, doLEDATA, doLIDATA, doCOMDAT, doLINNUM,
                IgnoreRecord
  <2> QED
    BY <2>1, <1>3
<1>5. CASE doMODEND
  BY <1>5, <1>3 DEF doMODEND, Identified
<1>6. CASE Unreadable
  BY <1>6 DEF Unreadable, Identified
<1>7. ASSUME Client PROVE img' = img /\ found' = found /\ phase' \in {phase, "broken", "done"}
  <2>1. ASSUME NEW op, NEW arg, NEW list, NEW ret, Answered(op, arg, list, ret)
        PROVE  img' = img /\ found' = found /\ phase' = phase
    BY <2>1 DEF Answered
  <2>2. ASSUME NEW op, NEW arg, NEW list, NEW ret, Scanned(op, arg, list, ret)
        PROVE  img' = img /\ found' = found /\ phase' = phase
    BY <2>1, <2>2 DEF Scanned
  <2>3. ASSUME NEW k, OmfSecGetContents(k)
        PROVE  img' = img /\ found' = found /\ phase' \in {phase, "broken"}
    BY <2>3 DEF OmfSecGetContents
  <2>4. ASSUME NEW op, NEW k, NEW arg, NEW off, RelocScan(op, k, arg, off)
        PROVE  img' = img /\ found' = found /\ phase' = phase
    BY <2>1, <2>2, <2>4 DEF RelocScan
  <2>5. ASSUME NEW name, OmfFileScan(name)
        PROVE  img' = img /\ found' = found /\ phase' = phase
    BY <2>2, <2>5 DEF OmfFileScan
  <2>6. ASSUME NEW k, NEW off, OmfSecScanReloc(k) \/ OmfSecQueryReloc(k, off)
        PROVE  img' = img /\ found' = found /\ phase' = phase
    BY <2>1, <2>4, <2>6, SMTT(30) DEF OmfSecScanReloc, OmfSecQueryReloc
  <2>7. ASSUME NEW k, OmfSymbolSecScan(k) \/ OmfNoteSecScan(k)
        PROVE  img' = img /\ found' = found /\ phase' = phase
    BY <2>1, <2>2, <2>7, SMTT(30) DEF OmfSymbolSecScan, OmfNoteSecScan
  <2>8. CASE OmfGroupsScan \/ Forget \/ OmfFileFini
    BY <2>2, <2>8 DEF OmfGroupsScan, Forget, OmfFileFini
  <2> QED
    BY <1>7, <2>3, <2>5, <2>6, <2>7, <2>8 DEF Client
<1>8. \/ UNCHANGED vars \/ ORLFileIdentify \/ doMODEND \/ Unreadable \/ Client
      \/ \E r \in ToSet(img.head) \cup img.body : Record(r)
  BY DEF Next
<1>9. CASE \E r \in ToSet(img.head) \cup img.body : Record(r)
  BY <1>9, <1>4 DEF Identified
<1>10. CASE Client
  BY <1>7, <1>10 DEF Identified
<1> QED
  BY <1>1, <1>2, <1>5, <1>6, <1>8, <1>9, <1>10

\* A file is of the format that ORLFileIdentify says, and is left where it began
\* (orlentry.c:116-233), whatever its bytes.
THEOREM IdentifiedInPlaceHolds == Spec => []IdentifiedInPlace
<1>1. Init => Identified
  BY IdentifiedInit
<1>2. Identified /\ [Next]_vars => Identified'
  BY IdentifiedNext
<1>3. Identified => IdentifiedInPlace
  BY DEF Identified, IdentifiedInPlace
<1> QED
  BY <1>1, <1>2, <1>3, PTL DEF Spec

-----------------------------------------------------------------------------
(* The handle while a file is loaded.                                      *)

LEMMA NewHandleSound == Sound(NewHandle) /\ Surplus(NewHandle) = 0
<1>1. PICK o : o = NewHandle
  OBVIOUS
<1>2. /\ DOMAIN o = HandleFields /\ o.ret = "OKAY" /\ o.blocks = 1 /\ o.next = 0 /\ o.work = 0
  BY <1>1 DEF NewHandle, HandleFields
<1>3. /\ o.secs = <<>> /\ o.segs = <<>> /\ o.comdats = <<>> /\ o.groups = <<>> /\ o.syms = <<>>
      /\ o.lnames = <<>> /\ o.externs = <<>> /\ o.relocs = <<>> /\ o.notes = <<>>
  BY <1>1 DEF NewHandle
<1>4. /\ o.lidata = [made |-> FALSE, on |-> FALSE, is32 |-> FALSE, bytes |-> <<>>, fixups |-> <<>>]
      /\ o.bakpat = [on |-> FALSE, fixes |-> <<>>]
  BY <1>1 DEF NewHandle
<1>5. DOMAIN <<>> = {}
  OBVIOUS
<1>6. SectionsOK(o.secs) /\ Indexed(o.secs, o.next) /\ Symboled(o.secs, Len(o.syms))
  BY <1>2, <1>3, <1>5, NoList DEF SectionsOK, Indexed, Symboled
<1>7. Numbered(o.secs, o.segs, "seg") /\ Numbered(o.secs, o.comdats, "comdat") /\ ListsOK(o)
  BY <1>3, <1>5, NoList DEF Numbered, ListsOK
<1>8. IteratedOK(o.lidata) /\ ~o.lidata.on
  <2>1. <<>> \in Seq(Byte)
    OBVIOUS
  <2> QED
    BY <1>4, <2>1, NoList DEF IteratedOK
<1>9. BakpatsOK(o.bakpat) /\ ~o.bakpat.on
  BY <1>4, NoList DEF BakpatsOK
<1>10. Sound(o)
  BY <1>2, <1>6, <1>7, <1>8, <1>9, RetsAre DEF Sound, HandleOK
<1>11. HangAll(o.secs) = 0
  <2>1. PICK f : f = [k \in DOMAIN o.secs |-> Hangs(o.secs[k])]
    OBVIOUS
  <2>2. DOMAIN f = {}
    BY <1>3, <1>5, <2>1
  <2>3. SumFunctionOnSet(f, {}) = 0
    BY FS_EmptySet, SumUnfolds
  <2> QED
    BY <2>1, <2>2, <2>3 DEF HangAll, Total, SumFunction
<1>12. Reached(o) = 1
  <2>1. OfSections(o.secs) = 0 /\ OfNames(o) = 0 /\ OfLists(o) = 0 /\ OfSymbols(o.syms) = 0
        /\ OfNumbers(o) = 0 /\ OfGroups(o.groups) = 0
    BY <1>3, <1>11, NoList DEF OfSections, OfNames, OfLists, OfSymbols, OfNumbers, OfGroups, Table, Array
  <2>2. OfIterated(o.lidata) = 0
    BY <1>4 DEF OfIterated
  <2> QED
    BY <1>10, <2>1, <2>2, ReachedParts DEF Sound
<1>13. Surplus(o) = 0
  <2>1. Waiting(o) = 0
    BY <1>9 DEF Waiting
  <2> QED
    BY <1>2, <1>12, <2>1 DEF Surplus
<1> QED
  BY <1>1, <1>10, <1>13

\* Some record is of these kinds.
Has(kinds) == \E i \in DOMAIN read : read[i].t \in kinds

\* The handle of a file of which nothing has been lost.
Whole ==
  /\ Sound(ofh) /\ ofh.ret = "OKAY" /\ Surplus(ofh) >= 0
  /\ ~Has({"FIXUPP"}) => ofh.lidata.fixups = <<>>
  /\ ~Has({"BAKPAT"}) => ~ofh.bakpat.on
  /\ ~Has({"FIXUPP"}) \/ ~Has({"BAKPAT"}) => Surplus(ofh) = 0 /\ Tidy(ofh)

Inv ==
  /\ img \in Files /\ IsList(read)
  /\ phase \in {"closed", "identified", "loading", "open", "refused", "done", "broken"}
  /\ phase \in {"closed", "identified"} => ofh = NewHandle
  /\ phase \in {"closed", "identified", "loading", "open"} => Whole
  /\ phase = "open" => ~ofh.lidata.on /\ ~ofh.bakpat.on
  /\ phase \in {"refused", "done", "broken"} => ofh.blocks \in Nat
  /\ phase = "done" /\ (~Has({"FIXUPP"}) \/ ~Has({"BAKPAT"})) => ofh.blocks = 0
  /\ phase = "refused" /\ ~Has({"GRPDEF", "FIXUPP", "BAKPAT"}) => ofh.blocks = 0
  /\ phase = "broken" => answer.ret \in Broken \/ ofh.ret \in Broken

LEMMA NewHandleWhole == ofh = NewHandle => Whole
<1>1. NewHandle.ret = "OKAY" /\ NewHandle.lidata.fixups = <<>>
  BY DEF NewHandle
<1>2. ~NewHandle.bakpat.on
  BY DEF NewHandle
<1> QED
  BY <1>1, <1>2, NewHandleSound DEF Whole, Tidy

LEMMA InvInit == Init => Inv
<1> SUFFICES ASSUME Init PROVE Inv
  OBVIOUS
<1>1. IsList(read)
  BY NoList DEF Init
<1> QED
  BY <1>1, NewHandleWhole DEF Init, Inv

\* The blocks of a handle that is given back.
LEMMA GivenBack ==
  ASSUME NEW o, Sound(o), Surplus(o) >= 0
  PROVE  /\ o.blocks \in Nat /\ o.blocks - Reached(o) \in Nat
         /\ ~o.bakpat.on /\ Surplus(o) = 0 => o.blocks - Reached(o) = 0
<1>1. /\ Reached(o) \in Nat /\ Waiting(o) \in Nat /\ Surplus(o) \in Int /\ o.blocks \in Int
      /\ Surplus(o) = o.blocks - Reached(o) - Waiting(o)
  BY ReachedType DEF Sound, HandleOK, Surplus
<1>2. ~o.bakpat.on => Waiting(o) = 0
  BY DEF Waiting
<1> QED
  BY <1>1, <1>2

LEMMA HandledKeeps ==
  ASSUME Inv, Whole, NEW r, NEW o, Tells(r.t, ofh, o), Handled(r, o),
         r.t = "MODEND" /\ o.ret = "OKAY" => ~o.lidata.on /\ ~o.bakpat.on
  PROVE  Inv'
<1>1. PICK s \in Int : s = Surplus(ofh)
  BY ReachedType DEF Whole, Sound
<1>2. PICK u \in Int : u = Surplus(o)
  BY ReachedType DEF Tells, Sound
<1>3. Sound(o) /\ Surplus(o) >= 0
  BY <1>1, <1>2 DEF Tells, Whole
<1>4. o.blocks \in Nat /\ o.blocks - Reached(o) \in Nat
      /\ (~o.bakpat.on /\ Surplus(o) = 0 => o.blocks - Reached(o) = 0)
  BY <1>3, GivenBack
<1>5. read' = Append(read, r) /\ img' = img /\ answer' = answer
  BY DEF Handled
<1>6. AppendedTo(read', read, r)
  BY <1>5, ListAppended DEF Inv
<1>7. IsList(read') /\ \A kinds : Has(kinds)' <=> Has(kinds) \/ r.t \in kinds
  <2>1. DOMAIN read = 1 .. Len(read) /\ Len(read) \in Nat
    BY ListIs DEF Inv
  <2>2. Len(read) + 1 \in 1 .. Len(read) + 1
    BY <2>1
  <2>3. \A i \in 1 .. Len(read) + 1 : i = Len(read) + 1 \/ i \in 1 .. Len(read)
    BY <2>1
  <2>4. \A i \in 1 .. Len(read) : i \in 1 .. Len(read) + 1
    BY <2>1
  <2> QED
    BY <1>6, <2>1, <2>2, <2>3, <2>4 DEF AppendedTo, Has
<1>8. ~Has({"FIXUPP"})' => o.lidata.fixups = <<>>
  BY <1>7 DEF Tells, Whole
<1>9. ~Has({"BAKPAT"})' => ~o.bakpat.on
  BY <1>7 DEF Tells, Whole
<1>10. ASSUME o.ret = "OKAY", ~Has({"FIXUPP"})' \/ ~Has({"BAKPAT"})'
       PROVE  Surplus(o) = 0 /\ Tidy(o)
  <2>1. ~Has({"FIXUPP"}) \/ ~Has({"BAKPAT"})
    BY <1>7, <1>10
  <2>2. Surplus(ofh) = 0 /\ Tidy(ofh) /\ (ofh.lidata.fixups = <<>> \/ ~ofh.bakpat.on)
    BY <2>1 DEF Whole
  <2> QED
    BY <1>10, <2>2 DEF Tells
<1>11. ASSUME ~Has({"GRPDEF", "FIXUPP", "BAKPAT"})'
       PROVE  Surplus(o) = 0 /\ ~o.bakpat.on
  <2>1. r.t \notin {"GRPDEF", "FIXUPP", "BAKPAT"} /\ ~Has({"GRPDEF", "FIXUPP", "BAKPAT"})
    BY <1>7, <1>11
  <2>2. ~Has({"FIXUPP"}) /\ ~Has({"BAKPAT"})
    BY <2>1 DEF Has
  <2> QED
    BY <2>1, <2>2 DEF Tells, Whole
<1>12. CASE o.ret = "OKAY"
  <2>1. ofh' = o /\ phase' = IF r.t = "MODEND" THEN "open" ELSE "loading"
    BY <1>12 DEF Handled
  <2>2. Whole'
    BY <1>3, <1>8, <1>9, <1>10, <1>12, <2>1 DEF Whole
  <2> QED
    BY <1>5, <1>7, <1>12, <2>1, <2>2 DEF Inv
<1>13. CASE o.ret = "ERROR"
  <2>1. ofh' = [o EXCEPT !.blocks = @ - Reached(o)] /\ phase' = "refused"
    BY <1>13 DEF Handled
  <2>2. ofh'.blocks = o.blocks - Reached(o)
    BY <1>3, <2>1 DEF Sound, HandleOK, HandleFields
  <2>3. ofh'.blocks \in Nat /\ (~Has({"GRPDEF", "FIXUPP", "BAKPAT"})' => ofh'.blocks = 0)
    BY <1>4, <1>11, <2>2
  <2> QED
    BY <1>5, <1>7, <2>1, <2>3 DEF Inv
<1>14. CASE o.ret \notin {"OKAY", "ERROR"}
  <2>1. ofh' = o /\ phase' = "broken"
    BY <1>14 DEF Handled
  <2>2. o.ret \in Broken
    BY <1>3, <1>14 DEF Sound, HandleOK, Rets
  <2> QED
    BY <1>4, <1>5, <1>7, <2>1, <2>2 DEF Inv
<1> QED
  BY <1>12, <1>13, <1>14

\* What FilesAssumption says of the next record.
LEMMA RecordOK ==
  ASSUME Inv, NEW r \in ToSet(img.head) \cup img.body
  PROVE  WellFormed(r)
BY FilesAssumption DEF Inv

\* Every handler tells what its record says, and has not lost anything.
RecordTold(r) ==
  \E o : /\ Tells(r.t, ofh, o) /\ Handled(r, o)
         /\ (r.t = "MODEND" /\ o.ret = "OKAY" => ~o.lidata.on /\ ~o.bakpat.on)

LEMMA EachTold ==
  ASSUME Whole, NEW r, r.t \in Parted, NEW parts, IsList(parts), Handled(r, Each(ofh, r, parts))
  PROVE  RecordTold(r)
<1>1. PICK o : o = Each(ofh, r, parts)
  OBVIOUS
<1>2. Tells(r.t, ofh, o)
  BY <1>1, EachTells DEF Whole
<1>3. Handled(r, o)
  BY <1>1
<1>4. r.t # "MODEND"
  BY DEF Parted
<1> QED
  BY <1>2, <1>3, <1>4 DEF RecordTold

\* Whatever fails right away, with an error or a failed assert.
LEMMA FailTold ==
  ASSUME Whole, NEW r, NEW how \in Rets \ {"OKAY"}, Handled(r, Fail(ofh, how))
  PROVE  RecordTold(r)
<1>1. PICK o : o = Fail(ofh, how)
  OBVIOUS
<1>2. Tells(r.t, ofh, o)
  BY <1>1, FailTells DEF Whole
<1>3. o.ret # "OKAY"
  BY <1>1, FailsKeeping DEF Whole
<1>4. Handled(r, o)
  BY <1>1
<1> QED
  BY <1>2, <1>3, <1>4 DEF RecordTold

LEMMA KeptTold ==
  ASSUME Whole, NEW r, r.t # "MODEND", NEW o, Keeps(ofh, o), Handled(r, o)
  PROVE  RecordTold(r)
BY KeepsTells DEF RecordTold, Whole

LEMMA TheadrTold ==
  ASSUME Whole, NEW r, doTHEADR(r)
  PROVE  RecordTold(r)
<1>1. PICK p : p = FinishPrevWork(ofh)
  OBVIOUS
<1>2. PICK o : o = IF p.ret = "OKAY" THEN AddSymbol(p, "file", r.name, 0) ELSE p
  OBVIOUS
<1>3. Handled(r, o) /\ r.t = "THEADR"
  BY <1>1, <1>2 DEF doTHEADR, Then
<1>4. Tells("THEADR", ofh, p)
  BY <1>1, Finishes DEF Whole
<1>5. CASE p.ret # "OKAY"
  BY <1>2, <1>3, <1>4, <1>5 DEF RecordTold
<1>6. CASE p.ret = "OKAY"
  <2>1. o = AddSymbol(p, "file", r.name, 0)
    BY <1>2, <1>6
  <2>2. Tells("THEADR", p, o)
    <3>1. Sound(p)
      BY <1>4 DEF Tells
    <3>2. PICK kind : kind = "file"
      OBVIOUS
    <3>3. PICK of : of = 0
      OBVIOUS
    <3>4. o = AddSymbol(p, kind, r.name, of)
      BY <2>1, <3>2, <3>3
    <3> QED
      BY <3>1, <3>4, SymbolTells
  <2>3. Tells("THEADR", ofh, o)
    BY <1>4, <1>6, <2>2, TellsInTurn DEF Whole
  <2> QED
    BY <1>3, <2>3 DEF RecordTold
<1> QED
  BY <1>5, <1>6

LEMMA ComentTold ==
  ASSUME Whole, NEW r, doCOMENT(r)
  PROVE  RecordTold(r)
<1>1. PICK p : p = AddComment(ofh, r)
  OBVIOUS
<1>2. PICK o : o = CASE r.class = "proc16" -> [p EXCEPT !.machine = "I8086"]
                     [] r.class = "proc32" -> [p EXCEPT !.machine = "I386"]
                     [] r.class = "easy"   -> [p EXCEPT !.easy = TRUE, !.machine = "I386", !.arch = TRUE]
                     [] r.class = "style"  -> [p EXCEPT !.style = r.style]
                     [] OTHER              -> p
  OBVIOUS
<1>3. Handled(r, o) /\ r.t = "COMENT"
  BY <1>1, <1>2 DEF doCOMENT
<1>4. Keeps(ofh, p) /\ Sound(p)
  BY <1>1, AddsComment, KeepsSound DEF Whole
<1>5. DOMAIN p = HandleFields /\ p.ret \in Rets
  BY <1>4 DEF Sound, HandleOK
<1>6. Same(p, o, {"machine", "arch", "easy", "style"})
  BY <1>2, <1>5 DEF Same, HandleFields
<1>7. Same(p, o, Loose \ {"blocks"}) /\ o.ret \in Rets
  BY <1>5, <1>6 DEF Same, Loose, HandleFields
<1>8. Tells("COMENT", p, o)
  BY <1>4, <1>7, LooseTells
<1>9. Tells("COMENT", ofh, o)
  BY <1>4, <1>8, KeptTells DEF Whole
<1> QED
  BY <1>3, <1>9 DEF RecordTold

LEMMA SegdefTold ==
  ASSUME Whole, NEW r, WellFormed(r), doSEGDEF(r)
  PROVE  RecordTold(r)
<1>1. PICK p : p = IF r.use32 /\ ~ofh.arch THEN [ofh EXCEPT !.machine = "I386", !.arch = TRUE]
                   ELSE ofh
  OBVIOUS
<1>2. PICK o : o = AddSegDef(p, r)
  OBVIOUS
<1>3. /\ r.t = "SEGDEF"
      /\ (r.align = "none" => Handled(r, Fail(ofh, "assert")))
      /\ (r.align # "none" => Handled(r, o))
  BY <1>1, <1>2 DEF doSEGDEF
<1>4. DOMAIN ofh = HandleFields /\ ofh.ret \in Rets
  BY DEF Whole, Sound, HandleOK
<1>5. Same(ofh, p, {"machine", "arch"})
  BY <1>1, <1>4 DEF Same, HandleFields
<1>6. Same(ofh, p, Loose \ {"blocks"}) /\ p.ret \in Rets /\ p.ret = ofh.ret
  BY <1>4, <1>5 DEF Same, Loose, HandleFields
<1>7. Tells("SEGDEF", ofh, p) /\ Sound(p)
  BY <1>6, LooseTells DEF Whole, Tells
<1>8. r.size \in 0 .. OffsetRange - 1
  BY <1>3 DEF WellFormed
<1>9. Tells("SEGDEF", p, o)
  BY <1>2, <1>7, <1>8, AddsSegDef, KeepsTells
<1>10. Tells("SEGDEF", ofh, o)
  BY <1>6, <1>7, <1>9, TellsInTurn DEF Whole
<1>11. CASE r.align = "none"
  BY <1>3, <1>11, RetsAre, FailTold
<1>12. CASE r.align # "none"
  BY <1>3, <1>10, <1>12 DEF RecordTold
<1> QED
  BY <1>11, <1>12

LEMMA GrpdefTold ==
  ASSUME Whole, NEW r, WellFormed(r), doGRPDEF(r)
  PROVE  RecordTold(r)
<1>1. PICK o : o = AddGrpDef(ofh, r)
  OBVIOUS
<1>2. Handled(r, o) /\ r.t = "GRPDEF" /\ IsList(r.segs)
  BY <1>1 DEF doGRPDEF, WellFormed
<1>3. Sound(ofh)
  BY DEF Whole
<1>4. Keeps(ofh, o) \/ (Costs(ofh, o, 1) /\ Sound(o) /\ o.ret # "OKAY")
  BY <1>1, <1>2, <1>3, AddsGrpDef
<1>5. CASE Keeps(ofh, o)
  BY <1>2, <1>5, KeptTold
<1>6. CASE Costs(ofh, o, 1) /\ Sound(o) /\ o.ret # "OKAY"
  <2>1. PICK s \in Int : s = Surplus(ofh)
    BY <1>3, ReachedType DEF Sound
  <2>2. Surplus(o) = s + 1 /\ o.lidata = ofh.lidata /\ o.bakpat = ofh.bakpat /\ s + 1 >= s
    BY <1>6, <2>1 DEF Costs
  <2>3. Tells("GRPDEF", ofh, o)
    BY <1>6, <2>1, <2>2 DEF Tells
  <2> QED
    BY <1>2, <2>3 DEF RecordTold
<1> QED
  BY <1>4, <1>5, <1>6

LEMMA BakpatTold ==
  ASSUME Whole, NEW r, WellFormed(r), doBAKPAT(r)
  PROVE  RecordTold(r)
<1>1. r.t = "BAKPAT" /\ r.t \in Parted /\ IsList(r.fixes)
  BY DEF doBAKPAT, WellFormed, Parted
<1>2. CASE r.seg = 0 /\ r.name = 0
  <2>1. Handled(r, Fail(ofh, "ERROR"))
    BY <1>2 DEF doBAKPAT
  <2> QED
    BY <2>1, RetsAre, FailTold
<1>3. CASE ~(r.seg = 0 /\ r.name = 0)
  <2>1. Handled(r, Each(ofh, r, r.fixes))
    BY <1>3 DEF doBAKPAT
  <2> QED
    BY <1>1, <2>1, EachTold
<1> QED
  BY <1>2, <1>3

LEMMA LedataTold ==
  ASSUME Whole, NEW r, WellFormed(r), doLEDATA(r)
  PROVE  RecordTold(r)
<1>1. r.t = "LEDATA" /\ r.off \in Nat /\ r.data \in Seq(Nat)
  BY DEF doLEDATA, WellFormed
<1>2. CASE r.seg = 0
  <2>1. Handled(r, Fail(ofh, "ERROR"))
    BY <1>2 DEF doLEDATA
  <2> QED
    BY <2>1, RetsAre, FailTold
<1>3. CASE r.seg # 0
  <2>1. PICK seg : seg = r.seg
    OBVIOUS
  <2>2. PICK off \in Nat : off = r.off
    BY <1>1
  <2>3. PICK data : data = r.data /\ Len(data) \in Nat
    BY <1>1
  <2>4. PICK o : o = AddLEData(ofh, seg, off, data)
    OBVIOUS
  <2>5. Handled(r, o)
    BY <1>3, <2>1, <2>2, <2>3, <2>4 DEF doLEDATA
  <2>6. Tells("LEDATA", ofh, o)
    BY <2>3, <2>4, AddsLEData DEF Whole
  <2> QED
    BY <1>1, <2>5, <2>6 DEF RecordTold
<1> QED
  BY <1>2, <1>3

LEMMA LidataTold ==
  ASSUME Whole, NEW r, WellFormed(r), doLIDATA(r)
  PROVE  RecordTold(r)
<1>1. r.t = "LIDATA" /\ r.off \in Nat /\ r.blocks \in Seq(Blocks)
  BY DEF doLIDATA, WellFormed
<1>2. CASE r.seg = 0
  <2>1. Handled(r, Fail(ofh, "ERROR"))
    BY <1>2 DEF doLIDATA
  <2> QED
    BY <2>1, RetsAre, FailTold
<1>3. CASE r.seg # 0
  <2>1. PICK seg : seg = r.seg
    OBVIOUS
  <2>2. PICK off \in Nat : off = r.off
    BY <1>1
  <2>3. PICK blocks \in Seq(Blocks) : blocks = r.blocks
    BY <1>1
  <2>4. PICK is32 : is32 = r.is32
    OBVIOUS
  <2>5. PICK o : o = AddLIData(ofh, seg, off, blocks, is32)
    OBVIOUS
  <2>6. Handled(r, o)
    BY <1>3, <2>1, <2>2, <2>3, <2>4, <2>5 DEF doLIDATA
  <2>7. Tells("LIDATA", ofh, o)
    BY <2>5, AddsLIData DEF Whole
  <2> QED
    BY <1>1, <2>6, <2>7 DEF RecordTold
<1> QED
  BY <1>2, <1>3

LEMMA ComdatTold ==
  ASSUME Whole, NEW r, WellFormed(r), doCOMDAT(r)
  PROVE  RecordTold(r)
<1>1. r.t = "COMDAT" /\ r.off \in Nat /\ r.data \in Seq(Nat) /\ r.blocks \in Seq(Blocks)
  BY DEF doCOMDAT, WellFormed
<1>2. PICK o : o = AddComDat(ofh, r)
  OBVIOUS
<1>3. CASE r.align = "none"
  <2>1. Handled(r, Fail(ofh, "assert"))
    BY <1>3 DEF doCOMDAT
  <2> QED
    BY <2>1, RetsAre, FailTold
<1>4. CASE r.align # "none"
  <2>1. Handled(r, o)
    BY <1>2, <1>4 DEF doCOMDAT
  <2>2. Tells("COMDAT", ofh, o)
    BY <1>1, <1>2, AddsComDatRecord DEF Whole
  <2> QED
    BY <1>1, <2>1, <2>2 DEF RecordTold
<1> QED
  BY <1>3, <1>4

LEMMA LinnumTold ==
  ASSUME Whole, NEW r, WellFormed(r), doLINNUM(r)
  PROVE  RecordTold(r)
<1>1. r.t = "LINNUM" /\ r.n \in Nat /\ Sound(ofh)
  BY DEF doLINNUM, WellFormed, Whole
<1>2. PICK k : k = SegOrComdat(ofh, r.seg, r.name)
  OBVIOUS
<1>3. k \in {0} \cup DOMAIN ofh.secs
  BY <1>1, <1>2, Finds
<1>4. \/ Handled(r, ofh) \/ Handled(r, Fail(ofh, "ERROR"))
      \/ k # 0 /\ Handled(r, AddLines(ofh, k, r.n))
  BY <1>2 DEF doLINNUM
<1>5. CASE Handled(r, ofh)
  BY <1>1, <1>5, KeepsItself, KeptTold
<1>6. CASE Handled(r, Fail(ofh, "ERROR"))
  BY <1>6, RetsAre, FailTold
<1>7. CASE k # 0 /\ Handled(r, AddLines(ofh, k, r.n))
  <2>1. PICK o : o = AddLines(ofh, k, r.n)
    OBVIOUS
  <2>2. Keeps(ofh, o)
    BY <1>1, <1>3, <1>7, <2>1, AddsLines
  <2> QED
    BY <1>1, <1>7, <2>1, <2>2, KeptTold
<1> QED
  BY <1>4, <1>5, <1>6, <1>7

LEMMA RecordTells ==
  ASSUME Inv, NEW r \in ToSet(img.head) \cup img.body, Record(r)
  PROVE  Whole /\ RecordTold(r)
<1>1. WellFormed(r)
  BY RecordOK
<1>2. phase \in {"loading", "identified"}
  BY DEF Record, OmfFileInit, doTHEADR, doCOMENT, doEXTDEF, doCEXTDEF, doPUBDEF, doLNAMES, doSEGDEF,
         doGRPDEF, doFIXUPP, doBAKPAT, doLEDATA, doLIDATA, doCOMDAT, doLINNUM, IgnoreRecord, Next1
<1>3. Whole
  BY <1>2 DEF Inv
<1>4. CASE OmfFileInit(r)
  <2>1. ofh = NewHandle /\ r.t = "THEADR"
    BY <1>4 DEF OmfFileInit, Inv
  <2>2. PICK o : o = AddSymbol(ofh, "file", r.name, 0)
    OBVIOUS
  <2>3. Handled(r, o)
    BY <1>4, <2>1, <2>2 DEF OmfFileInit
  <2>4. Keeps(ofh, o)
    BY <1>3, <2>2, AddsSymbol DEF Whole, Sound
  <2> QED
    BY <1>3, <2>1, <2>3, <2>4, KeptTold
<1>5. CASE doEXTDEF(r) \/ doPUBDEF(r) \/ doLNAMES(r)
  <2>1. r.t \in Parted /\ IsList(r.names) /\ Handled(r, Each(ofh, r, r.names))
    BY <1>1, <1>5 DEF doEXTDEF, doPUBDEF, doLNAMES, WellFormed, Parted
  <2> QED
    BY <1>3, <2>1, EachTold
<1>6. CASE doCEXTDEF(r)
  <2>1. r.t \in Parted /\ IsList(r.idxs) /\ Handled(r, Each(ofh, r, r.idxs))
    BY <1>1, <1>6 DEF doCEXTDEF, WellFormed, Parted
  <2> QED
    BY <1>3, <2>1, EachTold
<1>7. CASE doFIXUPP(r)
  <2>1. r.t \in Parted /\ IsList(r.subs) /\ Handled(r, Each(ofh, r, r.subs))
    BY <1>1, <1>7 DEF doFIXUPP, WellFormed, Parted
  <2> QED
    BY <1>3, <2>1, EachTold
<1>8. CASE IgnoreRecord(r)
  <2>1. r.t # "MODEND" /\ Handled(r, ofh)
    BY <1>8 DEF IgnoreRecord
  <2> QED
    BY <1>3, <2>1, KeepsItself, KeptTold DEF Whole
<1> QED
  BY <1>1, <1>3, <1>4, <1>5, <1>6, <1>7, <1>8, TheadrTold, ComentTold, SegdefTold, GrpdefTold,
     BakpatTold, LedataTold, LidataTold, ComdatTold, LinnumTold DEF Record

LEMMA ModendKeeps == Inv /\ doMODEND => Inv'
<1> SUFFICES ASSUME Inv, doMODEND PROVE Inv'
  OBVIOUS
<1>1. Whole
  BY DEF doMODEND, Inv
<1>2. PICK r : r = [t |-> "MODEND"]
  OBVIOUS
<1>3. PICK o : o = FinishPrevWork(ofh)
  OBVIOUS
<1>4. Handled(r, o)
  BY <1>2, <1>3 DEF doMODEND
<1>5. r.t = "MODEND"
  BY <1>2
<1>6. Tells(r.t, ofh, o) /\ (o.ret = "OKAY" => ~o.lidata.on /\ ~o.bakpat.on)
  BY <1>1, <1>3, <1>5, Finishes DEF Whole
<1> QED
  BY <1>1, <1>4, <1>6, HandledKeeps

LEMMA UnreadableKeeps == Inv /\ Unreadable => Inv'
<1> SUFFICES ASSUME Inv, Unreadable PROVE Inv'
  OBVIOUS
<1>1. Whole /\ phase' = "refused" /\ UNCHANGED <<img, found, read, answer>>
  BY DEF Unreadable, Inv
<1>2. ofh'.blocks = ofh.blocks - Reached(ofh)
  BY <1>1 DEF Unreadable, Whole, Sound, HandleOK, HandleFields
<1>3. ofh'.blocks \in Nat /\ (~ofh.bakpat.on /\ Surplus(ofh) = 0 => ofh'.blocks = 0)
  BY <1>1, <1>2, GivenBack DEF Whole
<1>4. \A kinds : Has(kinds)' <=> Has(kinds)
  BY <1>1 DEF Has
<1>5. ~Has({"GRPDEF", "FIXUPP", "BAKPAT"})' => ofh'.blocks = 0
  <2>1. ~Has({"GRPDEF", "FIXUPP", "BAKPAT"}) => ~Has({"FIXUPP"}) /\ ~Has({"BAKPAT"})
    BY DEF Has
  <2> QED
    BY <1>1, <1>3, <1>4, <2>1 DEF Whole
<1> QED
  BY <1>1, <1>3, <1>5 DEF Inv

LEMMA CloseKeeps == Inv /\ OmfFileFini => Inv'
<1> SUFFICES ASSUME Inv, OmfFileFini PROVE Inv'
  OBVIOUS
<1>1. /\ Whole /\ phase = "open" /\ phase' = "done" /\ ~ofh.bakpat.on
      /\ UNCHANGED <<img, found, read, answer>>
  BY DEF OmfFileFini, Inv
<1>2. ofh'.blocks = ofh.blocks - Reached(ofh)
  BY <1>1 DEF OmfFileFini, Whole, Sound, HandleOK, HandleFields
<1>3. ofh'.blocks \in Nat /\ (Surplus(ofh) = 0 => ofh'.blocks = 0)
  BY <1>1, <1>2, GivenBack DEF Whole
<1>4. \A kinds : Has(kinds)' <=> Has(kinds)
  BY <1>1 DEF Has
<1>5. ~Has({"FIXUPP"})' \/ ~Has({"BAKPAT"})' => ofh'.blocks = 0
  BY <1>1, <1>3, <1>4 DEF Whole
<1> QED
  BY <1>1, <1>3, <1>5 DEF Inv

LEMMA ContentsKeep ==
  ASSUME Inv, NEW k \in DOMAIN ofh.secs, OmfSecGetContents(k)
  PROVE  Inv'
<1>1. /\ Whole /\ phase = "open" /\ ~ofh.lidata.on /\ ~ofh.bakpat.on
      /\ UNCHANGED <<img, found, read>>
  BY DEF OmfSecGetContents, CanCall, Inv
<1>2. PICK size : size = ofh.secs[k].size
  OBVIOUS
<1>3. size \in Nat /\ Sound(ofh)
  <2>1. size \in 0 .. OffsetRange - 1 /\ OffsetRange \in Nat
    BY <1>1, <1>2, SizeAssumption DEF Whole, Sound, HandleOK, SectionsOK, SectionOK
  <2> QED
    BY <1>1, <2>1 DEF Whole
<1>4. PICK o : o = IF ofh.secs[k].bytes = <<>> /\ ~ProgBits(k) THEN Fail(ofh, "ERROR")
                   ELSE IF size = 0 THEN ofh ELSE CheckSegmentLength(ofh, k, size)
  OBVIOUS
<1>5. /\ phase' = IF o.ret \in Broken THEN "broken" ELSE phase
      /\ ofh' = [o EXCEPT !.ret = "OKAY"] /\ answer'.ret = o.ret
  BY <1>2, <1>4 DEF OmfSecGetContents
<1>6. Keeps(ofh, o)
  BY <1>3, <1>4, RetsAre, FailsKeeping, KeepsItself, ChecksLength
<1>7. /\ Sound(o) /\ o.lidata = ofh.lidata /\ o.bakpat = ofh.bakpat /\ Surplus(o) = Surplus(ofh)
  <2>1. PICK s \in Int : s = Surplus(ofh)
    BY <1>3, ReachedType DEF Sound
  <2>2. Surplus(o) = s + 0 /\ s + 0 = s
    BY <1>6, <2>1 DEF Keeps, Costs
  <2> QED
    BY <1>6, <2>1, <2>2, KeepsSound DEF Keeps, Costs
<1>8. PICK p : p = [o EXCEPT !.ret = "OKAY"]
  OBVIOUS
<1>9. Same(o, p, Loose \ {"blocks"}) /\ p.ret = "OKAY"
  BY <1>7, <1>8 DEF Same, Loose, Sound, HandleOK, HandleFields
<1>10. Sound(p) /\ Surplus(p) = Surplus(o) /\ p.lidata = o.lidata /\ p.bakpat = o.bakpat
  BY <1>7, <1>9, RetsAre, LooseSame
<1>11. ofh' = p /\ \A kinds : Has(kinds)' <=> Has(kinds)
  BY <1>1, <1>5, <1>8 DEF Has
<1>12. Whole'
  BY <1>1, <1>7, <1>9, <1>10, <1>11 DEF Whole, Tidy
<1>13. ofh'.blocks \in Nat
  BY <1>12, <1>10, <1>11, GivenBack DEF Whole
<1>14. phase' = "open" \/ (phase' = "broken" /\ answer'.ret \in Broken)
  BY <1>1, <1>5
<1> QED
  BY <1>1, <1>7, <1>10, <1>11, <1>12, <1>13, <1>14 DEF Inv

\* All other calls of the client leave the handle alone.
LEMMA ClientDoes ==
  ASSUME Client
  PROVE  \/ phase = "open" /\ UNCHANGED <<img, phase, read, ofh>>
         \/ OmfFileFini
         \/ \E k \in DOMAIN ofh.secs : OmfSecGetContents(k)
<1> DEFINE Left == phase = "open" /\ UNCHANGED <<img, phase, read, ofh>>
<1>1. ASSUME NEW op, NEW arg, NEW list, NEW ret, CanCall, Answered(op, arg, list, ret) PROVE Left
  BY <1>1 DEF Answered, CanCall
<1>2. ASSUME NEW op, NEW arg, NEW list, NEW ret, CanCall, Scanned(op, arg, list, ret) PROVE Left
  BY <1>2 DEF Scanned, Answered, CanCall
<1>3. ASSUME NEW op, NEW k, NEW arg, NEW off, CanCall, RelocScan(op, k, arg, off) PROVE Left
  BY <1>1, <1>2, <1>3 DEF RelocScan
<1>4. ASSUME NEW name, OmfFileScan(name) PROVE Left
  BY <1>2, <1>4 DEF OmfFileScan
<1>5. ASSUME NEW k, NEW off, OmfSecScanReloc(k) \/ OmfSecQueryReloc(k, off) PROVE Left
  BY <1>1, <1>3, <1>5, SMTT(30) DEF OmfSecScanReloc, OmfSecQueryReloc
<1>6. ASSUME NEW k, OmfSymbolSecScan(k) \/ OmfNoteSecScan(k) PROVE Left
  BY <1>1, <1>2, <1>6, SMTT(30) DEF OmfSymbolSecScan, OmfNoteSecScan
<1>7. OmfGroupsScan => Left
  BY <1>2 DEF OmfGroupsScan
<1>8. Forget => Left
  BY DEF Forget
<1> HIDE DEF Left
<1>9. Left \/ OmfFileFini \/ \E k \in DOMAIN ofh.secs : OmfSecGetContents(k)
  BY <1>4, <1>5, <1>6, <1>7, <1>8 DEF Client
<1> QED
  BY <1>9 DEF Left

LEMMA InvNext == Inv /\ [Next]_vars => Inv'
<1> SUFFICES ASSUME Inv, [Next]_vars PROVE Inv'
  OBVIOUS
<1>1. CASE UNCHANGED vars
  BY <1>1 DEF Inv, Whole, Has, vars
<1>2. CASE ORLFileIdentify
  <2>1. /\ phase = "closed" /\ phase' = "identified" /\ img' = img /\ read' = read /\ ofh' = ofh
    BY <1>2 DEF ORLFileIdentify
  <2> QED
    BY <2>1 DEF Inv, Whole, Has
<1>3. CASE \E r \in ToSet(img.head) \cup img.body : Record(r)
  <2>1. PICK r \in ToSet(img.head) \cup img.body : Record(r)
    BY <1>3
  <2>2. Whole /\ RecordTold(r)
    BY <2>1, RecordTells
  <2>3. PICK o : /\ Tells(r.t, ofh, o) /\ Handled(r, o)
                 /\ (r.t = "MODEND" /\ o.ret = "OKAY" => ~o.lidata.on /\ ~o.bakpat.on)
    BY <2>2 DEF RecordTold
  <2> QED
    BY <2>2, <2>3, HandledKeeps
<1>4. CASE Client
  <2>1. CASE phase = "open" /\ UNCHANGED <<img, phase, read, ofh>>
    BY <2>1 DEF Inv, Whole, Has
  <2> QED
    BY <1>4, <2>1, ClientDoes, CloseKeeps, ContentsKeep
<1> QED
  BY <1>1, <1>2, <1>3, <1>4, ModendKeeps, UnreadableKeeps DEF Next

LEMMA InvTypeOK == Inv => TypeOK
<1> SUFFICES ASSUME Inv PROVE TypeOK
  OBVIOUS
<1>1. CASE phase \in {"refused", "done", "broken"}
  BY <1>1 DEF Inv, TypeOK, Loaded
<1>2. CASE phase \in {"closed", "identified", "loading", "open"}
  <2>1. Sound(ofh) /\ HandleOK(ofh) /\ ofh.ret = "OKAY"
    BY <1>2 DEF Inv, Whole, Sound
  <2>2. ofh.blocks \in Nat
    BY <1>2, GivenBack DEF Inv, Whole
  <2>3. \A k, l \in DOMAIN ofh.secs : ofh.secs[k].index = ofh.secs[l].index => k = l
    BY <2>1 DEF HandleOK, Indexed
  <2>4. /\ \A i \in DOMAIN ofh.segs :
             ofh.secs[ofh.segs[i]].kind = "seg" /\ ofh.secs[ofh.segs[i]].id = i
        /\ \A i \in DOMAIN ofh.comdats :
             ofh.secs[ofh.comdats[i]].kind = "comdat" /\ ofh.secs[ofh.comdats[i]].id = i
    BY <2>1 DEF HandleOK, Numbered
  <2>5. \A k \in DOMAIN ofh.secs : /\ ofh.secs[k].sym \in 0 .. Len(ofh.syms)
                                   /\ Len(ofh.secs[k].bytes) % CodeSize = 0
    BY <2>1 DEF Sound, HandleOK, SectionsOK, SectionOK, Symboled
  <2>6. ofh.lidata.on => ofh.work # 0
    BY <2>1 DEF HandleOK
  <2> QED
    BY <1>2, <2>1, <2>2, <2>3, <2>4, <2>5, <2>6 DEF Inv, TypeOK
<1> QED
  BY <1>1, <1>2 DEF Inv

LEMMA InvEveryBlock == Inv => EveryBlockReached
<1> SUFFICES ASSUME Inv PROVE EveryBlockReached
  OBVIOUS
<1>1. \A kinds : Records(Len(read), kinds) = {} <=> ~Has(kinds)
  <2>1. DOMAIN read = 1 .. Len(read)
    BY ListIs DEF Inv
  <2> QED
    BY <2>1 DEF Records, Has
<1>2. ASSUME Loaded
      PROVE  /\ ofh.blocks >= Reached(ofh) + Waiting(ofh)
             /\ ~Has({"FIXUPP"}) \/ ~Has({"BAKPAT"}) => ofh.blocks = Reached(ofh) + Waiting(ofh)
  <2>1. Whole
    BY <1>2 DEF Inv, Loaded
  <2>2. Reached(ofh) \in Nat /\ Waiting(ofh) \in Nat /\ ofh.blocks \in Int
    BY <2>1, ReachedType DEF Whole, Sound, HandleOK
  <2>3. ofh.blocks - Reached(ofh) - Waiting(ofh) >= 0
    BY <2>1 DEF Whole, Surplus
  <2>4. ~Has({"FIXUPP"}) \/ ~Has({"BAKPAT"}) => ofh.blocks - Reached(ofh) - Waiting(ofh) = 0
    BY <2>1 DEF Whole, Surplus
  <2> QED
    BY <2>2, <2>3, <2>4
<1> QED
  BY <1>1, <1>2 DEF Inv, EveryBlockReached

\* Whatever the records, in whatever order, and wherever the file ends: the handle
\* is well-formed (newSection, newSegSection, checkSegmentLength, finishPrevWork of
\* omfmunge.c).
THEOREM TypeCorrect == Spec => []TypeOK
<1>1. Init => Inv
  BY InvInit
<1>2. Inv /\ [Next]_vars => Inv'
  BY InvNext
<1>3. Inv => TypeOK
  BY InvTypeOK
<1> QED
  BY <1>1, <1>2, <1>3, PTL DEF Spec

\* freeFileHandle reaches every block that the records have cost (omfflhn.c:39-145),
\* but for those that EveryBlockReached excepts.
THEOREM EveryBlockReachedHolds == Spec => []EveryBlockReached
<1>1. Init => Inv
  BY InvInit
<1>2. Inv /\ [Next]_vars => Inv'
  BY InvNext
<1>3. Inv => EveryBlockReached
  BY InvEveryBlock
<1> QED
  BY <1>1, <1>2, <1>3, PTL DEF Spec

=============================================================================
