------------------------------- MODULE OmfData -------------------------------
(***************************************************************************)
(* What the records with data do to the sections of an OMF module          *)
(* (omfmunge.c): data as it is (LEDATA, COMDAT), iterated data, which wait  *)
(* for the fixups behind them before they are expanded, fixups, and the    *)
(* backpatches that wait for the data they patch.                          *)
(*                                                                         *)
(* An iterated data block has a repeat count and either blocks or data.  In *)
(* the record its header is the count, in a word, and how many blocks there *)
(* are, in two bytes, which is 0 in front of data; data have a byte for     *)
(* their length.  Numbers have the low byte first; bytes are below Radix.  *)
(***************************************************************************)
EXTENDS OmfTables, Sublists

CONSTANTS
  Blocks,   \* the iterated data blocks of the files, with those inside them
  Radix     \* 256: the values of a byte

ASSUME RadixAssumption == Radix \in Nat \ {0}

Byte == 0 .. Radix - 1

ASSUME BlocksAssumption ==
  \A b \in Blocks :
    /\ b.repeat \in Nat /\ b.blocks \in Seq(Blocks) /\ b.data \in Seq(Byte)
    /\ Len(b.blocks) < Radix * Radix
    /\ b.blocks = <<>> => Len(b.data) < Radix

\* Blocks are nested to some depth.
ASSUME NestingAssumption ==
  /\ IsFiniteSet(Blocks)
  /\ \E depth \in [Blocks -> 0 .. Cardinality(Blocks)] :
       \A b \in Blocks : \A i \in DOMAIN b.blocks : depth[b.blocks[i]] < depth[b]

Total(s) == SumFunction(s)
Times(s, n) == FlattenSeq([i \in 1 .. n |-> s])

\* OmfGetWordSize for the repeat count, which EASY OMF files keep short, and
\* the number of blocks.
HeaderSize(o, is32) == 2 + IF is32 /\ ~o.easy THEN 4 ELSE 2

\* Two bytes of a number, and how they are read in front of byte p + 1 of some.
Two(n) == <<n % Radix, (n \div Radix) % Radix>>
TwoAt(bytes, p) == bytes[p + 1] + Radix * bytes[p + 2]

\* Blocks as they stand in their record.
Encoded(hdr, blocks) ==
  LET Of[b \in Blocks] ==
        Two(b.repeat) \o (IF hdr = 6 THEN Two(b.repeat \div (Radix * Radix)) ELSE <<>>)
          \o Two(Len(b.blocks))
          \o IF b.blocks = <<>> THEN <<Len(b.data)>> \o b.data
             ELSE FlattenSeq([i \in DOMAIN b.blocks |-> Of[b.blocks[i]]])
  IN  FlattenSeq([i \in DOMAIN blocks |-> Of[blocks[i]]])

\* A record can have the blocks: their counts fit in its words.
Writable(hdr, blocks) ==
  LET Fits[b \in Blocks] == /\ b.repeat < Radix ^ (hdr - 2)
                            /\ \A i \in DOMAIN b.blocks : Fits[b.blocks[i]]
  IN  \A i \in DOMAIN blocks : Fits[blocks[i]]

\* calcLIDataLength: what a block expands to, in 32 bits; 0 if it, or one inside
\* it, is nothing.
Lengths ==
  LET Length[b \in Blocks] ==
        LET in == [i \in DOMAIN b.blocks |-> Length[b.blocks[i]]]
        IN  (b.repeat * IF b.blocks = <<>> THEN Len(b.data)
                        ELSE IF \E i \in DOMAIN in : in[i] = 0 THEN 0 ELSE Total(in))
              % OffsetRange
  IN  Length

\* Faulty: rounds down.
CheckSegmentLengthDown(o, k, max) ==
  LET old == o.secs[k].bytes
      new == (max \div CodeSize) * CodeSize
  IN  IF max > o.secs[k].size THEN Fail(o, "ERROR")
      ELSE IF max <= Len(old) THEN o
      ELSE IF new < max THEN Fail(o, "wild")
      ELSE [o EXCEPT !.secs[k].bytes = [i \in 1 .. new |-> IF i <= Len(old) THEN old[i] ELSE 0],
                     !.blocks = @ + IF old = <<>> THEN 1 ELSE 0]

\* checkSegmentLength: the contents grow to hold `max' bytes, by whole steps,
\* with 32 bits to compute the new size in.
CheckSegmentLength(o, k, max) ==
  LET old == o.secs[k].bytes
      new == ((max \div CodeSize + 1) * CodeSize) % OffsetRange
  IN  IF max > o.secs[k].size THEN Fail(o, "ERROR")
      ELSE IF max <= Len(old) THEN o
      ELSE IF new < max THEN Fail(o, "wild")
      ELSE [o EXCEPT !.secs[k].bytes = [i \in 1 .. new |-> IF i <= Len(old) THEN old[i] ELSE 0],
                     !.blocks = @ + IF old = <<>> THEN 1 ELSE 0]

\* memcpy to the contents of section k.
Put(o, k, at, data) ==
  IF at + Len(data) > Len(o.secs[k].bytes) THEN Fail(o, "wild")
  ELSE [o EXCEPT !.secs[k].bytes =
          [i \in DOMAIN @ |-> IF i \in at + 1 .. at + Len(data) THEN data[i - at] ELSE @[i]]]

-----------------------------------------------------------------------------
(* Fixups.                                                                 *)

\* The symbol that a target method and index, or a frame method and index, name;
\* 0 if there is none.  Only a segment that could not be made has no symbol.
Designated(o, method, i) ==
  CASE method = "seg" -> IF i \in DOMAIN o.segs THEN o.secs[o.segs[i]].sym ELSE 0
    [] method = "grp" -> IF i \in DOMAIN o.groups THEN o.groups[i].sym ELSE 0
    [] OTHER          -> FindExtern(o, i)

\* FRAME_LOC is the segment with the number of the section that is worked on,
\* which may be the number of a COMDAT.
Located(o, f) ==
  IF f.fm = "loc" THEN [f EXCEPT !.fm = "seg", !.fi = o.secs[o.work].id] ELSE f

\* The relocation of a fixup.
Reloc(o, f) ==
  LET sym == IF f.tm = "abs" THEN 0 ELSE Designated(o, f.tm, f.ti)
  IN  [sec |-> o.work, off |-> (f.off + o.secs[o.work].cur) % OffsetRange, sym |-> sym,
       frame |-> CASE f.fm = "targ"                  -> sym
                   [] f.fm \in {"seg", "grp", "ext"} -> Designated(o, f.fm, f.fi)
                   [] OTHER                          -> 0]

\* OmfAddFixupp: behind iterated data the fixup waits for their expansion,
\* otherwise it becomes a relocation, which an error leaks.
AddFixupp(o, f) ==
  LET taken == [o EXCEPT !.blocks = @ + 1]
  IN  IF o.lidata.on
      THEN [taken EXCEPT !.lidata.fixups = Append(@, Located(o, f))]
      ELSE IF ~f.known \/ o.work = 0 THEN Fail(taken, "ERROR")
      ELSE LET l == Located(o, f)
               r == Reloc(o, l)
           IN  IF \/ l.tm # "abs" /\ r.sym = 0
                  \/ l.fm \in {"seg", "grp", "ext"} /\ r.frame = 0
               THEN Fail(taken, "ERROR")
               ELSE AddReloc(taken, r)

-----------------------------------------------------------------------------
(* Iterated data.                                                          *)

\* What writeAndFixupLIData comes by in the copy `bytes' of the record until it
\* returns, with so many bytes left.  A visit is the data of a block, as often as
\* they are written, and where in the record they are (`used').
Result(ret, left, visits) == [ret |-> ret, left |-> left, visits |-> visits]
Onward(first, rest) == [rest EXCEPT !.visits = first.visits \o @]

\* A block: a fixup on its header, or on the byte behind that, is an error, and so
\* is a header that is not all there.  If there are blocks inside, and it is not
\* repeated, it is not gone past; if it is, it goes on repeating after an error.
\* What is behind the bytes is none of the record.
WriteBlock(hdr, bytes, fixups, left, inside) ==
  LET p      == Len(bytes) - left
      Fixed  == \E j \in DOMAIN fixups : fixups[j].off \in p .. p + hdr
      repeat == TwoAt(bytes, p) + IF hdr = 6 THEN Radix * Radix * TwoAt(bytes, p + 2) ELSE 0
      blocks == TwoAt(bytes, p + hdr - 2)
      len    == bytes[p + hdr + 1]
      data   == [at |-> p + hdr + 1, data |-> SubSeq(bytes, p + hdr + 2, p + hdr + 1 + len)]
  IN  IF left < hdr \/ Fixed THEN Result("ERROR", left, <<>>)
      ELSE IF blocks # 0 /\ repeat = 0 THEN Result("OKAY", left, <<>>)
      ELSE IF blocks # 0
           THEN [inside[<<blocks, left - hdr>>] EXCEPT !.visits = Times(@, repeat)]
      ELSE IF left = hdr \/ (repeat # 0 /\ left <= hdr + len) THEN Result("wild", left, <<>>)
      ELSE Result("OKAY", Max({0, left - hdr - 1 - len}), Times(<<data>>, repeat))

\* x[1] blocks, one behind the other, with x[2] bytes left.
WriteBlocks(hdr, bytes, fixups) ==
  LET Chain[x \in (0 .. Radix * Radix - 1) \X (0 .. Len(bytes))] ==
        LET first == WriteBlock(hdr, bytes, fixups, x[2], Chain)
        IN  IF x[1] = 0 THEN Result("OKAY", x[2], <<>>)
            ELSE IF first.ret # "OKAY" THEN first
            ELSE Onward(first, Chain[<<x[1] - 1, first.left>>])
  IN  Chain

\* All of the record: the loop of expandPrevLIData.
WriteAndFixupLIData(hdr, bytes, fixups) ==
  LET inside == WriteBlocks(hdr, bytes, fixups)
      All[left \in 0 .. Len(bytes)] ==
        LET first == WriteBlock(hdr, bytes, fixups, left, inside)
        IN  IF left = 0 THEN Result("OKAY", 0, <<>>)
            ELSE IF first.ret # "OKAY" THEN first
            ELSE IF first.left = left THEN Result("hang", left, <<>>)
            ELSE Onward(first, All[first.left])
  IN  All[Len(bytes)]

\* findMatchingFixup, which takes no data for a byte.
Matches(f, v) == f.off \in v.at .. v.at + Max({1, Len(v.data)}) - 1

\* The fixups for the data that are visited.
FixupsIn(fixups, v) == Those(fixups, {f \in ToSet(fixups) : Matches(f, v)})

\* Faulty: places the fixups of all copies at the first.
ClonesFirst(fixups, visits) == FlattenSeq([i \in DOMAIN visits |-> FixupsIn(fixups, visits[i])])

\* The fixups cloned for what is visited: those in the data, for every copy, at
\* the place of the copy in the section.
Clones(fixups, visits) ==
  LET Pos(i) == Total([j \in 1 .. i - 1 |-> Len(visits[j].data)])
      Of(i) == LET in == FixupsIn(fixups, visits[i])
               IN  [j \in DOMAIN in |-> [in[j] EXCEPT !.off = Pos(i) + @ - visits[i].at]]
  IN  FlattenSeq([i \in DOMAIN visits |-> Of(i)])

\* A clone is a copy of the whole fixup, its link to the next included, which
\* nothing overwrites in the last clone: if a fixup stands behind the one it is
\* of, the clones end in one of those that have been freed.
LeadsToFreed(fixups, visits) ==
  LET Hit(v) == {j \in DOMAIN fixups : Matches(fixups[j], v)}
      hits == {i \in DOMAIN visits : Hit(visits[i]) # {}}
  IN  hits # {} /\ Max(Hit(visits[Max(hits)])) < Len(fixups)

\* The data that are visited.
Content(visits) == FlattenSeq([i \in DOMAIN visits |-> visits[i].data])

\* A clone is freed when its relocation is made.
AddClone(o, f) ==
  Then(o, LAMBDA a : Then(AddFixupp(a, f), LAMBDA b : [b EXCEPT !.blocks = @ - 1]))

AddClones(o, clones) == FoldLeft(AddClone, o, clones)

\* expandPrevLIData behind the visits of the record: their data and the clones.  An
\* error leaves the fixups where they are, and clones that nothing points to.  At
\* the end no other work may wait: an assert.
PutVisited(o, all) ==
  LET l == o.lidata
      off == o.secs[o.work].cur
      bytes == Content(all.visits)
      clones == Clones(l.fixups, all.visits)
      written == [Put(o, o.work, off, bytes) EXCEPT !.blocks = @ + Len(clones)]
      freed == [written EXCEPT !.lidata.fixups = <<>>, !.blocks = @ - Len(l.fixups)]
  IN  IF all.ret \in Broken THEN Fail(o, all.ret)
      ELSE IF all.ret = "ERROR"
      THEN Then(written, LAMBDA a :
             Fail([a EXCEPT !.secs[o.work].cur = off + Len(bytes)], "ERROR"))
      ELSE IF o.bakpat.on THEN Fail(o, "assert")
      ELSE Then(AddClones(freed, clones), LAMBDA a :
             IF LeadsToFreed(l.fixups, all.visits) THEN Fail(a, "wild") ELSE a)

\* expandPrevLIData.  The words of the record are taken to be as the file is known
\* to have them now.
ExpandPrevLIData(o) ==
  PutVisited(o, WriteAndFixupLIData(HeaderSize(o, o.lidata.is32), o.lidata.bytes,
                                    o.lidata.fixups))

-----------------------------------------------------------------------------
(* Backpatches.                                                            *)

\* Faulty: does not carry.
PatchedBytewise(bytes, fix) ==
  [i \in DOMAIN bytes |->
     IF i = fix.off + 1 THEN (bytes[i] + fix.disp) % Radix ELSE bytes[i]]

\* A number of fix.width bytes, the low one first, has fix.disp added to it.
Patched(bytes, fix) ==
  LET is == fix.off + 1 .. fix.off + fix.width
      old == Total([j \in 1 .. fix.width |-> bytes[fix.off + j] * Radix ^ (j - 1)])
      Digit(j) == ((old + fix.disp) \div Radix ^ (j - 1)) % Radix
  IN  [i \in DOMAIN bytes |->
         IF i \in is THEN Digit(i - fix.off) ELSE bytes[i]]

\* One round of applyBakpats.
ApplyBakpat(o, fix) ==
  LET k == IF fix.seg # 0 THEN Find(o.segs, fix.seg) ELSE ComDatByIndex(o, fix.name)
  IN  IF o.ret # "OKAY" THEN o
      ELSE IF fix.seg = 0 /\ o.comdats = <<>> THEN Fail(o, "assert")
      ELSE IF k = 0 THEN Fail(o, "ERROR")
      ELSE IF fix.off + fix.width > Len(o.secs[k].bytes) THEN Fail(o, "wild")
      ELSE [o EXCEPT !.secs[k].bytes = Patched(@, fix), !.blocks = @ - 1]

ApplyAll(o, fixes) == FoldLeft(ApplyBakpat, o, fixes)

\* applyBakpats: all in their order; what they hung on is freed.
ApplyBakpats(o) ==
  LET all == ApplyAll(o, o.bakpat.fixes)
  IN  [all EXCEPT !.bakpat = [on |-> FALSE, fixes |-> <<>>], !.blocks = @ - 1]

\* OmfAddBakpat
AddBakpat(o, fix) ==
  LET t == IF o.bakpat.on THEN o ELSE [o EXCEPT !.bakpat.on = TRUE, !.blocks = @ + 1]
  IN  IF fix.width \notin {1, 2, 4} THEN Fail(t, "ERROR")
      ELSE [t EXCEPT !.bakpat.fixes = Append(@, fix), !.blocks = @ + 1]

\* The second half of finishPrevWork: how the backpatches ended is its answer, an
\* error of the first half then is none.
PatchAfter(o) ==
  IF o.ret \notin Broken /\ o.bakpat.on THEN ApplyBakpats([o EXCEPT !.ret = "OKAY"]) ELSE o

\* finishPrevWork: iterated data are expanded, then backpatches applied.
FinishPrevWork(o) ==
  PatchAfter(IF o.lidata.on THEN ExpandPrevLIData([o EXCEPT !.lidata.on = FALSE]) ELSE o)

-----------------------------------------------------------------------------
(* Data.                                                                   *)

\* OmfAddLEData behind finishPrevWork, for section k.
PutLEData(o, k, off, data) ==
  IF k = 0 THEN Fail(o, "ERROR")
  ELSE Then(CheckSegmentLength(o, k, (off + Len(data)) % OffsetRange), LAMBDA a :
         Put([a EXCEPT !.secs[k].cur = off, !.work = k], k, off, data))

AddLEData(o, seg, off, data) ==
  Then(FinishPrevWork(o), LAMBDA a : PutLEData(a, Find(a.segs, seg), off, data))

\* OmfAddLIData behind finishPrevWork: there must be room for the expansion; the
\* record, which may be longer, is copied to its place, where it stays as it is
\* until it is expanded.
PutLIData(o, k, off, blocks, is32) ==
  LET record == Encoded(HeaderSize(o, is32), blocks)
      lens == [i \in DOMAIN blocks |-> Lengths[blocks[i]]]
      Wait(a) == [a EXCEPT !.lidata = [made |-> TRUE, on |-> TRUE, is32 |-> is32,
                                       bytes |-> record, fixups |-> <<>>],
                           !.blocks = @ + IF a.lidata.made THEN 0 ELSE 1,
                           !.secs[k].cur = off, !.work = k]
  IN  IF k = 0 \/ \E i \in DOMAIN lens : lens[i] = 0 THEN Fail(o, "ERROR")
      ELSE Then(CheckSegmentLength(o, k, (off + Total(lens)) % OffsetRange), LAMBDA a :
             Put(Wait(a), k, off, record))

AddLIData(o, seg, off, blocks, is32) ==
  Then(FinishPrevWork(o), LAMBDA a : PutLIData(a, Find(a.segs, seg), off, blocks, is32))

\* The part of OmfAddComDat that makes a COMDAT.
NewComDat(o, r) ==
  LET t == NewNumbered(o, "comdat", "comdats")
      k == Len(t.secs)
      made == [t EXCEPT !.secs[k].name = r.name]
      name == LName(o, r.name)
  IN  IF r.explicit /\ Find(o.segs, r.seg) = 0 THEN Fail(made, "ERROR")
      ELSE IF o.lnames = <<>> THEN Fail(made, "assert")
      ELSE IF name = NULL THEN Fail(made, "ERROR")
      ELSE AddSymbol([made EXCEPT !.secs[k].sym = Len(o.syms) + 1,
                                  !.secs[k].group = IF r.explicit /\ r.group \in DOMAIN o.groups
                                                    THEN r.group ELSE 0],
                     "comdat", name, k)

\* The COMDAT that a continuation names.
ComDatToContinue(o, name) == ComDatByIndex(o, name)

\* A COMDAT is as long as the longest record of it says.
SizedTo(o, k, end) == [o EXCEPT !.secs[k].size = Max({@, end})]

\* The data of record r for COMDAT k, of which iterated ones count as they stand
\* there.
PutComDat(o, k, r) ==
  LET len == IF r.iter THEN Len(Encoded(HeaderSize(o, r.is32), r.blocks)) ELSE Len(r.data)
      sized == SizedTo(o, k, (r.off + len) % OffsetRange)
  IN  IF r.iter THEN PutLIData(sized, k, r.off, r.blocks, r.is32)
      ELSE PutLEData(sized, k, r.off, r.data)

\* OmfAddComDat behind finishPrevWork
PlaceComDat(o, r) ==
  LET k == IF r.cont THEN ComDatToContinue(o, r.name) ELSE Len(o.secs) + 1
  IN  IF r.align = "seg" /\ r.seg # 0 /\ Find(o.segs, r.seg) = 0 THEN Fail(o, "ERROR")
      ELSE IF r.cont /\ o.comdats = <<>> THEN Fail(o, "assert")
      ELSE IF r.cont /\ k = 0 THEN Fail(o, "ERROR")
      ELSE Then(IF r.cont THEN o ELSE NewComDat(o, r), LAMBDA a : PutComDat(a, k, r))

AddComDat(o, r) == Then(FinishPrevWork(o), LAMBDA a : PlaceComDat(a, r))

=============================================================================
