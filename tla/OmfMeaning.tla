----------------------------- MODULE OmfMeaning -----------------------------
(***************************************************************************)
(* What the records of an OMF module say, told from the records alone      *)
(* (`read'), and that the file handle OmfFile has made of them says the    *)
(* same.                                                                   *)
(***************************************************************************)
EXTENDS OmfFile

Records(i, kinds) == {j \in 1 .. i : read[j].t \in kinds}

\* The names of the records of some kind before record i, in their order.
Listed(i, kind) ==
  SelectSeq(FlattenSeq([j \in 1 .. i - 1 |-> IF read[j].t = kind THEN read[j].names ELSE <<>>]),
            LAMBDA name : name # NULL)

DataKinds == {"LEDATA", "LIDATA", "COMDAT"}
Iterated(r) == r.t = "LIDATA" \/ (r.t = "COMDAT" /\ r.iter)

NewComdats(i) == {j \in Records(i, {"COMDAT"}) : ~read[j].cont}

\* The section a record is about, by its rank among those of its kind; 0 if none.
Segment(i) == <<"seg", i>>
Comdat(i, name) ==
  LET of == {j \in NewComdats(i) : read[j].name = name}
  IN  <<"comdat", IF of = {} THEN 0 ELSE Cardinality(NewComdats(Min(of)))>>
Subject(i) ==
  LET r == read[i]
  IN  IF r.t = "COMDAT" /\ ~r.cont THEN <<"comdat", Cardinality(NewComdats(i))>>
      ELSE IF r.t = "COMDAT" \/ (r.t = "BAKPAT" /\ r.seg = 0) THEN Comdat(i, r.name)
      ELSE Segment(r.seg)

Handle(section) == IF section[1] = "seg" THEN ofh.segs[section[2]] ELSE ofh.comdats[section[2]]

\* The size of the headers in record i, see HeaderSize, and iterated data as they
\* stand in it.
Easy(i) == \E j \in Records(i, {"COMENT"}) : read[j].class = "easy"
Header(i) == IF read[i].is32 /\ ~Easy(i) THEN 6 ELSE 4
Raw(i) == Encoded(Header(i), read[i].blocks)

\* What is in the place of iterated data: for every byte its value and where in
\* the record, counted from 0, it comes from.
Expansion(hdr, blocks) ==
  LET Moved(bytes, n) == [p \in DOMAIN bytes |-> [bytes[p] EXCEPT !.from = @ + n]]
      Inside(E, bs, from) ==
        FlattenSeq([i \in DOMAIN bs |-> Moved(E[bs[i]], from + Len(Encoded(hdr, SubSeq(bs, 1, i - 1))))])
      Expanded[b \in Blocks] ==
        Times(IF b.blocks # <<>> THEN Inside(Expanded, b.blocks, hdr)
              ELSE [p \in DOMAIN b.data |-> [value |-> b.data[p], from |-> hdr + p]],
              b.repeat)
  IN  Inside(Expanded, blocks, 0)

\* The bytes of data record i.
Bytes(i) ==
  IF Iterated(read[i]) THEN Expansion(Header(i), read[i].blocks)
  ELSE [p \in DOMAIN read[i].data |-> [value |-> read[i].data[p], from |-> p - 1]]

\* How much of a section record i writes over.
Extent(i) ==
  IF Iterated(read[i]) THEN Max({Len(Bytes(i)), Len(Raw(i))})
  ELSE Len(Bytes(i))

Places == 0 .. OffsetRange - 1

\* A section, as a function from places to bytes, after record i.  Behind an
\* expansion that is shorter than its record are the bytes of that.
Filled(section, i) ==
  LET bytes == Bytes(i)
      raw == IF Iterated(read[i]) THEN Raw(i) ELSE <<>>
      Nth(p) == p - read[i].off + 1
  IN  [p \in Places |-> CASE Nth(p) \in DOMAIN bytes -> bytes[Nth(p)].value
                          [] Nth(p) \in DOMAIN raw \ DOMAIN bytes -> raw[Nth(p)]
                          [] OTHER -> section[p]]

\* The number in `width' bytes of a section at some place, low byte first.
Number(section, off, width) ==
  Total([j \in 1 .. width |-> section[off + j - 1] * Radix ^ (j - 1)])

\* A patch makes it the sum, whatever bytes that takes.
PatchedBy(section, width, fix) ==
  LET is == fix.off .. fix.off + width - 1
      new == CHOOSE s \in [is -> 0 .. Radix - 1] :
               Number(s, fix.off, width)
                 = (Number(section, fix.off, width) + fix.disp) % Radix ^ width
  IN  [p \in Places |-> IF p \in is THEN new[p] ELSE section[p]]

Contents(section) ==
  LET About(i) == read[i].t \in DataKinds \cup {"BAKPAT"} /\ Subject(i) = section
      After(s, i) ==
        IF ~About(i) THEN s
        ELSE IF read[i].t # "BAKPAT" THEN Filled(s, i)
        ELSE FoldLeft(LAMBDA a, fix : PatchedBy(a, read[i].width, fix), s, read[i].fixes)
  IN  FoldLeft(After, [p \in Places |-> 0], [i \in DOMAIN read |-> i])

Sections ==
  {Segment(i) : i \in DOMAIN ofh.segs} \cup {<<"comdat", j>> : j \in DOMAIN ofh.comdats}

\* Fixup <<i, e>> is subrecord e of record i.
Fixups ==
  UNION {{<<i, e>> : e \in {e \in DOMAIN read[i].subs : read[i].subs[e].explicit}} :
           i \in Records(Len(read), {"FIXUPP"})}

\* What thread n was last set to before it.
Thread(i, e, frame, n) ==
  LET subs == FlattenSeq([j \in 1 .. i |->
                IF read[j].t # "FIXUPP" THEN <<>>
                ELSE IF j < i THEN read[j].subs ELSE SubSeq(read[j].subs, 1, e)])
      set  == {x \in DOMAIN subs : /\ ~subs[x].explicit
                                   /\ subs[x].frame = frame /\ subs[x].thread = n}
  IN  IF set = {} THEN [method |-> "seg", idx |-> 0] ELSE subs[Max(set)]

\* The data a fixup is about: the last before it.
DataOf(i) == Max(Records(i, DataKinds))

Target(i, e) ==
  LET s == read[i].subs[e]
      t == Thread(i, e, FALSE, s.tt)
  IN  IF s.tt \in Threads THEN <<t.method, t.idx>> ELSE <<s.tm, s.ti>>
Frame(i, e) ==
  LET s == read[i].subs[e]
      t == Thread(i, e, TRUE, s.ft)
      f == IF s.ft \in Threads THEN <<t.method, t.idx>> ELSE <<s.fm, s.fi>>
  IN  CASE f[1] = "targ" -> Target(i, e)
        [] f[1] = "loc"  -> Subject(DataOf(i))
        [] OTHER         -> f

\* It is iterated data, and no header record has ended them.
ForIterated(i) ==
  /\ Iterated(read[DataOf(i)])
  /\ \A j \in DataOf(i) .. i : read[j].t # "THEADR"

\* <<i, e, p>>: fixup <<i, e>> for byte p of what its data fill; in iterated data
\* that is every byte that comes from its place.
Relocations ==
  UNION {LET bytes == Bytes(DataOf(f[1]))
             off   == read[f[1]].subs[f[2]].off
         IN  {<<f[1], f[2], p>> :
                p \in IF ForIterated(f[1])
                      THEN {q - 1 : q \in {q \in DOMAIN bytes : bytes[q].from = off}}
                      ELSE {off}} :
           f \in Fixups}

\* Where relocation <<i, e, p>> is: section and offset.
PlaceOf(t) ==
  LET d == DataOf(t[1]) IN <<Handle(Subject(d)), (read[d].off + t[3]) % OffsetRange>>
PlaceIn(x) == <<ofh.relocs[x].sec, ofh.relocs[x].off>>

\* Symbol s stands for what method and index m mean in record i.
Designates(s, m, i) ==
  LET sym == ofh.syms[s]
  IN  CASE m[1] = "seg" -> s # 0 /\ sym.kind = "section" /\ sym.of = ofh.segs[m[2]]
        [] m[1] = "grp" -> s # 0 /\ sym.kind = "group" /\ sym.of = m[2]
        [] m[1] = "ext" -> /\ s # 0 /\ sym.kind \in {"undefined", "common", "comdat"}
                           /\ SameName(sym.name, Listed(i, "EXTDEF")[m[2]])
        [] OTHER        -> s = 0

\* A fixup on a header of iterated data is an error, which finishPrevWork forgets
\* when backpatches wait as well: the data then are not what was meant.
ErrorForgotten ==
  \E f \in Fixups, k \in Records(Len(read), {"BAKPAT"}) :
    LET i   == DataOf(f[1])
        off == read[f[1]].subs[f[2]].off
    IN  /\ ForIterated(f[1]) /\ i < k
        /\ \A j \in i + 1 .. k : read[j].t \notin DataKinds \cup {"THEADR"}
        /\ off < Len(Raw(i))
        /\ \A p \in DOMAIN Bytes(i) : Bytes(i)[p].from # off

\* Comment i says that the file is EASY OMF while iterated data wait whose record
\* had words of four bytes: they are expanded as if it had words of two, which
\* gives an error, other data, or nothing that has a meaning.
MisreadBy(i) ==
  /\ read[i].t = "COMENT" /\ read[i].class = "easy" /\ ~Easy(i - 1)
  /\ \E j \in Records(i - 1, DataKinds) :
       /\ Iterated(read[j]) /\ read[j].is32
       /\ \A k \in j + 1 .. i - 1 : read[k].t \notin DataKinds \cup {"THEADR"}
Misread == \E i \in DOMAIN read : MisreadBy(i)

-----------------------------------------------------------------------------
(* Properties.                                                             *)

Loaded == phase \in {"loading", "open"}

\* The blocks of backpatches that wait.
Waiting(o) == IF o.bakpat.on THEN 1 + Len(o.bakpat.fixes) ELSE 0

\* The handle is well-formed: section indices are unique, numbers name sections
\* of their kind, contents come in steps of STD_CODE_SIZE, there is work to
\* finish only on a section (newSection, newSegSection, checkSegmentLength).
TypeOK ==
  /\ phase \in {"closed", "identified", "loading", "open", "refused", "done", "broken"}
  /\ phase = "broken" => answer.ret \in Broken \/ ofh.ret \in Broken
  /\ ofh.blocks \in Nat
  /\ Loaded =>
       /\ ofh.ret = "OKAY"
       /\ \A k, l \in DOMAIN ofh.secs : ofh.secs[k].index = ofh.secs[l].index => k = l
       /\ \A i \in DOMAIN ofh.segs :
            ofh.secs[ofh.segs[i]].kind = "seg" /\ ofh.secs[ofh.segs[i]].id = i
       /\ \A i \in DOMAIN ofh.comdats :
            ofh.secs[ofh.comdats[i]].kind = "comdat" /\ ofh.secs[ofh.comdats[i]].id = i
       /\ \A k \in DOMAIN ofh.secs :
            /\ ofh.secs[k].sym \in 0 .. Len(ofh.syms)
            /\ Len(ofh.secs[k].bytes) % CodeSize = 0
       /\ ofh.lidata.on => ofh.work # 0
       /\ phase = "open" => ~ofh.lidata.on /\ ~ofh.bakpat.on

\* Recognised files are what they are said to be, and are left where they were
\* (orlentry.c:116-233): see RightIn.
IdentifiedInPlace == phase = "identified" => RightIn(img, found.format, found.pos)

\* Every byte of every section of an open file is what the records say: data
\* where they say, iterated data expanded, backpatches added as numbers, in the
\* order of the records although two of these wait for later ones, and zeros
\* elsewhere (omfmunge.c:466-739, 897-1002), unless the error of an expansion was
\* forgotten or a record was misread.  Only behind an expansion that is shorter
\* than its record there is what OmfAddLIData has left.
ContentsMeet ==
  phase = "open" /\ ~ErrorForgotten /\ ~Misread =>
    \A section \in Sections :
      LET bytes == ofh.secs[Handle(section)].bytes
          right == Contents(section)
      IN  \A p \in Places : right[p] = IF p < Len(bytes) THEN bytes[p + 1] ELSE 0

\* There is a relocation for every fixup, at its place in the section that was
\* worked on, and one for every copy that iterated data make of that place; no
\* other (omfmunge.c:450-651, 1110-1285); with the exemptions of ContentsMeet.
RelocsPlaced ==
  phase = "open" /\ ~ErrorForgotten /\ ~Misread =>
    /\ Len(ofh.relocs) = Cardinality(Relocations)
    /\ \A t \in Relocations :
         Cardinality({u \in Relocations : PlaceOf(u) = PlaceOf(t)})
           = Cardinality({x \in DOMAIN ofh.relocs : PlaceIn(x) = PlaceOf(t)})

\* The relocation for a fixup has the symbol and the frame that the fixup, or
\* the threads as they were set then, mean (omfload.c:212-342).  FRAME_LOC in
\* a COMDAT is not meant here: it becomes the segment of the same number.
RelocsDesignate ==
  phase = "open" /\ ~ErrorForgotten /\ ~Misread =>
    \A t \in Relocations :
      LET frame == Frame(t[1], t[2])
      IN  frame[1] # "comdat" =>
            \E x \in DOMAIN ofh.relocs :
              /\ PlaceIn(x) = PlaceOf(t)
              /\ Designates(ofh.relocs[x].sym, Target(t[1], t[2]), t[1])
              /\ Designates(ofh.relocs[x].frame, frame, t[1])

\* While a file is loaded and open, freeFileHandle would reach all blocks but
\* those of backpatches that wait; nothing is left of a file that was open, nor
\* of one that was refused, unless by a group, a fixup or a backpatch
\* (omfflhn.c:39-145).  With fixups and backpatches the error of an expansion may
\* be forgotten, and its fixups lost with the next iterated data.
EveryBlockReached ==
  /\ Loaded => ofh.blocks >= Reached(ofh) + Waiting(ofh)
  /\ Records(Len(read), {"FIXUPP"}) = {} \/ Records(Len(read), {"BAKPAT"}) = {} =>
       /\ Loaded => ofh.blocks = Reached(ofh) + Waiting(ofh)
       /\ phase = "done" => ofh.blocks = 0
  /\ phase = "refused" /\ Records(Len(read), {"GRPDEF", "FIXUPP", "BAKPAT"}) = {}
       => ofh.blocks = 0

\* The groups list the segments of their records, and the group of a segment is
\* the last that lists it (omfmunge.c:1612-1619).
GroupsAgree ==
  LET Lists(g) == SelectSeq(read, LAMBDA r : r.t = "GRPDEF")[g].segs
  IN  /\ \A g \in DOMAIN ofh.groups : ofh.groups[g].segs = Lists(g)
      /\ \A i \in DOMAIN ofh.segs :
           ofh.secs[ofh.segs[i]].group = Max({0} \cup {g \in DOMAIN ofh.groups : i \in ToSet(Lists(g))})

\* A scan that the client does not stop calls it for all sections that are not
\* tables of names; for the segments of a name in the order of their records; for
\* the relocations in a section, at an offset, and no others; for the public
\* names in their order, which are in the segments that their records number; and
\* for the groups, with the names of the segments that their records list
\* (omfentr.c:110-147, 364-490, 577-632).  A COMDAT is never found by its name.
ScansMeet ==
  LET a == answer
      segdefs == SelectSeq(read, LAMBDA r : r.t = "SEGDEF")
      grpdefs == SelectSeq(read, LAMBDA r : r.t = "GRPDEF")
      names == Listed(Len(read), "LNAMES")
      Named(n) == SelectSeq([i \in DOMAIN segdefs |-> i],
                            LAMBDA i : SameName(names[segdefs[i].name], n))
      In(k, off) == {x \in DOMAIN ofh.relocs : ofh.relocs[x].sec = k
                                              /\ (ofh.relocs[x].off = off \/ off = ANY)}
      publics == SelectSeq(a.seen, LAMBDA x : ofh.syms[x].kind \in {"defined", "absolute"})
      Defined(i) == LET n == Cardinality(Records(i, {"SEGDEF"}))
                    IN  [x \in DOMAIN read[i].names |->
                           IF read[i].seg \in 1 .. n THEN ofh.segs[read[i].seg] ELSE 0]
  IN  /\ a.op = "scan" /\ a.ret = "OKAY" =>
           IF a.arg = ANY
           THEN ToSet(ofh.segs) \cup ToSet(ofh.comdats) \subseteq ToSet(a.seen)
           ELSE a.seen = [i \in DOMAIN Named(a.arg) |-> ofh.segs[Named(a.arg)[i]]]
      /\ a.op = "relocs" /\ a.ret = "TRUE" /\ ofh.secs[a.arg].kind # "relocs" =>
           ToSet(a.seen) = In(a.arg, ANY)
      /\ a.op = "symbols" /\ a.ret = "OKAY" =>
           [x \in DOMAIN publics |-> ofh.syms[publics[x]].of]
             = FlattenSeq([i \in DOMAIN read |-> IF read[i].t = "PUBDEF" THEN Defined(i) ELSE <<>>])
      /\ a.op = "query" /\ a.ret = "TRUE" => ToSet(a.seen) = In(a.arg[1], a.arg[2])
      /\ a.op = "groups" /\ a.ret = "OKAY" =>
           /\ a.seen = [g \in DOMAIN grpdefs |->
                          [i \in DOMAIN grpdefs[g].segs |-> names[segdefs[grpdefs[g].segs[i]].name]]]
           /\ GroupsAgree

\* Where the data of record i end, expanded or not, and what a new section of this
\* length may still be rounded up by.
EndOf(i) == read[i].off + Extent(i) + IF read[i].t = "COMDAT" THEN CodeSize - 1 ELSE 0

\* Record i may cost the program its meaning: it uses a table or COMDATs that
\* are not there, or an alignment that is none; has data that end where 32 bits
\* do not reach; is iterated data shorter when expanded than its record, or the
\* comment for which they are misread; is a fixup behind iterated data that is in
\* front of the fixup before or outside of the record; is a backpatch behind
\* iterated data, or where no data have been.
Risky(i) ==
  LET r    == read[i]
      data == Records(i - 1, DataKinds)
      Behind == data # {} /\ Iterated(read[Max(data)])
      Fixes(j) == SelectSeq(read[j].subs, LAMBDA s : s.explicit)
      offs == FlattenSeq([j \in 1 .. i |->
                IF read[j].t = "FIXUPP" /\ j > Max(data)
                THEN [e \in DOMAIN Fixes(j) |-> Fixes(j)[e].off] ELSE <<>>])
      End == {0} \cup {read[j].off + Len(Bytes(j)) : j \in {j \in data : Subject(j) = Subject(i)}}
  IN  \/ r.t \in {"SEGDEF", "GRPDEF", "COMDAT", "CEXTDEF"} /\ Listed(i, "LNAMES") = <<>>
      \/ r.t = "CEXTDEF" /\ Listed(i, "EXTDEF") = <<>>
      \/ r.t = "SEGDEF" /\ (r.name = 0 \/ r.size + CodeSize > OffsetRange)
      \/ r.t = "COMDAT" /\ r.cont /\ NewComdats(i) = {}
      \/ r.t \in {"SEGDEF", "COMDAT"} /\ r.align = "none"
      \/ r.t \in DataKinds /\ EndOf(i) >= OffsetRange
      \/ r.t \in DataKinds /\ Iterated(r) /\ Extent(i) > Len(Bytes(i))
      \/ MisreadBy(i)
      \/ r.t = "FIXUPP" /\ Behind
           /\ \/ \E x \in 2 .. Len(offs) : offs[x] < offs[x - 1]
              \/ \E x \in DOMAIN offs : offs[x] >= Len(Raw(Max(data)))
      \/ r.t = "BAKPAT" /\ (Behind \/ \E x \in DOMAIN r.fixes : r.fixes[x].off + r.width > Max(End))

\* Files without such a record are loaded, or refused, and read by the client
\* without a failed assert, a NULL pointer, a byte outside of a block, or a loop
\* that never ends (omfload.c:122-147, omfmunge.c:466-739, 794-818, 897-1002).
NeverBreaks == phase = "broken" => \E i \in DOMAIN read : Risky(i)

=============================================================================
