----------------------------- MODULE MCOmfFile -----------------------------
(***************************************************************************)
(* OMF modules made from five alphabets of records (definitions, symbols,  *)
(* fixups, data, fixups on headers), and the first bytes of files of all   *)
(* formats, at the beginning of a file and within an archive.  Bytes have  *)
(* 4 values, so that backpatches carry; contents come in steps of 8, sizes *)
(* and offsets are below 32, so that a segment of the greatest size wraps. *)
(***************************************************************************)
EXTENDS OmfMeaning, TLC

CONSTANTS one, One, code, bss, odd

MCFoldOf == [n \in {one, One, code, bss, odd} |-> IF n = One THEN one ELSE n]
MCClassOf == [n \in {one, One, code, bss, odd} |->
                CASE n = code -> "plain" [] n = bss -> "zero" [] OTHER -> "other"]

Leaf(repeat, data) == [repeat |-> repeat, blocks |-> <<>>, data |-> data]
Pair == Leaf(4, <<1, 2>>)
Twice == [repeat |-> 2, blocks |-> <<Leaf(3, <<3>>), Pair>>, data |-> <<>>]
Short == Leaf(1, <<2>>)
Empty == Leaf(0, <<2>>)
\* Data that are one byte too long for 32 bits; those that have a meaning too when
\* their words of four bytes are taken for words of two: a block inside another that
\* is not repeated, and two copies of a byte.
Huge == Leaf(11, <<1, 2, 3>>)
Wide == Leaf(16, <<1>>)
Zeros == [repeat |-> 2, blocks |-> <<Leaf(2, <<0, 0, 0>>)>>, data |-> <<>>]
MCBlocks == {Leaf(3, <<3>>), Pair, Twice, Short, Empty, Huge, Wide, Zeros, Leaf(2, <<0, 0, 0>>)}

-----------------------------------------------------------------------------
(* Records.                                                                *)

Theadr == [t |-> "THEADR", name |-> odd]
LNames(names) == [t |-> "LNAMES", names |-> names]
SegDef(name, class, size) ==
  [t |-> "SEGDEF", name |-> name, class |-> class, size |-> size, use32 |-> size > 16,
   align |-> "known"]
GrpDef(name, segs) == [t |-> "GRPDEF", name |-> name, segs |-> segs]
ExtDef(names, kind) == [t |-> "EXTDEF", names |-> names, kind |-> kind]
PubDef(group, seg) == [t |-> "PUBDEF", group |-> group, seg |-> seg, names |-> <<code>>]
CExtDef == [t |-> "CEXTDEF", idxs |-> <<1>>]
Coment(class, seg, name) ==
  [t |-> "COMENT", class |-> class, style |-> "hll", seg |-> seg, name |-> name]
LinNum(sym, seg, name) == [t |-> "LINNUM", sym |-> sym, seg |-> seg, name |-> name, n |-> 2]
LEData(seg, off, data) == [t |-> "LEDATA", seg |-> seg, off |-> off, data |-> data]
LIData(seg, off, block) ==
  [t |-> "LIDATA", seg |-> seg, off |-> off, blocks |-> <<block>>, is32 |-> FALSE]
LIData32(seg, off, block) == [LIData(seg, off, block) EXCEPT !.is32 = TRUE]
ComDat(cont, off, data) ==
  [t |-> "COMDAT", cont |-> cont, iter |-> FALSE, explicit |-> FALSE, align |-> "known",
   seg |-> 0, group |-> 0, name |-> 1, off |-> off, data |-> data, blocks |-> <<>>,
   is32 |-> FALSE]
BakPat(seg, name, width, off, disp) ==
  [t |-> "BAKPAT", seg |-> seg, name |-> name, width |-> width,
   fixes |-> <<[off |-> off, disp |-> disp]>>]
Fixupp(subs) == [t |-> "FIXUPP", subs |-> subs]
By(off, ft, fm, fi, tt, tm, ti) ==
  [explicit |-> TRUE, known |-> TRUE, off |-> off, ft |-> ft, fm |-> fm, fi |-> fi,
   tt |-> tt, tm |-> tm, ti |-> ti]
Set(frame, thread, method, idx) ==
  [explicit |-> FALSE, frame |-> frame, thread |-> thread, method |-> method, idx |-> idx]
No == 9   \* no thread
At(off, fm, fi, tm, ti) == By(off, No, fm, fi, No, tm, ti)

-----------------------------------------------------------------------------
(* Files.                                                                  *)

First(start, eof, at) ==
  [start |-> start, eof |-> eof, at |-> at, lfanew |-> 128, name |-> 3, fits |-> TRUE,
   summed |-> TRUE, tail |-> "other", head |-> <<Theadr>>, body |-> {}]
Omf(head, body) ==
  [First(0, 1000, 0 :> "theadr") EXCEPT !.head = <<Theadr, LNames(<<one, One, code, bss>>)>> \o head,
                                        !.body = body]

\* Segments of two spellings of a name, groups that overlap, line numbers, tables
\* and libraries in comments, what a segment definition may lack.
Definitions ==
  Omf(<<SegDef(1, 3, 8)>>,
      {SegDef(2, 4, 8), SegDef(1, 1, 31), SegDef(0, 3, 8), SegDef(0, 1, 8), GrpDef(3, <<1, 2>>),
       GrpDef(4, <<1>>), GrpDef(0, <<1>>), LinNum(FALSE, 1, 0), LinNum(TRUE, 0, 2),
       Coment("deflib", 0, 0), Coment("disasm", 2, 0), Coment("disasm", 0, 1),
       Coment("style", 0, 0), ComDat(FALSE, 0, <<1>>), LNames(<<odd>>),
       [SegDef(1, 3, 8) EXCEPT !.align = "none"], [ComDat(FALSE, 0, <<1>>) EXCEPT !.align = "none"]})

\* External names, one of them empty, that are common or in COMDATs, public
\* names, and comments about the machine.
Symbols ==
  Omf(<<>>,
      {ExtDef(<<one, NULL, code>>, "undefined"), ExtDef(<<One>>, "common"), CExtDef, PubDef(0, 0),
       PubDef(1, 0), PubDef(0, 1), SegDef(1, 3, 8), Coment("proc16", 0, 0), Coment("proc32", 0, 0),
       ComDat(FALSE, 0, <<1>>), Theadr, [t |-> "IGNORED"]})

\* Fixups for data, iterated data and COMDATs, by threads and without, in both
\* orders.
WithFixups ==
  Omf(<<SegDef(1, 3, 30), SegDef(2, 3, 30), GrpDef(3, <<1, 2>>),
        ExtDef(<<one, NULL, code>>, "undefined")>>,
      {LEData(2, 3, <<1, 2>>), LIData(1, 1, Pair), LIData(1, 0, Twice), ComDat(FALSE, 2, <<1, 3>>),
       Fixupp(<<Set(TRUE, 1, "grp", 1), Set(FALSE, 1, "ext", 2), Set(TRUE, 2, "targ", 0)>>),
       Fixupp(<<By(5, 1, "seg", 0, 1, "seg", 0), By(6, 2, "seg", 0, No, "seg", 2)>>),
       Fixupp(<<At(9, "loc", 0, "grp", 1), At(15, "ext", 1, "abs", 0)>>),
       Fixupp(<<At(6, "targ", 0, "ext", 1), At(5, "none", 0, "ext", 2)>>)})

\* Data that are written over, that grow a section, backpatches that carry, also
\* where there is nothing, COMDATs that are continued, one with iterated data.
WithData ==
  Omf(<<SegDef(1, 3, 22), SegDef(2, 4, 22), LEData(1, 0, <<3, 3, 1, 0>>)>>,
      {LEData(1, 2, <<2, 2, 3>>), LEData(2, 7, <<1, 1>>), LIData32(1, 3, Pair), LIData(1, 2, Short),
       LIData(2, 0, Empty), BakPat(1, 0, 2, 0, 1), BakPat(1, 0, 4, 1, 7), BakPat(0, 1, 1, 1, 3),
       BakPat(2, 0, 1, 0, 1), BakPat(1, 0, 3, 0, 1), ComDat(FALSE, 6, <<1, 2>>), ComDat(TRUE, 5, <<3, 3>>),
       [ComDat(TRUE, 0, <<>>) EXCEPT !.iter = TRUE, !.blocks = <<Pair>>],
       LEData(1, 30, <<1, 1, 2>>), LIData(1, 0, Huge), ComDat(FALSE, 30, <<1, 1, 2>>),
       LIData32(2, 0, Wide), LIData32(1, 0, Zeros), Coment("easy", 0, 0)})

\* Fixups on the headers and the data of iterated data, and what lets the error
\* of the first be forgotten: backpatches, or another header record in front.
WithHeaders ==
  Omf(<<SegDef(1, 3, 30), SegDef(2, 3, 30), LIData(1, 1, Twice)>>,
      {LIData(2, 0, Pair), LEData(1, 2, <<1, 2>>), Theadr, BakPat(1, 0, 1, 9, 1),
       Fixupp(<<At(0, "targ", 0, "seg", 1)>>), Fixupp(<<At(9, "loc", 0, "seg", 2), At(10, "loc", 0, "seg", 1)>>),
       Fixupp(<<At(5, "loc", 0, "seg", 1)>>), LIData32(2, 0, Zeros), Coment("easy", 0, 0)})

\* Files of other formats, and of none.
Starts ==
  {First(s, 400, s :> w) : s \in {0, 40}, w \in {"elf", "machine", "machine_obj", "pe"}}
    \cup {First(s, 400, (s :> "mz") @@ (s + 128 :> "pe") @@ (s + 132 :> w)) :
             s \in {0, 40}, w \in {"machine", "machine_obj"}}
    \cup {[First(0, 90000, (0 :> "mz") @@ (70000 :> "pe") @@ (70004 :> "machine")) EXCEPT !.lfanew = 70000],
          First(0, 50, 0 :> "mz"), First(40, 170, 40 :> "mz"), First(0, 2, <<>>)}
    \cup {[First(40, 100, (40 :> "theadr") @@ (35 :> "machine")) EXCEPT
            !.name = n, !.fits = f, !.summed = c, !.tail = t] :
             n \in {3, 60}, f, c \in BOOLEAN, t \in {"machine", "other"}}

MCFiles == {Definitions, Symbols, WithFixups, WithData, WithHeaders} \cup Starts

=============================================================================
