-------------------------- MODULE CoffImportProofs --------------------------
(***************************************************************************)
(* Theorems about CoffImport, for names of every length: what is declared  *)
(* fits the arrays, what is written agrees with what was declared.         *)
(*                                                                         *)
(* The calls that are still to be made stay the end of Declared(import),   *)
(* then of Written(import).  What one call needs of the others (the symbol *)
(* its section, the relocation its symbol, the pieces of a section each    *)
(* other) is a property of these lists, which their parts have one by one. *)
(*                                                                         *)
(* Where a piece is in the file is the sum of the lengths in front of it.  *)
(* What is written, followed by what is to be written, stays the headings  *)
(* and Written(import); every part of that fills the sections it is for,   *)
(* and parts one behind the other do.  The strings are those of the table, *)
(* one behind the other, and a symbol keeps its place when one is added.   *)
(***************************************************************************)
EXTENDS CoffImport, DataLemmas

-----------------------------------------------------------------------------
(* The types of calls, of pieces and of what is made of them.              *)

SecNames == {".text", ".pdata", ".reldata", ".idata$5", ".idata$4", ".idata$6"}
SymNames == {"text", "imp", "name", "toc", "descriptor"}

SectionCall == [call : {"section"}, name : SecNames, size : Nat \ {0}, relocs : Nat]
SymSecCall == [call : {"symsec"}, keep : {"none", "idata6"}]

\* A symbol is remembered under its own name; all of them but the table of
\* contents are in the section that was declared last.
SymbolCall ==
  {c \in [call : {"symbol"}, name : SymNames, len : Nat, here : BOOLEAN,
          keep : {"none", "text", "imp", "toc"}] :
     c.keep # "none" => c.keep = c.name /\ c.here = (c.keep # "toc")}

Calls == SectionCall \cup SymSecCall \cup SymbolCall

DataPiece == [sec : SecNames, what : {"data"}, len : Nat]

\* The sections of the symbols that are remembered.
Home == [k \in Kept |-> CASE k = "text" -> ".text" [] k = "imp" -> ".idata$5"
                          [] k = "idata6" -> ".idata$6" [] OTHER -> "none"]

\* Which of them relocations of a section are for.
Wants(sec) == CASE sec = ".text" -> {"text", "imp"}
                [] sec = ".pdata" -> {"text"}
                [] sec = ".reldata" -> {"text", "toc"}
                [] OTHER -> {"idata6"}

RelocPiece ==
  {p \in [sec : SecNames, what : {"reloc"}, len : {RelocSize}, keep : Kept] :
     p.sec # ".idata$6" /\ p.keep \in Wants(p.sec)}

Header == [name : SecNames, size : Nat \ {0}, num_relocs : Nat, rawdata_ptr : Nat,
           reloc_ptr : Nat]
SymbolEntry == [name : SymNames \cup {"section"}, sec : Nat, offset : Nat, aux : BOOLEAN]
StringEntry == [name : SymNames, len : Nat]
File == [section : Seq(Header), symbol : Seq(SymbolEntry), string_table : Seq(StringEntry),
         string_table_size : Nat, max_string_table_size : Nat, room : Nat, sym_table : Nat]
Piece == [sec : {"file"}, what : {"header", "sections", "symbols", "size"} \cup SymNames, len : Nat]
           \cup DataPiece
           \cup [sec : SecNames, what : {"reloc"}, len : {RelocSize}, sym_tab_index : Int]

\* The symbols that relocations of an entry are for.
Needs(i) ==
  {"text", "imp"} \cup (IF i.machine = "powerpc" THEN {"toc"} ELSE {})
    \cup (IF i.type = "ordinal" THEN {} ELSE {"idata6"})
Asking(K) == DataPiece \cup {r \in RelocPiece : r.keep \in K}

-----------------------------------------------------------------------------
(* The inductive invariant.                                                *)

TypesInv ==
  /\ import \in Imports
  /\ stage \in {"declare", "write", "done", "refused"}
  /\ stage = "write" => import.machine # "other"
  /\ stage = "declare" => todo \in Seq(Calls)
  /\ stage = "write" => todo \in Seq(Asking(Needs(import)))
  /\ c_file \in File
  /\ number \in [Kept -> Int]
  /\ out \in Seq(Piece)

\* The sections that are declared, in their order.
Plan(i) == Those(Declared(i), SectionCall)
AsCalls(secs) ==
  [n \in DOMAIN secs |-> [call |-> "section", name |-> secs[n].name, size |-> secs[n].size,
                          relocs |-> secs[n].num_relocs]]
SectionsInv ==
  /\ stage = "declare" => AsCalls(c_file.section) \o Those(todo, SectionCall) = Plan(import)
  /\ stage \in {"write", "done"} => AsCalls(c_file.section) = Plan(import)
  /\ stage = "refused" => Len(c_file.section) <= Len(Plan(import))

\* A call declares a section or at most two symbols, and the first a section.
SymbolsInv ==
  /\ \A n \in DOMAIN c_file.symbol : c_file.symbol[n].sec <= Len(c_file.section)
  /\ stage = "declare" =>
       /\ c_file.section = <<>> => c_file.symbol = <<>> /\ todo = Declared(import)
       /\ Len(c_file.symbol) + 2 * Len(c_file.section) + 2 * Len(todo)
            <= 2 * Len(Declared(import))
  /\ Len(c_file.symbol) <= MAX_NUM_COFF_LIB_SYMBOLS
  /\ \A k \in Kept : number[k] \in {NotSet, 0} \cup 0 .. Len(c_file.symbol) - 1

\* The call remembers a symbol as k.
Keeps(c, k) == c.call # "section" /\ c.keep = k

\* The last section in front of the n-th call is the home of k.
AtHome(s, n, k) ==
  \E m \in 1 .. n - 1 :
    /\ s[m].call = "section" /\ s[m].name = Home[k]
    /\ \A j \in m + 1 .. n - 1 : s[j].call # "section"

NoSection(s, n) == \A j \in 1 .. n - 1 : s[j].call # "section"

\* It will be, if the last section before the list is this one.
Ready(s, n, k, last) == AtHome(s, n, k) \/ (NoSection(s, n) /\ last = Home[k])

\* The list has a call that remembers a symbol as k.
Offers(s, k) == \E n \in DOMAIN s : Keeps(s[n], k)

\* What is remembered as k is the symbol that k stands for.
Meets(k) ==
  /\ number[k] \in 0 .. Len(c_file.symbol) - 1
  /\ LET sym == c_file.symbol[number[k] + 1]
     IN  /\ ~sym.aux
         /\ sym.name = IF k = "idata6" THEN "section" ELSE k
         /\ sym.sec \in 0 .. Len(c_file.section)
         /\ SecName(sym.sec) = Home[k]

\* Symbols that are to be remembered will be in their sections; those that
\* relocations need are, or will be.
NumbersInv ==
  /\ stage = "declare" => \A n \in DOMAIN todo : \A k \in Kept \ {"toc"} :
       Keeps(todo[n], k) => Ready(todo, n, k, SecName(Len(c_file.section)))
  /\ stage = "declare" /\ import.machine # "other" =>
       \A k \in Needs(import) : Meets(k) \/ Offers(todo, k)
  /\ stage = "write" => \A k \in Needs(import) : Meets(k)
  /\ stage \in {"declare", "refused"} => out = <<>>

Inv == TypesInv /\ SectionsInv /\ SymbolsInv /\ NumbersInv /\ RelocsMeetSymbols

-----------------------------------------------------------------------------
(* Lists of calls with every symbol in its section.                        *)

\* Lists of calls with every symbol in its section.
Good(s) ==
  /\ s \in Seq(Calls)
  /\ \A n \in DOMAIN s : \A k \in Kept \ {"toc"} : Keeps(s[n], k) => AtHome(s, n, k)

\* The lengths that symbols are made of.
LEMMA LensAreNumbers ==
  ASSUME NEW i \in Imports
  PROVE  SymbolLen(i) \in Nat /\ DllSymbolLen(i) \in Nat /\ i.dll \in Nat
<1>1. i.name \in NameLens /\ i.suffix \in {0, 2} /\ i.dll \in DllLens
  BY DEF Imports
<1>2. NameLens \subseteq Nat /\ DllLens \subseteq Nat
  BY InputsAssumption
<1>3. i.name \in Nat /\ i.suffix \in Nat /\ i.dll \in Nat
  <2>1. i.name \in Nat /\ i.dll \in Nat
    BY <1>1, <1>2
  <2>2. i.suffix \in Nat
    BY <1>1
  <2> QED
    BY <2>1, <2>2
<1>4. SymbolLen(i) \in Nat
  BY <1>3 DEF SymbolLen
<1>5. DllSymbolLen(i) \in Nat
  <2>1. PICK a : a = IF i.type = "undecorate" THEN 0 ELSE i.suffix
    OBVIOUS
  <2>2. PICK m : m = IF i.mark = "none" \/ (i.type \in {"no_prefix", "undecorate"} /\ i.mark # "?")
                    THEN 0 ELSE 1
    OBVIOUS
  <2>3. a \in Nat /\ m \in Nat
    BY <1>3, <2>1, <2>2
  <2>4. DllSymbolLen(i) = m + i.name + a
    BY <2>1, <2>2 DEF DllSymbolLen
  <2> QED
    BY <1>3, <2>3, <2>4
<1> QED
  BY <1>3, <1>4, <1>5

\* The calls are calls.
LEMMA CallsTyped ==
  /\ \A name \in SecNames, size \in Nat \ {0}, relocs \in Nat :
       Section(name, size, relocs) \in SectionCall
  /\ \A keep \in {"none", "idata6"} : SymSec(keep) \in SymSecCall
  /\ \A name \in SymNames, len \in Nat, here \in BOOLEAN :
       Symbol(name, len, here, "none") \in SymbolCall
  /\ \A len \in Nat :
       /\ \A name \in {"text", "imp"} : Symbol(name, len, TRUE, name) \in SymbolCall
       /\ Symbol("toc", len, FALSE, "toc") \in SymbolCall
BY DEF Section, SymSec, Symbol, SectionCall, SymSecCall, SymbolCall, SymNames

\* One list behind another.
LEMMA GoodConcat ==
  ASSUME NEW s, NEW t, Good(s), Good(t)
  PROVE  Good(s \o t)
<1>1. s \in Seq(Calls) /\ t \in Seq(Calls) /\ s \o t \in Seq(Calls)
  BY DEF Good
<1>2. /\ Len(s) \in Nat /\ Len(t) \in Nat /\ Len(s \o t) = Len(s) + Len(t)
      /\ \A n \in 1 .. Len(s) : (s \o t)[n] = s[n]
      /\ \A n \in 1 .. Len(t) : (s \o t)[n + Len(s)] = t[n]
  BY <1>1, ConcatProperties
<1>3. ASSUME NEW n \in DOMAIN (s \o t), NEW k \in Kept \ {"toc"}, Keeps((s \o t)[n], k)
      PROVE  AtHome(s \o t, n, k)
  <2>1. PICK r \in Seq(Calls) : r = s \o t
    BY <1>1
  <2>2. CASE n \in 1 .. Len(s)
    <3>1. AtHome(s, n, k)
      BY <1>1, <1>2, <1>3, <2>2 DEF Good
    <3>2. PICK m \in 1 .. n - 1 :
            /\ s[m].call = "section" /\ s[m].name = Home[k]
            /\ \A j \in m + 1 .. n - 1 : s[j].call # "section"
      BY <3>1 DEF AtHome
    <3>3. \A j \in 1 .. n - 1 : r[j] = s[j]
      BY <1>2, <2>1, <2>2
    <3>4. r[m].call = "section" /\ r[m].name = Home[k]
      BY <3>2, <3>3
    <3>5. \A j \in m + 1 .. n - 1 : r[j].call # "section"
      BY <2>2, <3>2, <3>3
    <3> QED
      BY <2>1, <3>4, <3>5 DEF AtHome
  <2>3. CASE n \notin 1 .. Len(s)
    <3>1. PICK d \in 1 .. Len(t) : n = d + Len(s)
      <4>1. n \in 1 .. Len(s) + Len(t)
        BY <1>1, <1>2
      <4>2. n - Len(s) \in 1 .. Len(t) /\ n = (n - Len(s)) + Len(s)
        BY <1>2, <2>3, <4>1
      <4> QED
        BY <4>2
    <3>2. AtHome(t, d, k)
      BY <1>1, <1>2, <1>3, <3>1 DEF Good
    <3>3. PICK m \in 1 .. d - 1 :
            /\ t[m].call = "section" /\ t[m].name = Home[k]
            /\ \A j \in m + 1 .. d - 1 : t[j].call # "section"
      BY <3>2 DEF AtHome
    <3>4. PICK l \in Nat : l = Len(s)
      BY <1>2
    <3>5. m + l \in 1 .. n - 1 /\ r[m + l] = t[m]
      BY <1>2, <2>1, <3>1, <3>3, <3>4
    <3>6. ASSUME NEW j \in m + l + 1 .. n - 1 PROVE r[j].call # "section"
      <4>1. j - l \in m + 1 .. d - 1 /\ j - l \in 1 .. Len(t) /\ j = (j - l) + l
        BY <1>2, <3>1, <3>3, <3>4, <3>6
      <4> QED
        BY <1>2, <2>1, <3>3, <3>4, <4>1, ZenonT(60)
    <3>7. r[m + l].call = "section" /\ r[m + l].name = Home[k]
      BY <3>3, <3>5
    <3> QED
      BY <2>1, <3>5, <3>6, <3>7 DEF AtHome
  <2> QED
    BY <2>2, <2>3
<1> QED
  BY <1>1, <1>3 DEF Good

\* A section with its symbols.
LEMMA GoodGroups ==
  ASSUME NEW name \in SecNames, NEW size \in Nat \ {0}, NEW relocs \in Nat, NEW len \in Nat
  PROVE  /\ Good(<<>>)
         /\ Good(<<Section(name, size, relocs), SymSec("none")>>)
         /\ Good(<<SymSec("none")>>)
         /\ name = ".idata$6" => Good(<<Section(name, size, relocs), SymSec("idata6")>>)
         /\ \A k \in {"text", "imp"} : name = Home[k] =>
              Good(<<Section(name, size, relocs), SymSec("none"), Symbol(k, len, TRUE, k)>>)
         /\ \A other \in SymNames, here \in BOOLEAN : Good(<<Symbol(other, len, here, "none")>>)
         /\ Good(<<Symbol("toc", len, FALSE, "toc")>>)
<1>1. PICK a, b, c : a = Section(name, size, relocs) /\ b = SymSec("none") /\ c = SymSec("idata6")
  OBVIOUS
<1>2. /\ a \in Calls /\ a.call = "section" /\ a.name = name
      /\ b \in Calls /\ b.call = "symsec" /\ b.keep = "none"
      /\ c \in Calls /\ c.call = "symsec" /\ c.keep = "idata6"
  <2>1. a \in SectionCall /\ b \in SymSecCall /\ c \in SymSecCall
    BY <1>1, CallsTyped
  <2> QED
    BY <1>1, <2>1 DEF Calls, Section, SymSec
<1>3. Good(<<>>) /\ Good(<<a, b>>) /\ Good(<<b>>)
  <2>1. <<>> \in Seq(Calls) /\ <<a, b>> \in Seq(Calls) /\ <<b>> \in Seq(Calls)
    BY <1>2
  <2>2. \A k \in Kept : ~Keeps(a, k) /\ ~Keeps(b, k)
    BY <1>2 DEF Keeps, Kept
  <2> QED
    BY <2>1, <2>2 DEF Good
<1>4. ASSUME name = ".idata$6" PROVE Good(<<a, c>>)
  <2>1. PICK s : s = <<a, c>>
    OBVIOUS
  <2>2. s \in Seq(Calls) /\ DOMAIN s = 1 .. 2 /\ s[1] = a /\ s[2] = c
    BY <1>2, <2>1
  <2>3. \A k \in Kept : ~Keeps(a, k) /\ (Keeps(c, k) => k = "idata6")
    BY <1>2 DEF Keeps
  <2>4. AtHome(s, 2, "idata6")
    <3>1. Home["idata6"] = ".idata$6"
      BY DEF Home, Kept
    <3>2. 1 \in 1 .. 2 - 1 /\ 1 + 1 .. 2 - 1 = {}
      OBVIOUS
    <3> QED
      BY <1>2, <1>4, <2>2, <3>1, <3>2 DEF AtHome
  <2>5. ASSUME NEW n \in DOMAIN s, NEW k \in Kept \ {"toc"}, Keeps(s[n], k) PROVE AtHome(s, n, k)
    <3>1. n = 1 \/ n = 2
      BY <2>2
    <3> QED
      BY <2>2, <2>3, <2>4, <2>5, <3>1
  <2> QED
    BY <2>1, <2>2, <2>5 DEF Good
<1>5. ASSUME NEW k \in {"text", "imp"}, name = Home[k]
      PROVE  Good(<<a, b, Symbol(k, len, TRUE, k)>>)
  <2>1. PICK d : d = Symbol(k, len, TRUE, k)
    OBVIOUS
  <2>2. d \in Calls /\ d.call = "symbol" /\ d.keep = k
    BY <2>1, CallsTyped DEF Calls, Symbol
  <2>3. PICK s : s = <<a, b, d>>
    OBVIOUS
  <2>4. s \in Seq(Calls) /\ DOMAIN s = 1 .. 3 /\ s[1] = a /\ s[2] = b /\ s[3] = d
    BY <1>2, <2>2, <2>3
  <2>5. \A q \in Kept : ~Keeps(a, q) /\ ~Keeps(b, q) /\ (Keeps(d, q) => q = k)
    BY <1>2, <2>2 DEF Keeps, Kept
  <2>6. AtHome(s, 3, k)
    <3>1. 1 \in 1 .. 3 - 1 /\ \A j \in 1 + 1 .. 3 - 1 : j = 2
      OBVIOUS
    <3> QED
      BY <1>2, <1>5, <2>4, <3>1 DEF AtHome
  <2>7. ASSUME NEW n \in DOMAIN s, NEW q \in Kept \ {"toc"}, Keeps(s[n], q) PROVE AtHome(s, n, q)
    <3>1. n = 1 \/ n = 2 \/ n = 3
      BY <2>4
    <3> QED
      BY <2>4, <2>5, <2>6, <2>7, <3>1
  <2> QED
    BY <2>1, <2>3, <2>4, <2>7 DEF Good
<1>6. ASSUME NEW other \in SymNames, NEW here \in BOOLEAN
      PROVE  Good(<<Symbol(other, len, here, "none")>>)
  <2>1. PICK d : d = Symbol(other, len, here, "none")
    OBVIOUS
  <2>2. d \in Calls /\ d.call = "symbol" /\ d.keep = "none"
    BY <2>1, CallsTyped DEF Calls, Symbol
  <2>3. \A q \in Kept : ~Keeps(d, q)
    BY <2>2 DEF Keeps, Kept
  <2> QED
    BY <2>1, <2>2, <2>3 DEF Good
<1>7. Good(<<Symbol("toc", len, FALSE, "toc")>>)
  <2>1. PICK d : d = Symbol("toc", len, FALSE, "toc")
    OBVIOUS
  <2>2. d \in Calls /\ d.call = "symbol" /\ d.keep = "toc"
    BY <2>1, CallsTyped DEF Calls, Symbol
  <2>3. \A q \in Kept \ {"toc"} : ~Keeps(d, q)
    BY <2>2 DEF Keeps
  <2>4. PICK s : s = <<d>>
    OBVIOUS
  <2>5. s \in Seq(Calls) /\ \A n \in DOMAIN s : s[n] = d
    BY <2>2, <2>4
  <2> QED
    BY <2>1, <2>3, <2>4, <2>5 DEF Good
<1> QED
  BY <1>1, <1>3, <1>4, <1>5, <1>6, <1>7

-----------------------------------------------------------------------------
(* What is declared.                                                       *)

\* A list of at most n calls with every symbol in its section, and its sections.
Part(s, n, p) == Good(s) /\ Len(s) <= n /\ Those(s, SectionCall) = p

\* Parts one behind the other.
LEMMA PartConcat ==
  ASSUME NEW s, NEW n \in Nat, NEW p, Part(s, n, p),
         NEW t, NEW m \in Nat, NEW q, Part(t, m, q)
  PROVE  Part(s \o t, n + m, p \o q)
<1>1. s \in Seq(Calls) /\ t \in Seq(Calls) /\ Good(s) /\ Good(t)
  BY DEF Part, Good
<1>2. Good(s \o t)
  BY <1>1, GoodConcat
<1>3. Len(s \o t) <= n + m
  <2>1. Len(s \o t) = Len(s) + Len(t) /\ Len(s) \in Nat /\ Len(t) \in Nat
    BY <1>1
  <2>2. Len(s) <= n /\ Len(t) <= m
    BY DEF Part
  <2> QED
    BY <2>1, <2>2
<1>4. Those(s \o t, SectionCall) = p \o q
  <2>1. Those(s \o t, SectionCall) = Those(s, SectionCall) \o Those(t, SectionCall)
    BY <1>1, ThoseConcat
  <2> QED
    BY <2>1 DEF Part
<1> QED
  BY <1>2, <1>3, <1>4 DEF Part

\* The sections of short lists.
LEMMA NoneOfOne ==
  ASSUME NEW S, NEW T, NEW a \in S, a \notin T
  PROVE  Those(<<a>>, T) = <<>> /\ Those(<<>>, T) = <<>>
<1>1. <<>> \in Seq(S)
  OBVIOUS
<1>2. Those(<<>>, T) = <<>>
  BY <1>1, ThoseType
<1>3. Append(<<>>, a) = <<a>>
  OBVIOUS
<1>4. Those(Append(<<>>, a), T) = IF a \in T THEN Append(Those(<<>>, T), a) ELSE Those(<<>>, T)
  BY <1>1, ThoseAppended
<1> QED
  BY <1>2, <1>3, <1>4

\* A last member that is not of the kind.
LEMMA AppendedOut ==
  ASSUME NEW S, NEW T, NEW s \in Seq(S), NEW x \in S, x \notin T
  PROVE  Those(Append(s, x), T) = Those(s, T)
BY ThoseAppended

\* A last member that is.
LEMMA AppendedIn ==
  ASSUME NEW S, NEW T, NEW s \in Seq(S), NEW x \in S, x \in T
  PROVE  Those(Append(s, x), T) = Append(Those(s, T), x)
BY ThoseAppended

\* Those of one.
LEMMA OneOfOne ==
  ASSUME NEW S, NEW T, NEW a \in S, a \in T
  PROVE  Those(<<a>>, T) = <<a>>
<1>1. <<>> \in Seq(S)
  OBVIOUS
<1>2. Those(<<>>, T) = <<>>
  BY <1>1, ThoseType
<1>3. Append(<<>>, a) = <<a>>
  OBVIOUS
<1>4. Those(Append(<<>>, a), T) = Append(Those(<<>>, T), a)
  BY <1>1, AppendedIn
<1> QED
  BY <1>2, <1>3, <1>4

\* Those of two, of which the first is of the kind,
LEMMA FirstOfTwo ==
  ASSUME NEW S, NEW T, NEW a \in S, a \in T, NEW b \in S, b \notin T
  PROVE  Those(<<a, b>>, T) = <<a>>
<1>1. <<a, b>> = Append(<<a>>, b) /\ <<a>> \in Seq(S)
  OBVIOUS
<1>2. Those(Append(<<a>>, b), T) = Those(<<a>>, T)
  BY <1>1, AppendedOut
<1>3. Those(<<a>>, T) = <<a>>
  BY OneOfOne
<1> QED
  BY <1>1, <1>2, <1>3

\* and of three.
LEMMA FirstOfThree ==
  ASSUME NEW S, NEW T, NEW a \in S, a \in T, NEW b \in S, b \notin T, NEW c \in S, c \notin T
  PROVE  Those(<<a, b, c>>, T) = <<a>>
<1>1. <<a, b, c>> = Append(<<a, b>>, c) /\ <<a, b>> \in Seq(S)
  OBVIOUS
<1>2. Those(Append(<<a, b>>, c), T) = Those(<<a, b>>, T)
  BY <1>1, AppendedOut
<1>3. Those(<<a, b>>, T) = <<a>>
  BY FirstOfTwo
<1> QED
  BY <1>1, <1>2, <1>3

\* Only sections are in SectionCall.
LEMMA NotSections ==
  /\ \A c \in SymSecCall : c \in Calls /\ c \notin SectionCall
  /\ \A c \in SymbolCall : c \in Calls /\ c \notin SectionCall
  /\ \A c \in SectionCall : c \in Calls
<1>1. \A c \in SymSecCall : c.call = "symsec"
  BY DEF SymSecCall
<1>2. \A c \in SymbolCall : c.call = "symbol"
  BY DEF SymbolCall
<1>3. \A c \in SectionCall : c.call = "section"
  BY DEF SectionCall
<1> QED
  BY <1>1, <1>2, <1>3 DEF Calls

\* A section with its symbol, and with another.
LEMMA SectionGroup ==
  ASSUME NEW name \in SecNames, NEW size \in Nat \ {0}, NEW relocs \in Nat
  PROVE  /\ Part(<<Section(name, size, relocs), SymSec("none")>>, 2, <<Section(name, size, relocs)>>)
         /\ Part(<<Section(name, size, relocs)>>, 1, <<Section(name, size, relocs)>>)
         /\ Part(<<SymSec("none")>>, 1, <<>>)
         /\ Part(<<>>, 0, <<>>)
<1>1. PICK a, b : a = Section(name, size, relocs) /\ b = SymSec("none")
  OBVIOUS
<1>2. a \in SectionCall /\ b \in SymSecCall
  BY <1>1, CallsTyped
<1>3. a \in Calls /\ b \in Calls /\ b \notin SectionCall
  BY <1>2, NotSections
<1>4. /\ Those(<<a, b>>, SectionCall) = <<a>> /\ Those(<<a>>, SectionCall) = <<a>>
      /\ Those(<<b>>, SectionCall) = <<>> /\ Those(<<>>, SectionCall) = <<>>
  <2>1. Those(<<a, b>>, SectionCall) = <<a>>
    BY <1>2, <1>3, FirstOfTwo
  <2>2. Those(<<a>>, SectionCall) = <<a>>
    BY <1>2, <1>3, OneOfOne
  <2>3. Those(<<b>>, SectionCall) = <<>> /\ Those(<<>>, SectionCall) = <<>>
    BY <1>3, NoneOfOne
  <2> QED
    BY <2>1, <2>2, <2>3
<1>5. Good(<<a, b>>) /\ Good(<<b>>) /\ Good(<<>>)
  BY <1>1, GoodGroups
<1>6. Good(<<a>>)
  <2>1. <<a>> \in Seq(Calls) /\ \A n \in DOMAIN <<a>> : <<a>>[n] = a
    BY <1>3
  <2>2. \A k : ~Keeps(a, k)
    BY <1>2 DEF Keeps, SectionCall
  <2> QED
    BY <2>1, <2>2 DEF Good
<1>7. Len(<<a, b>>) <= 2 /\ Len(<<a>>) <= 1 /\ Len(<<b>>) <= 1 /\ Len(<<>>) <= 0
  OBVIOUS
<1> QED
  BY <1>1, <1>4, <1>5, <1>6, <1>7 DEF Part

\* A section with its symbol and one that is remembered.
LEMMA SymbolGroup ==
  ASSUME NEW k \in {"text", "imp"}, NEW size \in Nat \ {0}, NEW relocs \in Nat, NEW len \in Nat
  PROVE  Part(<<Section(Home[k], size, relocs), SymSec("none"), Symbol(k, len, TRUE, k)>>, 3,
              <<Section(Home[k], size, relocs)>>)
<1>0. Home[k] \in SecNames
  BY DEF Home, Kept, SecNames
<1>1. PICK a, b, c : /\ a = Section(Home[k], size, relocs) /\ b = SymSec("none")
                     /\ c = Symbol(k, len, TRUE, k)
  OBVIOUS
<1>2. a \in SectionCall /\ b \in SymSecCall /\ c \in SymbolCall
  BY <1>0, <1>1, CallsTyped
<1>3. a \in Calls /\ b \in Calls /\ b \notin SectionCall /\ c \in Calls /\ c \notin SectionCall
  BY <1>2, NotSections
<1>4. Those(<<a, b, c>>, SectionCall) = <<a>>
  BY <1>2, <1>3, FirstOfThree
<1>5. Good(<<a, b, c>>)
  BY <1>0, <1>1, GoodGroups
<1>6. Len(<<a, b, c>>) <= 3
  OBVIOUS
<1> QED
  BY <1>1, <1>4, <1>5, <1>6 DEF Part

\* The section of the name, whose own symbol is remembered.
LEMMA NameGroup ==
  ASSUME NEW size \in Nat \ {0}
  PROVE  Part(<<Section(".idata$6", size, 0), SymSec("idata6")>>, 2, <<Section(".idata$6", size, 0)>>)
<1>1. PICK a, b : a = Section(".idata$6", size, 0) /\ b = SymSec("idata6")
  OBVIOUS
<1>0. ".idata$6" \in SecNames /\ 0 \in Nat
  BY DEF SecNames
<1>2. a \in SectionCall /\ b \in SymSecCall
  BY <1>0, <1>1, CallsTyped
<1>3. a \in Calls /\ b \in Calls /\ b \notin SectionCall
  BY <1>2, NotSections
<1>4. Those(<<a, b>>, SectionCall) = <<a>>
  BY <1>2, <1>3, FirstOfTwo
<1>5. Good(<<a, b>>)
  BY <1>0, <1>1, GoodGroups
<1>6. Len(<<a, b>>) <= 2
  OBVIOUS
<1> QED
  BY <1>1, <1>4, <1>5, <1>6 DEF Part

\* Symbols on their own.
LEMMA LoneSymbols ==
  ASSUME NEW name \in SymNames, NEW len \in Nat, NEW here \in BOOLEAN
  PROVE  /\ Part(<<Symbol(name, len, here, "none")>>, 1, <<>>)
         /\ Part(<<Symbol("toc", len, FALSE, "toc")>>, 1, <<>>)
<1>1. PICK a, b : a = Symbol(name, len, here, "none") /\ b = Symbol("toc", len, FALSE, "toc")
  OBVIOUS
<1>2. a \in SymbolCall /\ b \in SymbolCall
  BY <1>1, CallsTyped
<1>3. a \in Calls /\ a \notin SectionCall /\ b \in Calls /\ b \notin SectionCall
  BY <1>2, NotSections
<1>4. Those(<<a>>, SectionCall) = <<>> /\ Those(<<b>>, SectionCall) = <<>>
  BY <1>3, NoneOfOne
<1>5. Good(<<a>>) /\ Good(<<b>>)
  <2>1. PICK sec, size, relocs : sec \in SecNames /\ size \in Nat \ {0} /\ relocs \in Nat
    <3>1. ".text" \in SecNames /\ 1 \in Nat \ {0} /\ 0 \in Nat
      BY DEF SecNames
    <3> QED
      BY <3>1
  <2> QED
    BY <1>1, <2>1, GoodGroups
<1>6. Len(<<a>>) <= 1 /\ Len(<<b>>) <= 1
  OBVIOUS
<1> QED
  BY <1>1, <1>4, <1>5, <1>6 DEF Part

\* The sections of the code and its tables, and of the import tables.
CodeSecs(i) ==
  CASE i.machine = "alpha" -> <<Section(".text", 12, 3)>>
    [] i.machine = "powerpc" ->
         <<Section(".text", 24, 1)>> \o (<<Section(".pdata", 20, 4)>> \o <<Section(".reldata", 8, 2)>>)
    [] i.machine = "i386" -> <<Section(".text", 6, 1)>>
    [] OTHER -> <<>>
ImportSecs(i) ==
  LET named == IF i.type = "ordinal" THEN 0 ELSE 1
  IN  <<Section(".idata$5", 4, named)>> \o <<Section(".idata$4", 4, named)>>
        \o (IF i.type = "ordinal" THEN <<>> ELSE <<Section(".idata$6", NameSize(i), 0)>>)

\* Two and one are three.
LEMMA TwoAndOne ==
  ASSUME NEW S, NEW x \in S, NEW y \in S, NEW z \in S
  PROVE  <<x, y>> \o <<z>> = <<x, y, z>>
<1>1. PICK s, t, r : s = <<x, y>> /\ t = <<z>> /\ r = <<x, y, z>>
  OBVIOUS
<1>2. s \in Seq(S) /\ t \in Seq(S) /\ r \in Seq(S)
  BY <1>1
<1>3. /\ Len(s) = 2 /\ Len(t) = 1 /\ Len(r) = 3
      /\ s[1] = x /\ s[2] = y /\ t[1] = z /\ r[1] = x /\ r[2] = y /\ r[3] = z
  BY <1>1
<1>4. s \o t \in Seq(S) /\ Len(s \o t) = 3 /\ (s \o t)[1] = x /\ (s \o t)[2] = y /\ (s \o t)[3] = z
  <2>1. /\ s \o t \in Seq(S) /\ Len(s \o t) = Len(s) + Len(t)
        /\ \A n \in 1 .. Len(s) : (s \o t)[n] = s[n]
        /\ \A n \in 1 .. Len(t) : (s \o t)[Len(s) + n] = t[n]
    BY <1>2, ConcatProperties
  <2>2. 1 \in 1 .. 2 /\ 2 \in 1 .. 2 /\ 1 \in 1 .. 1 /\ 2 + 1 = 3
    OBVIOUS
  <2> QED
    BY <1>3, <2>1, <2>2
<1>5. \A n \in 1 .. 3 : (s \o t)[n] = r[n]
  BY <1>3, <1>4
<1>6. s \o t = r
  BY <1>2, <1>3, <1>4, <1>5, SeqEqual
<1> QED
  BY <1>1, <1>6

\* The kinds of entries.
LEMMA Machines ==
  ASSUME NEW i \in Imports
  PROVE  /\ i.machine \in {"alpha", "powerpc", "i386", "other"}
         /\ i.type \in {"ordinal", "name", "no_prefix", "undecorate"}
BY DEF Imports

\* The code of Alpha and of i386, with the symbol of the function.
LEMMA TextGroup ==
  ASSUME NEW size \in Nat \ {0}, NEW relocs \in Nat, NEW len \in Nat
  PROVE  Part(<<Section(".text", size, relocs), SymSec("none"), Symbol("text", len, TRUE, "text")>>,
              3, <<Section(".text", size, relocs)>>)
<1>1. Home["text"] = ".text" /\ "text" \in {"text", "imp"}
  BY DEF Home, Kept
<1> QED
  BY <1>1, SymbolGroup

\* That of PowerPC, with its two tables and the name of its own.
LEMMA PowerGroup ==
  ASSUME NEW i \in Imports, i.machine = "powerpc"
  PROVE  Part(CodeCalls(i), 8, CodeSecs(i))
<1>1. SymbolLen(i) \in Nat /\ SymbolLen(i) + 2 \in Nat
  <2>1. SymbolLen(i) \in Nat
    BY LensAreNumbers
  <2> QED
    BY <2>1
<1>2. PICK a, b, c, n, t, g, o :
        /\ a = Section(".text", 24, 1) /\ b = Section(".pdata", 20, 4)
        /\ c = Section(".reldata", 8, 2) /\ n = SymSec("none")
        /\ t = Symbol("text", SymbolLen(i) + 2, TRUE, "text")
        /\ g = Symbol("name", SymbolLen(i), TRUE, "none")
        /\ o = IF i.type = "ordinal" THEN <<>> ELSE <<n>>
  OBVIOUS
<1>3. /\ ".pdata" \in SecNames /\ ".reldata" \in SecNames /\ "name" \in SymNames
      /\ 24 \in Nat \ {0} /\ 20 \in Nat \ {0} /\ 8 \in Nat \ {0}
      /\ 1 \in Nat /\ 4 \in Nat /\ 2 \in Nat /\ TRUE \in BOOLEAN
  BY DEF SecNames, SymNames
<1>4. Part(<<a, n, t>>, 3, <<a>>)
  BY <1>1, <1>2, <1>3, TextGroup
<1>5. Part(<<b, n>>, 2, <<b>>) /\ Part(<<n>>, 1, <<>>) /\ Part(<<>>, 0, <<>>)
  BY <1>2, <1>3, SectionGroup
<1>6. Part(<<c>>, 1, <<c>>)
  BY <1>2, <1>3, SectionGroup
<1>7. Part(<<g>>, 1, <<>>)
  BY <1>1, <1>2, <1>3, LoneSymbols
<1>8. Part(o, 1, <<>>)
  <2>1. CASE i.type = "ordinal"
    <3>1. Good(o) /\ Len(o) <= 0 /\ Those(o, SectionCall) = <<>> /\ Len(o) = 0
      BY <1>2, <1>5, <2>1 DEF Part
    <3> QED
      BY <3>1 DEF Part
  <2>2. CASE i.type # "ordinal"
    BY <1>2, <1>5, <2>2
  <2> QED
    BY <2>1, <2>2
<1>9. Part(<<b, n>> \o <<c>>, 2 + 1, <<b>> \o <<c>>)
  BY <1>5, <1>6, PartConcat
<1>10. Part(<<a, n, t>> \o (<<b, n>> \o <<c>>), 3 + (2 + 1), <<a>> \o (<<b>> \o <<c>>))
  <2>1. 2 + 1 \in Nat /\ 3 \in Nat
    OBVIOUS
  <2> QED
    BY <1>4, <1>9, <2>1, PartConcat
<1>11. PICK p : p = <<a>> \o (<<b>> \o <<c>>)
  OBVIOUS
<1>12. PICK s : s = <<a, n, t>> \o (<<b, n>> \o <<c>>)
  OBVIOUS
<1>13. Part(s, 6, p)
  BY <1>10, <1>11, <1>12
<1>14. Part(s \o o, 6 + 1, p \o <<>>)
  BY <1>8, <1>13, PartConcat
<1>15. Part((s \o o) \o <<g>>, (6 + 1) + 1, (p \o <<>>) \o <<>>)
  <2>1. 6 + 1 \in Nat /\ 1 \in Nat
    OBVIOUS
  <2> QED
    BY <1>7, <1>14, <2>1, PartConcat
<1>16. (p \o <<>>) \o <<>> = p /\ <<b, n>> \o <<c>> = <<b, n, c>>
  <2>1. p \in Seq({a, b, c})
    BY <1>11
  <2>2. p \o <<>> = p
    BY <2>1
  <2>3. <<b, n>> \o <<c>> = <<b, n, c>>
    <3>1. b \in {b, n, c} /\ n \in {b, n, c} /\ c \in {b, n, c}
      OBVIOUS
    <3> QED
      BY <3>1, TwoAndOne
  <2> QED
    BY <2>2, <2>3
<1>17. CodeSecs(i) = p
  BY <1>2, <1>11 DEF CodeSecs
<1>18. CodeCalls(i) = (s \o o) \o <<g>>
  BY <1>2, <1>12, <1>16 DEF CodeCalls
<1> QED
  BY <1>15, <1>16, <1>17, <1>18

\* The calls of the code and its tables are eight at most.
LEMMA CodePart ==
  ASSUME NEW i \in Imports
  PROVE  Part(CodeCalls(i), 8, CodeSecs(i))
<1>1. ASSUME NEW s, NEW n \in 0 .. 8, NEW p, Part(s, n, p) PROVE Part(s, 8, p)
  <2>1. Good(s) /\ Len(s) <= n /\ Those(s, SectionCall) = p /\ Len(s) \in Nat
    BY <1>1 DEF Part, Good
  <2>2. Len(s) <= 8
    BY <2>1
  <2> QED
    BY <2>1, <2>2 DEF Part
<1>2. SymbolLen(i) \in Nat
  BY LensAreNumbers
<1>3. CASE i.machine = "alpha"
  <2>1. Part(CodeCalls(i), 3, CodeSecs(i))
    <3>1. 12 \in Nat \ {0} /\ 3 \in Nat
      OBVIOUS
    <3> QED
      BY <1>2, <1>3, <3>1, TextGroup DEF CodeCalls, CodeSecs
  <2>2. 3 \in 0 .. 8
    OBVIOUS
  <2> QED
    BY <1>1, <2>1, <2>2
<1>4. CASE i.machine = "i386"
  <2>1. Part(CodeCalls(i), 3, CodeSecs(i))
    <3>1. 6 \in Nat \ {0} /\ 1 \in Nat
      OBVIOUS
    <3> QED
      BY <1>2, <1>4, <3>1, TextGroup DEF CodeCalls, CodeSecs
  <2>2. 3 \in 0 .. 8
    OBVIOUS
  <2> QED
    BY <1>1, <2>1, <2>2
<1>5. CASE i.machine = "powerpc"
  BY <1>5, PowerGroup
<1>6. CASE i.machine = "other"
  <2>1. Part(<<>>, 0, <<>>)
    <3>1. ".text" \in SecNames /\ 12 \in Nat \ {0} /\ 3 \in Nat
      BY DEF SecNames
    <3> QED
      BY <3>1, SectionGroup
  <2>2. CodeCalls(i) = <<>> /\ CodeSecs(i) = <<>>
    BY <1>6 DEF CodeCalls, CodeSecs
  <2>3. 0 \in 0 .. 8
    OBVIOUS
  <2> QED
    BY <1>1, <2>1, <2>2, <2>3
<1> QED
  BY <1>3, <1>4, <1>5, <1>6, Machines

\* The import tables.
LEMMA ImportPart ==
  ASSUME NEW i \in Imports
  PROVE  Part(ImportCalls(i), 7, ImportSecs(i))
<1>1. SymbolLen(i) + 6 \in Nat /\ NameSize(i) \in Nat \ {0}
  <2>1. SymbolLen(i) \in Nat
    BY LensAreNumbers
  <2>2. PICK d \in Nat : d = DllSymbolLen(i)
    BY LensAreNumbers
  <2>3. NameSize(i) = 2 + (d \div 2) * 2 + 2
    BY <2>2 DEF NameSize
  <2>4. d \div 2 \in Nat
    OBVIOUS
  <2> QED
    BY <2>1, <2>3, <2>4
<1>2. PICK named \in {0, 1} : named = IF i.type = "ordinal" THEN 0 ELSE 1
  OBVIOUS
<1>3. PICK a, b, c, n, s, t, o, p :
        /\ a = Section(".idata$5", 4, named) /\ b = Section(".idata$4", 4, named)
        /\ c = Section(".idata$6", NameSize(i), 0) /\ n = SymSec("none") /\ t = SymSec("idata6")
        /\ s = Symbol("imp", SymbolLen(i) + 6, TRUE, "imp")
        /\ o = IF i.type = "ordinal" THEN <<>> ELSE <<c, t>>
        /\ p = IF i.type = "ordinal" THEN <<>> ELSE <<c>>
  OBVIOUS
<1>4. /\ ".idata$5" \in SecNames /\ ".idata$4" \in SecNames /\ 4 \in Nat \ {0} /\ named \in Nat
      /\ Home["imp"] = ".idata$5" /\ "imp" \in {"text", "imp"}
  BY <1>2 DEF SecNames, Home, Kept
<1>5. Part(<<a, n, s>>, 3, <<a>>)
  BY <1>1, <1>3, <1>4, SymbolGroup
<1>6. Part(<<b, n>>, 2, <<b>>) /\ Part(<<>>, 0, <<>>)
  BY <1>3, <1>4, SectionGroup
<1>7. Part(<<c, t>>, 2, <<c>>)
  BY <1>1, <1>3, NameGroup
<1>8. Part(o, 2, p)
  <2>1. CASE i.type = "ordinal"
    <3>1. Good(o) /\ Len(o) = 0 /\ Those(o, SectionCall) = p
      BY <1>3, <1>6, <2>1 DEF Part
    <3> QED
      BY <3>1 DEF Part
  <2>2. CASE i.type # "ordinal"
    BY <1>3, <1>7, <2>2
  <2> QED
    BY <2>1, <2>2
<1>9. Part(<<a, n, s>> \o <<b, n>>, 3 + 2, <<a>> \o <<b>>)
  BY <1>5, <1>6, PartConcat
<1>10. Part((<<a, n, s>> \o <<b, n>>) \o o, (3 + 2) + 2, (<<a>> \o <<b>>) \o p)
  <2>1. 3 + 2 \in Nat /\ 2 \in Nat
    OBVIOUS
  <2> QED
    BY <1>8, <1>9, <2>1, PartConcat
<1>11. ImportCalls(i) = (<<a, n, s>> \o <<b, n>>) \o o
  BY <1>2, <1>3 DEF ImportCalls
<1>12. ImportSecs(i) = (<<a>> \o <<b>>) \o p
  BY <1>2, <1>3 DEF ImportSecs
<1> QED
  BY <1>10, <1>11, <1>12

\* What is defined elsewhere: two calls at most, and no section.
LEMMA OtherPart ==
  ASSUME NEW i \in Imports
  PROVE  Part(OtherCalls(i), 2, <<>>)
<1>1. i.dll + 20 \in Nat
  <2>1. i.dll \in Nat
    BY LensAreNumbers
  <2> QED
    BY <2>1
<1>2. PICK a, b, o : /\ a = Symbol("toc", 4, FALSE, "toc")
                     /\ b = Symbol("descriptor", i.dll + 20, FALSE, "none")
                     /\ o = IF i.machine = "powerpc" THEN <<a>> ELSE <<>>
  OBVIOUS
<1>3. "descriptor" \in SymNames /\ FALSE \in BOOLEAN /\ 4 \in Nat
  BY DEF SymNames
<1>4. Part(<<b>>, 1, <<>>)
  BY <1>1, <1>2, <1>3, LoneSymbols
<1>5. Part(<<a>>, 1, <<>>)
  BY <1>2, <1>3, LoneSymbols
<1>6. Part(o, 1, <<>>)
  <2>1. Part(<<>>, 0, <<>>)
    <3>1. ".text" \in SecNames /\ 12 \in Nat \ {0} /\ 3 \in Nat
      BY DEF SecNames
    <3> QED
      BY <3>1, SectionGroup
  <2>2. CASE i.machine = "powerpc"
    BY <1>2, <1>5, <2>2
  <2>3. CASE i.machine # "powerpc"
    <3>1. Good(o) /\ Len(o) = 0 /\ Those(o, SectionCall) = <<>>
      BY <1>2, <2>1, <2>3 DEF Part
    <3> QED
      BY <3>1 DEF Part
  <2> QED
    BY <2>2, <2>3
<1>7. Part(o \o <<b>>, 1 + 1, <<>> \o <<>>)
  BY <1>4, <1>6, PartConcat
<1>8. OtherCalls(i) = o \o <<b>> /\ <<>> \o <<>> = <<>>
  BY <1>2 DEF OtherCalls
<1> QED
  BY <1>7, <1>8

\* Three sections at most are of the code,
LEMMA CodeSecsTyped ==
  ASSUME NEW i \in Imports
  PROVE  CodeSecs(i) \in Seq(SectionCall) /\ Len(CodeSecs(i)) <= 3
<1>1. PICK a, b, c, d, e :
        /\ a = Section(".text", 12, 3) /\ b = Section(".text", 24, 1)
        /\ c = Section(".pdata", 20, 4) /\ d = Section(".reldata", 8, 2)
        /\ e = Section(".text", 6, 1)
  OBVIOUS
<1>2. a \in SectionCall /\ b \in SectionCall /\ c \in SectionCall /\ d \in SectionCall /\ e \in SectionCall
  BY <1>1, CallsTyped DEF SecNames
<1>3. CodeSecs(i) \in {<<a>>, <<b>> \o (<<c>> \o <<d>>), <<e>>, <<>>}
  BY <1>1, Machines DEF CodeSecs
<1>4. <<b>> \o (<<c>> \o <<d>>) \in Seq(SectionCall) /\ Len(<<b>> \o (<<c>> \o <<d>>)) = 3
  BY <1>2
<1>5. <<a>> \in Seq(SectionCall) /\ <<e>> \in Seq(SectionCall) /\ <<>> \in Seq(SectionCall)
  BY <1>2
<1>6. Len(<<a>>) <= 3 /\ Len(<<e>>) <= 3 /\ Len(<<>>) <= 3
  OBVIOUS
<1>7. PICK s : s = CodeSecs(i)
  OBVIOUS
<1>8. s = <<a>> \/ s = <<b>> \o (<<c>> \o <<d>>) \/ s = <<e>> \/ s = <<>>
  BY <1>3, <1>7
<1>9. s \in Seq(SectionCall)
  BY <1>4, <1>5, <1>8
<1>10. Len(s) <= 3
  <2>1. CASE s = <<b>> \o (<<c>> \o <<d>>)
    <3>1. Len(s) = 3
      BY <1>4, <2>1
    <3> QED
      BY <3>1
  <2>2. CASE s = <<a>> \/ s = <<e>> \/ s = <<>>
    BY <1>6, <2>2
  <2> QED
    BY <1>8, <2>1, <2>2
<1> QED
  BY <1>7, <1>9, <1>10

\* and three of the import.
LEMMA ImportSecsTyped ==
  ASSUME NEW i \in Imports
  PROVE  ImportSecs(i) \in Seq(SectionCall) /\ Len(ImportSecs(i)) <= 3
<1>1. NameSize(i) \in Nat \ {0}
  <2>1. PICK d \in Nat : d = DllSymbolLen(i)
    BY LensAreNumbers
  <2>2. NameSize(i) = 2 + (d \div 2) * 2 + 2 /\ d \div 2 \in Nat
    BY <2>1 DEF NameSize
  <2> QED
    BY <2>2
<1>2. PICK named \in {0, 1} : named = IF i.type = "ordinal" THEN 0 ELSE 1
  OBVIOUS
<1>3. PICK a, b, c : /\ a = Section(".idata$5", 4, named) /\ b = Section(".idata$4", 4, named)
                     /\ c = Section(".idata$6", NameSize(i), 0)
  OBVIOUS
<1>4. a \in SectionCall /\ b \in SectionCall /\ c \in SectionCall
  <2>1. named \in Nat /\ 0 \in Nat /\ 4 \in Nat \ {0}
    OBVIOUS
  <2> QED
    BY <1>1, <1>3, <2>1, CallsTyped DEF SecNames
<1>5. PICK p : p = IF i.type = "ordinal" THEN <<>> ELSE <<c>>
  OBVIOUS
<1>6. p \in Seq(SectionCall) /\ Len(p) <= 1
  BY <1>4, <1>5
<1>7. ImportSecs(i) = (<<a>> \o <<b>>) \o p
  BY <1>2, <1>3, <1>5 DEF ImportSecs
<1>8. <<a>> \o <<b>> \in Seq(SectionCall) /\ Len(<<a>> \o <<b>>) = 2
  BY <1>4
<1>9. PICK q : q = <<a>> \o <<b>>
  OBVIOUS
<1>10. q \o p \in Seq(SectionCall) /\ Len(q \o p) = Len(q) + Len(p) /\ Len(p) \in Nat
  BY <1>6, <1>8, <1>9
<1> QED
  BY <1>6, <1>7, <1>8, <1>9, <1>10

\* The sections that are declared, and how many calls declare them.
LEMMA DeclaredPart ==
  ASSUME NEW i \in Imports
  PROVE  /\ Good(Declared(i)) /\ Len(Declared(i)) <= 17
         /\ Plan(i) = CodeSecs(i) \o ImportSecs(i)
         /\ Plan(i) \in Seq(SectionCall) /\ Len(Plan(i)) <= 6
<1>1. Part(CodeCalls(i) \o ImportCalls(i), 8 + 7, CodeSecs(i) \o ImportSecs(i))
  BY CodePart, ImportPart, PartConcat
<1>2. Part(Declared(i), (8 + 7) + 2, (CodeSecs(i) \o ImportSecs(i)) \o <<>>)
  <2>1. 8 + 7 \in Nat /\ 2 \in Nat
    OBVIOUS
  <2> QED
    BY <1>1, <2>1, OtherPart, PartConcat DEF Declared
<1>3. PICK p, q : p = CodeSecs(i) /\ q = ImportSecs(i)
  OBVIOUS
<1>4. p \in Seq(SectionCall) /\ q \in Seq(SectionCall) /\ Len(p) <= 3 /\ Len(q) <= 3
  BY <1>3, CodeSecsTyped, ImportSecsTyped
<1>5. p \o q \in Seq(SectionCall) /\ (p \o q) \o <<>> = p \o q /\ Len(p \o q) = Len(p) + Len(q)
  BY <1>4
<1>6. Len(p \o q) <= 6
  BY <1>4, <1>5
<1>7. Good(Declared(i)) /\ Len(Declared(i)) <= (8 + 7) + 2 /\ Plan(i) = (p \o q) \o <<>>
  BY <1>2, <1>3 DEF Part, Plan
<1>8. (8 + 7) + 2 = 17
  OBVIOUS
<1> QED
  BY <1>3, <1>5, <1>6, <1>7, <1>8

\* The first of them is a section.
Starts(s) == s # <<>> /\ s[1].call = "section"

\* What follows a list does not change what it starts with.
LEMMA StartsConcat ==
  ASSUME NEW s \in Seq(Calls), NEW t \in Seq(Calls), Starts(s)
  PROVE  Starts(s \o t)
<1>1. s # <<>> /\ (s \o t)[1] = s[1] /\ s \o t # <<>>
  BY DEF Starts
<1> QED
  BY <1>1 DEF Starts

\* A group of calls starts with its section.
LEMMA GroupStarts ==
  ASSUME NEW name \in SecNames, NEW size \in Nat \ {0}, NEW relocs \in Nat, NEW x \in SymbolCall
  PROVE  /\ <<Section(name, size, relocs), SymSec("none"), x>> \in Seq(Calls)
         /\ Starts(<<Section(name, size, relocs), SymSec("none"), x>>)
<1>1. PICK a, b : a = Section(name, size, relocs) /\ b = SymSec("none")
  OBVIOUS
<1>2. a \in SectionCall /\ b \in SymSecCall
  BY <1>1, CallsTyped
<1>3. a \in Calls /\ b \in Calls /\ x \in Calls /\ a.call = "section"
  BY <1>2, NotSections DEF SectionCall
<1>4. <<a, b, x>> \in Seq(Calls) /\ <<a, b, x>> # <<>> /\ <<a, b, x>>[1] = a
  BY <1>3
<1> QED
  BY <1>1, <1>3, <1>4 DEF Starts

\* The import tables start with a section,
LEMMA ImportStarts ==
  ASSUME NEW i \in Imports
  PROVE  Starts(ImportCalls(i))
<1>1. SymbolLen(i) + 6 \in Nat /\ NameSize(i) \in Nat \ {0}
  <2>1. SymbolLen(i) \in Nat
    BY LensAreNumbers
  <2>2. PICK d \in Nat : d = DllSymbolLen(i)
    BY LensAreNumbers
  <2>3. NameSize(i) = 2 + (d \div 2) * 2 + 2
    BY <2>2 DEF NameSize
  <2>4. d \div 2 \in Nat
    OBVIOUS
  <2> QED
    BY <2>1, <2>3, <2>4
<1>2. PICK named \in {0, 1} : named = IF i.type = "ordinal" THEN 0 ELSE 1
  OBVIOUS
<1>3. PICK s, t, o :
        /\ s = <<Section(".idata$5", 4, named), SymSec("none"),
                 Symbol("imp", SymbolLen(i) + 6, TRUE, "imp")>>
        /\ t = <<Section(".idata$4", 4, named), SymSec("none")>>
        /\ o = IF i.type = "ordinal" THEN <<>>
              ELSE <<Section(".idata$6", NameSize(i), 0), SymSec("idata6")>>
  OBVIOUS
<1>4. /\ ".idata$5" \in SecNames /\ ".idata$4" \in SecNames /\ ".idata$6" \in SecNames
      /\ "none" \in {"none", "idata6"} /\ "idata6" \in {"none", "idata6"}
      /\ "imp" \in {"text", "imp"} /\ 4 \in Nat \ {0} /\ named \in Nat /\ 0 \in Nat
  BY DEF SecNames
<1>5. Symbol("imp", SymbolLen(i) + 6, TRUE, "imp") \in SymbolCall
  BY <1>1, <1>4, CallsTyped
<1>6. s \in Seq(Calls) /\ Starts(s)
  BY <1>3, <1>4, <1>5, GroupStarts
<1>7. PICK a, b, c, d : /\ a = Section(".idata$4", 4, named) /\ b = SymSec("none")
                        /\ c = Section(".idata$6", NameSize(i), 0) /\ d = SymSec("idata6")
  OBVIOUS
<1>8. a \in SectionCall /\ b \in SymSecCall /\ c \in SectionCall /\ d \in SymSecCall
  BY <1>1, <1>4, <1>7, CallsTyped
<1>9. a \in Calls /\ b \in Calls /\ c \in Calls /\ d \in Calls
  BY <1>8, NotSections
<1>10. t \in Seq(Calls) /\ o \in Seq(Calls)
  <2>1. <<a, b>> \in Seq(Calls) /\ <<c, d>> \in Seq(Calls) /\ <<>> \in Seq(Calls)
    BY <1>9
  <2> QED
    BY <1>3, <1>7, <2>1
<1>11. s \o t \in Seq(Calls)
  BY <1>6, <1>10
<1>12. Starts(s \o t)
  BY <1>6, <1>10, StartsConcat
<1>13. Starts((s \o t) \o o)
  BY <1>10, <1>11, <1>12, StartsConcat
<1>14. ImportCalls(i) = (s \o t) \o o
  BY <1>2, <1>3 DEF ImportCalls
<1> QED
  BY <1>13, <1>14

\* and so does what is declared, whatever the machine.
LEMMA FirstDeclared ==
  ASSUME NEW i \in Imports
  PROVE  Starts(Declared(i))
<1>1. PICK c, d, e : c = CodeCalls(i) /\ d = ImportCalls(i) /\ e = OtherCalls(i)
  OBVIOUS
<1>2. c \in Seq(Calls) /\ d \in Seq(Calls) /\ e \in Seq(Calls)
  BY <1>1, CodePart, ImportPart, OtherPart DEF Part, Good
<1>3. Declared(i) = (c \o d) \o e /\ c \o d \in Seq(Calls)
  BY <1>1, <1>2 DEF Declared
<1>4. SymbolLen(i) \in Nat /\ SymbolLen(i) + 2 \in Nat
  <2>1. SymbolLen(i) \in Nat
    BY LensAreNumbers
  <2> QED
    BY <2>1
<1>5. /\ ".text" \in SecNames /\ "text" \in {"text", "imp"}
      /\ 12 \in Nat \ {0} /\ 3 \in Nat /\ 24 \in Nat \ {0} /\ 1 \in Nat /\ 6 \in Nat \ {0}
  BY DEF SecNames
<1>6. \A len \in Nat : Symbol("text", len, TRUE, "text") \in SymbolCall
  BY <1>5, CallsTyped
<1>7. CASE i.machine = "other"
  <2>1. c = <<>>
    BY <1>1, <1>7 DEF CodeCalls
  <2>2. c \o d = d
    BY <1>2, <2>1
  <2> QED
    BY <1>1, <1>2, <1>3, <2>2, ImportStarts, StartsConcat
<1>8. CASE i.machine \in {"alpha", "i386", "powerpc"}
  <2>1. Starts(c)
    <3>1. CASE i.machine = "alpha"
      BY <1>1, <1>4, <1>5, <1>6, <3>1, GroupStarts DEF CodeCalls
    <3>2. CASE i.machine = "i386"
      BY <1>1, <1>4, <1>5, <1>6, <3>2, GroupStarts DEF CodeCalls
    <3>3. CASE i.machine = "powerpc"
      <4>1. PICK s, t, o, g :
              /\ s = <<Section(".text", 24, 1), SymSec("none"),
                       Symbol("text", SymbolLen(i) + 2, TRUE, "text")>>
              /\ t = <<Section(".pdata", 20, 4), SymSec("none"), Section(".reldata", 8, 2)>>
              /\ o = IF i.type = "ordinal" THEN <<>> ELSE <<SymSec("none")>>
              /\ g = <<Symbol("name", SymbolLen(i), TRUE, "none")>>
        OBVIOUS
      <4>2. s \in Seq(Calls) /\ Starts(s)
        BY <1>4, <1>5, <1>6, <4>1, GroupStarts
      <4>3. PICK x, y, n, z : /\ x = Section(".pdata", 20, 4) /\ y = Section(".reldata", 8, 2)
                              /\ n = SymSec("none") /\ z = Symbol("name", SymbolLen(i), TRUE, "none")
        OBVIOUS
      <4>4. x \in SectionCall /\ y \in SectionCall /\ n \in SymSecCall /\ z \in SymbolCall
        <5>1. ".pdata" \in SecNames /\ ".reldata" \in SecNames /\ "name" \in SymNames
          BY DEF SecNames, SymNames
        <5>2. x \in SectionCall /\ y \in SectionCall
          <6>1. 20 \in Nat \ {0} /\ 4 \in Nat /\ 8 \in Nat \ {0} /\ 2 \in Nat
            OBVIOUS
          <6> QED
            BY <4>3, <5>1, <6>1, CallsTyped
        <5>3. n \in SymSecCall
          BY <4>3, CallsTyped
        <5>4. z \in SymbolCall
          BY <1>4, <4>3, <5>1, CallsTyped
        <5> QED
          BY <5>2, <5>3, <5>4
      <4>5. x \in Calls /\ y \in Calls /\ n \in Calls /\ z \in Calls
        BY <4>4, NotSections
      <4>6. t \in Seq(Calls) /\ o \in Seq(Calls) /\ g \in Seq(Calls)
        <5>1. <<x, n, y>> \in Seq(Calls) /\ <<n>> \in Seq(Calls) /\ <<>> \in Seq(Calls) /\ <<z>> \in Seq(Calls)
          BY <4>5
        <5> QED
          BY <4>1, <4>3, <5>1
      <4>7. s \o t \in Seq(Calls) /\ (s \o t) \o o \in Seq(Calls)
        BY <4>2, <4>6
      <4>8. Starts(s \o t)
        BY <4>2, <4>6, StartsConcat
      <4>9. Starts((s \o t) \o o)
        BY <4>6, <4>7, <4>8, StartsConcat
      <4>10. Starts(((s \o t) \o o) \o g)
        BY <4>6, <4>7, <4>9, StartsConcat
      <4>11. c = ((s \o t) \o o) \o g
        BY <1>1, <3>3, <4>1 DEF CodeCalls
      <4> QED
        BY <4>10, <4>11
    <3> QED
      BY <1>8, <3>1, <3>2, <3>3
  <2>2. Starts(c \o d)
    BY <1>2, <2>1, StartsConcat
  <2> QED
    BY <1>2, <1>3, <2>2, StartsConcat
<1> QED
  BY <1>7, <1>8, Machines

-----------------------------------------------------------------------------
(* What is written, and that the symbols for its relocations are declared. *)

\* The pieces that may be written if the symbols K are remembered.
LEMMA PiecesTyped ==
  ASSUME NEW K
  PROVE  /\ \A sec \in SecNames, len \in Nat : Data(sec, len) \in Asking(K)
         /\ \A sec \in SecNames \ {".idata$6"} : \A keep \in Wants(sec) \cap Kept \cap K :
              Reloc(sec, keep) \in Asking(K)
<1>1. ASSUME NEW sec \in SecNames, NEW len \in Nat PROVE Data(sec, len) \in Asking(K)
  BY DEF Data, DataPiece, Asking
<1>2. ASSUME NEW sec \in SecNames \ {".idata$6"}, NEW keep \in Wants(sec) \cap Kept \cap K
      PROVE  Reloc(sec, keep) \in Asking(K)
  <2>1. Reloc(sec, keep) \in [sec : SecNames, what : {"reloc"}, len : {RelocSize}, keep : Kept]
    BY DEF Reloc
  <2>2. Reloc(sec, keep).sec = sec /\ Reloc(sec, keep).keep = keep
    BY DEF Reloc
  <2> QED
    BY <2>1, <2>2 DEF Asking, RelocPiece
<1> QED
  BY <1>1, <1>2

\* Relocations of the code are for symbols that the entry needs,
LEMMA CodeAsks ==
  ASSUME NEW i \in Imports, i.machine # "other"
  PROVE  CodePieces(i) \in Seq(Asking(Needs(i)))
<1>1. PICK K, A : K = Needs(i) /\ A = Asking(K)
  OBVIOUS
<1>2. "text" \in K /\ "imp" \in K /\ (i.machine = "powerpc" => "toc" \in K)
  BY <1>1 DEF Needs
<1>3. /\ "text" \in Wants(".text") /\ "imp" \in Wants(".text") /\ "text" \in Wants(".pdata")
      /\ "text" \in Wants(".reldata") /\ "toc" \in Wants(".reldata")
      /\ "text" \in Kept /\ "imp" \in Kept /\ "toc" \in Kept
  BY DEF Wants, Kept
<1>4. ".text" \in SecNames /\ ".pdata" \in SecNames /\ ".reldata" \in SecNames
  BY DEF SecNames
<1>5. \A sec \in {".text", ".pdata", ".reldata"} : sec # ".idata$6"
  OBVIOUS
<1>6. CASE i.machine = "alpha"
  <2>1. PICK a, b, c : a = Data(".text", 12) /\ b = Reloc(".text", "imp") /\ c = Reloc(".text", "text")
    OBVIOUS
  <2>2. a \in A /\ b \in A /\ c \in A
    BY <1>1, <1>2, <1>3, <1>4, <1>5, <2>1, PiecesTyped
  <2>3. CodePieces(i) = <<a, b, c, b>>
    BY <1>6, <2>1 DEF CodePieces
  <2> QED
    BY <1>1, <2>2, <2>3
<1>7. CASE i.machine = "i386"
  <2>1. PICK a, b : a = Data(".text", 6) /\ b = Reloc(".text", "imp")
    OBVIOUS
  <2>2. a \in A /\ b \in A
    BY <1>1, <1>2, <1>3, <1>4, <1>5, <2>1, PiecesTyped
  <2>3. CodePieces(i) = <<a, b>>
    BY <1>7, <2>1 DEF CodePieces
  <2> QED
    BY <1>1, <2>2, <2>3
<1>8. CASE i.machine = "powerpc"
  <2>1. PICK a, b, c, d, e, f, g :
          /\ a = Data(".text", 24) /\ b = Reloc(".text", "imp")
          /\ c = Data(".pdata", 20) /\ d = Reloc(".pdata", "text")
          /\ e = Data(".reldata", 8) /\ f = Reloc(".reldata", "text") /\ g = Reloc(".reldata", "toc")
    OBVIOUS
  <2>2. a \in A /\ b \in A /\ c \in A /\ d \in A
    BY <1>1, <1>2, <1>3, <1>4, <1>5, <2>1, PiecesTyped
  <2>3. e \in A /\ f \in A /\ g \in A
    BY <1>1, <1>2, <1>3, <1>4, <1>5, <1>8, <2>1, PiecesTyped
  <2>4. PICK r : r = [k \in 1 .. 4 |-> d]
    OBVIOUS
  <2>5. r \in Seq(A)
    BY <2>2, <2>4
  <2>6. <<c>> \o r \in Seq(A)
    BY <2>2, <2>5
  <2>7. <<a, b>> \o (<<c>> \o r) \in Seq(A)
    <3>1. <<a, b>> \in Seq(A)
      BY <2>2
    <3>2. \A s, t \in Seq(A) : s \o t \in Seq(A)
      OBVIOUS
    <3> QED
      BY <2>6, <3>1, <3>2
  <2>8. (<<a, b>> \o (<<c>> \o r)) \o <<e, f, g>> \in Seq(A)
    <3>1. <<e, f, g>> \in Seq(A)
      BY <2>3
    <3>2. \A s, t \in Seq(A) : s \o t \in Seq(A)
      OBVIOUS
    <3> QED
      BY <2>7, <3>1, <3>2
  <2>9. CodePieces(i) = (<<a, b>> \o (<<c>> \o r)) \o <<e, f, g>>
    BY <1>8, <2>1, <2>4 DEF CodePieces
  <2> QED
    BY <1>1, <2>8, <2>9
<1> QED
  BY <1>6, <1>7, <1>8, Machines

\* those of the import tables too,
LEMMA TablesAsk ==
  ASSUME NEW i \in Imports, NEW sec \in {".idata$5", ".idata$4"}
  PROVE  TablePieces(i, sec) \in Seq(Asking(Needs(i)))
<1>1. PICK K, A : K = Needs(i) /\ A = Asking(K)
  OBVIOUS
<1>2. sec \in SecNames \ {".idata$6"}
  BY DEF SecNames
<1>3. CASE i.type = "ordinal"
  <2>1. PICK a : a = Data(sec, 2)
    OBVIOUS
  <2>2. a \in A
    BY <1>1, <1>2, <2>1, PiecesTyped
  <2>3. TablePieces(i, sec) = <<a, a>>
    BY <1>3, <2>1 DEF TablePieces
  <2> QED
    BY <1>1, <2>2, <2>3
<1>4. CASE i.type # "ordinal"
  <2>1. PICK a, b : a = Data(sec, 4) /\ b = Reloc(sec, "idata6")
    OBVIOUS
  <2>2. "idata6" \in K /\ "idata6" \in Kept /\ "idata6" \in Wants(sec)
    BY <1>1, <1>4 DEF Needs, Kept, Wants
  <2>3. a \in A /\ b \in A
    BY <1>1, <1>2, <2>1, <2>2, PiecesTyped
  <2>4. TablePieces(i, sec) = <<a, b>>
    BY <1>4, <2>1 DEF TablePieces
  <2> QED
    BY <1>1, <2>3, <2>4
<1> QED
  BY <1>3, <1>4

\* the name has none,
LEMMA NameAsks ==
  ASSUME NEW i \in Imports
  PROVE  NamePieces(i) \in Seq(Asking(Needs(i)))
<1>1. PICK A : A = Asking(Needs(i))
  OBVIOUS
<1>2. PICK d \in Nat : d = DllSymbolLen(i)
  BY LensAreNumbers
<1>3. PICK a, b, c : a = Data(".idata$6", 2) /\ b = Data(".idata$6", d + 1) /\ c = Data(".idata$6", 1)
  OBVIOUS
<1>4. a \in A /\ b \in A /\ c \in A
  <2>1. ".idata$6" \in SecNames /\ 2 \in Nat /\ 1 \in Nat /\ d + 1 \in Nat
    BY DEF SecNames
  <2> QED
    BY <1>1, <1>3, <2>1, PiecesTyped
<1>5. PICK p : p = Padding(i)
  OBVIOUS
<1>6. p \in Seq(A)
  <2>1. p = <<c>> \/ p = <<>>
    BY <1>3, <1>5 DEF Padding
  <2>2. <<c>> \in Seq(A) /\ <<>> \in Seq(A)
    BY <1>4
  <2> QED
    BY <2>1, <2>2
<1>7. <<a, b>> \o p \in Seq(A) /\ <<>> \in Seq(A)
  BY <1>4, <1>6
<1>8. NamePieces(i) = <<>> \/ NamePieces(i) = <<a, b>> \o p
  BY <1>2, <1>3, <1>5 DEF NamePieces
<1> QED
  BY <1>1, <1>7, <1>8

\* so all of them are.
LEMMA WrittenAsks ==
  ASSUME NEW i \in Imports, i.machine # "other"
  PROVE  Written(i) \in Seq(Asking(Needs(i)))
<1>1. PICK A, c, d, e, f : /\ A = Asking(Needs(i))
                           /\ c = CodePieces(i) /\ d = TablePieces(i, ".idata$5")
                           /\ e = TablePieces(i, ".idata$4") /\ f = NamePieces(i)
  OBVIOUS
<1>2. c \in Seq(A) /\ d \in Seq(A) /\ e \in Seq(A) /\ f \in Seq(A)
  BY <1>1, CodeAsks, TablesAsk, NameAsks
<1>3. ((c \o d) \o e) \o f \in Seq(A)
  <2>1. \A s, t \in Seq(A) : s \o t \in Seq(A)
    OBVIOUS
  <2> QED
    BY <1>2, <2>1
<1>4. Written(i) = ((c \o d) \o e) \o f
  BY <1>1 DEF Written
<1> QED
  BY <1>1, <1>3, <1>4

\* A symbol that is remembered in a part is remembered in the whole.
LEMMA OffersConcat ==
  ASSUME NEW s \in Seq(Calls), NEW t \in Seq(Calls), NEW k, Offers(s, k) \/ Offers(t, k)
  PROVE  Offers(s \o t, k)
<1>1. PICK r : r = s \o t
  OBVIOUS
<1>2. /\ r \in Seq(Calls) /\ Len(r) = Len(s) + Len(t) /\ Len(s) \in Nat /\ Len(t) \in Nat
      /\ \A n \in 1 .. Len(s) : r[n] = s[n]
      /\ \A n \in 1 .. Len(t) : r[n + Len(s)] = t[n]
  BY <1>1, ConcatProperties
<1>3. CASE Offers(s, k)
  <2>1. PICK n \in 1 .. Len(s) : Keeps(s[n], k)
    BY <1>3 DEF Offers
  <2>2. n \in DOMAIN r /\ r[n] = s[n]
    BY <1>2
  <2> QED
    BY <1>1, <2>1, <2>2 DEF Offers
<1>4. CASE Offers(t, k)
  <2>1. PICK n \in 1 .. Len(t) : Keeps(t[n], k)
    BY <1>4 DEF Offers
  <2>2. n + Len(s) \in DOMAIN r /\ r[n + Len(s)] = t[n]
    BY <1>2
  <2> QED
    BY <1>1, <2>1, <2>2 DEF Offers
<1> QED
  BY <1>3, <1>4

\* The function is remembered,
LEMMA TextOffered ==
  ASSUME NEW i \in Imports, i.machine # "other"
  PROVE  Offers(CodeCalls(i), "text")
<1>1. \A a, n, len : Offers(<<a, n, Symbol("text", len, TRUE, "text")>>, "text")
  <2> TAKE a, n, len
  <2>1. PICK t : t = Symbol("text", len, TRUE, "text")
    OBVIOUS
  <2>2. Keeps(t, "text")
    BY <2>1 DEF Keeps, Symbol
  <2>3. <<a, n, t>>[3] = t /\ 3 \in DOMAIN <<a, n, t>>
    OBVIOUS
  <2> QED
    BY <2>1, <2>2, <2>3 DEF Offers
<1>2. CASE i.machine \in {"alpha", "i386"}
  <2>1. PICK a, n : CodeCalls(i) = <<a, n, Symbol("text", SymbolLen(i), TRUE, "text")>>
    BY <1>2 DEF CodeCalls
  <2> QED
    BY <1>1, <2>1
<1>3. CASE i.machine = "powerpc"
  <2>1. PICK a, b, c, n, t, g, o :
          /\ a = Section(".text", 24, 1) /\ b = Section(".pdata", 20, 4)
          /\ c = Section(".reldata", 8, 2) /\ n = SymSec("none")
          /\ t = Symbol("text", SymbolLen(i) + 2, TRUE, "text")
          /\ g = Symbol("name", SymbolLen(i), TRUE, "none")
          /\ o = IF i.type = "ordinal" THEN <<>> ELSE <<n>>
    OBVIOUS
  <2>2. a \in Calls /\ b \in Calls /\ c \in Calls
    <3>1. a \in SectionCall /\ b \in SectionCall /\ c \in SectionCall
      <4>1. /\ ".text" \in SecNames /\ ".pdata" \in SecNames /\ ".reldata" \in SecNames
            /\ 24 \in Nat \ {0} /\ 1 \in Nat /\ 20 \in Nat \ {0} /\ 4 \in Nat /\ 8 \in Nat \ {0} /\ 2 \in Nat
        BY DEF SecNames
      <4> QED
        BY <2>1, <4>1, CallsTyped
    <3> QED
      BY <3>1, NotSections
  <2>3. n \in Calls
    <3>1. n \in SymSecCall
      BY <2>1, CallsTyped
    <3> QED
      BY <3>1, NotSections
  <2>4. t \in Calls /\ g \in Calls
    <3>1. SymbolLen(i) \in Nat
      BY LensAreNumbers
    <3>2. SymbolLen(i) + 2 \in Nat /\ "text" \in {"text", "imp"} /\ "name" \in SymNames
      BY <3>1 DEF SymNames
    <3>3. t \in SymbolCall
      BY <2>1, <3>2, CallsTyped
    <3>4. g \in SymbolCall
      BY <2>1, <3>1, <3>2, CallsTyped
    <3> QED
      BY <3>3, <3>4, NotSections
  <2>5. PICK s, r, q : s = <<a, n, t>> /\ r = <<b, n, c>> /\ q = <<g>>
    OBVIOUS
  <2>6. s \in Seq(Calls) /\ r \in Seq(Calls) /\ q \in Seq(Calls) /\ o \in Seq(Calls)
    <3>1. <<n>> \in Seq(Calls) /\ <<>> \in Seq(Calls) /\ (o = <<>> \/ o = <<n>>)
      BY <2>1, <2>3
    <3>2. o \in Seq(Calls)
      BY <3>1
    <3>3. s \in Seq(Calls) /\ r \in Seq(Calls) /\ q \in Seq(Calls)
      BY <2>2, <2>3, <2>4, <2>5
    <3> QED
      BY <3>2, <3>3
  <2>7. Offers(s, "text")
    BY <1>1, <2>1, <2>5
  <2>8. s \o r \in Seq(Calls) /\ (s \o r) \o o \in Seq(Calls)
    <3>1. \A x, y \in Seq(Calls) : x \o y \in Seq(Calls)
      OBVIOUS
    <3> QED
      BY <2>6, <3>1
  <2>9. Offers(s \o r, "text")
    BY <2>6, <2>7, OffersConcat
  <2>10. Offers((s \o r) \o o, "text")
    BY <2>6, <2>8, <2>9, OffersConcat
  <2>11. Offers(((s \o r) \o o) \o q, "text")
    BY <2>6, <2>8, <2>10, OffersConcat
  <2>12. CodeCalls(i) = ((s \o r) \o o) \o q
    BY <1>3, <2>1, <2>5 DEF CodeCalls
  <2> QED
    BY <2>11, <2>12
<1> QED
  BY <1>2, <1>3, Machines

\* and the import address, and the section of a name,
LEMMA ImportsOffered ==
  ASSUME NEW i \in Imports
  PROVE  /\ Offers(ImportCalls(i), "imp")
         /\ i.type # "ordinal" => Offers(ImportCalls(i), "idata6")
<1>1. SymbolLen(i) + 6 \in Nat /\ NameSize(i) \in Nat \ {0}
  <2>1. SymbolLen(i) \in Nat
    BY LensAreNumbers
  <2>2. PICK d \in Nat : d = DllSymbolLen(i)
    BY LensAreNumbers
  <2>3. NameSize(i) = 2 + (d \div 2) * 2 + 2
    BY <2>2 DEF NameSize
  <2>4. d \div 2 \in Nat
    OBVIOUS
  <2> QED
    BY <2>1, <2>3, <2>4
<1>2. PICK named \in {0, 1} : named = IF i.type = "ordinal" THEN 0 ELSE 1
  OBVIOUS
<1>3. PICK a, b, c, n, s, t, o :
        /\ a = Section(".idata$5", 4, named) /\ b = Section(".idata$4", 4, named)
        /\ c = Section(".idata$6", NameSize(i), 0) /\ n = SymSec("none") /\ t = SymSec("idata6")
        /\ s = Symbol("imp", SymbolLen(i) + 6, TRUE, "imp")
        /\ o = IF i.type = "ordinal" THEN <<>> ELSE <<c, t>>
  OBVIOUS
<1>4. a \in Calls /\ b \in Calls /\ c \in Calls
  <2>1. /\ ".idata$5" \in SecNames /\ ".idata$4" \in SecNames /\ ".idata$6" \in SecNames
        /\ 4 \in Nat \ {0} /\ named \in Nat /\ 0 \in Nat
    BY DEF SecNames
  <2>2. a \in SectionCall /\ b \in SectionCall /\ c \in SectionCall
    BY <1>1, <1>3, <2>1, CallsTyped
  <2> QED
    BY <2>2, NotSections
<1>5. n \in Calls /\ t \in Calls
  <2>1. n \in SymSecCall /\ t \in SymSecCall
    BY <1>3, CallsTyped
  <2> QED
    BY <2>1, NotSections
<1>6. s \in Calls
  <2>1. s \in SymbolCall
    BY <1>1, <1>3, CallsTyped
  <2> QED
    BY <2>1, NotSections
<1>7. PICK x, y, z : x = <<a, n, s>> /\ y = <<b, n>> /\ z = <<c, t>>
  OBVIOUS
<1>8. x \in Seq(Calls) /\ y \in Seq(Calls) /\ o \in Seq(Calls) /\ x \o y \in Seq(Calls)
  <2>1. x \in Seq(Calls) /\ y \in Seq(Calls) /\ z \in Seq(Calls) /\ <<>> \in Seq(Calls)
    BY <1>4, <1>5, <1>6, <1>7
  <2>2. o = <<>> \/ o = z
    BY <1>3, <1>7
  <2>3. x \o y \in Seq(Calls)
    BY <2>1
  <2> QED
    BY <2>1, <2>2, <2>3
<1>9. ImportCalls(i) = (x \o y) \o o
  BY <1>2, <1>3, <1>7 DEF ImportCalls
<1>10. Offers(ImportCalls(i), "imp")
  <2>1. Keeps(s, "imp") /\ x[3] = s /\ 3 \in DOMAIN x
    BY <1>3, <1>7 DEF Keeps, Symbol
  <2>2. Offers(x, "imp")
    BY <2>1 DEF Offers
  <2>3. Offers(x \o y, "imp")
    BY <1>8, <2>2, OffersConcat
  <2> QED
    BY <1>8, <1>9, <2>3, OffersConcat
<1>11. ASSUME i.type # "ordinal" PROVE Offers(ImportCalls(i), "idata6")
  <2>1. Keeps(t, "idata6") /\ z[2] = t /\ 2 \in DOMAIN z /\ o = z
    BY <1>3, <1>7, <1>11 DEF Keeps, SymSec
  <2>2. Offers(o, "idata6")
    BY <2>1 DEF Offers
  <2> QED
    BY <1>8, <1>9, <2>2, OffersConcat
<1> QED
  BY <1>10, <1>11

\* and the table of contents where there is one.
LEMMA TocOffered ==
  ASSUME NEW i \in Imports, i.machine = "powerpc"
  PROVE  Offers(OtherCalls(i), "toc")
<1>1. i.dll + 20 \in Nat
  <2>1. i.dll \in Nat
    BY LensAreNumbers
  <2> QED
    BY <2>1
<1>2. PICK a, b : a = Symbol("toc", 4, FALSE, "toc") /\ b = Symbol("descriptor", i.dll + 20, FALSE, "none")
  OBVIOUS
<1>3. a \in Calls /\ b \in Calls
  <2>1. "descriptor" \in SymNames /\ 4 \in Nat /\ FALSE \in BOOLEAN
    BY DEF SymNames
  <2>2. a \in SymbolCall
    BY <1>2, <2>1, CallsTyped
  <2>3. b \in SymbolCall
    BY <1>1, <1>2, <2>1, CallsTyped
  <2> QED
    BY <2>2, <2>3, NotSections
<1>4. PICK x, y : x = <<a>> /\ y = <<b>>
  OBVIOUS
<1>7. x \in Seq(Calls) /\ y \in Seq(Calls)
  BY <1>3, <1>4
<1>5. OtherCalls(i) = x \o y
  BY <1>2, <1>4 DEF OtherCalls
<1>6. Offers(x, "toc")
  <2>1. Keeps(a, "toc") /\ x[1] = a /\ 1 \in DOMAIN x
    BY <1>2, <1>4 DEF Keeps, Symbol
  <2> QED
    BY <2>1 DEF Offers
<1> QED
  BY <1>5, <1>6, <1>7, OffersConcat

\* What relocations need is declared.
LEMMA NeedsOffered ==
  ASSUME NEW i \in Imports, i.machine # "other", NEW k \in Needs(i)
  PROVE  Offers(Declared(i), k)
<1>1. PICK c, d, e : c = CodeCalls(i) /\ d = ImportCalls(i) /\ e = OtherCalls(i)
  OBVIOUS
<1>2. c \in Seq(Calls) /\ d \in Seq(Calls) /\ e \in Seq(Calls)
  BY <1>1, CodePart, ImportPart, OtherPart DEF Part, Good
<1>3. Declared(i) = (c \o d) \o e /\ c \o d \in Seq(Calls)
  BY <1>1, <1>2 DEF Declared
<1>4. Offers(c, k) \/ Offers(d, k) \/ Offers(e, k)
  BY <1>1, TextOffered, ImportsOffered, TocOffered DEF Needs
<1>5. CASE Offers(c, k) \/ Offers(d, k)
  <2>1. Offers(c \o d, k)
    BY <1>2, <1>5, OffersConcat
  <2> QED
    BY <1>2, <1>3, <2>1, OffersConcat
<1>6. CASE Offers(e, k)
  BY <1>2, <1>3, <1>6, OffersConcat
<1> QED
  BY <1>4, <1>5, <1>6

-----------------------------------------------------------------------------
(* The steps of the first part.                                            *)

\* The arrays of the file.
LEMMA FileTyped ==
  ASSUME NEW f \in File
  PROVE  /\ f.section \in Seq(Header) /\ f.symbol \in Seq(SymbolEntry)
         /\ Len(f.section) \in Nat /\ DOMAIN f.section = 1 .. Len(f.section)
         /\ Len(f.symbol) \in Nat /\ DOMAIN f.symbol = 1 .. Len(f.symbol)
<1>1. f.section \in Seq(Header) /\ f.symbol \in Seq(SymbolEntry)
  BY DEF File
<1> QED
  BY <1>1

\* A list without its first.
LEMMA TailOfCalls ==
  ASSUME NEW S, NEW s \in Seq(S), s # <<>>
  PROVE  /\ Head(s) = s[1] /\ s[1] \in S /\ Tail(s) \in Seq(S) /\ Len(Tail(s)) = Len(s) - 1
         /\ \A n \in 1 .. Len(s) - 1 : Tail(s)[n] = s[n + 1]
         /\ 1 \in DOMAIN s /\ Len(s) \in Nat \ {0} /\ DOMAIN s = 1 .. Len(s)
         /\ DOMAIN Tail(s) = 1 .. Len(s) - 1
OBVIOUS

\* What is ready stays so when the first call is made.
LEMMA ReadyTail ==
  ASSUME NEW s \in Seq(Calls), s # <<>>, NEW k, NEW last, NEW n \in 1 .. Len(s) - 1,
         Ready(s, n + 1, k, last)
  PROVE  Ready(Tail(s), n, k, IF s[1].call = "section" THEN s[1].name ELSE last)
<1>1. PICK t : t = Tail(s)
  OBVIOUS
<1>2. Len(s) \in Nat \ {0} /\ \A j \in 1 .. Len(s) - 1 : t[j] = s[j + 1]
  BY <1>1, TailOfCalls
<1>3. n + 1 - 1 = n
  OBVIOUS
<1>4. ASSUME NEW m \in 2 .. n, s[m].call = "section", s[m].name = Home[k],
             \A j \in m + 1 .. n : s[j].call # "section"
      PROVE  AtHome(t, n, k)
  <2>1. m - 1 \in 1 .. n - 1 /\ t[m - 1] = s[m]
    BY <1>2
  <2>2. \A j \in (m - 1) + 1 .. n - 1 : t[j].call # "section"
    <3> TAKE j \in (m - 1) + 1 .. n - 1
    <3>1. j + 1 \in m + 1 .. n /\ j \in 1 .. Len(s) - 1
      BY <1>2
    <3> QED
      BY <1>2, <1>4, <3>1
  <2> QED
    BY <1>4, <2>1, <2>2 DEF AtHome
<1>5. ASSUME \A j \in 2 .. n : s[j].call # "section"
      PROVE  NoSection(t, n)
  <2> SUFFICES ASSUME NEW j \in 1 .. n - 1 PROVE t[j].call # "section"
    BY DEF NoSection
  <2>1. j + 1 \in 2 .. n /\ j \in 1 .. Len(s) - 1
    BY <1>2
  <2> QED
    BY <1>2, <1>5, <2>1
<1>6. CASE AtHome(s, n + 1, k)
  <2>1. PICK m \in 1 .. n : /\ s[m].call = "section" /\ s[m].name = Home[k]
                            /\ \A j \in m + 1 .. n : s[j].call # "section"
    BY <1>3, <1>6 DEF AtHome
  <2>2. CASE m = 1
    <3>1. NoSection(t, n)
      <4>1. \A j \in 2 .. n : s[j].call # "section"
        BY <2>1, <2>2
      <4> QED
        BY <1>5, <4>1
    <3> QED
      BY <1>1, <2>1, <2>2, <3>1 DEF Ready
  <2>3. CASE m # 1
    <3>1. m \in 2 .. n
      BY <2>3
    <3>2. AtHome(t, n, k)
      BY <1>4, <2>1, <3>1
    <3> QED
      BY <1>1, <3>2 DEF Ready
  <2> QED
    BY <2>2, <2>3
<1>7. CASE NoSection(s, n + 1) /\ last = Home[k]
  <2>1. \A j \in 1 .. n : s[j].call # "section"
    BY <1>3, <1>7 DEF NoSection
  <2>2. 1 \in 1 .. n /\ \A j \in 2 .. n : j \in 1 .. n
    OBVIOUS
  <2>3. s[1].call # "section" /\ \A j \in 2 .. n : s[j].call # "section"
    BY <2>1, <2>2
  <2>4. NoSection(t, n)
    BY <1>5, <2>3
  <2> QED
    BY <1>1, <1>7, <2>3, <2>4 DEF Ready
<1> QED
  BY <1>6, <1>7 DEF Ready

\* The first of a list is ready if it goes into the last section.
LEMMA ReadyFirst ==
  ASSUME NEW s, NEW k, NEW last, Ready(s, 1, k, last)
  PROVE  last = Home[k]
BY DEF Ready, AtHome

\* The list offers less without its first.
LEMMA OffersTail ==
  ASSUME NEW s \in Seq(Calls), s # <<>>, NEW k, Offers(s, k)
  PROVE  Keeps(s[1], k) \/ Offers(Tail(s), k)
<1>1. PICK n \in 1 .. Len(s) : Keeps(s[n], k)
  BY DEF Offers
<1>2. CASE n = 1
  BY <1>1, <1>2
<1>3. CASE n # 1
  <2>1. n - 1 \in 1 .. Len(s) - 1
    BY <1>3
  <2>2. n - 1 \in DOMAIN Tail(s) /\ Tail(s)[n - 1] = s[n]
    BY <2>1, TailOfCalls
  <2> QED
    BY <1>1, <2>2 DEF Offers
<1> QED
  BY <1>2, <1>3

\* Sections and symbols are added and stay.
Grows ==
  /\ Len(c_file.symbol) <= Len(c_file'.symbol)
  /\ \A n \in DOMAIN c_file.symbol : c_file'.symbol[n] = c_file.symbol[n]
  /\ Len(c_file.section) <= Len(c_file'.section)
  /\ \A n \in DOMAIN c_file.section : c_file'.section[n].name = c_file.section[n].name

\* A remembered symbol stays what it is while others are added.
LEMMA MeetsStays ==
  ASSUME TypesInv, TypesInv', Grows, NEW k, number'[k] = number[k], Meets(k)
  PROVE  Meets(k)'
<1>1. PICK x, l, y, z, n, m :
        /\ x = number[k] /\ l = Len(c_file.symbol) /\ y = Len(c_file.section)
        /\ z = c_file.symbol[x + 1] /\ n = Len(c_file'.symbol) /\ m = Len(c_file'.section)
  OBVIOUS
<1>2. /\ l \in Nat /\ y \in Nat /\ n \in Nat /\ m \in Nat
      /\ DOMAIN c_file.symbol = 1 .. l /\ DOMAIN c_file.section = 1 .. y
  <2>1. c_file \in File /\ c_file' \in File
    BY DEF TypesInv
  <2> QED
    BY <1>1, <2>1, FileTyped
<1>3. x \in 0 .. l - 1 /\ ~z.aux /\ z.name = (IF k = "idata6" THEN "section" ELSE k)
      /\ z.sec \in 0 .. y /\ SecName(z.sec) = Home[k]
  BY <1>1 DEF Meets
<1>4. l <= n /\ y <= m
  BY <1>1 DEF Grows
<1>5. x + 1 \in 1 .. l /\ x \in 0 .. n - 1 /\ z.sec \in 0 .. m
  BY <1>2, <1>3, <1>4
<1>6. c_file'.symbol[x + 1] = z
  BY <1>1, <1>2, <1>5 DEF Grows
<1>7. SecName(z.sec)' = SecName(z.sec)
  <2>1. CASE z.sec = 0
    BY <2>1 DEF SecName
  <2>2. CASE z.sec # 0
    <3>1. z.sec \in DOMAIN c_file.section
      BY <1>2, <1>3, <2>2
    <3>2. c_file'.section[z.sec].name = c_file.section[z.sec].name
      BY <3>1 DEF Grows
    <3> QED
      BY <2>2, <3>2 DEF SecName
  <2> QED
    BY <2>1, <2>2
<1>8. number'[k] = x
  BY <1>1
<1>9. /\ number'[k] \in 0 .. Len(c_file'.symbol) - 1
      /\ c_file'.symbol[number'[k] + 1] = z
      /\ z.sec \in 0 .. Len(c_file'.section)
  BY <1>1, <1>5, <1>6, <1>8
<1> QED
  BY <1>3, <1>7, <1>9 DEF Meets

\* What a call leaves of its list.
LEMMA AfterCalled ==
  ASSUME TypesInv, NEW call, Called(call)
  PROVE  /\ todo \in Seq(Calls) /\ todo # <<>> /\ Head(todo) = todo[1] /\ todo[1] \in Calls
         /\ todo' = Tail(todo) /\ todo' \in Seq(Calls) /\ Len(todo') = Len(todo) - 1
         /\ Len(todo) \in Nat \ {0} /\ todo[1].call = call
         /\ stage = "declare" /\ stage' = "declare" /\ import' = import /\ out' = out
         /\ import.machine # "other"
<1>1. /\ todo \in Seq(Calls) /\ todo # <<>> /\ todo' = Tail(todo) /\ Head(todo).call = call
      /\ stage = "declare" /\ stage' = "declare" /\ import' = import /\ out' = out
      /\ import.machine # "other"
  BY DEF TypesInv, Called
<1>2. /\ Head(todo) = todo[1] /\ todo[1] \in Calls /\ Tail(todo) \in Seq(Calls)
      /\ Len(Tail(todo)) = Len(todo) - 1 /\ Len(todo) \in Nat \ {0}
  BY <1>1, TailOfCalls
<1> QED
  BY <1>1, <1>2

\* The types after a call, if the file and the numbers have theirs.
LEMMA TypesAfterCall ==
  ASSUME TypesInv, NEW call, Called(call), c_file' \in File, number' \in [Kept -> Int]
  PROVE  TypesInv'
BY AfterCalled DEF TypesInv

\* The numbers after a call, if the symbol it remembers is the one that is meant.
LEMMA NumbersAfterCall ==
  ASSUME TypesInv, TypesInv', NumbersInv, NEW call, Called(call), Grows,
         SecName(Len(c_file.section))'
           = IF todo[1].call = "section" THEN todo[1].name ELSE SecName(Len(c_file.section)),
         \A k \in Kept : Keeps(todo[1], k) => Meets(k)',
         \A k \in Kept : ~Keeps(todo[1], k) => number'[k] = number[k]
  PROVE  NumbersInv' /\ RelocsMeetSymbols'
<1>1. /\ todo \in Seq(Calls) /\ todo # <<>> /\ todo' = Tail(todo) /\ stage = "declare"
      /\ stage' = "declare" /\ import' = import /\ out' = out /\ import.machine # "other"
  BY AfterCalled
<1>2. PICK last : last = SecName(Len(c_file.section))
  OBVIOUS
<1>3. ASSUME NEW n \in DOMAIN todo', NEW k \in Kept \ {"toc"}, Keeps(todo'[n], k)
      PROVE  Ready(todo', n, k, SecName(Len(c_file.section))')
  <2>1. n \in 1 .. Len(todo) - 1 /\ todo'[n] = todo[n + 1] /\ n + 1 \in DOMAIN todo
    BY <1>1, <1>3, TailOfCalls
  <2>2. Ready(todo, n + 1, k, last)
    BY <1>1, <1>2, <1>3, <2>1 DEF NumbersInv
  <2>3. Ready(Tail(todo), n, k, IF todo[1].call = "section" THEN todo[1].name ELSE last)
    BY <1>1, <2>1, <2>2, ReadyTail
  <2> QED
    BY <1>1, <1>2, <2>3
<1>4. ASSUME NEW k \in Needs(import) PROVE Meets(k)' \/ Offers(todo', k)
  <2>0. k \in Kept
    BY DEF Needs, Kept
  <2>1. CASE Keeps(todo[1], k)
    BY <2>0, <2>1
  <2>2. CASE ~Keeps(todo[1], k)
    <3>1. number'[k] = number[k]
      BY <2>0, <2>2
    <3>2. CASE Meets(k)
      BY <3>1, <3>2, MeetsStays
    <3>3. CASE Offers(todo, k)
      BY <1>1, <2>2, <3>3, OffersTail
    <3> QED
      BY <1>1, <3>2, <3>3 DEF NumbersInv
  <2> QED
    BY <2>1, <2>2
<1>5. out' = <<>>
  BY <1>1 DEF NumbersInv
<1>6. NumbersInv'
  BY <1>1, <1>3, <1>4, <1>5 DEF NumbersInv
<1>7. RelocsMeetSymbols'
  BY <1>5 DEF RelocsMeetSymbols
<1> QED
  BY <1>6, <1>7

\* A header says what its section was declared with.
LEMMA AsCallsAppended ==
  ASSUME NEW secs \in Seq(Header), NEW h \in Header, NEW c \in SectionCall,
         h.name = c.name, h.size = c.size, h.num_relocs = c.relocs
  PROVE  AsCalls(Append(secs, h)) = Append(AsCalls(secs), c)
<1>1. PICK l \in Nat : l = Len(secs)
  OBVIOUS
<1>2. PICK r : r = Append(secs, h)
  OBVIOUS
<1>3. /\ r \in Seq(Header) /\ Len(r) = l + 1 /\ r[l + 1] = h
      /\ DOMAIN r = 1 .. l + 1 /\ DOMAIN secs = 1 .. l
      /\ \A n \in 1 .. l : r[n] = secs[n]
  BY <1>1, <1>2
<1>4. c = [call |-> "section", name |-> h.name, size |-> h.size, relocs |-> h.num_relocs]
  BY DEF SectionCall
<1>5. PICK a, b : a = AsCalls(r) /\ b = AsCalls(secs)
  OBVIOUS
<1>6. /\ a \in Seq(SectionCall) /\ Len(a) = l + 1
      /\ b \in Seq(SectionCall) /\ Len(b) = l
      /\ \A n \in 1 .. l : a[n] = b[n]
      /\ a[l + 1] = c
  <2>1. \A g \in Header : [call |-> "section", name |-> g.name, size |-> g.size, relocs |-> g.num_relocs]
                            \in SectionCall
    BY DEF Header, SectionCall
  <2>2. (\A n \in 1 .. l + 1 : r[n] \in Header) /\ (\A n \in 1 .. l : secs[n] \in Header)
    BY <1>3
  <2>3. a \in Seq(SectionCall) /\ Len(a) = l + 1
    BY <1>3, <1>5, <2>1, <2>2 DEF AsCalls
  <2>4. b \in Seq(SectionCall) /\ Len(b) = l
    BY <1>3, <1>5, <2>1, <2>2 DEF AsCalls
  <2>5. \A n \in 1 .. l : a[n] = b[n]
    BY <1>3, <1>5 DEF AsCalls
  <2>6. a[l + 1] = c
    <3>1. l + 1 \in 1 .. l + 1
      OBVIOUS
    <3> QED
      BY <1>3, <1>4, <1>5, <3>1 DEF AsCalls
  <2> QED
    BY <2>3, <2>4, <2>5, <2>6
<1>7. PICK d : d = Append(b, c)
  OBVIOUS
<1>8. /\ d \in Seq(SectionCall) /\ Len(d) = l + 1 /\ d[l + 1] = c
      /\ \A n \in 1 .. l : d[n] = b[n]
  BY <1>6, <1>7
<1>9. \A n \in 1 .. l + 1 : a[n] = d[n]
  <2> TAKE n \in 1 .. l + 1
  <2>1. n \in 1 .. l \/ n = l + 1
    OBVIOUS
  <2> QED
    BY <1>6, <1>8, <2>1
<1>10. a = d
  BY <1>6, <1>8, <1>9, SeqEqual
<1> QED
  BY <1>2, <1>5, <1>7, <1>10

\* Headers are as many as the calls that made them.
LEMMA AsCallsTyped ==
  ASSUME NEW secs \in Seq(Header)
  PROVE  AsCalls(secs) \in Seq(SectionCall) /\ Len(AsCalls(secs)) = Len(secs)
<1>1. \A g \in Header : [call |-> "section", name |-> g.name, size |-> g.size, relocs |-> g.num_relocs]
                          \in SectionCall
  BY DEF Header, SectionCall
<1>2. Len(secs) \in Nat /\ DOMAIN secs = 1 .. Len(secs) /\ \A n \in DOMAIN secs : secs[n] \in Header
  OBVIOUS
<1> QED
  BY <1>1, <1>2 DEF AsCalls

\* The sections of a list and its first call.
LEMMA ThoseOfTail ==
  ASSUME NEW s \in Seq(Calls), s # <<>>
  PROVE  /\ s[1] \in SectionCall => Those(s, SectionCall) = <<s[1]>> \o Those(Tail(s), SectionCall)
         /\ s[1] \notin SectionCall => Those(s, SectionCall) = Those(Tail(s), SectionCall)
<1>1. PICK x, t : x = s[1] /\ t = Tail(s)
  OBVIOUS
<1>2. s = <<x>> \o t /\ x \in Calls /\ t \in Seq(Calls)
  BY <1>1, Uppermost
<1>3. Those(<<x>> \o t, SectionCall)
        = IF x \in SectionCall THEN <<x>> \o Those(t, SectionCall) ELSE Those(t, SectionCall)
  BY <1>2, ThoseInFront
<1> QED
  BY <1>1, <1>2, <1>3

\* The first goes from one list to the end of the other.
LEMMA SectionMoves ==
  ASSUME NEW secs \in Seq(Header), NEW s \in Seq(Calls), s # <<>>, s[1] \in SectionCall,
         NEW h \in Header,
         h.name = s[1].name, h.size = s[1].size, h.num_relocs = s[1].relocs
  PROVE  AsCalls(Append(secs, h)) \o Those(Tail(s), SectionCall)
           = AsCalls(secs) \o Those(s, SectionCall)
<1>1. PICK a, b, c : /\ a = AsCalls(secs) /\ b = Those(Tail(s), SectionCall) /\ c = s[1]
  OBVIOUS
<1>2. a \in Seq(SectionCall) /\ b \in Seq(SectionCall) /\ c \in SectionCall
  <2>1. a \in Seq(SectionCall)
    BY <1>1, AsCallsTyped
  <2>2. Tail(s) \in Seq(Calls)
    BY TailOfCalls
  <2>3. b \in Seq(Calls \cap SectionCall)
    BY <1>1, <2>2, ThoseType
  <2>4. b \in Seq(SectionCall)
    BY <2>3
  <2> QED
    BY <1>1, <2>1, <2>4
<1>3. AsCalls(Append(secs, h)) = Append(a, c)
  BY <1>1, <1>2, AsCallsAppended
<1>4. Those(s, SectionCall) = <<c>> \o b
  BY <1>1, <1>2, ThoseOfTail
<1>5. Append(a, c) \o b = a \o (<<c>> \o b)
  <2>1. <<c>> \in Seq(SectionCall) /\ Append(a, c) = a \o <<c>>
    BY <1>2, AppendIsConcat
  <2> QED
    BY <1>2, <2>1, ConcatAssociative
<1> QED
  BY <1>1, <1>3, <1>4, <1>5

\* Sections are counted by what was declared.
LEMMA FewSections ==
  ASSUME TypesInv, SectionsInv
  PROVE  Len(c_file.section) <= 6
<1>1. c_file \in File /\ import \in Imports
  BY DEF TypesInv
<1>2. PICK secs \in Seq(Header) : secs = c_file.section
  BY <1>1, FileTyped
<1>3. PICK a : a = AsCalls(secs)
  OBVIOUS
<1>4. a \in Seq(SectionCall) /\ Len(a) = Len(secs) /\ Len(secs) \in Nat
  BY <1>3, AsCallsTyped
<1>5. Plan(import) \in Seq(SectionCall) /\ Len(Plan(import)) <= 6 /\ Len(Plan(import)) \in Nat
  BY <1>1, DeclaredPart
<1>6. CASE stage = "declare"
  <2>1. todo \in Seq(Calls)
    BY <1>6 DEF TypesInv
  <2>2. PICK b : b = Those(todo, SectionCall)
    OBVIOUS
  <2>3. b \in Seq(Calls \cap SectionCall)
    BY <2>1, <2>2, ThoseType
  <2>4. b \in Seq(SectionCall)
    BY <2>3
  <2>5. a \o b = Plan(import)
    BY <1>2, <1>3, <1>6, <2>2 DEF SectionsInv
  <2>6. Len(a \o b) = Len(a) + Len(b) /\ Len(b) \in Nat
    BY <1>4, <2>4
  <2> QED
    BY <1>2, <1>4, <1>5, <2>5, <2>6
<1>7. CASE stage \in {"write", "done"}
  <2>1. a = Plan(import)
    BY <1>2, <1>3, <1>7 DEF SectionsInv
  <2> QED
    BY <1>2, <1>4, <1>5, <2>1
<1>8. CASE stage = "refused"
  <2>1. Len(secs) <= Len(Plan(import))
    BY <1>2, <1>8 DEF SectionsInv
  <2> QED
    BY <1>2, <1>4, <1>5, <2>1
<1> QED
  BY <1>6, <1>7, <1>8 DEF TypesInv

\* A call makes at most two entries, or a section for two.
LEMMA EntriesCounted ==
  ASSUME NEW n \in Nat, NEW l \in Nat, NEW y \in Nat
  PROVE  /\ n <= l + 2 => n + 2 * y <= l + 2 * y + 2
         /\ l + 2 * (y + 1) <= l + 2 * y + 2
OBVIOUS

\* What SymbolsInv says of a call that adds sections or symbols.
LEMMA SymbolsAfterCall ==
  ASSUME TypesInv, TypesInv', SymbolsInv, NEW call, Called(call), Grows,
         c_file.section = <<>> => call = "section",
         \A n \in DOMAIN c_file'.symbol : c_file'.symbol[n].sec <= Len(c_file'.section),
         c_file'.section # <<>>,
         Len(c_file'.symbol) + 2 * Len(c_file'.section)
           <= Len(c_file.symbol) + 2 * Len(c_file.section) + 2,
         \A k \in Kept : number'[k] = number[k] \/ number'[k] \in 0 .. Len(c_file'.symbol) - 1
  PROVE  SymbolsInv'
<1>1. /\ Len(todo') = Len(todo) - 1 /\ Len(todo) \in Nat \ {0} /\ stage = "declare"
      /\ import' = import
  BY AfterCalled
<1>2. PICK l, y, n, m, q, d :
        /\ l = Len(c_file.symbol) /\ y = Len(c_file.section)
        /\ n = Len(c_file'.symbol) /\ m = Len(c_file'.section) /\ q = Len(todo)
        /\ d = Len(Declared(import))
  OBVIOUS
<1>3. l \in Nat /\ y \in Nat /\ n \in Nat /\ m \in Nat /\ q \in Nat \ {0} /\ d \in Nat /\ d <= 17
  <2>1. c_file \in File /\ c_file' \in File /\ import \in Imports
    BY DEF TypesInv
  <2>2. l \in Nat /\ y \in Nat /\ n \in Nat /\ m \in Nat
    BY <1>2, <2>1, FileTyped
  <2>3. Good(Declared(import)) /\ d <= 17
    BY <1>2, <2>1, DeclaredPart
  <2>4. Declared(import) \in Seq(Calls)
    BY <2>3 DEF Good
  <2>5. d \in Nat
    BY <1>2, <2>4
  <2> QED
    BY <1>1, <1>2, <2>2, <2>3, <2>5
<1>4. l + 2 * y + 2 * q <= 2 * d
  BY <1>1, <1>2 DEF SymbolsInv
<1>5. n + 2 * m <= l + 2 * y + 2
  BY <1>2
<1>6. n + 2 * m + 2 * (q - 1) <= 2 * d
  BY <1>3, <1>4, <1>5
<1>7. m > 0
  <2>1. c_file' \in File
    BY DEF TypesInv
  <2>2. c_file'.section \in Seq(Header)
    BY <2>1, FileTyped
  <2>3. Len(c_file'.section) # 0
    BY <2>2
  <2> QED
    BY <1>2, <1>3, <2>3
<1>8. n <= 32
  BY <1>3, <1>6, <1>7
<1>9. ASSUME NEW k \in Kept PROVE number'[k] \in {NotSet, 0} \cup 0 .. n - 1
  <2>1. number[k] \in {NotSet, 0} \cup 0 .. l - 1
    BY <1>2 DEF SymbolsInv
  <2>2. l <= n
    BY <1>2 DEF Grows
  <2>3. number[k] \in {NotSet, 0} \cup 0 .. n - 1
    BY <1>3, <2>1, <2>2
  <2>4. number'[k] = number[k] \/ number'[k] \in 0 .. n - 1
    BY <1>2
  <2> QED
    BY <2>3, <2>4
<1>10. n <= MAX_NUM_COFF_LIB_SYMBOLS
  BY <1>8 DEF MAX_NUM_COFF_LIB_SYMBOLS
<1> QED
  BY <1>1, <1>2, <1>6, <1>9, <1>10 DEF SymbolsInv

\* Nothing but a section is declared before the first section.
LEMMA SectionComesFirst ==
  ASSUME TypesInv, SymbolsInv, NEW call, Called(call), c_file.section = <<>>
  PROVE  call = "section" /\ c_file.symbol = <<>>
<1>1. stage = "declare" /\ todo[1].call = call /\ import \in Imports
  BY AfterCalled DEF TypesInv
<1>2. todo = Declared(import) /\ c_file.symbol = <<>>
  BY <1>1 DEF SymbolsInv
<1>3. Starts(Declared(import))
  BY <1>1, FirstDeclared
<1> QED
  BY <1>1, <1>2, <1>3 DEF Starts

\* AddCoffSection keeps the invariant: the section is the next one of the plan.
LEMMA AddSectionStep ==
  ASSUME Inv, AddCoffSection
  PROVE  Inv'
<1>1. Called("section") /\ TypesInv /\ SymbolsInv /\ SectionsInv /\ NumbersInv
  BY DEF Inv, AddCoffSection
<1>2. /\ todo \in Seq(Calls) /\ todo # <<>> /\ Head(todo) = todo[1] /\ todo[1] \in Calls
      /\ todo' = Tail(todo) /\ todo[1].call = "section" /\ stage = "declare"
      /\ stage' = "declare" /\ import' = import
  BY <1>1, AfterCalled
<1>3. todo[1] \in SectionCall
  BY <1>2 DEF Calls, SymSecCall, SymbolCall
<1>4. PICK s, h : /\ s = todo[1]
                  /\ h = [name |-> s.name, size |-> s.size, num_relocs |-> s.relocs,
                          rawdata_ptr |-> 0, reloc_ptr |-> 0]
  OBVIOUS
<1>5. h \in Header /\ h.name = s.name /\ h.size = s.size /\ h.num_relocs = s.relocs
  BY <1>3, <1>4 DEF SectionCall, Header
<1>6. PICK f, g : f = c_file /\ g = c_file'
  OBVIOUS
<1>7. f \in File /\ number' = number /\ g = [f EXCEPT !.section = Append(@, h)]
  BY <1>1, <1>2, <1>4, <1>6 DEF AddCoffSection, TypesInv
<1>8. PICK secs, l : secs = f.section /\ l = Len(secs)
  OBVIOUS
<1>9. secs \in Seq(Header) /\ l \in Nat /\ DOMAIN secs = 1 .. l
  BY <1>7, <1>8, FileTyped
<1>10. g \in File /\ g.section = Append(secs, h) /\ g.symbol = f.symbol
  <2>1. Append(secs, h) \in Seq(Header)
    BY <1>5, <1>9
  <2> QED
    BY <1>7, <1>8, <2>1 DEF File
<1>11. /\ Len(g.section) = l + 1 /\ g.section[l + 1] = h /\ g.section # <<>>
       /\ \A n \in 1 .. l : g.section[n] = secs[n]
  BY <1>5, <1>9, <1>10
<1>12. TypesInv'
  <2>1. number' \in [Kept -> Int]
    BY <1>1, <1>7 DEF TypesInv
  <2> QED
    BY <1>1, <1>6, <1>10, <2>1, TypesAfterCall
<1>13. Grows
  <2>1. Len(f.symbol) \in Nat
    BY <1>7, FileTyped
  <2> QED
    BY <1>6, <1>8, <1>9, <1>10, <1>11, <2>1 DEF Grows
<1>14. SectionsInv'
  <2>1. AsCalls(Append(secs, h)) \o Those(Tail(todo), SectionCall)
          = AsCalls(secs) \o Those(todo, SectionCall)
    BY <1>2, <1>3, <1>4, <1>5, <1>9, SectionMoves
  <2>2. AsCalls(secs) \o Those(todo, SectionCall) = Plan(import)
    BY <1>1, <1>2, <1>6, <1>8 DEF SectionsInv
  <2> QED
    BY <1>2, <1>6, <1>10, <2>1, <2>2 DEF SectionsInv
<1>15. SymbolsInv'
  <2>1. \A n \in DOMAIN g.symbol : g.symbol[n].sec <= Len(g.section)
    <3> TAKE n \in DOMAIN g.symbol
    <3>1. f.symbol[n].sec <= l
      BY <1>1, <1>6, <1>8, <1>10 DEF SymbolsInv
    <3>2. f.symbol[n] \in SymbolEntry
      <4>1. f.symbol \in Seq(SymbolEntry)
        BY <1>7, FileTyped
      <4> QED
        BY <1>10, <4>1
    <3>3. f.symbol[n].sec \in Nat
      BY <3>2 DEF SymbolEntry
    <3> QED
      BY <1>9, <1>10, <1>11, <3>1, <3>3
  <2>2. Len(g.symbol) + 2 * Len(g.section) <= Len(f.symbol) + 2 * Len(f.section) + 2
    <3>1. PICK x \in Nat : x = Len(f.symbol)
      BY <1>7, FileTyped
    <3>2. Len(g.symbol) = x /\ Len(g.section) = l + 1 /\ Len(f.section) = l
      BY <1>8, <1>10, <1>11, <3>1
    <3> QED
      BY <1>9, <3>1, <3>2, EntriesCounted
  <2> QED
    BY <1>1, <1>6, <1>7, <1>11, <1>12, <1>13, <2>1, <2>2, SymbolsAfterCall
<1>16. NumbersInv' /\ RelocsMeetSymbols'
  <2>1. SecName(Len(c_file.section))' = s.name
    <3>1. Len(c_file'.section) = l + 1 /\ c_file'.section[l + 1].name = s.name /\ l + 1 # 0
      BY <1>5, <1>6, <1>9, <1>11
    <3> QED
      BY <3>1 DEF SecName
  <2>2. \A k \in Kept : ~Keeps(todo[1], k)
    BY <1>2 DEF Keeps
  <2> QED
    BY <1>1, <1>2, <1>4, <1>7, <1>12, <1>13, <2>1, <2>2, NumbersAfterCall
<1> QED
  BY <1>12, <1>14, <1>15, <1>16 DEF Inv

\* A call adds n - l entries, of which e is the first, for a symbol of the last
\* section or of none, and remembers the number of e.
AddsSymbols(l, n, e) ==
  /\ c_file'.section = c_file.section
  /\ l = Len(c_file.symbol) /\ n = Len(c_file'.symbol) /\ l < n /\ n <= l + 2
  /\ \A j \in 1 .. l : c_file'.symbol[j] = c_file.symbol[j]
  /\ \A j \in l + 1 .. n : c_file'.symbol[j].sec <= Len(c_file.section)
  /\ e = c_file'.symbol[l + 1] /\ ~e.aux
  /\ \A k \in Kept : Keeps(todo[1], k) =>
       /\ number'[k] = l /\ e.name = (IF k = "idata6" THEN "section" ELSE k)
       /\ e.sec = IF k = "toc" THEN 0 ELSE Len(c_file.section)
  /\ \A k \in Kept : ~Keeps(todo[1], k) => number'[k] = number[k]

\* A call that adds symbols keeps it: they are in the last section, and the number
\* that is remembered is that of the first entry.
LEMMA AddSymbolsStep ==
  ASSUME Inv, NEW call, call # "section", Called(call), c_file' \in File,
         number' \in [Kept -> Int], NEW l, NEW n, NEW e, AddsSymbols(l, n, e)
  PROVE  Inv'
<1>1. TypesInv /\ SectionsInv /\ SymbolsInv /\ NumbersInv
  BY DEF Inv
<1>2. /\ todo \in Seq(Calls) /\ todo # <<>> /\ todo[1] \in Calls /\ Len(todo) \in Nat \ {0}
      /\ todo' = Tail(todo) /\ todo[1].call = call /\ stage = "declare"
      /\ stage' = "declare" /\ import' = import
  BY <1>1, AfterCalled
<1>3. TypesInv'
  BY <1>1, TypesAfterCall
<1>4. PICK y : y = Len(c_file.section)
  OBVIOUS
<1>5. /\ c_file'.section = c_file.section
      /\ l = Len(c_file.symbol) /\ n = Len(c_file'.symbol) /\ l < n /\ n <= l + 2
      /\ e = c_file'.symbol[l + 1] /\ ~e.aux
  BY DEF AddsSymbols
<1>6. /\ l \in Nat /\ n \in Nat /\ y \in Nat
      /\ DOMAIN c_file.symbol = 1 .. l /\ DOMAIN c_file'.symbol = 1 .. n
  <2>1. c_file \in File
    BY <1>1 DEF TypesInv
  <2> QED
    BY <1>4, <1>5, <2>1, FileTyped
<1>7. l \in 0 .. n - 1
  BY <1>5, <1>6
<1>8. /\ \A k \in Kept : Keeps(todo[1], k) =>
           /\ number'[k] = l /\ e.name = (IF k = "idata6" THEN "section" ELSE k)
           /\ e.sec = IF k = "toc" THEN 0 ELSE y
      /\ \A k \in Kept : ~Keeps(todo[1], k) => number'[k] = number[k]
  BY <1>4 DEF AddsSymbols
<1>9. \A j \in 1 .. l : c_file'.symbol[j] = c_file.symbol[j]
  BY DEF AddsSymbols
<1>10. Grows
  BY <1>5, <1>6, <1>9 DEF Grows
<1>11. c_file.section # <<>>
  BY <1>1, SectionComesFirst
<1>12. SectionsInv'
  <2>1. todo[1] \notin SectionCall
    BY <1>2 DEF SectionCall
  <2>2. Those(todo, SectionCall) = Those(Tail(todo), SectionCall)
    BY <1>2, <2>1, ThoseOfTail
  <2> QED
    BY <1>1, <1>2, <1>5, <2>2 DEF SectionsInv
<1>13. SymbolsInv'
  <2>1. \A j \in 1 .. n : c_file'.symbol[j].sec <= y
    <3> TAKE j \in 1 .. n
    <3>1. CASE j \in 1 .. l
      BY <1>1, <1>4, <1>6, <1>9, <3>1 DEF SymbolsInv
    <3>2. CASE j \in l + 1 .. n
      BY <1>4, <3>2 DEF AddsSymbols
    <3> QED
      BY <1>6, <3>1, <3>2
  <2>2. n + 2 * y <= l + 2 * y + 2
    BY <1>5, <1>6, EntriesCounted
  <2>3. \A k \in Kept : number'[k] = number[k] \/ number'[k] \in 0 .. n - 1
    BY <1>7, <1>8
  <2> QED
    BY <1>1, <1>3, <1>4, <1>5, <1>6, <1>10, <1>11, <2>1, <2>2, <2>3, SymbolsAfterCall
<1>14. SecName(y)' = SecName(y) /\ SecName(0)' = "none"
  BY <1>5 DEF SecName
<1>15. ASSUME NEW k \in Kept, Keeps(todo[1], k) PROVE Meets(k)'
  <2>1. number'[k] = l /\ c_file'.symbol[number'[k] + 1] = e
    BY <1>5, <1>8, <1>15
  <2>2. e.name = (IF k = "idata6" THEN "section" ELSE k)
    BY <1>8, <1>15
  <2>3. e.sec \in 0 .. y /\ SecName(e.sec)' = Home[k]
    <3>1. CASE k = "toc"
      <4>1. e.sec = 0 /\ Home[k] = "none"
        BY <1>8, <1>15, <3>1 DEF Home, Kept
      <4> QED
        BY <1>6, <1>14, <4>1
    <3>2. CASE k # "toc"
      <4>1. Ready(todo, 1, k, SecName(y))
        <5>1. 1 \in DOMAIN todo
          BY <1>2
        <5> QED
          BY <1>1, <1>2, <1>4, <1>15, <3>2, <5>1 DEF NumbersInv
      <4>2. SecName(y) = Home[k]
        BY <4>1, ReadyFirst
      <4>3. e.sec = y
        BY <1>8, <1>15, <3>2
      <4> QED
        BY <1>6, <1>14, <4>2, <4>3
    <3> QED
      BY <3>1, <3>2
  <2>4. Len(c_file'.section) = y /\ n = Len(c_file'.symbol)
    BY <1>4, <1>5
  <2> QED
    BY <1>5, <1>7, <2>1, <2>2, <2>3, <2>4 DEF Meets
<1>16. NumbersInv' /\ RelocsMeetSymbols'
  <2>1. SecName(Len(c_file.section))' = SecName(Len(c_file.section))
    BY <1>4, <1>5, <1>14
  <2> QED
    BY <1>1, <1>2, <1>3, <1>8, <1>10, <1>15, <2>1, NumbersAfterCall
<1> QED
  BY <1>3, <1>12, <1>13, <1>16 DEF Inv

\* The numbers that are remembered.
LEMMA RememberedAs ==
  ASSUME number \in [Kept -> Int], NEW keep, NEW n \in Nat
  PROVE  /\ Remembered(keep, n) \in [Kept -> Int]
         /\ \A k \in Kept : Remembered(keep, n)[k] = IF k = keep THEN n ELSE number[k]
BY DEF Remembered

\* Two more at the end.
LEMMA TwoBehind ==
  ASSUME NEW S, NEW s \in Seq(S), NEW a \in S, NEW b \in S
  PROVE  /\ s \o <<a, b>> \in Seq(S) /\ Len(s \o <<a, b>>) = Len(s) + 2
         /\ (s \o <<a, b>>)[Len(s) + 1] = a /\ (s \o <<a, b>>)[Len(s) + 2] = b
         /\ \A j \in 1 .. Len(s) : (s \o <<a, b>>)[j] = s[j]
OBVIOUS

\* AddCoffSymSec adds two entries.
LEMMA AddSymSecStep ==
  ASSUME Inv, AddCoffSymSec
  PROVE  Inv'
<1>1. Called("symsec") /\ TypesInv
  BY DEF Inv, AddCoffSymSec
<1>2. todo[1].call = "symsec" /\ Head(todo) = todo[1] /\ todo[1] \in Calls
  BY <1>1, AfterCalled
<1>3. PICK f, g, s, y, l, a, b :
        /\ f = c_file /\ g = c_file' /\ s = todo[1] /\ y = Len(f.section) /\ l = Len(f.symbol)
        /\ a = Entry("section", y, 0, FALSE) /\ b = Entry("section", y, 0, TRUE)
  OBVIOUS
<1>4. /\ f \in File /\ number' = Remembered(s.keep, l)
      /\ g = [f EXCEPT !.symbol = @ \o <<a, b>>]
  BY <1>1, <1>2, <1>3 DEF AddCoffSymSec, TypesInv
<1>5. f.symbol \in Seq(SymbolEntry) /\ l \in Nat /\ y \in Nat
  BY <1>3, <1>4, FileTyped
<1>6. a \in SymbolEntry /\ b \in SymbolEntry /\ a.sec = y /\ b.sec = y /\ ~a.aux /\ a.name = "section"
  BY <1>3, <1>5 DEF Entry, SymbolEntry
<1>7. PICK t : t = f.symbol \o <<a, b>>
  OBVIOUS
<1>8. /\ t \in Seq(SymbolEntry) /\ Len(t) = l + 2 /\ t[l + 1] = a /\ t[l + 2] = b
      /\ \A j \in 1 .. l : t[j] = f.symbol[j]
  <2>2. /\ f.symbol \o <<a, b>> \in Seq(SymbolEntry) /\ Len(f.symbol \o <<a, b>>) = Len(f.symbol) + 2
        /\ (f.symbol \o <<a, b>>)[Len(f.symbol) + 1] = a /\ (f.symbol \o <<a, b>>)[Len(f.symbol) + 2] = b
        /\ \A j \in 1 .. Len(f.symbol) : (f.symbol \o <<a, b>>)[j] = f.symbol[j]
    BY <1>5, <1>6, TwoBehind
  <2> QED
    BY <1>3, <1>7, <2>2
<1>9. g \in File /\ g.symbol = t /\ g.section = f.section
  BY <1>4, <1>7, <1>8 DEF File
<1>10. \A j \in l + 1 .. l + 2 : g.symbol[j].sec <= Len(c_file.section)
  <2> TAKE j \in l + 1 .. l + 2
  <2>1. j = l + 1 \/ j = l + 2
    BY <1>5
  <2>2. g.symbol[j].sec = y
    BY <1>6, <1>8, <1>9, <2>1
  <2> QED
    BY <1>3, <1>5, <2>2
<1>11. number \in [Kept -> Int]
  BY <1>1 DEF TypesInv
<1>12. /\ number' \in [Kept -> Int]
       /\ \A k \in Kept : number'[k] = IF k = s.keep THEN l ELSE number[k]
  BY <1>4, <1>5, <1>11, RememberedAs
<1>13. s \in SymSecCall
  BY <1>2, <1>3 DEF Calls, SectionCall, SymbolCall
<1>14. \A k \in Kept : Keeps(s, k) <=> k = s.keep
  BY <1>2, <1>3 DEF Keeps
<1>15. \A k \in Kept : Keeps(s, k) => k = "idata6"
  BY <1>13, <1>14 DEF Kept, SymSecCall
<1>16. ASSUME NEW k \in Kept, Keeps(s, k)
       PROVE  /\ number'[k] = l /\ a.name = (IF k = "idata6" THEN "section" ELSE k)
              /\ a.sec = IF k = "toc" THEN 0 ELSE Len(c_file.section)
  <2>1. k = "idata6" /\ k = s.keep
    BY <1>14, <1>15, <1>16
  <2> QED
    BY <1>3, <1>6, <1>12, <2>1
<1>17. \A k \in Kept : ~Keeps(s, k) => number'[k] = number[k]
  BY <1>12, <1>14
<1>18. l < l + 2 /\ l + 2 <= l + 2 /\ "symsec" # "section"
  BY <1>5
<1>19. /\ l = Len(c_file.symbol) /\ l + 2 = Len(c_file'.symbol)
       /\ \A j \in 1 .. l : c_file'.symbol[j] = c_file.symbol[j]
       /\ a = c_file'.symbol[l + 1] /\ c_file'.section = c_file.section /\ c_file' \in File
       /\ \A j \in l + 1 .. l + 2 : c_file'.symbol[j].sec <= Len(c_file.section)
  BY <1>3, <1>8, <1>9, <1>10
<1>20. /\ \A k \in Kept : Keeps(todo[1], k) =>
            /\ number'[k] = l /\ a.name = (IF k = "idata6" THEN "section" ELSE k)
            /\ a.sec = IF k = "toc" THEN 0 ELSE Len(c_file.section)
       /\ \A k \in Kept : ~Keeps(todo[1], k) => number'[k] = number[k]
  BY <1>3, <1>16, <1>17
<1>21. AddsSymbols(l, l + 2, a)
  BY <1>6, <1>18, <1>19, <1>20 DEF AddsSymbols
<1> QED
  BY <1>1, <1>12, <1>18, <1>19, <1>21, AddSymbolsStep

\* A string goes into the string table, symbols and sections stay.
LEMMA StringAdded ==
  ASSUME NEW f \in File, NEW name \in SymNames, NEW len \in Nat, NEW fails \in BOOLEAN
  PROVE  /\ AddCoffString(f, name, len, fails) \in File
         /\ AddCoffString(f, name, len, fails).symbol = f.symbol
         /\ AddCoffString(f, name, len, fails).section = f.section
<1>1. PICK grow : grow = Full(f, len)
  OBVIOUS
<1>2. PICK max : max = IF grow THEN 2 * f.max_string_table_size ELSE f.max_string_table_size
  OBVIOUS
<1>3. PICK larger : larger = [f EXCEPT !.max_string_table_size = max]
  OBVIOUS
<1>4. PICK r : r = [larger EXCEPT !.room = IF grow THEN max ELSE @,
                      !.string_table = Append(@, [name |-> name, len |-> len + 1]),
                      !.string_table_size = @ + len + 1]
  OBVIOUS
<1>5. AddCoffString(f, name, len, fails) = IF grow /\ fails THEN larger ELSE r
  BY <1>1, <1>2, <1>3, <1>4 DEF AddCoffString
<1>6. f.max_string_table_size \in Nat
  BY DEF File
<1>7. max \in Nat
  BY <1>2, <1>6
<1>8. larger \in File /\ larger.symbol = f.symbol /\ larger.section = f.section
  BY <1>3, <1>7 DEF File
<1>9. larger.string_table \in Seq(StringEntry) /\ larger.string_table_size \in Nat /\ larger.room \in Nat
  BY <1>8 DEF File
<1>10. PICK st : st = Append(larger.string_table, [name |-> name, len |-> len + 1])
  OBVIOUS
<1>11. st \in Seq(StringEntry)
  <2>1. [name |-> name, len |-> len + 1] \in StringEntry
    BY DEF StringEntry
  <2> QED
    BY <1>9, <1>10, <2>1
<1>12. PICK size, room : size = larger.string_table_size + len + 1
                         /\ room = IF grow THEN max ELSE larger.room
  OBVIOUS
<1>13. size \in Nat /\ room \in Nat
  BY <1>7, <1>9, <1>12
<1>14. r = [larger EXCEPT !.room = room, !.string_table = st, !.string_table_size = size]
  BY <1>4, <1>8, <1>10, <1>12 DEF File
<1>15. r \in File /\ r.symbol = f.symbol /\ r.section = f.section
  BY <1>8, <1>11, <1>13, <1>14 DEF File
<1> QED
  BY <1>5, <1>8, <1>15

\* AddCoffSymbol adds one, and perhaps a string.
LEMMA AddSymbolStep ==
  ASSUME Inv, AddCoffSymbol
  PROVE  Inv'
<1>1. Called("symbol") /\ TypesInv
  BY DEF Inv, AddCoffSymbol
<1>2. todo[1].call = "symbol" /\ Head(todo) = todo[1] /\ todo[1] \in Calls
  BY <1>1, AfterCalled
<1>3. PICK f, s, y, l : /\ f = c_file /\ s = todo[1] /\ y = Len(f.section) /\ l = Len(f.symbol)
  OBVIOUS
<1>4. f \in File /\ number \in [Kept -> Int]
  BY <1>1, <1>3 DEF TypesInv
<1>5. f.symbol \in Seq(SymbolEntry) /\ l \in Nat /\ y \in Nat
  BY <1>3, <1>4, FileTyped
<1>6. s \in SymbolCall
  BY <1>2, <1>3 DEF Calls, SectionCall, SymSecCall
<1>7. s.name \in SymNames /\ s.len \in Nat /\ s.here \in BOOLEAN
  BY <1>6 DEF SymbolCall
<1>8. PICK off : off = IF s.len > NAME_LEN THEN NameOffset(f) ELSE 0
  OBVIOUS
<1>9. off \in Nat
  <2>1. f.string_table_size \in Nat
    BY <1>4 DEF File
  <2> QED
    BY <1>8, <2>1 DEF NameOffset
<1>10. PICK e : e = Entry(s.name, IF s.here THEN y ELSE 0, off, FALSE)
  OBVIOUS
<1>11. e \in SymbolEntry /\ e.sec <= y /\ ~e.aux /\ e.name = s.name /\ e.sec = IF s.here THEN y ELSE 0
  <2>1. PICK sec \in Nat : sec = IF s.here THEN y ELSE 0
    BY <1>5
  <2>2. sec <= y
    BY <1>5, <2>1
  <2>3. e = [name |-> s.name, sec |-> sec, offset |-> off, aux |-> FALSE]
    BY <1>10, <2>1 DEF Entry
  <2>4. e \in SymbolEntry /\ e.sec = sec /\ ~e.aux /\ e.name = s.name
    BY <1>7, <1>9, <2>3 DEF SymbolEntry
  <2> QED
    BY <2>1, <2>2, <2>4
<1>12. PICK new : new = [f EXCEPT !.symbol = Append(@, e)]
  OBVIOUS
<1>13. new \in File /\ new.symbol = Append(f.symbol, e) /\ new.section = f.section
  <2>1. Append(f.symbol, e) \in Seq(SymbolEntry)
    BY <1>5, <1>11
  <2> QED
    BY <1>4, <1>12, <2>1 DEF File
<1>14. PICK fails \in BOOLEAN :
         c_file' = IF s.len > NAME_LEN THEN AddCoffString(new, s.name, s.len, fails) ELSE new
  <2>1. \E fails \in {FALSE, AllocFails} :
          c_file' = IF s.len > NAME_LEN THEN AddCoffString(new, s.name, s.len, fails) ELSE new
    BY <1>2, <1>3, <1>8, <1>10, <1>12 DEF AddCoffSymbol
  <2>2. {FALSE, AllocFails} \subseteq BOOLEAN
    BY InputsAssumption
  <2> QED
    BY <2>1, <2>2
<1>15. c_file' \in File /\ c_file'.symbol = Append(f.symbol, e) /\ c_file'.section = f.section
  <2>1. /\ AddCoffString(new, s.name, s.len, fails) \in File
        /\ AddCoffString(new, s.name, s.len, fails).symbol = new.symbol
        /\ AddCoffString(new, s.name, s.len, fails).section = new.section
    BY <1>7, <1>13, StringAdded
  <2> QED
    BY <1>13, <1>14, <2>1
<1>16. PICK t : t = c_file'.symbol
  OBVIOUS
<1>17. Len(t) = l + 1 /\ t[l + 1] = e /\ \A j \in 1 .. l : t[j] = f.symbol[j]
  BY <1>3, <1>5, <1>11, <1>15, <1>16
<1>18. number' = Remembered(s.keep, l)
  BY <1>2, <1>3 DEF AddCoffSymbol, NextNumber
<1>19. /\ number' \in [Kept -> Int]
       /\ \A k \in Kept : number'[k] = IF k = s.keep THEN l ELSE number[k]
  BY <1>4, <1>5, <1>18, RememberedAs
<1>20. \A k \in Kept : Keeps(s, k) <=> k = s.keep
  BY <1>2, <1>3 DEF Keeps
<1>21. ASSUME NEW k \in Kept, Keeps(s, k)
       PROVE  /\ number'[k] = l /\ e.name = (IF k = "idata6" THEN "section" ELSE k)
              /\ e.sec = IF k = "toc" THEN 0 ELSE y
  <2>1. k = s.keep
    BY <1>20, <1>21
  <2>2. s.keep # "none" => s.keep = s.name /\ s.here = (s.keep # "toc")
    BY <1>6 DEF SymbolCall
  <2>3. s.keep \in {"none", "text", "imp", "toc"}
    BY <1>6 DEF SymbolCall
  <2>4. k # "none" /\ k # "idata6"
    BY <2>1, <2>3 DEF Kept
  <2>5. e.name = k /\ (s.here <=> k # "toc")
    BY <1>11, <2>1, <2>2, <2>4
  <2> QED
    BY <1>11, <1>19, <2>1, <2>4, <2>5
<1>22. AddsSymbols(l, l + 1, e)
  <2>1. /\ c_file'.section = c_file.section
        /\ l = Len(c_file.symbol) /\ l + 1 = Len(c_file'.symbol)
        /\ \A j \in 1 .. l : c_file'.symbol[j] = c_file.symbol[j]
        /\ e = c_file'.symbol[l + 1]
    BY <1>3, <1>15, <1>16, <1>17
  <2>2. l < l + 1 /\ l + 1 <= l + 2
    BY <1>5
  <2>3. \A j \in l + 1 .. l + 1 : c_file'.symbol[j].sec <= Len(c_file.section)
    <3>1. \A j \in l + 1 .. l + 1 : j = l + 1
      BY <1>5
    <3> QED
      BY <1>3, <1>11, <2>1, <3>1
  <2>4. \A k \in Kept : Keeps(todo[1], k) =>
          /\ number'[k] = l /\ e.name = (IF k = "idata6" THEN "section" ELSE k)
          /\ e.sec = IF k = "toc" THEN 0 ELSE Len(c_file.section)
    BY <1>3, <1>21
  <2>5. \A k \in Kept : ~Keeps(todo[1], k) => number'[k] = number[k]
    BY <1>3, <1>19, <1>20
  <2> QED
    BY <1>11, <2>1, <2>2, <2>3, <2>4, <2>5 DEF AddsSymbols
<1> QED
  BY <1>1, <1>15, <1>19, <1>22, AddSymbolsStep

\* A machine that is not known leaves what there is.
LEMMA RefuseStep ==
  ASSUME Inv, Refuse
  PROVE  Inv'
<1>1. /\ TypesInv /\ SectionsInv /\ SymbolsInv /\ NumbersInv /\ stage = "declare"
      /\ stage' = "refused" /\ import' = import /\ todo' = todo /\ c_file' = c_file
      /\ number' = number /\ out' = out
  BY DEF Inv, Refuse
<1>2. TypesInv'
  BY <1>1 DEF TypesInv
<1>3. SectionsInv'
  <2>1. Len(c_file.section) <= Len(Plan(import))
    <3>1. c_file \in File /\ import \in Imports /\ todo \in Seq(Calls)
      BY <1>1 DEF TypesInv
    <3>2. PICK secs \in Seq(Header) : secs = c_file.section
      BY <3>1, FileTyped
    <3>3. PICK a, b : a = AsCalls(secs) /\ b = Those(todo, SectionCall)
      OBVIOUS
    <3>4. a \in Seq(SectionCall) /\ Len(a) = Len(secs) /\ Len(secs) \in Nat
      BY <3>3, AsCallsTyped
    <3>5. b \in Seq(Calls \cap SectionCall)
      BY <3>1, <3>3, ThoseType
    <3>6. b \in Seq(SectionCall)
      BY <3>5
    <3>7. a \o b = Plan(import)
      BY <1>1, <3>2, <3>3 DEF SectionsInv
    <3>8. Len(a \o b) = Len(a) + Len(b) /\ Len(b) \in Nat
      BY <3>4, <3>6
    <3> QED
      BY <3>2, <3>4, <3>7, <3>8
  <2> QED
    BY <1>1, <2>1 DEF SectionsInv
<1>4. SymbolsInv'
  BY <1>1 DEF SymbolsInv
<1>5. NumbersInv' /\ RelocsMeetSymbols'
  <2>1. out = <<>>
    BY <1>1 DEF NumbersInv
  <2>2. NumbersInv'
    BY <1>1, <2>1 DEF NumbersInv
  <2> QED
    BY <1>1, <2>1, <2>2 DEF RelocsMeetSymbols
<1> QED
  BY <1>2, <1>3, <1>4, <1>5 DEF Inv

-----------------------------------------------------------------------------
(* The steps of the second part.                                           *)

\* What is in front of the sections of a list behind the n-th.
Front(secs, n) ==
  HeaderSize + Len(secs) * SectionSize + SumFunction([m \in 1 .. n |-> Room(secs[m])])

\* Places are numbers.
LEMMA FrontTyped ==
  ASSUME NEW secs \in Seq(Header)
  PROVE  /\ \A n \in 0 .. Len(secs) : Front(secs, n) \in Nat
         /\ Front(secs, Len(secs)) \in Nat
<1>1. Len(secs) \in Nat
  OBVIOUS
<1>2. \A m \in 1 .. Len(secs) : Room(secs[m]) \in Nat
  <2>1. \A h \in Header : Room(h) \in Nat
    <3> TAKE h \in Header
    <3>1. h.size \in Nat /\ h.num_relocs \in Nat
      BY DEF Header
    <3> QED
      BY <3>1 DEF Room, RelocSize
  <2> QED
    BY <2>1
<1>3. ASSUME NEW n \in 0 .. Len(secs) PROVE Front(secs, n) \in Nat
  <2>1. PICK f : f = [m \in 1 .. n |-> Room(secs[m])]
    OBVIOUS
  <2>2. DOMAIN f = 1 .. n /\ \A m \in 1 .. n : f[m] \in Nat
    BY <1>1, <1>2, <2>1
  <2>3. IsFiniteSet(1 .. n)
    BY <1>1, FS_Interval
  <2>4. SumFunctionOnSet(f, 1 .. n) \in Nat
    BY <2>2, <2>3, SumType
  <2>5. SumFunction(f) \in Nat
    BY <2>2, <2>4 DEF SumFunction
  <2>6. Front(secs, n) = 20 + Len(secs) * 40 + SumFunction(f)
    BY <2>1 DEF Front, HeaderSize, SectionSize
  <2>7. Len(secs) * 40 \in Nat
    BY <1>1
  <2> HIDE DEF SumFunction
  <2> QED
    BY <2>5, <2>6, <2>7
<1>4. Len(secs) \in 0 .. Len(secs)
  BY <1>1
<1> QED
  BY <1>3, <1>4

\* The headers with the places of their sections.
Placed(secs) ==
  [n \in DOMAIN secs |-> [secs[n] EXCEPT !.rawdata_ptr = Front(secs, n - 1),
                                         !.reloc_ptr = Front(secs, n - 1) + secs[n].size]]

\* Placed headers are headers that differ in their places alone.
LEMMA PlacedTyped ==
  ASSUME NEW secs \in Seq(Header)
  PROVE  /\ Placed(secs) \in Seq(Header) /\ Len(Placed(secs)) = Len(secs)
         /\ \A n \in 1 .. Len(secs) : /\ Placed(secs)[n].name = secs[n].name
                                      /\ Placed(secs)[n].size = secs[n].size
                                      /\ Placed(secs)[n].num_relocs = secs[n].num_relocs
                                      /\ Placed(secs)[n].rawdata_ptr = Front(secs, n - 1)
                                      /\ Placed(secs)[n].reloc_ptr = Front(secs, n - 1) + secs[n].size
<1>1. PICK l \in Nat : l = Len(secs) /\ DOMAIN secs = 1 .. l
  OBVIOUS
<1>3. ASSUME NEW n \in 1 .. l
      PROVE  secs[n] \in Header /\ Front(secs, n - 1) \in Nat /\ Front(secs, n - 1) + secs[n].size \in Nat
  <2>1. secs[n] \in Header
    BY <1>1
  <2>2. Front(secs, n - 1) \in Nat
    <3>1. n - 1 \in 0 .. Len(secs)
      BY <1>1
    <3> QED
      BY <3>1, FrontTyped
  <2>3. secs[n].size \in Nat
    BY <2>1 DEF Header
  <2> QED
    BY <2>1, <2>2, <2>3
<1>4. PICK p : p = Placed(secs)
  OBVIOUS
<1>5. DOMAIN p = 1 .. l /\ p = [n \in 1 .. l |-> p[n]]
  BY <1>1, <1>4 DEF Placed
<1>6. ASSUME NEW n \in 1 .. l
      PROVE  /\ p[n] \in Header /\ p[n].name = secs[n].name /\ p[n].size = secs[n].size
             /\ p[n].num_relocs = secs[n].num_relocs
             /\ p[n].rawdata_ptr = Front(secs, n - 1)
             /\ p[n].reloc_ptr = Front(secs, n - 1) + secs[n].size
  <2>1. p[n] = [secs[n] EXCEPT !.rawdata_ptr = Front(secs, n - 1),
                               !.reloc_ptr = Front(secs, n - 1) + secs[n].size]
    BY <1>1, <1>4 DEF Placed
  <2>2. PICK h, a, b : h = secs[n] /\ a = Front(secs, n - 1) /\ b = Front(secs, n - 1) + secs[n].size
    OBVIOUS
  <2>3. h \in Header /\ a \in Nat /\ b \in Nat
    BY <1>3, <2>2
  <2>4. p[n] = [h EXCEPT !.rawdata_ptr = a, !.reloc_ptr = b]
    BY <2>1, <2>2
  <2>5. /\ p[n] \in Header /\ p[n].name = h.name /\ p[n].size = h.size
        /\ p[n].num_relocs = h.num_relocs /\ p[n].rawdata_ptr = a /\ p[n].reloc_ptr = b
    <3>1. PICK g : g = p[n]
      OBVIOUS
    <3>2. g = [h EXCEPT !.rawdata_ptr = a, !.reloc_ptr = b]
      BY <2>4, <3>1
    <3>3. /\ g \in Header /\ g.name = h.name /\ g.size = h.size /\ g.num_relocs = h.num_relocs
          /\ g.rawdata_ptr = a /\ g.reloc_ptr = b
      BY ONLY <2>3, <3>2 DEF Header
    <3> QED
      BY <3>1, <3>3
  <2> QED
    BY <2>2, <2>5
<1>7. p \in Seq(Header) /\ Len(p) = l
  BY <1>5, <1>6
<1> QED
  BY <1>1, <1>4, <1>6, <1>7

\* They are still those that were called for.
LEMMA PlacedCalls ==
  ASSUME NEW secs \in Seq(Header)
  PROVE  AsCalls(Placed(secs)) = AsCalls(secs)
<1>1. PICK p : p = Placed(secs)
  OBVIOUS
<1>2. p \in Seq(Header) /\ Len(p) = Len(secs) /\ Len(secs) \in Nat
  BY <1>1, PlacedTyped
<1>3. DOMAIN p = DOMAIN secs /\ DOMAIN secs = 1 .. Len(secs)
  BY <1>2
<1>4. \A n \in 1 .. Len(secs) : /\ p[n].name = secs[n].name /\ p[n].size = secs[n].size
                                /\ p[n].num_relocs = secs[n].num_relocs
  BY <1>1, PlacedTyped
<1>5. AsCalls(p) = AsCalls(secs)
  BY <1>3, <1>4 DEF AsCalls
<1> QED
  BY <1>1, <1>5

\* CreateCoffFileHeader keeps it: all calls are made, so what is needed is remembered.
LEMMA HeaderStep ==
  ASSUME Inv, CreateCoffFileHeader
  PROVE  Inv'
<1>1. /\ TypesInv /\ SectionsInv /\ SymbolsInv /\ NumbersInv
      /\ stage = "declare" /\ import.machine # "other" /\ todo = <<>>
      /\ stage' = "write" /\ import' = import /\ number' = number
      /\ todo' = Written(import)
  BY DEF Inv, CreateCoffFileHeader
<1>2. PICK f, secs : f = c_file /\ secs = f.section
  OBVIOUS
<1>3. f \in File /\ import \in Imports /\ number \in [Kept -> Int]
  BY <1>1, <1>2 DEF TypesInv
<1>4. secs \in Seq(Header) /\ Len(secs) \in Nat /\ DOMAIN secs = 1 .. Len(secs)
  BY <1>2, <1>3, FileTyped
<1>5. \A n : Before(n) = Front(secs, n)
  BY <1>2 DEF Before, Front
<1>6. PICK p, x : p = Placed(secs) /\ x = Front(secs, Len(secs))
  OBVIOUS
<1>7. c_file' = [f EXCEPT !.section = p, !.sym_table = x]
  BY <1>2, <1>5, <1>6 DEF CreateCoffFileHeader, Placed
<1>8. /\ p \in Seq(Header) /\ Len(p) = Len(secs) /\ x \in Nat
      /\ \A n \in 1 .. Len(secs) : p[n].name = secs[n].name
  BY <1>4, <1>6, PlacedTyped, FrontTyped
<1>9. c_file' \in File /\ c_file'.section = p /\ c_file'.symbol = f.symbol
  BY <1>3, <1>7, <1>8 DEF File
<1>10. /\ out' \in Seq(Piece) /\ Len(out') = 2
       /\ out'[1].what = "header" /\ out'[2].what = "sections"
  <2>1. PICK a, b : /\ a = [sec |-> "file", what |-> "header", len |-> HeaderSize]
                    /\ b = [sec |-> "file", what |-> "sections", len |-> Len(secs) * SectionSize]
    OBVIOUS
  <2>2. HeaderSize \in Nat /\ Len(secs) * SectionSize \in Nat
    BY <1>4 DEF HeaderSize, SectionSize
  <2>3. a \in Piece /\ b \in Piece /\ a.what = "header" /\ b.what = "sections"
    BY <2>1, <2>2 DEF Piece
  <2>4. out' = <<a, b>>
    BY <1>2, <2>1 DEF CreateCoffFileHeader
  <2> QED
    BY <2>3, <2>4
<1>11. TypesInv'
  <2>1. todo' \in Seq(Asking(Needs(import)))
    BY <1>1, <1>3, WrittenAsks
  <2> QED
    BY <1>1, <1>3, <1>9, <1>10, <2>1 DEF TypesInv
<1>12. SectionsInv'
  <2>1. PICK a, b : a = AsCalls(secs) /\ b = Those(todo, SectionCall)
    OBVIOUS
  <2>2. a \in Seq(SectionCall)
    BY <1>4, <2>1, AsCallsTyped
  <2>3. b = <<>>
    <3>1. todo \in Seq(Calls)
      BY <1>1
    <3> QED
      BY <1>1, <2>1, <3>1, ThoseType
  <2>4. a \o b = Plan(import)
    BY <1>1, <1>2, <2>1 DEF SectionsInv
  <2>5. a = Plan(import)
    BY <2>2, <2>3, <2>4
  <2>6. AsCalls(p) = a
    BY <1>4, <1>6, <2>1, PlacedCalls
  <2> QED
    BY <1>1, <1>9, <2>5, <2>6 DEF SectionsInv
<1>13. SymbolsInv'
  BY <1>1, <1>2, <1>8, <1>9 DEF SymbolsInv
<1>14. Grows
  <2>1. Len(f.symbol) \in Nat
    BY <1>3, FileTyped
  <2> QED
    BY <1>2, <1>4, <1>8, <1>9, <2>1 DEF Grows
<1>15. NumbersInv'
  <2> SUFFICES ASSUME NEW k \in Needs(import) PROVE Meets(k)'
    BY <1>1 DEF NumbersInv
  <2>1. ~Offers(todo, k)
    BY <1>1 DEF Offers
  <2>2. Meets(k)
    BY <1>1, <2>1 DEF NumbersInv
  <2> QED
    BY <1>1, <1>11, <1>14, <2>2, MeetsStays
<1>16. RelocsMeetSymbols'
  <2>1. \A n \in DOMAIN out' : out'[n].what # "reloc"
    <3>1. \A n \in DOMAIN out' : n = 1 \/ n = 2
      BY <1>10
    <3> QED
      BY <1>10, <3>1
  <2> QED
    BY <2>1 DEF RelocsMeetSymbols
<1> QED
  BY <1>11, <1>12, <1>13, <1>15, <1>16 DEF Inv

\* A relocation refers to a symbol that its section may refer to.
Fits(q, f) ==
  /\ q.sym_tab_index \in 0 .. Len(f.symbol) - 1
  /\ LET Meant == [sec \in {".text", ".pdata", ".reldata", ".idata$5", ".idata$4"} |->
                  CASE sec = ".text" -> {<<"text", ".text">>, <<"imp", ".idata$5">>}
                    [] sec = ".pdata" -> {<<"text", ".text">>}
                    [] sec = ".reldata" -> {<<"text", ".text">>, <<"toc", "none">>}
                    [] OTHER -> {<<"section", ".idata$6">>}]
         sym == f.symbol[q.sym_tab_index + 1]
     IN  ~sym.aux /\ <<sym.name, IF sym.sec = 0 THEN "none" ELSE f.section[sym.sec].name>> \in Meant[q.sec]

\* RelocsMeetSymbols, one relocation at a time.
LEMMA RelocsFit ==
  /\ RelocsMeetSymbols <=> \A n \in DOMAIN out : out[n].what = "reloc" => Fits(out[n], c_file)
  /\ RelocsMeetSymbols' <=> \A n \in DOMAIN out' : out'[n].what = "reloc" => Fits(out'[n], c_file')
<1>1. RelocsMeetSymbols <=> \A n \in DOMAIN out : out[n].what = "reloc" => Fits(out[n], c_file)
  BY DEF RelocsMeetSymbols, Fits, SecName
<1>2. RelocsMeetSymbols' <=> \A n \in DOMAIN out' : out'[n].what = "reloc" => Fits(out'[n], c_file')
  BY DEF RelocsMeetSymbols, Fits, SecName
<1> QED
  BY <1>1, <1>2

\* A relocation for what is meant is one.
LEMMA MeantFits ==
  ASSUME NEW q, NEW k \in Wants(q.sec), Meets(k), q.sym_tab_index = number[k],
         q.sec \in SecNames \ {".idata$6"}
  PROVE  Fits(q, c_file)
<1>1. PICK sym, name : /\ sym = c_file.symbol[q.sym_tab_index + 1]
                       /\ name = IF sym.sec = 0 THEN "none" ELSE c_file.section[sym.sec].name
  OBVIOUS
<1>2. /\ q.sym_tab_index \in 0 .. Len(c_file.symbol) - 1 /\ ~sym.aux
      /\ sym.name = (IF k = "idata6" THEN "section" ELSE k) /\ name = Home[k]
  BY <1>1 DEF Meets, SecName
<1> DEFINE Meant == [sec \in {".text", ".pdata", ".reldata", ".idata$5", ".idata$4"} |->
                  CASE sec = ".text" -> {<<"text", ".text">>, <<"imp", ".idata$5">>}
                    [] sec = ".pdata" -> {<<"text", ".text">>}
                    [] sec = ".reldata" -> {<<"text", ".text">>, <<"toc", "none">>}
                    [] OTHER -> {<<"section", ".idata$6">>}]
<1>3. <<sym.name, name>> \in Meant[q.sec]
  <2>1. q.sec \in {".text", ".pdata", ".reldata", ".idata$5", ".idata$4"}
    BY DEF SecNames
  <2>2. CASE q.sec = ".text"
    <3>1. k = "text" \/ k = "imp"
      BY <2>2 DEF Wants
    <3> QED
      BY <1>2, <2>2, <3>1 DEF Home, Kept
  <2>3. CASE q.sec = ".pdata"
    <3>1. k = "text"
      BY <2>3 DEF Wants
    <3> QED
      BY <1>2, <2>3, <3>1 DEF Home, Kept
  <2>4. CASE q.sec = ".reldata"
    <3>1. k = "text" \/ k = "toc"
      BY <2>4 DEF Wants
    <3> QED
      BY <1>2, <2>4, <3>1 DEF Home, Kept
  <2>5. CASE q.sec \in {".idata$5", ".idata$4"}
    <3>1. k = "idata6"
      BY <2>5 DEF Wants
    <3> QED
      BY <1>2, <2>5, <3>1 DEF Home, Kept
  <2> QED
    BY <2>1, <2>2, <2>3, <2>4, <2>5
<1> QED
  BY <1>1, <1>2, <1>3 DEF Fits

\* In the second part what was declared stays, and a piece is written that is data
\* or a relocation that fits.
LEMMA AfterPiece ==
  ASSUME Inv, stage = "write", stage' = "write", todo # <<>>, todo' = Tail(todo),
         c_file' = c_file, import' = import, number' = number,
         NEW p \in Piece, out' = Append(out, p), p.what = "reloc" => Fits(p, c_file)
  PROVE  Inv'
<1>1. TypesInv /\ SectionsInv /\ SymbolsInv /\ NumbersInv /\ RelocsMeetSymbols
  BY DEF Inv
<1>2. PICK l : l = Len(out)
  OBVIOUS
<1>3. /\ l \in Nat /\ out' \in Seq(Piece) /\ out'[l + 1] = p /\ DOMAIN out' = 1 .. l + 1
      /\ DOMAIN out = 1 .. l /\ \A n \in 1 .. l : out'[n] = out[n]
  <2>1. out \in Seq(Piece)
    BY <1>1 DEF TypesInv
  <2> QED
    BY <1>2, <2>1
<1>4. TypesInv'
  <2>1. todo \in Seq(Asking(Needs(import)))
    BY <1>1 DEF TypesInv
  <2>2. Tail(todo) \in Seq(Asking(Needs(import)))
    BY <2>1, TailOfCalls
  <2> QED
    BY <1>1, <1>3, <2>2 DEF TypesInv
<1>5. SectionsInv'
  BY <1>1 DEF SectionsInv
<1>6. SymbolsInv'
  BY <1>1 DEF SymbolsInv
<1>7. NumbersInv'
  <2>1. \A k : Meets(k)' <=> Meets(k)
    BY DEF Meets, SecName
  <2> QED
    BY <1>1, <2>1 DEF NumbersInv
<1>8. RelocsMeetSymbols'
  <2>1. \A n \in 1 .. l : out[n].what = "reloc" => Fits(out[n], c_file)
    BY <1>1, <1>3, RelocsFit
  <2>2. \A n \in 1 .. l + 1 : out'[n].what = "reloc" => Fits(out'[n], c_file)
    <3> TAKE n \in 1 .. l + 1
    <3>1. n \in 1 .. l \/ n = l + 1
      BY <1>3
    <3> QED
      BY <1>3, <2>1, <3>1
  <2> QED
    BY <1>3, <2>2, RelocsFit
<1> QED
  BY <1>4, <1>5, <1>6, <1>7, <1>8 DEF Inv

\* AddDataImpLib keeps it.
LEMMA DataStep ==
  ASSUME Inv, AddDataImpLib
  PROVE  Inv'
<1>1. /\ stage = "write" /\ stage' = "write" /\ todo # <<>> /\ todo' = Tail(todo)
      /\ c_file' = c_file /\ import' = import /\ number' = number
      /\ out' = Append(out, Head(todo)) /\ Head(todo).what = "data"
  BY DEF AddDataImpLib
<1>2. todo \in Seq(Asking(Needs(import)))
  BY <1>1 DEF Inv, TypesInv
<1>3. Head(todo) \in Asking(Needs(import))
  BY <1>1, <1>2
<1>4. Head(todo) \in DataPiece
  BY <1>1, <1>3 DEF Asking, RelocPiece
<1>5. Head(todo) \in Piece
  BY <1>4 DEF Piece
<1>6. Head(todo).what # "reloc"
  BY <1>1
<1> QED
  BY <1>1, <1>5, <1>6, AfterPiece

\* CreateCoffReloc keeps it: the symbol it refers to is needed, thus remembered.
LEMMA RelocStep ==
  ASSUME Inv, CreateCoffReloc
  PROVE  Inv'
<1>1. PICK q, p : /\ q = Head(todo)
                  /\ p = [sec |-> q.sec, what |-> "reloc", len |-> RelocSize,
                          sym_tab_index |-> number[q.keep]]
  OBVIOUS
<1>2. /\ stage = "write" /\ stage' = "write" /\ todo # <<>> /\ todo' = Tail(todo)
      /\ c_file' = c_file /\ import' = import /\ number' = number
      /\ out' = Append(out, p) /\ q.what = "reloc"
  BY <1>1 DEF CreateCoffReloc
<1>3. todo \in Seq(Asking(Needs(import))) /\ number \in [Kept -> Int]
  BY <1>2 DEF Inv, TypesInv
<1>4. q \in Asking(Needs(import))
  BY <1>1, <1>2, <1>3
<1>5. q \in RelocPiece /\ q.keep \in Needs(import)
  BY <1>2, <1>4 DEF Asking, DataPiece
<1>6. q.sec \in SecNames \ {".idata$6"} /\ q.keep \in Wants(q.sec) /\ q.keep \in Kept
  BY <1>5 DEF RelocPiece
<1>7. Meets(q.keep)
  BY <1>2, <1>5 DEF Inv, NumbersInv
<1>8. p \in Piece
  BY <1>1, <1>3, <1>6 DEF Piece
<1>9. p.sec = q.sec /\ p.sym_tab_index = number[q.keep]
  BY <1>1
<1>10. Fits(p, c_file)
  BY <1>6, <1>7, <1>9, MeantFits
<1> QED
  BY <1>2, <1>8, <1>10, AfterPiece

\* The pieces of the tables.
ClosingHead(f) ==
  <<[sec |-> "file", what |-> "symbols", len |-> Len(f.symbol) * SymbolSize],
    [sec |-> "file", what |-> "size", len |-> 4]>>
ClosingStrings(f) ==
  [n \in DOMAIN f.string_table |->
     [sec |-> "file", what |-> f.string_table[n].name, len |-> f.string_table[n].len]]
Closing(f) == ClosingHead(f) \o ClosingStrings(f)

\* The pieces of the tables are no relocations.
LEMMA ClosingTyped ==
  ASSUME NEW f \in File
  PROVE  /\ ClosingHead(f) \in Seq(Piece) /\ ClosingStrings(f) \in Seq(Piece)
         /\ Closing(f) \in Seq(Piece) /\ Len(Closing(f)) = 2 + Len(f.string_table)
         /\ \A n \in DOMAIN Closing(f) : Closing(f)[n].sec = "file" /\ Closing(f)[n].what # "reloc"
         /\ Closing(f)[1] = [sec |-> "file", what |-> "symbols", len |-> Len(f.symbol) * SymbolSize]
         /\ Closing(f)[2] = [sec |-> "file", what |-> "size", len |-> 4]
         /\ \A n \in 1 .. Len(f.string_table) :
              Closing(f)[2 + n] = [sec |-> "file", what |-> f.string_table[n].name,
                                   len |-> f.string_table[n].len]
<1> DEFINE T == [sec : {"file"}, what : {"header", "sections", "symbols", "size"} \cup SymNames, len : Nat]
<1>1. f.string_table \in Seq(StringEntry) /\ Len(f.symbol) \in Nat
  BY FileTyped DEF File
<1>2. PICK st, m : st = f.string_table /\ m = Len(st)
  OBVIOUS
<1>3. m \in Nat /\ DOMAIN st = 1 .. m /\ \A n \in 1 .. m : st[n].name \in SymNames /\ st[n].len \in Nat
  <2>1. \A n \in 1 .. m : st[n] \in StringEntry
    BY <1>1, <1>2
  <2> QED
    BY <1>1, <1>2, <2>1 DEF StringEntry
<1>4. PICK a, b, s : /\ a = [sec |-> "file", what |-> "symbols", len |-> Len(f.symbol) * SymbolSize]
                     /\ b = [sec |-> "file", what |-> "size", len |-> 4]
                     /\ s = [n \in 1 .. m |-> [sec |-> "file", what |-> st[n].name, len |-> st[n].len]]
  OBVIOUS
<1>5. a \in T /\ b \in T
  <2>1. Len(f.symbol) * SymbolSize \in Nat
    BY <1>1 DEF SymbolSize
  <2> QED
    BY <1>4, <2>1
<1>6. \A n \in 1 .. m : s[n] \in T
  BY <1>3, <1>4
<1> HIDE DEF T
<1>7. s \in Seq(T) /\ Len(s) = m
  BY <1>3, <1>4, <1>6
<1>8. PICK c : c = <<a, b>> \o s
  OBVIOUS
<1>9. /\ c \in Seq(T) /\ Len(c) = 2 + m /\ c[1] = a /\ c[2] = b
      /\ \A n \in 1 .. m : c[2 + n] = s[n]
  <2>1. <<a, b>> \in Seq(T) /\ Len(<<a, b>>) = 2 /\ <<a, b>>[1] = a /\ <<a, b>>[2] = b
    BY <1>5
  <2> QED
    BY <1>3, <1>7, <1>8, <2>1, ConcatProperties
<1>10. Closing(f) = c
  BY <1>2, <1>3, <1>4, <1>8 DEF Closing, ClosingHead, ClosingStrings
<1>11. T \subseteq Piece /\ \A p \in T : p.sec = "file" /\ p.what # "reloc"
  BY DEF T, Piece, SymNames
<1>12. c \in Seq(Piece) /\ \A n \in DOMAIN c : c[n] \in T
  BY <1>9, <1>11
<1>13. \A n \in 1 .. m : c[2 + n] = [sec |-> "file", what |-> st[n].name, len |-> st[n].len]
  BY <1>4, <1>9
<1>14. ClosingHead(f) \in Seq(Piece) /\ ClosingStrings(f) \in Seq(Piece)
  <2>1. ClosingHead(f) = <<a, b>> /\ ClosingStrings(f) = s
    BY <1>2, <1>3, <1>4 DEF ClosingHead, ClosingStrings
  <2> QED
    BY <1>5, <1>7, <1>11, <2>1
<1> QED
  BY <1>2, <1>4, <1>9, <1>10, <1>11, <1>12, <1>13, <1>14

\* CreateCoffTables keeps it.
LEMMA TablesStep ==
  ASSUME Inv, CreateCoffTables
  PROVE  Inv'
<1>1. PICK f, l, c : f = c_file /\ l = Len(out) /\ c = Closing(f)
  OBVIOUS
<1>3. TypesInv /\ SectionsInv /\ SymbolsInv /\ NumbersInv /\ RelocsMeetSymbols
  BY DEF Inv
<1>4. f \in File /\ out \in Seq(Piece) /\ l \in Nat /\ DOMAIN out = 1 .. l
  BY <1>1, <1>3 DEF TypesInv
<1>2. /\ stage = "write" /\ stage' = "done" /\ import' = import /\ number' = number
      /\ out' = out \o c /\ todo' = todo
      /\ c_file' = [f EXCEPT !.string_table_size = @ + 4, !.room = 0]
  <2>1. PICK a, b : a = ClosingHead(f) /\ b = ClosingStrings(f)
    OBVIOUS
  <2>2. out' = (out \o a) \o b
    BY <1>1, <2>1 DEF CreateCoffTables, ClosingHead, ClosingStrings
  <2>3. a \in Seq(Piece) /\ b \in Seq(Piece) /\ c = a \o b
    BY <1>1, <1>4, <2>1, ClosingTyped DEF Closing
  <2>4. PICK o : o = out
    OBVIOUS
  <2>5. o \in Seq(Piece)
    BY <1>4, <2>4
  <2>6. (o \o a) \o b = o \o c
    BY ONLY <2>3, <2>5, ConcatAssociative
  <2>7. out' = out \o c
    BY <2>2, <2>4, <2>6
  <2> QED
    BY <1>1, <2>7 DEF CreateCoffTables
<1>5. c_file' \in File /\ c_file'.symbol = f.symbol /\ c_file'.section = f.section
  <2>1. f.string_table_size + 4 \in Nat
    <3>1. f.string_table_size \in Nat
      BY <1>4 DEF File
    <3> QED
      BY <3>1
  <2> QED
    BY <1>2, <1>4, <2>1 DEF File
<1>6. c \in Seq(Piece) /\ \A n \in DOMAIN c : c[n].what # "reloc"
  BY <1>1, <1>4, ClosingTyped
<1>7. /\ out' \in Seq(Piece) /\ Len(out') = l + Len(c) /\ Len(c) \in Nat
      /\ \A n \in 1 .. l : out'[n] = out[n]
      /\ \A n \in 1 .. Len(c) : out'[n + l] = c[n]
  BY <1>1, <1>2, <1>4, <1>6, ConcatProperties
<1>8. TypesInv'
  BY <1>2, <1>3, <1>5, <1>7 DEF TypesInv
<1>9. SectionsInv' /\ SymbolsInv'
  <2>1. SectionsInv'
    BY <1>1, <1>2, <1>3, <1>5 DEF SectionsInv
  <2>2. SymbolsInv'
    BY <1>1, <1>2, <1>3, <1>5 DEF SymbolsInv
  <2> QED
    BY <2>1, <2>2
<1>10. NumbersInv'
  BY <1>2 DEF NumbersInv
<1>11. RelocsMeetSymbols'
  <2>1. \A n \in DOMAIN out : out[n].what = "reloc" => Fits(out[n], c_file)
    BY <1>3, RelocsFit
  <2>2. \A q : Fits(q, c_file') <=> Fits(q, c_file)
    BY <1>1, <1>5 DEF Fits
  <2>3. ASSUME NEW n \in DOMAIN out', out'[n].what = "reloc" PROVE Fits(out'[n], c_file')
    <3>1. n \in 1 .. l + Len(c)
      BY <1>7
    <3>2. CASE n \in 1 .. l
      BY <1>4, <1>7, <2>1, <2>2, <2>3, <3>2
    <3>3. CASE n \notin 1 .. l
      <4>1. PICK j \in 1 .. Len(c) : n = j + l
        <5>1. n - l \in 1 .. Len(c) /\ n = (n - l) + l
          BY <1>4, <1>7, <3>1, <3>3
        <5> QED
          BY <5>1
      <4>2. c[j].what = "reloc"
        BY <1>7, <2>3, <4>1
      <4> QED
        BY <1>6, <4>2
    <3> QED
      BY <3>2, <3>3
  <2> QED
    BY <2>3, RelocsFit
<1> QED
  BY <1>8, <1>9, <1>10, <1>11 DEF Inv

-----------------------------------------------------------------------------
(* The invariant holds.                                                    *)

\* The invariant holds at the start,
LEMMA InitInv == Init => Inv
<1> SUFFICES ASSUME Init PROVE Inv
  OBVIOUS
<1>1. /\ import \in Imports /\ todo = Declared(import) /\ out = <<>> /\ stage = "declare"
      /\ c_file = [section |-> <<>>, symbol |-> <<>>, string_table |-> <<>>,
                   string_table_size |-> 0,
                   max_string_table_size |-> INIT_MAX_SIZE_COFF_STRING_TABLE,
                   room |-> INIT_MAX_SIZE_COFF_STRING_TABLE, sym_table |-> 0]
      /\ number = [k \in Kept |-> IF k \in {"idata6", "toc"} THEN 0 ELSE NotSet]
  BY DEF Init
<1>2. Good(Declared(import)) /\ Plan(import) \in Seq(SectionCall)
  BY <1>1, DeclaredPart
<1>3. c_file.section = <<>> /\ c_file.symbol = <<>> /\ Len(c_file.symbol) = 0 /\ Len(c_file.section) = 0
  BY <1>1
<1>4. TypesInv
  <2>1. c_file \in File
    BY <1>1 DEF File, INIT_MAX_SIZE_COFF_STRING_TABLE
  <2>2. number \in [Kept -> Int]
    BY <1>1 DEF NotSet
  <2> QED
    BY <1>1, <1>2, <2>1, <2>2 DEF TypesInv, Good
<1>5. SectionsInv
  <2>1. AsCalls(<<>>) = <<>>
    BY DEF AsCalls
  <2>2. <<>> \o Plan(import) = Plan(import)
    BY <1>2
  <2> QED
    BY <1>1, <1>3, <2>1, <2>2 DEF SectionsInv, Plan
<1>6. SymbolsInv
  <2>1. number \in [Kept -> {NotSet, 0}]
    BY <1>1
  <2>2. Len(c_file.symbol) + 2 * Len(c_file.section) + 2 * Len(todo) <= 2 * Len(Declared(import))
    <3>1. Len(Declared(import)) \in Nat
      BY <1>2 DEF Good
    <3> QED
      BY <1>1, <1>3, <3>1
  <2>3. Len(c_file.symbol) <= MAX_NUM_COFF_LIB_SYMBOLS
    BY <1>3 DEF MAX_NUM_COFF_LIB_SYMBOLS
  <2>4. \A n \in DOMAIN c_file.symbol : FALSE
    BY <1>3
  <2> QED
    BY <1>1, <1>3, <2>1, <2>2, <2>3, <2>4 DEF SymbolsInv
<1>7. NumbersInv
  <2>1. \A n \in DOMAIN todo : \A k \in Kept \ {"toc"} :
          Keeps(todo[n], k) => Ready(todo, n, k, SecName(Len(c_file.section)))
    BY <1>1, <1>2 DEF Good, Ready
  <2>2. import.machine # "other" => \A k \in Needs(import) : Offers(todo, k)
    BY <1>1, NeedsOffered
  <2> QED
    BY <1>1, <2>1, <2>2 DEF NumbersInv
<1>8. RelocsMeetSymbols
  BY <1>1 DEF RelocsMeetSymbols
<1> QED
  BY <1>4, <1>5, <1>6, <1>7, <1>8 DEF Inv

\* every step keeps it,
LEMMA NextInv == Inv /\ [Next]_vars => Inv'
<1> SUFFICES ASSUME Inv, [Next]_vars PROVE Inv'
  OBVIOUS
<1>1. CASE Refuse
  BY <1>1, RefuseStep
<1>2. CASE AddCoffSection
  BY <1>2, AddSectionStep
<1>3. CASE AddCoffSymSec
  BY <1>3, AddSymSecStep
<1>4. CASE AddCoffSymbol
  BY <1>4, AddSymbolStep
<1>5. CASE CreateCoffFileHeader
  BY <1>5, HeaderStep
<1>6. CASE AddDataImpLib
  BY <1>6, DataStep
<1>7. CASE CreateCoffReloc
  BY <1>7, RelocStep
<1>8. CASE CreateCoffTables
  BY <1>8, TablesStep
<1>9. CASE UNCHANGED vars
  <2>1. /\ import' = import /\ todo' = todo /\ c_file' = c_file /\ number' = number
        /\ out' = out /\ stage' = stage
    BY <1>9 DEF vars
  <2>2. TypesInv' /\ SectionsInv' /\ SymbolsInv'
    BY <2>1 DEF Inv, TypesInv, SectionsInv, SymbolsInv
  <2>3. NumbersInv'
    BY <2>1 DEF Inv, NumbersInv, Meets, SecName
  <2>4. RelocsMeetSymbols'
    BY <2>1 DEF Inv, RelocsMeetSymbols, SecName
  <2> QED
    BY <2>2, <2>3, <2>4 DEF Inv
<1> QED
  BY <1>1, <1>2, <1>3, <1>4, <1>5, <1>6, <1>7, <1>8, <1>9 DEF Next

\* so it always holds.
LEMMA AlwaysInv == Spec => []Inv
BY InitInv, NextInv, PTL DEF Spec

\* At most 6 sections and 2 * 17 - 2 symbols are declared.
LEMMA InvImpliesType == Inv => TypeOK
<1> SUFFICES ASSUME Inv PROVE TypeOK
  OBVIOUS
<1>1. TypesInv /\ SectionsInv /\ SymbolsInv
  BY DEF Inv
<1>2. Len(c_file.section) <= 6 /\ Len(c_file.section) \in Nat
  <2>1. c_file \in File
    BY <1>1 DEF TypesInv
  <2> QED
    BY <1>1, <2>1, FewSections, FileTyped
<1>3. Len(c_file.section) <= MAX_NUM_COFF_LIB_SECTIONS
  BY <1>2 DEF MAX_NUM_COFF_LIB_SECTIONS
<1>4. \A n \in DOMAIN c_file.symbol : c_file.symbol[n].sec \in 0 .. Len(c_file.section)
  <2> TAKE n \in DOMAIN c_file.symbol
  <2>1. c_file.symbol \in Seq(SymbolEntry)
    BY <1>1, FileTyped DEF TypesInv
  <2>2. c_file.symbol[n] \in SymbolEntry
    BY <2>1
  <2>3. c_file.symbol[n].sec \in Nat
    BY <2>2 DEF SymbolEntry
  <2>4. c_file.symbol[n].sec <= Len(c_file.section)
    BY <1>1 DEF SymbolsInv
  <2> QED
    BY <1>2, <2>3, <2>4
<1> QED
  BY <1>1, <1>3, <1>4 DEF TypeOK, TypesInv, SymbolsInv

-----------------------------------------------------------------------------
(* Lists of pieces, and where the pieces of a kind are.                    *)

\* Pieces without what relocations refer to.
Shaped == [sec : SecNames \cup {"file"}, len : Nat,
           what : {"header", "sections", "symbols", "size", "data", "reloc"} \cup SymNames]

Lens(w) == [n \in DOMAIN w |-> w[n].len]
Of(w, sec, what) == {n \in DOMAIN w : w[n].sec = sec /\ w[n].what = what}

\* Where the first n pieces end.
End(w, n) == Upto(Lens(w), n)

\* Fill, for a list of pieces.
Fills(w, sec, what, ptr, size) ==
  /\ size = 0 <=> Of(w, sec, what) = {}
  /\ \A n \in Of(w, sec, what) :
       /\ End(w, n - 1) = ptr \/ n - 1 \in Of(w, sec, what)
       /\ End(w, n) = ptr + size \/ n + 1 \in Of(w, sec, what)

\* The lengths are numbers,
LEMMA LensTyped ==
  ASSUME NEW w \in Seq(Shaped)
  PROVE  Lens(w) \in Seq(Nat) /\ Len(Lens(w)) = Len(w)
<1>1. Len(w) \in Nat /\ DOMAIN w = 1 .. Len(w) /\ \A n \in 1 .. Len(w) : w[n] \in Shaped
  OBVIOUS
<1>2. \A n \in 1 .. Len(w) : w[n].len \in Nat
  BY <1>1 DEF Shaped
<1> QED
  BY <1>1, <1>2 DEF Lens

\* and one behind the other if the lists are.
LEMMA LensConcat ==
  ASSUME NEW w \in Seq(Shaped), NEW v \in Seq(Shaped)
  PROVE  Lens(w \o v) = Lens(w) \o Lens(v)
<1>1. PICK r \in Seq(Shaped) : r = w \o v /\ Len(r) = Len(w) + Len(v)
  BY ListsConcat
<1>2. PICK f : f = [p \in Shaped |-> p.len]
  OBVIOUS
<1>3. ASSUME NEW u \in Seq(Shaped)
      PROVE  Lens(u) \in Seq(Nat) /\ Maps(f, u, Lens(u))
  BY <1>2, LensTyped DEF Lens, Maps
<1>4. PICK a, b, c : a = Lens(w) /\ b = Lens(v) /\ c = Lens(r)
  OBVIOUS
<1>5. /\ a \in Seq(Nat) /\ b \in Seq(Nat) /\ c \in Seq(Nat)
      /\ Maps(f, w, a) /\ Maps(f, v, b) /\ Maps(f, r, c)
  BY <1>1, <1>3, <1>4
<1>6. c = a \o b
  BY <1>1, <1>5, MappedConcat
<1> QED
  BY <1>1, <1>4, <1>6

\* Where they end.
LEMMA EndConcat ==
  ASSUME NEW w \in Seq(Shaped), NEW v \in Seq(Shaped)
  PROVE  /\ \A n \in 0 .. Len(w) : End(w, n) \in Nat /\ End(w \o v, n) = End(w, n)
         /\ \A n \in 0 .. Len(v) : End(w \o v, Len(w) + n) = End(w, Len(w)) + End(v, n)
         /\ End(w, 0) = 0
         /\ \A n \in 0 .. Len(w) - 1 : End(w, n + 1) = End(w, n) + w[n + 1].len
<1>1. PICK a, b : a = Lens(w) /\ b = Lens(v)
  OBVIOUS
<1>2. /\ a \in Seq(Nat) /\ b \in Seq(Nat) /\ Len(a) = Len(w) /\ Len(b) = Len(v)
      /\ Lens(w \o v) = a \o b
  BY <1>1, LensTyped, LensConcat
<1>3. /\ \A n \in 0 .. Len(a) : Upto(a, n) \in Nat /\ Upto(a \o b, n) = Upto(a, n)
      /\ \A n \in 0 .. Len(b) : Upto(a \o b, Len(a) + n) = Upto(a, Len(a)) + Upto(b, n)
      /\ Upto(a, 0) = 0
      /\ \A n \in 0 .. Len(a) - 1 : Upto(a, n + 1) = Upto(a, n) + a[n + 1]
  BY <1>2, UptoGrow, UptoConcat
<1>4. ASSUME NEW n \in 0 .. Len(w) - 1 PROVE a[n + 1] = w[n + 1].len
  <2>1. n + 1 \in DOMAIN w
    OBVIOUS
  <2> QED
    BY <1>1, <2>1 DEF Lens
<1> QED
  BY <1>1, <1>2, <1>3, <1>4 DEF End

\* Which pieces of the one and of the other are of a kind.
LEMMA OfConcat ==
  ASSUME NEW w \in Seq(Shaped), NEW v \in Seq(Shaped), NEW sec, NEW what
  PROVE  /\ Of(w \o v, sec, what) \subseteq 1 .. Len(w) + Len(v)
         /\ Of(w, sec, what) \subseteq 1 .. Len(w) /\ Of(v, sec, what) \subseteq 1 .. Len(v)
         /\ \A n \in 1 .. Len(w) : n \in Of(w \o v, sec, what) <=> n \in Of(w, sec, what)
         /\ \A n \in 1 .. Len(v) : Len(w) + n \in Of(w \o v, sec, what) <=> n \in Of(v, sec, what)
<1>1. PICK k, l, r : k = Len(w) /\ l = Len(v) /\ r = w \o v
  OBVIOUS
<1>2. /\ k \in Nat /\ l \in Nat /\ r \in Seq(Shaped) /\ Len(r) = k + l
      /\ \A n \in 1 .. k : r[n] = w[n]
      /\ \A n \in 1 .. l : r[k + n] = v[n]
  BY <1>1, ListsConcat
<1>3. DOMAIN r = 1 .. k + l /\ DOMAIN w = 1 .. k /\ DOMAIN v = 1 .. l
  BY <1>1, <1>2
<1>4. \A n \in 1 .. l : k + n \in 1 .. k + l
  BY <1>2
<1>5. \A n \in 1 .. k : n \in 1 .. k + l
  BY <1>2
<1> QED
  BY <1>1, <1>2, <1>3, <1>4, <1>5 DEF Of

\* Pieces stay where they are if others follow,
LEMMA FillsInFront ==
  ASSUME NEW w \in Seq(Shaped), NEW v \in Seq(Shaped), NEW sec, NEW what, NEW ptr, NEW size,
         Fills(w, sec, what, ptr, size), Of(v, sec, what) = {}
  PROVE  Fills(w \o v, sec, what, ptr, size)
<1>1. PICK k, l, r, P, Q : k = Len(w) /\ l = Len(v) /\ r = w \o v /\ P = Of(w, sec, what) /\ Q = Of(r, sec, what)
  OBVIOUS
<1>2. k \in Nat /\ l \in Nat
  BY <1>1
<1>3. Q = P /\ P \subseteq 1 .. k
  <2>1. /\ Q \subseteq 1 .. k + l /\ P \subseteq 1 .. k
        /\ \A n \in 1 .. k : n \in Q <=> n \in P
        /\ \A n \in 1 .. l : k + n \notin Q
    BY <1>1, OfConcat
  <2>2. ASSUME NEW n \in 1 .. k + l, n \notin 1 .. k PROVE n \notin Q
    <3>1. n - k \in 1 .. l /\ n = k + (n - k)
      BY <1>2, <2>2
    <3> QED
      BY <2>1, <3>1
  <2> QED
    BY <1>2, <2>1, <2>2
<1>4. \A n \in 0 .. k : End(r, n) = End(w, n)
  BY <1>1, EndConcat
<1>5. \A n \in P : n \in 0 .. k /\ n - 1 \in 0 .. k
  BY <1>2, <1>3
<1>6. /\ size = 0 <=> P = {}
      /\ \A n \in P : /\ End(w, n - 1) = ptr \/ n - 1 \in P
                      /\ End(w, n) = ptr + size \/ n + 1 \in P
  BY <1>1 DEF Fills
<1> QED
  BY <1>1, <1>3, <1>4, <1>5, <1>6 DEF Fills

\* and are moved by what is put in front of them.
LEMMA FillsBehind ==
  ASSUME NEW w \in Seq(Shaped), NEW v \in Seq(Shaped), NEW sec, NEW what,
         NEW ptr \in Nat, NEW size \in Nat,
         Fills(v, sec, what, ptr, size), Of(w, sec, what) = {}
  PROVE  Fills(w \o v, sec, what, End(w, Len(w)) + ptr, size)
<1>1. PICK k, l, r, P, Q, e : /\ k = Len(w) /\ l = Len(v) /\ r = w \o v /\ e = End(w, k)
                              /\ P = Of(v, sec, what) /\ Q = Of(r, sec, what)
  OBVIOUS
<1>2. k \in Nat /\ l \in Nat
  BY <1>1
<1>3. /\ Q \subseteq 1 .. k + l /\ P \subseteq 1 .. l
      /\ \A n \in 1 .. k : n \notin Q
      /\ \A n \in 1 .. l : k + n \in Q <=> n \in P
  BY <1>1, OfConcat
<1>4. e \in Nat /\ \A n \in 0 .. l : End(v, n) \in Nat /\ End(r, k + n) = e + End(v, n)
  <2>1. k \in 0 .. k
    BY <1>2
  <2> QED
    BY <1>1, <2>1, EndConcat
<1>5. /\ size = 0 <=> P = {}
      /\ \A n \in P : /\ End(v, n - 1) = ptr \/ n - 1 \in P
                      /\ End(v, n) = ptr + size \/ n + 1 \in P
  BY <1>1 DEF Fills
<1>6. Q = {} <=> P = {}
  <2>1. ASSUME NEW n \in Q PROVE P # {}
    <3>1. n - k \in 1 .. l /\ n = k + (n - k)
      BY <1>2, <1>3
    <3> QED
      BY <1>3, <3>1
  <2>2. ASSUME NEW n \in P PROVE Q # {}
    BY <1>3
  <2> QED
    BY <2>1, <2>2
<1>7. ASSUME NEW n \in Q
      PROVE  /\ End(r, n - 1) = e + ptr \/ n - 1 \in Q
             /\ End(r, n) = (e + ptr) + size \/ n + 1 \in Q
  <2>1. PICK d \in P : d \in 1 .. l /\ n = k + d
    <3>1. n - k \in 1 .. l /\ n = k + (n - k)
      BY <1>2, <1>3
    <3> QED
      BY <1>3, <3>1
  <2>2. d \in Nat /\ d - 1 \in 0 .. l /\ d \in 0 .. l /\ n - 1 = k + (d - 1) /\ n + 1 = k + (d + 1)
    BY <1>2, <2>1
  <2>3. End(r, n - 1) = e + End(v, d - 1) /\ End(r, n) = e + End(v, d)
    BY <1>4, <2>1, <2>2
  <2>4. d - 1 \in P => n - 1 \in Q
    BY <1>3, <2>2
  <2>5. d + 1 \in P => n + 1 \in Q
    BY <1>3, <2>2
  <2>6. CASE End(v, d - 1) = ptr \/ d - 1 \in P
    <3>1. End(r, n - 1) = e + ptr \/ n - 1 \in Q
      BY <2>3, <2>4, <2>6
    <3>2. End(v, d) = ptr + size => End(r, n) = (e + ptr) + size
      BY <1>4, <2>3
    <3>3. End(v, d) = ptr + size \/ d + 1 \in P
      BY <1>5
    <3> QED
      BY <2>5, <3>1, <3>2, <3>3
  <2> QED
    BY <1>5, <2>6
<1>8. /\ size = 0 <=> Q = {}
      /\ \A n \in Q : /\ End(r, n - 1) = e + ptr \/ n - 1 \in Q
                      /\ End(r, n) = (e + ptr) + size \/ n + 1 \in Q
  BY <1>5, <1>6, <1>7
<1> QED
  BY <1>1, <1>8 DEF Fills

\* What a piece is, where it is meant for and how long it is.
Shape(p) == [sec |-> p.sec, what |-> p.what, len |-> p.len]
Shapes(w) == [n \in DOMAIN w |-> Shape(w[n])]

\* The pieces of the model all have that.
LEMMA PiecesShaped ==
  /\ \A p \in Piece : Shape(p) \in Shaped
  /\ \A K : \A p \in Asking(K) : Shape(p) \in Shaped
<1>1. ASSUME NEW p, p.sec \in SecNames \cup {"file"}, p.len \in Nat,
             p.what \in {"header", "sections", "symbols", "size", "data", "reloc"} \cup SymNames
      PROVE  Shape(p) \in Shaped
  BY <1>1 DEF Shape, Shaped
<1>2. ASSUME NEW p \in DataPiece PROVE Shape(p) \in Shaped
  <2>1. p.sec \in SecNames /\ p.what = "data" /\ p.len \in Nat
    BY DEF DataPiece
  <2> QED
    BY <1>1, <2>1
<1>3. ASSUME NEW p \in RelocPiece PROVE Shape(p) \in Shaped
  <2>1. p.sec \in SecNames /\ p.what = "reloc" /\ p.len = 10
    BY DEF RelocPiece, RelocSize
  <2> QED
    BY <1>1, <2>1
<1>4. ASSUME NEW p \in Piece PROVE Shape(p) \in Shaped
  <2>1. CASE p \in DataPiece
    BY <1>2, <2>1
  <2>2. CASE p \in [sec : {"file"}, what : {"header", "sections", "symbols", "size"} \cup SymNames, len : Nat]
    <3>1. p.sec = "file" /\ p.what \in {"header", "sections", "symbols", "size"} \cup SymNames /\ p.len \in Nat
      BY <2>2
    <3> QED
      BY <1>1, <3>1
  <2>3. CASE p \in [sec : SecNames, what : {"reloc"}, len : {RelocSize}, sym_tab_index : Int]
    <3>1. p.sec \in SecNames /\ p.what = "reloc" /\ p.len = 10
      BY <2>3 DEF RelocSize
    <3> QED
      BY <1>1, <3>1
  <2> QED
    BY <2>1, <2>2, <2>3 DEF Piece
<1> QED
  BY <1>2, <1>3, <1>4 DEF Asking

\* Lists of pieces that all have shapes.
LEMMA ShapesTyped ==
  ASSUME NEW S, \A p \in S : Shape(p) \in Shaped, NEW w \in Seq(S)
  PROVE  /\ Shapes(w) \in Seq(Shaped) /\ Len(Shapes(w)) = Len(w) /\ DOMAIN Shapes(w) = 1 .. Len(w)
         /\ \A n \in 1 .. Len(w) : Shapes(w)[n] = Shape(w[n])
<1>1. Len(w) \in Nat /\ DOMAIN w = 1 .. Len(w) /\ \A n \in 1 .. Len(w) : w[n] \in S
  OBVIOUS
<1>2. PICK r : r = [n \in 1 .. Len(w) |-> Shape(w[n])]
  OBVIOUS
<1>3. \A n \in 1 .. Len(w) : r[n] = Shape(w[n]) /\ r[n] \in Shaped
  BY <1>1, <1>2
<1>4. r \in Seq(Shaped) /\ Len(r) = Len(w) /\ DOMAIN r = 1 .. Len(w)
  BY <1>1, <1>2, <1>3
<1>5. Shapes(w) = r
  BY <1>1, <1>2 DEF Shapes
<1> QED
  BY <1>3, <1>4, <1>5

\* Shapes of lists one behind the other.
LEMMA ShapesConcat ==
  ASSUME NEW S, \A p \in S : Shape(p) \in Shaped, NEW w \in Seq(S), NEW v \in Seq(S)
  PROVE  Shapes(w \o v) = Shapes(w) \o Shapes(v)
<1>1. PICK r \in Seq(S) : r = w \o v /\ Len(r) = Len(w) + Len(v)
  BY ListsConcat
<1>2. PICK f : f = [p \in S |-> Shape(p)]
  OBVIOUS
<1>3. ASSUME NEW u \in Seq(S)
      PROVE  Shapes(u) \in Seq(Shaped) /\ Maps(f, u, Shapes(u))
  <2>1. \A n \in 1 .. Len(u) : f[u[n]] = Shape(u[n])
    BY <1>2
  <2> QED
    BY <2>1, ShapesTyped DEF Maps
<1>4. PICK a, b, c : a = Shapes(w) /\ b = Shapes(v) /\ c = Shapes(r)
  OBVIOUS
<1>5. /\ a \in Seq(Shaped) /\ b \in Seq(Shaped) /\ c \in Seq(Shaped)
      /\ Maps(f, w, a) /\ Maps(f, v, b) /\ Maps(f, r, c)
  BY <1>1, <1>3, <1>4
<1>6. c = a \o b
  BY <1>1, <1>5, MappedConcat
<1> QED
  BY <1>1, <1>4, <1>6

-----------------------------------------------------------------------------
\* What sections with their relocations take.
Rooms(p) == [n \in DOMAIN p |-> p[n].size + p[n].relocs * RelocSize]
Names(p) == {p[n].name : n \in DOMAIN p}

\* The pieces are those of the sections, each where it belongs if the first
\* section starts at 0.
Laid(w, p) ==
  /\ w \in Seq(Shaped) /\ p \in Seq(SectionCall)
  /\ \A n \in DOMAIN w : w[n].sec \in Names(p)
  /\ End(w, Len(w)) = Upto(Rooms(p), Len(p))
  /\ \A m \in DOMAIN p :
       /\ Fills(w, p[m].name, "data", Upto(Rooms(p), m - 1), p[m].size)
       /\ Fills(w, p[m].name, "reloc", Upto(Rooms(p), m - 1) + p[m].size, p[m].relocs * RelocSize)

\* The bytes that sections take are numbers.
LEMMA RoomsTyped ==
  ASSUME NEW p \in Seq(SectionCall)
  PROVE  /\ Len(p) \in Nat /\ DOMAIN p = 1 .. Len(p)
         /\ Rooms(p) \in Seq(Nat) /\ Len(Rooms(p)) = Len(p)
         /\ \A n \in 1 .. Len(p) : /\ p[n].name \in SecNames /\ p[n].size \in Nat \ {0} /\ p[n].relocs \in Nat
                                   /\ p[n].relocs * RelocSize \in Nat
                                   /\ Rooms(p)[n] = p[n].size + p[n].relocs * RelocSize
<1>1. Len(p) \in Nat /\ DOMAIN p = 1 .. Len(p) /\ \A n \in 1 .. Len(p) : p[n] \in SectionCall
  OBVIOUS
<1>2. \A n \in 1 .. Len(p) : p[n].name \in SecNames /\ p[n].size \in Nat \ {0} /\ p[n].relocs \in Nat
  BY <1>1 DEF SectionCall
<1>3. ASSUME NEW n \in 1 .. Len(p)
      PROVE  p[n].relocs * RelocSize \in Nat /\ p[n].size + p[n].relocs * RelocSize \in Nat
  <2>1. PICK a \in Nat, b \in Nat : a = p[n].relocs /\ b = p[n].size
    BY <1>2
  <2>2. a * 10 \in Nat /\ b + a * 10 \in Nat
    OBVIOUS
  <2> QED
    BY <2>1, <2>2 DEF RelocSize
<1>4. PICK r : r = Rooms(p)
  OBVIOUS
<1>5. r = [n \in 1 .. Len(p) |-> p[n].size + p[n].relocs * RelocSize]
  BY <1>1, <1>4 DEF Rooms
<1>6. r \in Seq(Nat) /\ Len(r) = Len(p) /\ \A n \in 1 .. Len(p) : r[n] = p[n].size + p[n].relocs * RelocSize
  BY <1>1, <1>3, <1>5
<1> QED
  BY <1>1, <1>2, <1>3, <1>4, <1>6

\* Sections of plans one behind the other.
LEMMA RoomsConcat ==
  ASSUME NEW p \in Seq(SectionCall), NEW q \in Seq(SectionCall)
  PROVE  Rooms(p \o q) = Rooms(p) \o Rooms(q) /\ Names(p \o q) = Names(p) \cup Names(q)
<1>1. PICK r \in Seq(SectionCall) : r = p \o q /\ Len(r) = Len(p) + Len(q)
  BY ListsConcat
<1>2. PICK f : f = [c \in SectionCall |-> c.size + c.relocs * RelocSize]
  OBVIOUS
<1>3. ASSUME NEW u \in Seq(SectionCall)
      PROVE  Rooms(u) \in Seq(Nat) /\ Maps(f, u, Rooms(u))
  <2>1. \A n \in 1 .. Len(u) : f[u[n]] = u[n].size + u[n].relocs * RelocSize
    BY <1>2
  <2> QED
    BY <2>1, RoomsTyped DEF Maps
<1>4. PICK a, b, c : a = Rooms(p) /\ b = Rooms(q) /\ c = Rooms(r)
  OBVIOUS
<1>5. /\ a \in Seq(Nat) /\ b \in Seq(Nat) /\ c \in Seq(Nat)
      /\ Maps(f, p, a) /\ Maps(f, q, b) /\ Maps(f, r, c)
  BY <1>1, <1>3, <1>4
<1>6. c = a \o b
  BY <1>1, <1>5, MappedConcat
<1>7. PICK k \in Nat, l \in Nat : k = Len(p) /\ l = Len(q)
  OBVIOUS
<1>8. /\ DOMAIN p = 1 .. k /\ DOMAIN q = 1 .. l /\ DOMAIN r = 1 .. k + l
      /\ \A n \in 1 .. k : r[n] = p[n]
      /\ \A n \in 1 .. l : r[k + n] = q[n]
  BY <1>1, <1>7, ListsConcat
<1>9. Names(r) = Names(p) \cup Names(q)
  <2>1. ASSUME NEW n \in DOMAIN r PROVE r[n].name \in Names(p) \cup Names(q)
    <3>1. CASE n \in 1 .. k
      <4>1. r[n] = p[n] /\ n \in DOMAIN p
        BY <1>8, <3>1
      <4> QED
        BY <4>1 DEF Names
    <3>2. CASE n \notin 1 .. k
      <4>1. n - k \in 1 .. l /\ n = k + (n - k)
        BY <1>8, <3>2
      <4>2. r[n] = q[n - k] /\ n - k \in DOMAIN q
        BY <1>8, <4>1
      <4> QED
        BY <4>2 DEF Names
    <3> QED
      BY <3>1, <3>2
  <2>2. ASSUME NEW n \in DOMAIN p PROVE p[n].name \in Names(r)
    <3>1. n \in DOMAIN r /\ r[n] = p[n]
      BY <1>8
    <3> QED
      BY <3>1 DEF Names
  <2>3. ASSUME NEW n \in DOMAIN q PROVE q[n].name \in Names(r)
    <3>1. k + n \in DOMAIN r /\ r[k + n] = q[n]
      BY <1>8
    <3> QED
      BY <3>1 DEF Names
  <2> QED
    BY <2>1, <2>2, <2>3 DEF Names
<1> QED
  BY <1>1, <1>4, <1>6, <1>9

-----------------------------------------------------------------------------
(* Pieces that are as planned, part by part.                               *)

\* One behind the other.
LEMMA LaidConcat ==
  ASSUME NEW w, NEW p, Laid(w, p), NEW v, NEW q, Laid(v, q), Names(p) \cap Names(q) = {}
  PROVE  Laid(w \o v, p \o q)
<1>1. w \in Seq(Shaped) /\ v \in Seq(Shaped) /\ p \in Seq(SectionCall) /\ q \in Seq(SectionCall)
  BY DEF Laid
<1>2. PICK k \in Nat, l \in Nat, a \in Nat, b \in Nat :
        k = Len(w) /\ l = Len(v) /\ a = Len(p) /\ b = Len(q)
  <2>1. Len(w) \in Nat /\ Len(v) \in Nat /\ Len(p) \in Nat /\ Len(q) \in Nat
    BY <1>1
  <2> QED
    BY <2>1
<1>3. PICK r, s : r = w \o v /\ s = p \o q
  OBVIOUS
<1>4. /\ r \in Seq(Shaped) /\ Len(r) = k + l /\ DOMAIN r = 1 .. k + l
      /\ \A n \in 1 .. k : r[n] = w[n]
      /\ \A n \in 1 .. l : r[k + n] = v[n]
  BY <1>1, <1>2, <1>3, ListsConcat
<1>5. /\ s \in Seq(SectionCall) /\ Len(s) = a + b /\ DOMAIN s = 1 .. a + b
      /\ \A n \in 1 .. a : s[n] = p[n]
      /\ \A n \in 1 .. b : s[a + n] = q[n]
  BY <1>1, <1>2, <1>3, ListsConcat
<1>6. PICK x, y : x = Rooms(p) /\ y = Rooms(q)
  OBVIOUS
<1>7. x \in Seq(Nat) /\ y \in Seq(Nat) /\ Len(x) = a /\ Len(y) = b /\ Rooms(s) = x \o y
  BY <1>1, <1>2, <1>3, <1>6, RoomsTyped, RoomsConcat
<1>8. PICK e : e = End(w, k)
  OBVIOUS
<1>9. /\ e = Upto(x, a) /\ e \in Nat
      /\ \A n \in 0 .. a : Upto(x, n) \in Nat /\ Upto(Rooms(s), n) = Upto(x, n)
      /\ \A n \in 0 .. b : Upto(y, n) \in Nat /\ Upto(Rooms(s), a + n) = e + Upto(y, n)
  <2>1. e = Upto(x, a)
    BY <1>2, <1>6, <1>8 DEF Laid
  <2>2. /\ \A n \in 0 .. a : Upto(x, n) \in Nat /\ Upto(x \o y, n) = Upto(x, n)
        /\ \A n \in 0 .. b : Upto(y, n) \in Nat /\ Upto(x \o y, a + n) = Upto(x, a) + Upto(y, n)
    BY <1>7, UptoGrow, UptoConcat
  <2>3. a \in 0 .. a
    OBVIOUS
  <2> QED
    BY <1>7, <2>1, <2>2, <2>3
<1>10. End(r, Len(r)) = Upto(Rooms(s), Len(s))
  <2>1. End(r, k + l) = e + End(v, l)
    <3>1. l \in 0 .. l
      OBVIOUS
    <3> QED
      BY <1>1, <1>2, <1>3, <1>8, <3>1, EndConcat
  <2>2. End(v, l) = Upto(y, b)
    <3>1. Laid(v, q)
      OBVIOUS
    <3>2. End(v, Len(v)) = Upto(Rooms(q), Len(q))
      BY ONLY <3>1 DEF Laid
    <3> QED
      BY ONLY <1>2, <1>6, <3>2
  <2>3. Upto(Rooms(s), a + b) = e + Upto(y, b)
    <3>1. b \in 0 .. b
      OBVIOUS
    <3> QED
      BY <1>9, <3>1
  <2>4. Len(r) = k + l /\ Len(s) = a + b
    BY <1>4, <1>5
  <2>5. End(r, Len(r)) = End(r, k + l)
    BY ONLY <2>4
  <2>6. Upto(Rooms(s), Len(s)) = Upto(Rooms(s), a + b)
    BY ONLY <2>4
  <2>7. e + End(v, l) = e + Upto(y, b)
    BY ONLY <2>2
  <2> QED
    BY ONLY <2>1, <2>3, <2>5, <2>6, <2>7
<1>11. \A n \in DOMAIN r : r[n].sec \in Names(s)
  <2>1. Names(s) = Names(p) \cup Names(q)
    BY <1>1, <1>3, RoomsConcat
  <2>2. (\A n \in 1 .. k : w[n].sec \in Names(p)) /\ (\A n \in 1 .. l : v[n].sec \in Names(q))
    <3>1. (\A n \in DOMAIN w : w[n].sec \in Names(p)) /\ (\A n \in DOMAIN v : v[n].sec \in Names(q))
      BY DEF Laid
    <3>2. DOMAIN w = 1 .. k /\ DOMAIN v = 1 .. l
      BY <1>1, <1>2
    <3> QED
      BY ONLY <3>1, <3>2
  <2>3. ASSUME NEW n \in 1 .. k + l PROVE r[n].sec \in Names(s)
    <3>1. CASE n \in 1 .. k
      BY <1>4, <2>1, <2>2, <3>1
    <3>2. CASE n \notin 1 .. k
      <4>1. n - k \in 1 .. l /\ n = k + (n - k)
        BY <3>2
      <4>2. r[n] = v[n - k]
        BY <1>4, <4>1
      <4> QED
        BY <2>1, <2>2, <4>1, <4>2
    <3> QED
      BY <3>1, <3>2
  <2> QED
    BY <1>4, <2>3
<1>12. /\ \A sec \in Names(p) : \A what : Of(v, sec, what) = {}
       /\ \A sec \in Names(q) : \A what : Of(w, sec, what) = {}
  <2>1. (\A n \in DOMAIN w : w[n].sec \in Names(p)) /\ (\A n \in DOMAIN v : v[n].sec \in Names(q))
    BY DEF Laid
  <2>2. (\A sec \in Names(p) : sec \notin Names(q)) /\ (\A sec \in Names(q) : sec \notin Names(p))
    OBVIOUS
  <2>3. /\ \A sec \in Names(p) : \A n \in DOMAIN v : v[n].sec # sec
        /\ \A sec \in Names(q) : \A n \in DOMAIN w : w[n].sec # sec
    BY <2>1, <2>2
  <2> QED
    BY <2>3 DEF Of
<1>13. ASSUME NEW m \in 1 .. a + b
       PROVE  /\ Fills(r, s[m].name, "data", Upto(Rooms(s), m - 1), s[m].size)
              /\ Fills(r, s[m].name, "reloc", Upto(Rooms(s), m - 1) + s[m].size, s[m].relocs * RelocSize)
  <2>1. CASE m \in 1 .. a
    <3>1. PICK c, u : c = p[m] /\ u = Upto(x, m - 1)
      OBVIOUS
    <3>2. s[m] = c /\ Upto(Rooms(s), m - 1) = u
      <4>1. m - 1 \in 0 .. a
        BY <2>1
      <4> QED
        BY <1>5, <1>9, <2>1, <3>1, <4>1
    <3>3. c.name \in Names(p)
      BY <1>1, <1>2, <2>1, <3>1 DEF Names
    <3>4. Fills(w, c.name, "data", u, c.size) /\ Fills(w, c.name, "reloc", u + c.size, c.relocs * RelocSize)
      BY <1>1, <1>2, <1>6, <2>1, <3>1, SMTT(30) DEF Laid
    <3>5. Of(v, c.name, "data") = {} /\ Of(v, c.name, "reloc") = {}
      BY <1>12, <3>3
    <3>6. Fills(r, c.name, "data", u, c.size) /\ Fills(r, c.name, "reloc", u + c.size, c.relocs * RelocSize)
      BY <1>1, <1>3, <3>4, <3>5, FillsInFront
    <3> QED
      BY <3>2, <3>6
  <2>2. CASE m \notin 1 .. a
    <3>1. PICK d \in 1 .. b : m = a + d
      <4>1. m - a \in 1 .. b /\ m = a + (m - a)
        BY <2>2
      <4> QED
        BY <4>1
    <3>2. PICK c, u, t, z : c = q[d] /\ u = Upto(y, d - 1) /\ t = c.size /\ z = c.relocs * RelocSize
      OBVIOUS
    <3>3. u \in Nat /\ s[m] = c /\ Upto(Rooms(s), m - 1) = e + u
      <4>1. d - 1 \in 0 .. b /\ m - 1 = a + (d - 1)
        BY <3>1
      <4> QED
        BY <1>5, <1>9, <3>1, <3>2, <4>1
    <3>4. c.name \in Names(q)
      BY <1>1, <1>2, <3>1, <3>2 DEF Names
    <3>5. t \in Nat /\ z \in Nat
      BY <1>1, <1>2, <3>1, <3>2, RoomsTyped
    <3>6. Fills(v, c.name, "data", u, t) /\ Fills(v, c.name, "reloc", u + t, z)
      BY <1>1, <1>2, <1>6, <3>1, <3>2 DEF Laid
    <3>7. Of(w, c.name, "data") = {} /\ Of(w, c.name, "reloc") = {}
      BY <1>12, <3>4
    <3>8. u + t \in Nat /\ e + (u + t) = (e + u) + t
      BY <1>9, <3>3, <3>5
    <3>9. Fills(r, c.name, "data", e + u, t)
      BY <1>1, <1>2, <1>3, <1>8, <3>3, <3>5, <3>6, <3>7, FillsBehind
    <3>10. Fills(r, c.name, "reloc", e + (u + t), z)
      BY <1>1, <1>2, <1>3, <1>8, <3>5, <3>6, <3>7, <3>8, FillsBehind
    <3> QED
      BY <3>2, <3>3, <3>8, <3>9, <3>10
  <2> QED
    BY <2>1, <2>2
<1>14. Laid(r, s)
  BY <1>4, <1>5, <1>10, <1>11, <1>13 DEF Laid
<1> QED
  BY <1>3, <1>14

\* Nothing is where nothing should be.
LEMMA LaidNone == Laid(<<>>, <<>>)
<1>1. <<>> \in Seq(Shaped) /\ <<>> \in Seq(SectionCall) /\ Len(<<>>) = 0
  OBVIOUS
<1>2. End(<<>>, 0) = 0
  BY <1>1, EndConcat
<1>3. Upto(Rooms(<<>>), 0) = 0
  BY <1>1, RoomsTyped, UptoGrow
<1>4. \A n \in DOMAIN <<>> : FALSE
  OBVIOUS
<1> QED
  BY <1>1, <1>2, <1>3, <1>4 DEF Laid

\* A section is laid if its data come first, as many as its size, and then its relocations.
LEMMA LaidOne ==
  ASSUME NEW w \in Seq(Shaped), NEW c \in SectionCall, NEW a \in Nat \ {0},
         Len(w) = a + c.relocs, End(w, a) = c.size,
         \A n \in 1 .. a : w[n].sec = c.name /\ w[n].what = "data",
         \A n \in a + 1 .. a + c.relocs : w[n].sec = c.name /\ w[n].what = "reloc" /\ w[n].len = RelocSize
  PROVE  Laid(w, <<c>>)
<1>1. PICK r \in Nat, t \in Nat \ {0} : r = c.relocs /\ t = c.size
  BY DEF SectionCall
<1>2. PICK p : p = <<c>>
  OBVIOUS
<1>3. p \in Seq(SectionCall) /\ Len(p) = 1 /\ DOMAIN p = 1 .. 1 /\ p[1] = c
  BY <1>2
<1>4. PICK x : x = Rooms(p)
  OBVIOUS
<1>5. Upto(x, 0) = 0 /\ Upto(x, 1) = t + r * 10
  <2>1. x \in Seq(Nat) /\ Len(x) = 1 /\ x[1] = t + r * 10
    <3>1. /\ x \in Seq(Nat) /\ Len(x) = Len(p)
          /\ \A n \in 1 .. Len(p) : x[n] = p[n].size + p[n].relocs * RelocSize
      BY <1>3, <1>4, RoomsTyped
    <3>2. x[1] = c.size + c.relocs * RelocSize
      BY <1>3, <3>1
    <3> QED
      BY <1>1, <1>3, <3>1, <3>2 DEF RelocSize
  <2>2. Upto(x, 0) = 0 /\ Upto(x, 0 + 1) = Upto(x, 0) + x[0 + 1]
    <3>1. 0 \in 0 .. Len(x) - 1
      BY <2>1
    <3> QED
      BY <2>1, <3>1, UptoGrow
  <2>3. t + r * 10 \in Nat
    OBVIOUS
  <2> QED
    BY <2>1, <2>2, <2>3
<1>6. \A n \in 1 .. a + r : w[n].sec = c.name
  BY <1>1
<1>7. \A j \in 0 .. r : End(w, a + j) = t + j * 10
  <2> DEFINE P == {j \in Nat : j <= r => End(w, a + j) = t + j * 10}
  <2>1. 0 \in P
    BY <1>1
  <2>2. ASSUME NEW j \in Nat, j \in P PROVE j + 1 \in P
    <3> SUFFICES ASSUME j + 1 <= r PROVE End(w, a + (j + 1)) = t + (j + 1) * 10
      OBVIOUS
    <3>1. a + j \in 0 .. Len(w) - 1 /\ (a + j) + 1 \in a + 1 .. a + r /\ a + (j + 1) = (a + j) + 1
      BY <1>1
    <3>2. End(w, (a + j) + 1) = End(w, a + j) + w[(a + j) + 1].len
      BY <3>1, EndConcat
    <3>3. w[(a + j) + 1].len = 10
      BY <1>1, <3>1 DEF RelocSize
    <3>4. End(w, a + j) = t + j * 10
      BY <1>1, <2>2
    <3> QED
      BY <3>1, <3>2, <3>3, <3>4
  <2> HIDE DEF P
  <2>3. \A j \in Nat : j \in P
    BY <2>1, <2>2, Induction
  <2> QED
    BY <2>3 DEF P
<1>8. Of(w, c.name, "data") = 1 .. a /\ Of(w, c.name, "reloc") = a + 1 .. a + r
  <2>1. DOMAIN w = 1 .. a + r
    BY <1>1
  <2>2. \A n \in 1 .. a + r : n \in 1 .. a \/ n \in a + 1 .. a + r
    OBVIOUS
  <2>3. \A n \in 1 .. a : w[n].what = "data" /\ w[n].sec = c.name /\ n \in 1 .. a + r
    OBVIOUS
  <2>4. \A n \in a + 1 .. a + r : w[n].what = "reloc" /\ w[n].sec = c.name /\ n \in 1 .. a + r
    BY <1>1
  <2> QED
    BY <2>1, <2>2, <2>3, <2>4 DEF Of
<1>9. Fills(w, c.name, "data", 0, t)
  <2>1. End(w, 0) = 0 /\ End(w, a) = 0 + t
    BY <1>1, EndConcat
  <2>2. ASSUME NEW n \in 1 .. a
        PROVE (End(w, n - 1) = 0 \/ n - 1 \in 1 .. a) /\ (End(w, n) = 0 + t \/ n + 1 \in 1 .. a)
    <3>1. n = 1 \/ n - 1 \in 1 .. a
      OBVIOUS
    <3>2. n = a \/ n + 1 \in 1 .. a
      OBVIOUS
    <3> QED
      BY <2>1, <3>1, <3>2
  <2>3. t # 0 /\ 1 \in 1 .. a
    OBVIOUS
  <2> QED
    BY <1>8, <2>2, <2>3 DEF Fills
<1>10. Fills(w, c.name, "reloc", 0 + t, r * 10)
  <2>1. End(w, a) = t /\ End(w, a + r) = (0 + t) + r * 10
    BY <1>1, <1>7
  <2>2. ASSUME NEW n \in a + 1 .. a + r
        PROVE /\ End(w, n - 1) = 0 + t \/ n - 1 \in a + 1 .. a + r
              /\ End(w, n) = (0 + t) + r * 10 \/ n + 1 \in a + 1 .. a + r
    <3>1. n - 1 = a \/ n - 1 \in a + 1 .. a + r
      OBVIOUS
    <3>2. n = a + r \/ n + 1 \in a + 1 .. a + r
      OBVIOUS
    <3> QED
      BY <2>1, <3>1, <3>2
  <2>3. r * 10 = 0 <=> a + 1 .. a + r = {}
    <3>1. CASE r = 0
      BY <3>1
    <3>2. CASE r # 0
      <4>1. a + 1 \in a + 1 .. a + r /\ r * 10 # 0
        BY <3>2
      <4> QED
        BY <4>1
    <3> QED
      BY <3>1, <3>2
  <2> QED
    BY <1>8, <2>2, <2>3 DEF Fills
<1>11. End(w, Len(w)) = Upto(x, Len(p))
  <2>1. r \in 0 .. r
    OBVIOUS
  <2> QED
    BY <1>1, <1>3, <1>5, <1>7, <2>1
<1>12. \A n \in DOMAIN w : w[n].sec \in Names(p)
  <2>1. c.name \in Names(p)
    BY <1>3 DEF Names
  <2> QED
    BY <1>1, <1>6, <2>1
<1>13. ASSUME NEW m \in DOMAIN p
       PROVE  /\ Fills(w, p[m].name, "data", Upto(x, m - 1), p[m].size)
              /\ Fills(w, p[m].name, "reloc", Upto(x, m - 1) + p[m].size, p[m].relocs * RelocSize)
  <2>1. m = 1 /\ m - 1 = 0
    BY <1>3
  <2> QED
    BY <1>1, <1>3, <1>5, <1>9, <1>10, <2>1 DEF RelocSize
<1> QED
  BY <1>2, <1>4, <1>11, <1>12, <1>13 DEF Laid

\* Data in one piece, with relocations behind it.
LEMMA LaidDatum ==
  ASSUME NEW K, NEW w \in Seq(Asking(K)), NEW c \in SectionCall, NEW r \in Nat,
         r = c.relocs, Len(w) = 1 + r, w[1] = Data(c.name, c.size),
         \A n \in 2 .. 1 + r : \E keep : w[n] = Reloc(c.name, keep)
  PROVE  Laid(Shapes(w), <<c>>)
<1>1. PICK s : s = Shapes(w)
  OBVIOUS
<1>2. \A p \in Asking(K) : Shape(p) \in Shaped
  BY PiecesShaped
<1>3. s \in Seq(Shaped) /\ Len(s) = 1 + r /\ \A n \in 1 .. 1 + r : s[n] = Shape(w[n])
  BY <1>1, <1>2, ShapesTyped
<1>4. \A sec, len : Shape(Data(sec, len)).sec = sec /\ Shape(Data(sec, len)).what = "data" /\ Shape(Data(sec, len)).len = len
  BY DEF Shape, Data
<1>5. \A sec, keep : /\ Shape(Reloc(sec, keep)).sec = sec /\ Shape(Reloc(sec, keep)).what = "reloc"
                     /\ Shape(Reloc(sec, keep)).len = RelocSize
  BY DEF Shape, Reloc
<1>6. s[1].sec = c.name /\ s[1].what = "data" /\ s[1].len = c.size
  <2>1. s[1] = Shape(Data(c.name, c.size))
    <3>1. 1 \in 1 .. 1 + r
      OBVIOUS
    <3> QED
      BY <1>3, <3>1
  <2> QED
    BY <1>4, <2>1
<1>7. \A n \in 1 + 1 .. 1 + c.relocs : s[n].sec = c.name /\ s[n].what = "reloc" /\ s[n].len = RelocSize
  <2> TAKE n \in 1 + 1 .. 1 + c.relocs
  <2>1. n \in 2 .. 1 + r /\ n \in 1 .. 1 + r
    OBVIOUS
  <2>2. PICK keep : w[n] = Reloc(c.name, keep)
    BY <2>1
  <2>3. PICK d : d = Shape(Reloc(c.name, keep))
    OBVIOUS
  <2>4. s[n] = d
    BY <1>3, <2>1, <2>2, <2>3
  <2>5. d.sec = c.name /\ d.what = "reloc" /\ d.len = RelocSize
    BY <1>5, <2>3
  <2> QED
    BY ONLY <2>4, <2>5
<1>8. End(s, 1) = c.size
  <2>1. End(s, 0) = 0 /\ End(s, 0 + 1) = End(s, 0) + s[0 + 1].len
    <3>1. 0 \in 0 .. Len(s) - 1
      BY <1>3
    <3> QED
      BY <1>3, <3>1, EndConcat
  <2>2. c.size \in Nat
    BY DEF SectionCall
  <2> QED
    BY <1>6, <2>1, <2>2
<1>9. \A n \in 1 .. 1 : s[n].sec = c.name /\ s[n].what = "data"
  BY <1>6
<1>10. 1 \in Nat \ {0} /\ Len(s) = 1 + c.relocs
  BY <1>3
<1>11. Laid(s, <<c>>)
  BY <1>3, <1>7, <1>8, <1>9, <1>10, LaidOne
<1> QED
  BY <1>1, <1>11

\* Data in two pieces or in three, without relocations.
LEMMA LaidData ==
  ASSUME NEW K, NEW c \in SectionCall, c.relocs = 0,
         NEW a \in Nat, NEW b \in Nat, NEW d \in Nat
  PROVE  /\ c.size = a + b => Laid(Shapes(<<Data(c.name, a), Data(c.name, b)>>), <<c>>)
         /\ c.size = a + b + d =>
              Laid(Shapes(<<Data(c.name, a), Data(c.name, b), Data(c.name, d)>>), <<c>>)
<1>1. PICK A : A = Asking(K) /\ \A p \in A : Shape(p) \in Shaped
  BY PiecesShaped
<1>2. PICK x, y, z : x = Data(c.name, a) /\ y = Data(c.name, b) /\ z = Data(c.name, d)
  OBVIOUS
<1>3. x \in A /\ y \in A /\ z \in A
  <2>1. c.name \in SecNames
    BY DEF SectionCall
  <2> QED
    BY <1>1, <1>2, <2>1, PiecesTyped
<1>4. \A sec, len : Shape(Data(sec, len)).sec = sec /\ Shape(Data(sec, len)).what = "data" /\ Shape(Data(sec, len)).len = len
  BY DEF Shape, Data
<1>5. /\ Shape(x).sec = c.name /\ Shape(x).what = "data" /\ Shape(x).len = a
      /\ Shape(y).sec = c.name /\ Shape(y).what = "data" /\ Shape(y).len = b
      /\ Shape(z).sec = c.name /\ Shape(z).what = "data" /\ Shape(z).len = d
  BY <1>2, <1>4
<1>6. ASSUME c.size = a + b PROVE Laid(Shapes(<<x, y>>), <<c>>)
  <2>1. PICK s : s = Shapes(<<x, y>>)
    OBVIOUS
  <2>2. s \in Seq(Shaped) /\ Len(s) = 2 /\ s[1] = Shape(x) /\ s[2] = Shape(y)
    <3>1. PICK w : w = <<x, y>>
      OBVIOUS
    <3>2. w \in Seq(A) /\ Len(w) = 2 /\ w[1] = x /\ w[2] = y
      BY <1>3, <3>1
    <3>3. s = Shapes(w)
      BY <2>1, <3>1
    <3>4. s \in Seq(Shaped) /\ Len(s) = Len(w) /\ \A n \in 1 .. Len(w) : s[n] = Shape(w[n])
      BY ONLY <1>1, <3>2, <3>3, ShapesTyped
    <3>5. 1 \in 1 .. 2 /\ 2 \in 1 .. 2
      OBVIOUS
    <3> QED
      BY ONLY <3>2, <3>4, <3>5
  <2>3. End(s, 0) = 0 /\ End(s, 0 + 1) = End(s, 0) + s[0 + 1].len /\ End(s, 1 + 1) = End(s, 1) + s[1 + 1].len
    <3>1. 0 \in 0 .. Len(s) - 1 /\ 1 \in 0 .. Len(s) - 1
      BY <2>2
    <3> QED
      BY <2>2, <3>1, EndConcat
  <2>4. End(s, 2) = c.size
    BY <1>5, <1>6, <2>2, <2>3
  <2>5. \A n \in 1 .. 2 : s[n].sec = c.name /\ s[n].what = "data"
    <3> TAKE n \in 1 .. 2
    <3>1. n = 1 \/ n = 2
      OBVIOUS
    <3> QED
      BY <1>5, <2>2, <3>1
  <2>6. 2 \in Nat \ {0} /\ Len(s) = 2 + c.relocs /\ 2 + 1 .. 2 + c.relocs = {}
    BY <2>2
  <2>7. Laid(s, <<c>>)
    BY <2>2, <2>4, <2>5, <2>6, LaidOne
  <2> QED
    BY <2>1, <2>7
<1>7. ASSUME c.size = a + b + d PROVE Laid(Shapes(<<x, y, z>>), <<c>>)
  <2>1. PICK s : s = Shapes(<<x, y, z>>)
    OBVIOUS
  <2>2. s \in Seq(Shaped) /\ Len(s) = 3 /\ s[1] = Shape(x) /\ s[2] = Shape(y) /\ s[3] = Shape(z)
    <3>1. PICK w : w = <<x, y, z>>
      OBVIOUS
    <3>2. w \in Seq(A) /\ Len(w) = 3 /\ w[1] = x /\ w[2] = y /\ w[3] = z
      BY <1>3, <3>1
    <3>3. s = Shapes(w)
      BY <2>1, <3>1
    <3>4. s \in Seq(Shaped) /\ Len(s) = Len(w) /\ \A n \in 1 .. Len(w) : s[n] = Shape(w[n])
      BY ONLY <1>1, <3>2, <3>3, ShapesTyped
    <3>5. 1 \in 1 .. 3 /\ 2 \in 1 .. 3 /\ 3 \in 1 .. 3
      OBVIOUS
    <3> QED
      BY ONLY <3>2, <3>4, <3>5
  <2>3. /\ End(s, 0) = 0 /\ End(s, 0 + 1) = End(s, 0) + s[0 + 1].len
        /\ End(s, 1 + 1) = End(s, 1) + s[1 + 1].len /\ End(s, 2 + 1) = End(s, 2) + s[2 + 1].len
    <3>1. 0 \in 0 .. Len(s) - 1 /\ 1 \in 0 .. Len(s) - 1 /\ 2 \in 0 .. Len(s) - 1
      BY <2>2
    <3> QED
      BY <2>2, <3>1, EndConcat
  <2>4. End(s, 3) = c.size
    BY <1>5, <1>7, <2>2, <2>3
  <2>5. \A n \in 1 .. 3 : s[n].sec = c.name /\ s[n].what = "data"
    <3> TAKE n \in 1 .. 3
    <3>1. n = 1 \/ n = 2 \/ n = 3
      OBVIOUS
    <3> QED
      BY <1>5, <2>2, <3>1
  <2>6. 3 \in Nat \ {0} /\ Len(s) = 3 + c.relocs /\ 3 + 1 .. 3 + c.relocs = {}
    BY <2>2
  <2>7. Laid(s, <<c>>)
    BY <2>2, <2>4, <2>5, <2>6, LaidOne
  <2> QED
    BY <2>1, <2>7
<1> QED
  BY <1>2, <1>6, <1>7

\* The code and its tables are where they belong,
LEMMA CodeLaid ==
  ASSUME NEW i \in Imports, i.machine # "other"
  PROVE  Laid(Shapes(CodePieces(i)), CodeSecs(i)) /\ Names(CodeSecs(i)) \subseteq {".text", ".pdata", ".reldata"}
<1>1. PICK K, A : K = Needs(i) /\ A = Asking(K)
  OBVIOUS
<1>2. "text" \in K /\ "imp" \in K /\ (i.machine = "powerpc" => "toc" \in K)
  BY <1>1 DEF Needs
<1>3. /\ "text" \in Wants(".text") /\ "imp" \in Wants(".text") /\ "text" \in Wants(".pdata")
      /\ "text" \in Wants(".reldata") /\ "toc" \in Wants(".reldata")
      /\ "text" \in Kept /\ "imp" \in Kept /\ "toc" \in Kept
  BY DEF Wants, Kept
<1>4. ".text" \in SecNames /\ ".pdata" \in SecNames /\ ".reldata" \in SecNames
  BY DEF SecNames
<1>5. \A sec \in {".text", ".pdata", ".reldata"} : sec # ".idata$6"
  OBVIOUS
<1>6. \A name \in SecNames, size \in Nat \ {0}, relocs \in Nat :
        /\ Section(name, size, relocs) \in SectionCall
        /\ Section(name, size, relocs).name = name /\ Section(name, size, relocs).size = size
        /\ Section(name, size, relocs).relocs = relocs
  BY CallsTyped DEF Section
<1>7. CASE i.machine = "alpha"
  <2>1. PICK a, b, c, s, w : /\ a = Data(".text", 12) /\ b = Reloc(".text", "imp")
                             /\ c = Reloc(".text", "text") /\ s = Section(".text", 12, 3)
                             /\ w = <<a, b, c, b>>
    OBVIOUS
  <2>2. a \in A /\ b \in A /\ c \in A
    BY <1>1, <1>2, <1>3, <1>4, <1>5, <2>1, PiecesTyped
  <2>3. s \in SectionCall /\ s.name = ".text" /\ s.size = 12 /\ s.relocs = 3
    BY <1>4, <1>6, <2>1
  <2>4. w \in Seq(A) /\ Len(w) = 1 + 3 /\ w[1] = a /\ w[2] = b /\ w[3] = c /\ w[4] = b
    BY <2>1, <2>2
  <2>5. \A n \in 2 .. 1 + 3 : \E keep : w[n] = Reloc(".text", keep)
    <3> TAKE n \in 2 .. 1 + 3
    <3>1. n = 2 \/ n = 3 \/ n = 4
      OBVIOUS
    <3> QED
      BY <2>1, <2>4, <3>1
  <2>6. Laid(Shapes(w), <<s>>)
    <3>1. PICK r \in Nat : r = 3
      OBVIOUS
    <3>2. r = s.relocs /\ Len(w) = 1 + r /\ w[1] = Data(s.name, s.size) /\ w \in Seq(Asking(K))
      BY <1>1, <2>1, <2>3, <2>4, <3>1
    <3>3. \A n \in 2 .. 1 + r : \E keep : w[n] = Reloc(s.name, keep)
      BY <2>3, <2>5, <3>1
    <3> QED
      BY ONLY <2>3, <3>1, <3>2, <3>3, LaidDatum
  <2>7. CodePieces(i) = w /\ CodeSecs(i) = <<s>>
    BY <1>7, <2>1 DEF CodePieces, CodeSecs
  <2>8. Names(<<s>>) \subseteq {".text"}
    BY <2>3 DEF Names
  <2> QED
    BY <2>6, <2>7, <2>8
<1>8. CASE i.machine = "i386"
  <2>1. PICK a, b, s, w : /\ a = Data(".text", 6) /\ b = Reloc(".text", "imp")
                          /\ s = Section(".text", 6, 1) /\ w = <<a, b>>
    OBVIOUS
  <2>2. a \in A /\ b \in A
    BY <1>1, <1>2, <1>3, <1>4, <1>5, <2>1, PiecesTyped
  <2>3. s \in SectionCall /\ s.name = ".text" /\ s.size = 6 /\ s.relocs = 1
    BY <1>4, <1>6, <2>1
  <2>4. w \in Seq(A) /\ Len(w) = 1 + 1 /\ w[1] = a /\ w[2] = b
    BY <2>1, <2>2
  <2>5. \A n \in 2 .. 1 + 1 : \E keep : w[n] = Reloc(".text", keep)
    <3> TAKE n \in 2 .. 1 + 1
    <3>1. n = 2
      OBVIOUS
    <3> QED
      BY <2>1, <2>4, <3>1
  <2>6. Laid(Shapes(w), <<s>>)
    BY <1>1, <2>1, <2>3, <2>4, <2>5, LaidDatum
  <2>7. CodePieces(i) = w /\ CodeSecs(i) = <<s>>
    BY <1>8, <2>1 DEF CodePieces, CodeSecs
  <2>8. Names(<<s>>) \subseteq {".text"}
    BY <2>3 DEF Names
  <2> QED
    BY <2>6, <2>7, <2>8
<1>9. CASE i.machine = "powerpc"
  <2>1. PICK a, b, c, d, e, f, g :
          /\ a = Data(".text", 24) /\ b = Reloc(".text", "imp")
          /\ c = Data(".pdata", 20) /\ d = Reloc(".pdata", "text")
          /\ e = Data(".reldata", 8) /\ f = Reloc(".reldata", "text") /\ g = Reloc(".reldata", "toc")
    OBVIOUS
  <2>2. PICK x, y, z : /\ x = Section(".text", 24, 1) /\ y = Section(".pdata", 20, 4)
                       /\ z = Section(".reldata", 8, 2)
    OBVIOUS
  <2>3. PICK r, u, v, w : r = [k \in 1 .. 4 |-> d] /\ u = <<a, b>> /\ v = <<c>> \o r /\ w = <<e, f, g>>
    OBVIOUS
  <2>4. a \in A /\ b \in A /\ c \in A /\ d \in A
    BY <1>1, <1>2, <1>3, <1>4, <1>5, <2>1, PiecesTyped
  <2>5. e \in A /\ f \in A /\ g \in A
    BY <1>1, <1>2, <1>3, <1>4, <1>5, <1>9, <2>1, PiecesTyped
  <2>6. /\ x \in SectionCall /\ x.name = ".text" /\ x.size = 24 /\ x.relocs = 1
        /\ y \in SectionCall /\ y.name = ".pdata" /\ y.size = 20 /\ y.relocs = 4
        /\ z \in SectionCall /\ z.name = ".reldata" /\ z.size = 8 /\ z.relocs = 2
    BY <1>4, <1>6, <2>2
  <2>7. u \in Seq(A) /\ Len(u) = 1 + 1 /\ u[1] = a /\ u[2] = b
    BY <2>3, <2>4
  <2>8. v \in Seq(A) /\ Len(v) = 1 + 4 /\ v[1] = c /\ \A n \in 2 .. 1 + 4 : v[n] = d
    <3>1. r \in Seq(A) /\ Len(r) = 4 /\ \A n \in 1 .. 4 : r[n] = d
      BY <2>3, <2>4
    <3>2. <<c>> \in Seq(A) /\ Len(<<c>>) = 1 /\ <<c>>[1] = c
      BY <2>4
    <3>3. PICK q : q = <<c>>
      OBVIOUS
    <3>4. /\ v \in Seq(A) /\ Len(v) = 1 + 4 /\ \A n \in 1 .. 1 : v[n] = q[n]
          /\ \A n \in 1 .. 4 : v[1 + n] = r[n]
      BY <2>3, <3>1, <3>2, <3>3, ListsConcat
    <3>5. \A n \in 2 .. 1 + 4 : n - 1 \in 1 .. 4 /\ n = 1 + (n - 1)
      OBVIOUS
    <3>6. 1 \in 1 .. 1
      OBVIOUS
    <3> QED
      BY <3>1, <3>2, <3>3, <3>4, <3>5, <3>6
  <2>9. w \in Seq(A) /\ Len(w) = 1 + 2 /\ w[1] = e /\ w[2] = f /\ w[3] = g
    BY <2>3, <2>5
  <2>10. Laid(Shapes(u), <<x>>)
    <3>1. \A n \in 2 .. 1 + 1 : \E keep : u[n] = Reloc(".text", keep)
      <4> TAKE n \in 2 .. 1 + 1
      <4>1. n = 2
        OBVIOUS
      <4> QED
        BY <2>1, <2>7, <4>1
    <3> QED
      BY <1>1, <2>1, <2>6, <2>7, <3>1, LaidDatum
  <2>11. Laid(Shapes(v), <<y>>)
    <3>1. \A n \in 2 .. 1 + 4 : \E keep : v[n] = Reloc(".pdata", keep)
      BY <2>1, <2>8
    <3> QED
      BY <1>1, <2>1, <2>6, <2>8, <3>1, LaidDatum, ZenonT(60)
  <2>12. Laid(Shapes(w), <<z>>)
    <3>1. \A n \in 2 .. 1 + 2 : \E keep : w[n] = Reloc(".reldata", keep)
      <4> TAKE n \in 2 .. 1 + 2
      <4>1. n = 2 \/ n = 3
        OBVIOUS
      <4> QED
        BY <2>1, <2>9, <4>1
    <3> QED
      BY <1>1, <2>1, <2>6, <2>9, <3>1, LaidDatum
  <2>13. Names(<<x>>) = {".text"} /\ Names(<<y>>) = {".pdata"} /\ Names(<<z>>) = {".reldata"}
    <3>1. \A q \in SectionCall : Names(<<q>>) = {q.name}
      BY DEF Names
    <3> QED
      BY <2>6, <3>1
  <2>14. PICK j, k, l, m, o, p : /\ j = Shapes(u) /\ k = Shapes(v) /\ l = Shapes(w)
                                 /\ m = <<x>> /\ o = <<y>> /\ p = <<z>>
    OBVIOUS
  <2>15. m \in Seq(SectionCall) /\ o \in Seq(SectionCall) /\ p \in Seq(SectionCall)
    BY <2>6, <2>14
  <2>16. Laid(j \o k, m \o o)
    <3>1. Names(m) \cap Names(o) = {}
      BY <2>13, <2>14
    <3> QED
      BY <2>10, <2>11, <2>14, <3>1, LaidConcat
  <2>17. Names(m \o o) = {".text", ".pdata"}
    <3>1. Names(m \o o) = Names(m) \cup Names(o)
      BY ONLY <2>15, RoomsConcat
    <3> QED
      BY <2>13, <2>14, <3>1
  <2>18. Laid((j \o k) \o l, (m \o o) \o p)
    <3>1. Names(m \o o) \cap Names(p) = {}
      BY <2>13, <2>14, <2>17
    <3> QED
      BY <2>12, <2>14, <2>16, <3>1, LaidConcat
  <2>19. CodePieces(i) = (u \o v) \o w
    BY <1>9, <2>1, <2>3 DEF CodePieces
  <2>20. CodeSecs(i) = (m \o o) \o p
    <3>1. CodeSecs(i) = m \o (o \o p)
      BY <1>9, <2>2, <2>14 DEF CodeSecs
    <3>2. m \o (o \o p) = (m \o o) \o p
      BY ONLY <2>15, ConcatAssociative
    <3> QED
      BY <3>1, <3>2
  <2>21. Shapes((u \o v) \o w) = (j \o k) \o l
    <3>1. PICK t : t = u \o v
      OBVIOUS
    <3>2. t \in Seq(A)
      BY <2>7, <2>8, <3>1
    <3>3. \A q \in A : Shape(q) \in Shaped
      BY <1>1, PiecesShaped
    <3>4. Shapes(t) = Shapes(u) \o Shapes(v)
      BY ONLY <2>7, <2>8, <3>1, <3>3, ShapesConcat
    <3>5. Shapes(t \o w) = Shapes(t) \o Shapes(w)
      BY ONLY <2>9, <3>2, <3>3, ShapesConcat
    <3> QED
      BY <2>14, <3>1, <3>4, <3>5
  <2>22. Names((m \o o) \o p) = {".text", ".pdata", ".reldata"}
    <3>1. PICK q : q = m \o o
      OBVIOUS
    <3>4. q \in Seq(SectionCall)
      <4>1. \A s, t \in Seq(SectionCall) : s \o t \in Seq(SectionCall)
        OBVIOUS
      <4> QED
        BY ONLY <2>15, <3>1, <4>1
    <3>2. Names(q \o p) = Names(q) \cup Names(p)
      BY ONLY <2>15, <3>4, RoomsConcat
    <3> QED
      BY <2>13, <2>14, <2>17, <3>1, <3>2
  <2> QED
    BY <2>18, <2>19, <2>20, <2>21, <2>22
<1> QED
  BY <1>7, <1>8, <1>9, Machines

\* so are the import tables,
LEMMA TableLaid ==
  ASSUME NEW i \in Imports, NEW sec \in {".idata$5", ".idata$4"}
  PROVE  Laid(Shapes(TablePieces(i, sec)), <<Section(sec, 4, IF i.type = "ordinal" THEN 0 ELSE 1)>>)
<1>1. PICK K, A : K = Needs(i) /\ A = Asking(K)
  OBVIOUS
<1>2. sec \in SecNames \ {".idata$6"}
  BY DEF SecNames
<1>3. PICK named \in {0, 1} : named = IF i.type = "ordinal" THEN 0 ELSE 1
  OBVIOUS
<1>4. PICK s : s = Section(sec, 4, named)
  OBVIOUS
<1>5. s \in SectionCall /\ s.name = sec /\ s.size = 4 /\ s.relocs = named
  <2>1. 4 \in Nat \ {0} /\ named \in Nat
    OBVIOUS
  <2>2. s \in SectionCall
    BY <1>2, <1>4, <2>1, CallsTyped
  <2> QED
    BY <1>4, <2>2 DEF Section
<1>6. CASE i.type = "ordinal"
  <2>1. s.relocs = 0 /\ s.size = 2 + 2
    BY <1>3, <1>5, <1>6
  <2>2. Laid(Shapes(<<Data(s.name, 2), Data(s.name, 2)>>), <<s>>)
    <3>1. 2 \in Nat
      OBVIOUS
    <3> QED
      BY <1>5, <2>1, <3>1, LaidData
  <2>3. TablePieces(i, sec) = <<Data(s.name, 2), Data(s.name, 2)>>
    BY <1>5, <1>6 DEF TablePieces
  <2> QED
    BY <1>3, <1>4, <2>2, <2>3
<1>7. CASE i.type # "ordinal"
  <2>1. PICK a, b, w : a = Data(sec, 4) /\ b = Reloc(sec, "idata6") /\ w = <<a, b>>
    OBVIOUS
  <2>2. "idata6" \in K /\ "idata6" \in Kept /\ "idata6" \in Wants(sec)
    BY <1>1, <1>7 DEF Needs, Kept, Wants
  <2>3. a \in A /\ b \in A
    BY <1>1, <1>2, <2>1, <2>2, PiecesTyped
  <2>4. w \in Seq(A) /\ Len(w) = 1 + 1 /\ w[1] = a /\ w[2] = b
    BY <2>1, <2>3
  <2>5. \A n \in 2 .. 1 + 1 : \E keep : w[n] = Reloc(sec, keep)
    <3> TAKE n \in 2 .. 1 + 1
    <3>1. n = 2
      OBVIOUS
    <3> QED
      BY <2>1, <2>4, <3>1
  <2>6. s.relocs = 1
    BY <1>3, <1>5, <1>7
  <2>7. Laid(Shapes(w), <<s>>)
    BY <1>1, <1>5, <2>1, <2>4, <2>5, <2>6, LaidDatum
  <2>8. TablePieces(i, sec) = w
    BY <1>7, <2>1 DEF TablePieces
  <2> QED
    BY <1>3, <1>4, <2>7, <2>8
<1> QED
  BY <1>6, <1>7

\* and the name, which is padded to the size that was declared: with its hint and
\* its end it takes 2 + d + 1 bytes, or one more if d is even.
LEMMA NameLaid ==
  ASSUME NEW i \in Imports
  PROVE  Laid(Shapes(NamePieces(i)), IF i.type = "ordinal" THEN <<>> ELSE <<Section(".idata$6", NameSize(i), 0)>>)
<1>1. CASE i.type = "ordinal"
  <2>1. Shapes(<<>>) = <<>>
    BY DEF Shapes
  <2>2. NamePieces(i) = <<>>
    BY <1>1 DEF NamePieces
  <2> QED
    BY <1>1, <2>1, <2>2, LaidNone
<1>2. CASE i.type # "ordinal"
  <2>1. PICK d \in Nat : d = DllSymbolLen(i)
    BY LensAreNumbers
  <2>2. PICK s : s = Section(".idata$6", NameSize(i), 0)
    OBVIOUS
  <2>3. NameSize(i) = 2 + (d \div 2) * 2 + 2 /\ NameSize(i) \in Nat \ {0}
    <3>1. d \div 2 \in Nat
      OBVIOUS
    <3>2. NameSize(i) = 2 + (d \div 2) * 2 + 2
      BY <2>1 DEF NameSize
    <3> QED
      BY <3>1, <3>2
  <2>4. s \in SectionCall /\ s.name = ".idata$6" /\ s.size = NameSize(i) /\ s.relocs = 0
    <3>1. s \in SectionCall
      BY <2>2, <2>3, CallsTyped DEF SecNames
    <3> QED
      BY <2>2, <3>1 DEF Section
  <2>5. PICK a, b, c : a = Data(".idata$6", 2) /\ b = Data(".idata$6", d + 1) /\ c = Data(".idata$6", 1)
    OBVIOUS
  <2>6. PICK A : A = Asking(Needs(i))
    OBVIOUS
  <2>7. a \in A /\ b \in A /\ c \in A
    <3>1. ".idata$6" \in SecNames /\ 2 \in Nat /\ 1 \in Nat /\ d + 1 \in Nat
      BY DEF SecNames
    <3> QED
      BY <2>5, <2>6, <3>1, PiecesTyped
  <2>8. NamePieces(i) = <<a, b>> \o Padding(i)
    BY <1>2, <2>1, <2>5 DEF NamePieces
  <2>9. 2 \in Nat /\ d + 1 \in Nat /\ 1 \in Nat
    OBVIOUS
  <2>10. CASE d % 2 = 0
    <3>1. s.size = 2 + (d + 1) + 1
      BY <2>3, <2>4, <2>10
    <3>2. Laid(Shapes(<<a, b, c>>), <<s>>)
      BY <2>4, <2>5, <2>9, <3>1, LaidData
    <3>3. NamePieces(i) = <<a, b, c>>
      <4>1. Padding(i) = <<c>>
        BY <2>1, <2>5, <2>10 DEF Padding
      <4> QED
        BY <2>7, <2>8, <4>1, TwoAndOne
    <3> QED
      BY <1>2, <2>2, <3>2, <3>3
  <2>11. CASE d % 2 # 0
    <3>1. s.size = 2 + (d + 1)
      BY <2>3, <2>4, <2>11
    <3>2. Laid(Shapes(<<a, b>>), <<s>>)
      BY <2>4, <2>5, <2>9, <3>1, LaidData
    <3>3. NamePieces(i) = <<a, b>>
      <4>1. Padding(i) = <<>>
        BY <2>1, <2>11 DEF Padding
      <4> QED
        BY <2>7, <2>8, <4>1
    <3> QED
      BY <1>2, <2>2, <3>2, <3>3
  <2> QED
    BY <2>10, <2>11
<1> QED
  BY <1>1, <1>2

\* so everything is: what is written agrees with what was declared.
LEMMA WrittenLaid ==
  ASSUME NEW i \in Imports, i.machine # "other"
  PROVE  Laid(Shapes(Written(i)), Plan(i))
<1>1. PICK A : A = Asking(Needs(i)) /\ \A q \in A : Shape(q) \in Shaped
  BY PiecesShaped
<1>2. PICK c, d, e, f : /\ c = CodePieces(i) /\ d = TablePieces(i, ".idata$5")
                        /\ e = TablePieces(i, ".idata$4") /\ f = NamePieces(i)
  OBVIOUS
<1>3. c \in Seq(A) /\ d \in Seq(A) /\ e \in Seq(A) /\ f \in Seq(A)
  BY <1>1, <1>2, CodeAsks, TablesAsk, NameAsks
<1>4. PICK named \in {0, 1} : named = IF i.type = "ordinal" THEN 0 ELSE 1
  OBVIOUS
<1>5. PICK m, x, y, z : /\ m = CodeSecs(i)
                        /\ x = <<Section(".idata$5", 4, named)>> /\ y = <<Section(".idata$4", 4, named)>>
                        /\ z = IF i.type = "ordinal" THEN <<>> ELSE <<Section(".idata$6", NameSize(i), 0)>>
  OBVIOUS
<1>6. Laid(Shapes(c), m) /\ Laid(Shapes(d), x) /\ Laid(Shapes(e), y) /\ Laid(Shapes(f), z)
  BY <1>2, <1>4, <1>5, CodeLaid, TableLaid, NameLaid
<1>7. m \in Seq(SectionCall) /\ x \in Seq(SectionCall) /\ y \in Seq(SectionCall) /\ z \in Seq(SectionCall)
  BY <1>6 DEF Laid
<1>8. /\ Names(m) \subseteq {".text", ".pdata", ".reldata"} /\ Names(x) = {".idata$5"}
      /\ Names(y) = {".idata$4"} /\ Names(z) \subseteq {".idata$6"}
  <2>1. \A name, size, relocs : Names(<<Section(name, size, relocs)>>) = {name}
    BY DEF Names, Section
  <2>2. Names(<<>>) = {}
    BY DEF Names
  <2> QED
    BY <1>5, <2>1, <2>2, CodeLaid
<1>9. PICK j, k, l, n : j = Shapes(c) /\ k = Shapes(d) /\ l = Shapes(e) /\ n = Shapes(f)
  OBVIOUS
<1>10. PICK cd, mx : cd = c \o d /\ mx = m \o x
  OBVIOUS
<1>11. cd \in Seq(A) /\ Shapes(cd) = j \o k
  <2>1. \A s, t \in Seq(A) : s \o t \in Seq(A)
    OBVIOUS
  <2>2. cd \in Seq(A)
    BY ONLY <1>3, <1>10, <2>1
  <2>3. Shapes(c \o d) = Shapes(c) \o Shapes(d)
    BY ONLY <1>1, <1>3, ShapesConcat
  <2> QED
    BY <1>9, <1>10, <2>2, <2>3
<1>12. mx \in Seq(SectionCall) /\ Names(mx) = Names(m) \cup {".idata$5"} /\ Laid(j \o k, mx)
  <2>1. Names(m) \cap Names(x) = {}
    BY <1>8
  <2>2. mx \in Seq(SectionCall) /\ Names(mx) = Names(m) \cup {".idata$5"}
    <3>1. Names(mx) = Names(m) \cup Names(x)
      BY <1>7, <1>10, RoomsConcat
    <3>2. mx \in Seq(SectionCall)
      BY <1>7, <1>10
    <3> QED
      BY <1>8, <3>1, <3>2
  <2> QED
    BY <1>6, <1>9, <1>10, <2>1, <2>2, LaidConcat
<1>13. PICK cde, mxy : cde = cd \o e /\ mxy = mx \o y
  OBVIOUS
<1>14. cde \in Seq(A) /\ Shapes(cde) = (j \o k) \o l
  <2>1. \A s, t \in Seq(A) : s \o t \in Seq(A)
    OBVIOUS
  <2>2. cde \in Seq(A)
    BY ONLY <1>3, <1>11, <1>13, <2>1
  <2>3. Shapes(cd \o e) = Shapes(cd) \o Shapes(e)
    BY ONLY <1>1, <1>3, <1>11, ShapesConcat
  <2> QED
    BY <1>9, <1>11, <1>13, <2>2, <2>3
<1>15. mxy \in Seq(SectionCall) /\ Names(mxy) = Names(m) \cup {".idata$5", ".idata$4"} /\ Laid((j \o k) \o l, mxy)
  <2>1. Names(mx) \cap Names(y) = {}
    BY <1>8, <1>12
  <2>2. mxy \in Seq(SectionCall) /\ Names(mxy) = Names(m) \cup {".idata$5", ".idata$4"}
    <3>1. Names(mxy) = Names(mx) \cup Names(y)
      BY <1>7, <1>12, <1>13, RoomsConcat
    <3>2. mxy \in Seq(SectionCall)
      BY <1>7, <1>12, <1>13
    <3>3. Names(mx) \cup Names(y) = Names(m) \cup {".idata$5", ".idata$4"}
      BY <1>8, <1>12
    <3> QED
      BY <3>1, <3>2, <3>3
  <2> QED
    BY <1>6, <1>9, <1>12, <1>13, <2>1, <2>2, LaidConcat
<1>16. Laid(((j \o k) \o l) \o n, mxy \o z)
  <2>1. Names(mxy) \cap Names(z) = {}
    BY <1>8, <1>15
  <2> QED
    BY <1>6, <1>9, <1>15, <2>1, LaidConcat
<1>17. Shapes(Written(i)) = ((j \o k) \o l) \o n
  <2>1. Written(i) = cde \o f
    BY <1>2, <1>10, <1>13 DEF Written
  <2>2. Shapes(cde \o f) = Shapes(cde) \o Shapes(f)
    BY <1>1, <1>3, <1>14, ShapesConcat
  <2> QED
    BY <1>9, <1>14, <2>1, <2>2
<1>18. Plan(i) = mxy \o z
  <2>1. Plan(i) = m \o ((x \o y) \o z)
    BY <1>4, <1>5, DeclaredPart DEF ImportSecs
  <2>2. m \o ((x \o y) \o z) = ((m \o x) \o y) \o z
    <3>1. PICK xy : xy = x \o y
      OBVIOUS
    <3>2. xy \in Seq(SectionCall)
      BY <1>7, <3>1
    <3>3. m \o (xy \o z) = (m \o xy) \o z
      <4>1. m \in Seq(SectionCall) /\ xy \in Seq(SectionCall) /\ z \in Seq(SectionCall)
        BY <1>7, <3>2
      <4> QED
        BY ONLY <4>1, ConcatAssociative, SMTT(30)
    <3>4. m \o (x \o y) = (m \o x) \o y
      <4>1. m \in Seq(SectionCall) /\ x \in Seq(SectionCall) /\ y \in Seq(SectionCall)
        BY <1>7
      <4> QED
        BY ONLY <4>1, ConcatAssociative
    <3> QED
      BY <3>1, <3>3, <3>4
  <2> QED
    BY <1>10, <1>13, <2>1, <2>2
<1> QED
  BY <1>16, <1>17, <1>18

-----------------------------------------------------------------------------
(* Where the pieces are in the file.                                       *)

\* The pieces in front of the sections.
Heading(n) ==
  <<[sec |-> "file", what |-> "header", len |-> HeaderSize],
    [sec |-> "file", what |-> "sections", len |-> n * SectionSize]>>

\* Every header says where its section starts, the last one where the symbols do.
PlacesInv ==
  stage \in {"write", "done"} =>
    /\ \A n \in DOMAIN c_file.section :
         /\ c_file.section[n].rawdata_ptr = Front(c_file.section, n - 1)
         /\ c_file.section[n].reloc_ptr = Front(c_file.section, n - 1) + c_file.section[n].size
    /\ c_file.sym_table = Front(c_file.section, Len(c_file.section))

\* What is written goes on with what is still to be written.
PiecesInv ==
  /\ PlacesInv
  /\ stage = "write" =>
       Shapes(out) \o Shapes(todo)
         = Shapes(Heading(Len(c_file.section))) \o Shapes(Written(import))
  /\ stage = "done" =>
       /\ Shapes(out) = (Shapes(Heading(Len(c_file.section))) \o Shapes(Written(import)))
                          \o Shapes(Closing(c_file))
       /\ c_file.symbol # <<>>
  /\ stage \in {"write", "done"} => import.machine # "other"

\* The first piece that is to be written is, with the same shape.
LEMMA PieceMoves ==
  ASSUME NEW A, \A q \in A : Shape(q) \in Shaped, NEW o \in Seq(Piece), NEW t \in Seq(A), t # <<>>,
         NEW p \in Piece, Shape(p) = Shape(t[1])
  PROVE  Shapes(Append(o, p)) \o Shapes(Tail(t)) = Shapes(o) \o Shapes(t)
<1>1. PICK x, u, a, b, c : /\ x = t[1] /\ u = Tail(t) /\ a = Shapes(o) /\ b = Shapes(u) /\ c = Shape(p)
  OBVIOUS
<1>2. t = <<x>> \o u /\ x \in A /\ u \in Seq(A)
  BY <1>1, Uppermost
<1>3. \A q \in Piece : Shape(q) \in Shaped
  BY PiecesShaped
<1>4. a \in Seq(Shaped) /\ b \in Seq(Shaped) /\ c \in Shaped
  <2>1. a \in Seq(Shaped)
    BY <1>1, <1>3, ShapesTyped
  <2>2. b \in Seq(Shaped)
    BY <1>1, <1>2, ShapesTyped
  <2> QED
    BY <1>1, <1>3, <2>1, <2>2
<1>5. \A q : Shapes(<<q>>) = <<Shape(q)>>
  BY DEF Shapes
<1>6. Shapes(Append(o, p)) = a \o <<c>>
  <2>1. <<p>> \in Seq(Piece) /\ Append(o, p) = o \o <<p>>
    BY AppendIsConcat
  <2>2. Shapes(o \o <<p>>) = Shapes(o) \o Shapes(<<p>>)
    BY <1>3, <2>1, ShapesConcat
  <2> QED
    BY <1>1, <1>5, <2>1, <2>2
<1>7. Shapes(t) = <<c>> \o b
  <2>1. <<x>> \in Seq(A)
    BY <1>2
  <2>2. Shapes(<<x>> \o u) = Shapes(<<x>>) \o Shapes(u)
    BY <1>2, <2>1, ShapesConcat
  <2> QED
    BY <1>1, <1>2, <1>5, <2>2
<1>8. (a \o <<c>>) \o b = a \o (<<c>> \o b)
  <2>1. a \in Seq(Shaped) /\ <<c>> \in Seq(Shaped) /\ b \in Seq(Shaped)
    BY <1>4
  <2> QED
    BY ONLY <2>1, ConcatAssociative
<1> QED
  BY <1>1, <1>6, <1>7, <1>8

\* A header has the place of its section from the sizes alone.
LEMMA FrontPlaced ==
  ASSUME NEW secs \in Seq(Header), NEW n \in 0 .. Len(secs)
  PROVE  Front(Placed(secs), n) = Front(secs, n)
<1>1. PICK p : p = Placed(secs)
  OBVIOUS
<1>2. Len(p) = Len(secs) /\ \A m \in 1 .. Len(secs) : p[m].size = secs[m].size /\ p[m].num_relocs = secs[m].num_relocs
  BY <1>1, PlacedTyped
<1>3. \A m \in 1 .. Len(secs) : Room(p[m]) = Room(secs[m])
  BY <1>2 DEF Room
<1>4. \A m \in 1 .. n : m \in 1 .. Len(secs)
  <2>1. Len(secs) \in Nat
    OBVIOUS
  <2> QED
    BY <2>1
<1>5. [m \in 1 .. n |-> Room(p[m])] = [m \in 1 .. n |-> Room(secs[m])]
  BY <1>3, <1>4
<1>6. Front(p, n) = Front(secs, n)
  BY <1>2, <1>5 DEF Front
<1> QED
  BY <1>1, <1>6

\* The two pieces in front: neither data nor relocations nor a table.
LEMMA HeadingTyped ==
  ASSUME NEW n \in Nat
  PROVE  /\ Heading(n) \in Seq(Piece) /\ Shapes(Heading(n)) \in Seq(Shaped) /\ Len(Shapes(Heading(n))) = 2
         /\ End(Shapes(Heading(n)), 2) = HeaderSize + n * SectionSize
         /\ \A sec, what : what \notin {"header", "sections"} => Of(Shapes(Heading(n)), sec, what) = {}
<1>1. PICK a, b, l : /\ a = [sec |-> "file", what |-> "header", len |-> HeaderSize] /\ l = n * SectionSize
                     /\ b = [sec |-> "file", what |-> "sections", len |-> n * SectionSize]
  OBVIOUS
<1>2. HeaderSize \in Nat /\ l \in Nat
  <2>1. n * 40 \in Nat
    OBVIOUS
  <2> QED
    BY <1>1, <2>1 DEF HeaderSize, SectionSize
<1>3. a \in Piece /\ b \in Piece
  BY <1>1, <1>2 DEF Piece
<1>4. PICK h, s : h = Heading(n) /\ s = Shapes(h)
  OBVIOUS
<1>5. h = <<a, b>>
  BY <1>1, <1>4 DEF Heading
<1>6. h \in Seq(Piece) /\ Len(h) = 2 /\ h[1] = a /\ h[2] = b
  BY <1>3, <1>5
<1>7. s \in Seq(Shaped) /\ Len(s) = 2 /\ s[1] = Shape(a) /\ s[2] = Shape(b)
  <2>1. \A q \in Piece : Shape(q) \in Shaped
    BY PiecesShaped
  <2>2. s \in Seq(Shaped) /\ Len(s) = Len(h) /\ \A m \in 1 .. Len(h) : s[m] = Shape(h[m])
    BY ONLY <1>4, <1>6, <2>1, ShapesTyped
  <2>3. 1 \in 1 .. 2 /\ 2 \in 1 .. 2
    OBVIOUS
  <2> QED
    BY ONLY <1>6, <2>2, <2>3
<1>8. Shape(a).what = "header" /\ Shape(a).len = HeaderSize /\ Shape(b).what = "sections" /\ Shape(b).len = l
  BY <1>1 DEF Shape
<1>9. End(s, 2) = HeaderSize + l
  <2>1. End(s, 0) = 0 /\ End(s, 0 + 1) = End(s, 0) + s[0 + 1].len /\ End(s, 1 + 1) = End(s, 1) + s[1 + 1].len
    <3>1. 0 \in 0 .. Len(s) - 1 /\ 1 \in 0 .. Len(s) - 1
      BY <1>7
    <3> QED
      BY <1>7, <3>1, EndConcat
  <2> QED
    BY <1>2, <1>7, <1>8, <2>1
<1>10. ASSUME NEW sec, NEW what, what \notin {"header", "sections"} PROVE Of(s, sec, what) = {}
  <2>1. \A m \in DOMAIN s : m = 1 \/ m = 2
    BY <1>7
  <2>2. \A m \in DOMAIN s : s[m].what # what
    BY <1>7, <1>8, <1>10, <2>1
  <2> QED
    BY <2>2 DEF Of
<1> QED
  BY <1>1, <1>4, <1>6, <1>7, <1>9, <1>10

-----------------------------------------------------------------------------
\* The header is written in front of what is to be written.
LEMMA HeaderPieces ==
  ASSUME Inv, CreateCoffFileHeader
  PROVE  PiecesInv'
<1>1. /\ TypesInv /\ import.machine # "other" /\ stage' = "write" /\ import' = import
      /\ todo' = Written(import)
  BY DEF Inv, CreateCoffFileHeader
<1>2. PICK f, secs : f = c_file /\ secs = f.section
  OBVIOUS
<1>3. f \in File
  BY <1>1, <1>2 DEF TypesInv
<1>4. secs \in Seq(Header) /\ Len(secs) \in Nat /\ DOMAIN secs = 1 .. Len(secs)
  BY <1>2, <1>3, FileTyped
<1>5. \A n : Before(n) = Front(secs, n)
  BY <1>2 DEF Before, Front
<1>6. PICK p, x : p = Placed(secs) /\ x = Front(secs, Len(secs))
  OBVIOUS
<1>7. c_file' = [f EXCEPT !.section = p, !.sym_table = x]
  BY <1>2, <1>5, <1>6 DEF CreateCoffFileHeader, Placed
<1>8. c_file'.section = p /\ c_file'.sym_table = x
  BY <1>3, <1>7 DEF File
<1>9. /\ p \in Seq(Header) /\ Len(p) = Len(secs) /\ DOMAIN p = 1 .. Len(secs)
      /\ \A n \in 1 .. Len(secs) : /\ p[n].size = secs[n].size
                                   /\ p[n].rawdata_ptr = Front(secs, n - 1)
                                   /\ p[n].reloc_ptr = Front(secs, n - 1) + secs[n].size
  <2>1. /\ p \in Seq(Header) /\ Len(p) = Len(secs)
        /\ \A n \in 1 .. Len(secs) : /\ p[n].size = secs[n].size
                                     /\ p[n].rawdata_ptr = Front(secs, n - 1)
                                     /\ p[n].reloc_ptr = Front(secs, n - 1) + secs[n].size
    BY <1>4, <1>6, PlacedTyped
  <2> QED
    BY <2>1
<1>10. \A n \in 0 .. Len(secs) : Front(p, n) = Front(secs, n)
  BY <1>4, <1>6, FrontPlaced
<1>11. PlacesInv'
  <2>1. \A n \in DOMAIN p : p[n].rawdata_ptr = Front(p, n - 1) /\ p[n].reloc_ptr = Front(p, n - 1) + p[n].size
    <3> TAKE n \in DOMAIN p
    <3>1. n \in 1 .. Len(secs) /\ n - 1 \in 0 .. Len(secs)
      BY <1>4, <1>9
    <3> QED
      BY <1>9, <1>10, <3>1
  <2>2. x = Front(p, Len(p))
    <3>1. Len(secs) \in 0 .. Len(secs)
      BY <1>4
    <3> QED
      BY <1>6, <1>9, <1>10, <3>1
  <2> QED
    BY <1>8, <2>1, <2>2 DEF PlacesInv
<1>12. out' = Heading(Len(secs))
  BY <1>2 DEF CreateCoffFileHeader, Heading
<1> QED
  BY <1>1, <1>8, <1>9, <1>11, <1>12 DEF PiecesInv

\* A piece that is written is that which was to be written next.
LEMMA AfterPieceMoved ==
  ASSUME Inv, PiecesInv, stage = "write", stage' = "write", todo # <<>>, todo' = Tail(todo),
         c_file' = c_file, import' = import,
         NEW p \in Piece, out' = Append(out, p), Shape(p) = Shape(todo[1])
  PROVE  PiecesInv'
<1>1. out \in Seq(Piece) /\ todo \in Seq(Asking(Needs(import)))
  BY DEF Inv, TypesInv
<1>2. PICK A, o, t : A = Asking(Needs(import)) /\ o = out /\ t = todo
  OBVIOUS
<1>3. \A q \in A : Shape(q) \in Shaped
  BY <1>2, PiecesShaped
<1>4. Shapes(Append(o, p)) \o Shapes(Tail(t)) = Shapes(o) \o Shapes(t)
  <2>1. o \in Seq(Piece) /\ t \in Seq(A) /\ t # <<>> /\ Shape(p) = Shape(t[1])
    BY <1>1, <1>2
  <2> QED
    BY ONLY <1>3, <2>1, p \in Piece, PieceMoves
<1>5. Shapes(out') \o Shapes(todo') = Shapes(out) \o Shapes(todo)
  BY <1>2, <1>4
<1>6. PlacesInv'
  BY DEF PiecesInv, PlacesInv
<1> QED
  BY <1>5, <1>6 DEF PiecesInv

\* AddDataImpLib: the next piece as it is,
LEMMA DataPieces ==
  ASSUME Inv, PiecesInv, AddDataImpLib
  PROVE  PiecesInv'
<1>1. /\ stage = "write" /\ stage' = "write" /\ todo # <<>> /\ todo' = Tail(todo)
      /\ c_file' = c_file /\ import' = import
      /\ out' = Append(out, Head(todo)) /\ Head(todo).what = "data"
  BY DEF AddDataImpLib
<1>2. todo \in Seq(Asking(Needs(import)))
  BY <1>1 DEF Inv, TypesInv
<1>3. Head(todo) \in Asking(Needs(import)) /\ Head(todo) = todo[1]
  BY <1>1, <1>2
<1>4. Head(todo) \in DataPiece
  BY <1>1, <1>3 DEF Asking, RelocPiece
<1>5. Head(todo) \in Piece
  BY <1>4 DEF Piece
<1> QED
  BY <1>1, <1>3, <1>5, AfterPieceMoved

\* and CreateCoffReloc: the same piece with the number of its symbol.
LEMMA RelocPieces ==
  ASSUME Inv, PiecesInv, CreateCoffReloc
  PROVE  PiecesInv'
<1>1. PICK q, p : /\ q = Head(todo)
                  /\ p = [sec |-> q.sec, what |-> "reloc", len |-> RelocSize,
                          sym_tab_index |-> number[q.keep]]
  OBVIOUS
<1>2. /\ stage = "write" /\ stage' = "write" /\ todo # <<>> /\ todo' = Tail(todo)
      /\ c_file' = c_file /\ import' = import
      /\ out' = Append(out, p) /\ q.what = "reloc"
  BY <1>1 DEF CreateCoffReloc
<1>3. todo \in Seq(Asking(Needs(import))) /\ number \in [Kept -> Int]
  BY <1>2 DEF Inv, TypesInv
<1>4. q \in Asking(Needs(import)) /\ q = todo[1]
  BY <1>1, <1>2, <1>3
<1>5. q \in RelocPiece
  BY <1>2, <1>4 DEF Asking, DataPiece
<1>6. q.sec \in SecNames /\ q.keep \in Kept /\ q.len = RelocSize
  BY <1>5 DEF RelocPiece
<1>8. p \in Piece
  BY <1>1, <1>3, <1>6 DEF Piece
<1>9. Shape(p) = Shape(todo[1])
  <2>1. p.sec = q.sec /\ p.what = q.what /\ p.len = q.len
    BY <1>1, <1>2, <1>6
  <2> QED
    BY <1>4, <2>1 DEF Shape
<1> QED
  BY <1>2, <1>8, <1>9, AfterPieceMoved

\* The tables close the file.
LEMMA TablesPieces ==
  ASSUME Inv, PiecesInv, CreateCoffTables
  PROVE  PiecesInv'
<1>1. PICK f, c : f = c_file /\ c = Closing(f)
  OBVIOUS
<1>2. TypesInv /\ NumbersInv /\ stage = "write"
  BY DEF Inv, CreateCoffTables
<1>3. f \in File /\ out \in Seq(Piece) /\ todo = <<>>
  BY <1>1, <1>2 DEF TypesInv, CreateCoffTables
<1>4. /\ stage' = "done" /\ import' = import
      /\ out' = out \o c
      /\ c_file' = [f EXCEPT !.string_table_size = @ + 4, !.room = 0]
  <2>1. PICK a, b : a = ClosingHead(f) /\ b = ClosingStrings(f)
    OBVIOUS
  <2>2. out' = (out \o a) \o b
    BY <1>1, <2>1 DEF CreateCoffTables, ClosingHead, ClosingStrings
  <2>3. a \in Seq(Piece) /\ b \in Seq(Piece) /\ c = a \o b
    BY <1>1, <1>3, <2>1, ClosingTyped DEF Closing
  <2>4. PICK o : o = out
    OBVIOUS
  <2>5. o \in Seq(Piece)
    BY <1>3, <2>4
  <2>6. (o \o a) \o b = o \o c
    BY ONLY <2>3, <2>5, ConcatAssociative
  <2>7. out' = out \o c
    BY <2>2, <2>4, <2>6
  <2> QED
    BY <1>1, <2>7 DEF CreateCoffTables
<1>5. /\ c_file'.symbol = f.symbol /\ c_file'.section = f.section /\ c_file'.string_table = f.string_table
      /\ c_file'.sym_table = f.sym_table
  BY <1>3, <1>4 DEF File
<1>6. Closing(c_file') = c
  BY <1>1, <1>5 DEF Closing, ClosingHead, ClosingStrings
<1>7. c_file'.symbol # <<>>
  <2>1. Meets("text")
    <3>1. "text" \in Needs(import)
      BY DEF Needs
    <3> QED
      BY <1>2, <3>1 DEF NumbersInv
  <2>2. number["text"] \in 0 .. Len(c_file.symbol) - 1
    BY <2>1 DEF Meets
  <2>3. Len(f.symbol) \in Nat /\ f.symbol \in Seq(SymbolEntry)
    BY <1>3, FileTyped
  <2>4. Len(f.symbol) # 0
    BY <1>1, <2>2, <2>3
  <2>5. f.symbol # <<>>
    BY <2>4
  <2> QED
    BY <1>5, <2>5
<1>8. PlacesInv'
  BY <1>1, <1>2, <1>5 DEF PiecesInv, PlacesInv
<1>9. Shapes(out') = (Shapes(Heading(Len(c_file'.section))) \o Shapes(Written(import))) \o Shapes(c)
  <2>1. PICK o, h, w : o = out /\ h = Shapes(Heading(Len(f.section))) /\ w = Shapes(Written(import))
    OBVIOUS
  <2>2. o \in Seq(Piece) /\ c \in Seq(Piece) /\ \A q \in Piece : Shape(q) \in Shaped
    BY <1>1, <1>3, <2>1, PiecesShaped, ClosingTyped
  <2>3. Shapes(o \o c) = Shapes(o) \o Shapes(c) /\ Shapes(o) \in Seq(Shaped)
    BY ONLY <2>2, ShapesConcat, ShapesTyped
  <2>4. Shapes(o) \o Shapes(<<>>) = h \o w
    BY <1>1, <1>2, <1>3, <2>1 DEF PiecesInv
  <2>5. Shapes(<<>>) = <<>>
    BY DEF Shapes
  <2>6. Shapes(o) = h \o w
    BY <2>3, <2>4, <2>5, SMTT(30)
  <2> QED
    BY <1>4, <1>5, <2>1, <2>3, <2>6
<1>10. import.machine # "other"
  BY <1>2 DEF TypesInv
<1> QED
  BY <1>4, <1>6, <1>7, <1>8, <1>9, <1>10 DEF PiecesInv

\* Every step keeps it.
LEMMA NextPieces == Inv /\ PiecesInv /\ [Next]_vars => PiecesInv'
<1> SUFFICES ASSUME Inv, PiecesInv, [Next]_vars PROVE PiecesInv'
  OBVIOUS
<1>1. CASE stage' \in {"declare", "refused"}
  BY <1>1 DEF PiecesInv, PlacesInv
<1>2. CASE Refuse \/ AddCoffSection \/ AddCoffSymSec \/ AddCoffSymbol
  <2>1. stage' \in {"declare", "refused"}
    BY <1>2 DEF Refuse, AddCoffSection, AddCoffSymSec, AddCoffSymbol, Called
  <2> QED
    BY <1>1, <2>1
<1>3. CASE CreateCoffFileHeader
  BY <1>3, HeaderPieces
<1>4. CASE AddDataImpLib
  BY <1>4, DataPieces
<1>5. CASE CreateCoffReloc
  BY <1>5, RelocPieces
<1>6. CASE CreateCoffTables
  BY <1>6, TablesPieces
<1>7. CASE UNCHANGED vars
  <2>1. import' = import /\ todo' = todo /\ c_file' = c_file /\ out' = out /\ stage' = stage
    BY <1>7 DEF vars
  <2> QED
    BY <2>1 DEF PiecesInv, PlacesInv
<1> QED
  BY <1>2, <1>3, <1>4, <1>5, <1>6, <1>7 DEF Next

\* What is written stays the beginning of what is planned.
LEMMA AlwaysPieces == Spec => [](Inv /\ PiecesInv)
<1>1. Init => PiecesInv
  BY DEF Init, PiecesInv, PlacesInv
<1> QED
  BY <1>1, InitInv, NextInv, NextPieces, PTL DEF Spec

-----------------------------------------------------------------------------
(* The pieces in the file.                                                 *)

\* Places in the file and pieces of a kind, from the shapes.
LEMMA AtEnd ==
  ASSUME NEW w, w = Shapes(out), out \in Seq(Piece)
  PROVE  /\ w \in Seq(Shaped) /\ Len(w) = Len(out)
         /\ \A n \in 1 .. Len(w) + 1 : At(n) = End(w, n - 1)
         /\ \A sec, what : Pieces(sec, what) = Of(w, sec, what)
<1>1. PICK o : o = out
  OBVIOUS
<1>2. \A q \in Piece : Shape(q) \in Shaped
  BY PiecesShaped
<1>3. o \in Seq(Piece) /\ w = Shapes(o)
  BY <1>1
<1>4. w \in Seq(Shaped) /\ Len(w) = Len(o) /\ DOMAIN w = 1 .. Len(o) /\ \A n \in 1 .. Len(o) : w[n] = Shape(o[n])
  BY ONLY <1>2, <1>3, ShapesTyped
<1>5. \A n \in 1 .. Len(o) : w[n].len = o[n].len /\ w[n].sec = o[n].sec /\ w[n].what = o[n].what
  BY <1>4 DEF Shape
<1>6. Len(o) \in Nat /\ DOMAIN o = 1 .. Len(o)
  BY <1>3
<1>7. ASSUME NEW n \in 1 .. Len(o) + 1 PROVE At(n) = End(w, n - 1)
  <2>1. \A m \in 1 .. n - 1 : m \in 1 .. Len(o)
    BY <1>6
  <2>2. \A m \in 1 .. n - 1 : Lens(w)[m] = o[m].len
    BY <1>4, <1>5, <2>1 DEF Lens
  <2>3. [m \in 1 .. n - 1 |-> o[m].len] = [m \in 1 .. n - 1 |-> Lens(w)[m]]
    BY <2>2
  <2> QED
    BY <1>1, <2>3 DEF At, End, Upto
<1>8. \A sec, what : Pieces(sec, what) = Of(w, sec, what)
  BY <1>1, <1>4, <1>5, <1>6 DEF Pieces, Of
<1> QED
  BY <1>1, <1>4, <1>7, <1>8

\* Fill and Fills are the same.
LEMMA FillFills ==
  ASSUME NEW w, w = Shapes(out), out \in Seq(Piece), NEW sec, NEW what, NEW ptr, NEW size,
         Fills(w, sec, what, ptr, size)
  PROVE  Fill(Pieces(sec, what), ptr, size)
<1>1. PICK P : P = Of(w, sec, what)
  OBVIOUS
<1>2. /\ w \in Seq(Shaped) /\ \A n \in 1 .. Len(w) + 1 : At(n) = End(w, n - 1)
      /\ Pieces(sec, what) = P
  BY <1>1, AtEnd
<1>3. \A n \in P : n \in 1 .. Len(w)
  BY <1>1, <1>2 DEF Of
<1>4. \A n \in 1 .. Len(w) : At(n) = End(w, n - 1) /\ At(n + 1) = End(w, n)
  <2> TAKE n \in 1 .. Len(w)
  <2>1. Len(w) \in Nat
    BY <1>2
  <2>2. n \in 1 .. Len(w) + 1 /\ n + 1 \in 1 .. Len(w) + 1 /\ (n + 1) - 1 = n
    BY <2>1
  <2> QED
    BY <1>2, <2>2
<1>5. /\ size = 0 <=> P = {}
      /\ \A n \in P : /\ End(w, n - 1) = ptr \/ n - 1 \in P
                      /\ End(w, n) = ptr + size \/ n + 1 \in P
  BY <1>1 DEF Fills
<1>6. \A n \in P : /\ At(n) = ptr \/ n - 1 \in P
                   /\ At(n + 1) = ptr + size \/ n + 1 \in P
  BY <1>3, <1>4, <1>5
<1> QED
  BY <1>2, <1>5, <1>6 DEF Fill

\* The places of the headers are those of the plan.
LEMMA FrontPlanned ==
  ASSUME NEW secs \in Seq(Header), NEW p, p = AsCalls(secs), NEW n \in 0 .. Len(secs)
  PROVE  Front(secs, n) = HeaderSize + Len(secs) * SectionSize + Upto(Rooms(p), n)
<1>1. PICK l \in Nat : l = Len(secs) /\ DOMAIN secs = 1 .. l
  OBVIOUS
<1>2. p \in Seq(SectionCall) /\ Len(p) = l
  BY <1>1, AsCallsTyped
<1>3. \A m \in 1 .. l : p[m].size = secs[m].size /\ p[m].relocs = secs[m].num_relocs
  BY <1>1 DEF AsCalls
<1>4. \A m \in 1 .. l : Rooms(p)[m] = p[m].size + p[m].relocs * RelocSize
  BY <1>2, RoomsTyped
<1>5. \A m \in 1 .. l : Rooms(p)[m] = Room(secs[m])
  BY <1>3, <1>4 DEF Room
<1>6. \A m \in 1 .. n : m \in 1 .. l
  BY <1>1
<1>7. [m \in 1 .. n |-> Room(secs[m])] = [m \in 1 .. n |-> Rooms(p)[m]]
  BY <1>5, <1>6
<1> QED
  BY <1>7 DEF Front, Upto

\* The tables start with the symbols.
LEMMA ClosingFills ==
  ASSUME NEW f \in File, f.symbol # <<>>
  PROVE  /\ Shapes(Closing(f)) \in Seq(Shaped)
         /\ Fills(Shapes(Closing(f)), "file", "symbols", 0, Len(f.symbol) * SymbolSize)
         /\ \A sec \in SecNames : \A what : Of(Shapes(Closing(f)), sec, what) = {}
<1>1. PICK c, s, l : c = Closing(f) /\ s = Shapes(c) /\ l = Len(f.symbol) * SymbolSize
  OBVIOUS
<1>2. PICK m \in Nat : m = Len(f.string_table)
  BY DEF File
<1>3. /\ c \in Seq(Piece) /\ Len(c) = 2 + m
      /\ \A n \in DOMAIN c : c[n].sec = "file"
      /\ c[1] = [sec |-> "file", what |-> "symbols", len |-> l]
      /\ c[2] = [sec |-> "file", what |-> "size", len |-> 4]
      /\ \A n \in 1 .. m : c[2 + n] = [sec |-> "file", what |-> f.string_table[n].name,
                                       len |-> f.string_table[n].len]
  BY <1>1, <1>2, ClosingTyped
<1>4. s \in Seq(Shaped) /\ Len(s) = 2 + m /\ DOMAIN s = 1 .. 2 + m /\ \A n \in 1 .. 2 + m : s[n] = Shape(c[n])
  <2>1. \A q \in Piece : Shape(q) \in Shaped
    BY PiecesShaped
  <2>2. s \in Seq(Shaped) /\ Len(s) = Len(c) /\ DOMAIN s = 1 .. Len(c) /\ \A n \in 1 .. Len(c) : s[n] = Shape(c[n])
    BY ONLY <1>1, <1>3, <2>1, ShapesTyped
  <2> QED
    BY <1>3, <2>2
<1>5. l \in Nat /\ l # 0
  <2>1. Len(f.symbol) \in Nat /\ f.symbol \in Seq(SymbolEntry)
    BY FileTyped
  <2>2. Len(f.symbol) # 0
    BY <2>1
  <2> QED
    BY <1>1, <2>1, <2>2 DEF SymbolSize
<1>6. \A n \in 1 .. 2 + m : s[n].sec = "file" /\ s[n].what = c[n].what /\ s[n].len = c[n].len
  <2>1. DOMAIN c = 1 .. 2 + m
    BY <1>3
  <2> QED
    BY <1>3, <1>4, <2>1 DEF Shape
<1>7. s[1].sec = "file" /\ s[1].what = "symbols" /\ s[1].len = l
  <2>1. 1 \in 1 .. 2 + m
    OBVIOUS
  <2> QED
    BY <1>3, <1>6, <2>1
<1>8. \A n \in 2 .. 2 + m : s[n].what # "symbols"
  <2> TAKE n \in 2 .. 2 + m
  <2>1. n \in 1 .. 2 + m
    OBVIOUS
  <2>2. CASE n = 2
    BY <1>3, <1>6, <2>1, <2>2
  <2>3. CASE n # 2
    <3>1. PICK k \in 1 .. m : n = 2 + k
      <4>1. n - 2 \in 1 .. m /\ n = 2 + (n - 2)
        BY <2>3
      <4> QED
        BY <4>1
    <3>2. f.string_table[k].name \in SymNames
      <4>1. f.string_table \in Seq(StringEntry)
        BY DEF File
      <4>2. f.string_table[k] \in StringEntry
        BY <1>2, <4>1
      <4> QED
        BY <4>2 DEF StringEntry
    <3>3. s[n].what = f.string_table[k].name
      <4>1. PICK x : x = f.string_table[k]
        OBVIOUS
      <4>2. c[2 + k] = [sec |-> "file", what |-> x.name, len |-> x.len]
        BY <1>3, <4>1
      <4>3. c[n].what = x.name
        BY <3>1, <4>2
      <4>4. s[n].what = c[n].what
        BY <1>6, <2>1
      <4> QED
        BY <4>1, <4>3, <4>4
    <3> QED
      BY <3>2, <3>3 DEF SymNames
  <2> QED
    BY <2>2, <2>3
<1>9. Of(s, "file", "symbols") = {1}
  <2>1. \A n \in 1 .. 2 + m : n = 1 \/ n \in 2 .. 2 + m
    OBVIOUS
  <2>2. 1 \in 1 .. 2 + m
    OBVIOUS
  <2> QED
    BY <1>4, <1>7, <1>8, <2>1, <2>2 DEF Of
<1>10. End(s, 0) = 0 /\ End(s, 1) = 0 + l
  <2>1. 0 \in 0 .. Len(s) - 1
    BY <1>4
  <2>2. End(s, 0) = 0 /\ End(s, 0 + 1) = End(s, 0) + s[0 + 1].len
    BY <1>4, <2>1, EndConcat
  <2> QED
    BY <1>5, <1>7, <2>2
<1>11. Fills(s, "file", "symbols", 0, l)
  BY <1>5, <1>9, <1>10 DEF Fills
<1>12. \A sec \in SecNames : \A what : Of(s, sec, what) = {}
  BY <1>4, <1>6 DEF Of, SecNames
<1> QED
  BY <1>1, <1>4, <1>11, <1>12

\* What is written is where the headers say.
LEMMA PiecesInPlace ==
  ASSUME Inv, PiecesInv
  PROVE  PointersMeetData
<1> SUFFICES ASSUME stage = "done" PROVE PointersMeetData
  BY DEF PointersMeetData
<1>1. PICK f, secs, i, p : f = c_file /\ secs = f.section /\ i = import /\ p = AsCalls(secs)
  OBVIOUS
<1>2. /\ f \in File /\ out \in Seq(Piece) /\ i \in Imports /\ i.machine # "other" /\ f.symbol # <<>>
      /\ Plan(i) = p
  BY <1>1 DEF Inv, TypesInv, SectionsInv, PiecesInv
<1>3. secs \in Seq(Header) /\ Len(secs) \in Nat /\ DOMAIN secs = 1 .. Len(secs)
  BY <1>1, <1>2, FileTyped
<1>4. p \in Seq(SectionCall) /\ Len(p) = Len(secs)
  BY <1>1, <1>3, AsCallsTyped
<1>5. PICK h, v, c, w : /\ h = Shapes(Heading(Len(secs))) /\ v = Shapes(Written(i))
                        /\ c = Shapes(Closing(f)) /\ w = Shapes(out)
  OBVIOUS
<1>6. w = (h \o v) \o c
  BY <1>1, <1>5 DEF PiecesInv
<1>7. PICK e : e = HeaderSize + Len(secs) * SectionSize
  OBVIOUS
<1>8. /\ h \in Seq(Shaped) /\ End(h, Len(h)) = e
      /\ \A sec, what : what \notin {"header", "sections"} => Of(h, sec, what) = {}
  BY <1>3, <1>5, <1>7, HeadingTyped
<1>9. Laid(v, p)
  BY <1>2, <1>5, WrittenLaid
<1>10. /\ v \in Seq(Shaped) /\ End(v, Len(v)) = Upto(Rooms(p), Len(p))
       /\ \A n \in DOMAIN v : v[n].sec \in Names(p)
       /\ \A m \in DOMAIN p :
            /\ Fills(v, p[m].name, "data", Upto(Rooms(p), m - 1), p[m].size)
            /\ Fills(v, p[m].name, "reloc", Upto(Rooms(p), m - 1) + p[m].size, p[m].relocs * RelocSize)
  BY ONLY <1>9 DEF Laid
<1>11. /\ c \in Seq(Shaped) /\ Fills(c, "file", "symbols", 0, Len(f.symbol) * SymbolSize)
       /\ \A sec \in SecNames : \A what : Of(c, sec, what) = {}
  BY <1>2, <1>5, ClosingFills
<1>12. PICK hv : hv = h \o v
  OBVIOUS
<1>13. hv \in Seq(Shaped) /\ End(hv, Len(hv)) = e + Upto(Rooms(p), Len(p))
  <2>1. hv \in Seq(Shaped) /\ Len(hv) = Len(h) + Len(v) /\ Len(v) \in Nat
    BY <1>8, <1>10, <1>12, ListsConcat
  <2>2. Len(v) \in 0 .. Len(v)
    BY <2>1
  <2>3. End(hv, Len(h) + Len(v)) = End(h, Len(h)) + End(v, Len(v))
    BY <1>8, <1>10, <1>12, <2>2, EndConcat
  <2> QED
    BY <1>8, <1>10, <2>1, <2>3
<1>14. \A n \in 0 .. Len(secs) : Upto(Rooms(p), n) \in Nat /\ Front(secs, n) = e + Upto(Rooms(p), n)
  <2> TAKE n \in 0 .. Len(secs)
  <2>1. Front(secs, n) = e + Upto(Rooms(p), n)
    BY <1>1, <1>3, <1>7, FrontPlanned
  <2>2. Rooms(p) \in Seq(Nat) /\ Len(Rooms(p)) = Len(secs)
    BY <1>4, RoomsTyped
  <2>3. Upto(Rooms(p), n) \in Nat
    BY <2>2, UptoGrow
  <2> QED
    BY <2>1, <2>3
<1>15. e \in Nat
  <2>1. Len(secs) * 40 \in Nat
    BY <1>3
  <2> QED
    BY <1>7, <2>1 DEF HeaderSize, SectionSize
<1>16. /\ \A n \in DOMAIN secs : /\ secs[n].rawdata_ptr = Front(secs, n - 1)
                                 /\ secs[n].reloc_ptr = Front(secs, n - 1) + secs[n].size
       /\ f.sym_table = Front(secs, Len(secs))
  BY <1>1 DEF PiecesInv, PlacesInv
<1>17. ASSUME NEW n \in DOMAIN secs
       PROVE  /\ Fill(Pieces(secs[n].name, "data"), secs[n].rawdata_ptr, secs[n].size)
              /\ Fill(Pieces(secs[n].name, "reloc"), secs[n].reloc_ptr, secs[n].num_relocs * RelocSize)
  <2>1. PICK name, size, relocs, u : /\ name = secs[n].name /\ size = secs[n].size
                                     /\ relocs = secs[n].num_relocs * RelocSize /\ u = Upto(Rooms(p), n - 1)
    OBVIOUS
  <2>2. p[n].name = name /\ p[n].size = size /\ p[n].relocs * RelocSize = relocs /\ n \in DOMAIN p
    BY <1>1, <1>3, <1>4, <2>1 DEF AsCalls
  <2>3. name \in SecNames /\ size \in Nat /\ relocs \in Nat
    BY <1>4, <2>2, RoomsTyped
  <2>4. u \in Nat /\ secs[n].rawdata_ptr = e + u /\ secs[n].reloc_ptr = (e + u) + size
    <3>1. n - 1 \in 0 .. Len(secs)
      BY <1>3
    <3> QED
      BY <1>14, <1>16, <2>1, <3>1
  <2>5. Fills(v, name, "data", u, size) /\ Fills(v, name, "reloc", u + size, relocs)
    BY <1>10, <2>1, <2>2
  <2>6. Of(h, name, "data") = {} /\ Of(h, name, "reloc") = {} /\ Of(c, name, "data") = {} /\ Of(c, name, "reloc") = {}
    BY <1>8, <1>11, <2>3
  <2>7. u + size \in Nat /\ e + (u + size) = (e + u) + size
    BY <1>15, <2>3, <2>4
  <2>8. Fills(hv, name, "data", e + u, size)
    BY <1>8, <1>10, <1>12, <2>3, <2>4, <2>5, <2>6, FillsBehind
  <2>9. Fills(hv, name, "reloc", (e + u) + size, relocs)
    <3>1. Fills(hv, name, "reloc", e + (u + size), relocs)
      BY <1>8, <1>10, <1>12, <2>3, <2>5, <2>6, <2>7, FillsBehind
    <3> QED
      BY <2>7, <3>1
  <2>10. Fills(w, name, "data", e + u, size) /\ Fills(w, name, "reloc", (e + u) + size, relocs)
    <3>1. Fills(w, name, "data", e + u, size)
      BY <1>6, <1>11, <1>12, <1>13, <2>6, <2>8, FillsInFront
    <3>2. Fills(w, name, "reloc", (e + u) + size, relocs)
      BY <1>6, <1>11, <1>12, <1>13, <2>6, <2>9, FillsInFront
    <3> QED
      BY <3>1, <3>2
  <2>11. Fill(Pieces(name, "data"), e + u, size) /\ Fill(Pieces(name, "reloc"), (e + u) + size, relocs)
    BY <1>2, <1>5, <2>10, FillFills
  <2> QED
    BY <2>1, <2>4, <2>11
<1>18. Fill(Pieces("file", "symbols"), f.sym_table, Len(f.symbol) * SymbolSize)
  <2>1. PICK l, u : l = Len(f.symbol) * SymbolSize /\ u = Upto(Rooms(p), Len(p))
    OBVIOUS
  <2>2. l \in Nat
    <3>1. Len(f.symbol) \in Nat
      BY <1>2, FileTyped
    <3> QED
      BY <2>1, <3>1 DEF SymbolSize
  <2>3. u \in Nat /\ f.sym_table = e + u
    <3>1. Len(secs) \in 0 .. Len(secs)
      BY <1>3
    <3> QED
      BY <1>4, <1>14, <1>16, <2>1, <3>1
  <2>4. Of(hv, "file", "symbols") = {}
    <3>1. Of(h, "file", "symbols") = {}
      BY <1>8
    <3>2. Of(v, "file", "symbols") = {}
      <4>1. \A m \in DOMAIN p : p[m].name # "file"
        <5>1. \A m \in DOMAIN p : p[m].name \in SecNames
          BY <1>4, RoomsTyped
        <5> QED
          BY <5>1 DEF SecNames
      <4>2. "file" \notin Names(p)
        BY <4>1 DEF Names
      <4> QED
        BY <1>10, <4>2 DEF Of
    <3>3. PICK k \in Nat, d \in Nat : k = Len(h) /\ d = Len(v)
      <4>1. Len(h) \in Nat /\ Len(v) \in Nat
        BY <1>8, <1>10
      <4> QED
        BY <4>1
    <3>4. /\ Of(hv, "file", "symbols") \subseteq 1 .. k + d
          /\ \A n \in 1 .. k : n \in Of(hv, "file", "symbols") <=> n \in Of(h, "file", "symbols")
          /\ \A n \in 1 .. d : k + n \in Of(hv, "file", "symbols") <=> n \in Of(v, "file", "symbols")
      BY <1>8, <1>10, <1>12, <3>3, OfConcat
    <3>5. ASSUME NEW n \in Of(hv, "file", "symbols") PROVE FALSE
      <4>1. n \in 1 .. k \/ (n - k \in 1 .. d /\ n = k + (n - k))
        BY <3>4
      <4> QED
        BY <3>1, <3>2, <3>4, <4>1
    <3> QED
      BY <3>5
  <2>5. Fills(hv \o c, "file", "symbols", End(hv, Len(hv)) + 0, l)
    <3>1. 0 \in Nat /\ Fills(c, "file", "symbols", 0, l)
      BY <1>11, <2>1
    <3> QED
      BY <1>11, <1>13, <2>2, <2>4, <3>1, FillsBehind
  <2>6. End(hv, Len(hv)) + 0 = f.sym_table
    BY <1>13, <1>15, <2>1, <2>3
  <2>7. Fills(w, "file", "symbols", f.sym_table, l)
    BY <1>6, <1>12, <2>5, <2>6
  <2> QED
    BY <1>2, <1>5, <2>1, <2>7, FillFills
<1> QED
  BY <1>1, <1>17, <1>18 DEF PointersMeetData

-----------------------------------------------------------------------------
(* Names in the string table.                                              *)

StringLens(st) == [n \in DOMAIN st |-> st[n].len]

\* Where the n-th string starts.
StringAt(st, n) == Upto(StringLens(st), n - 1)

\* A symbol with an offset has its name there.
Backed(sym, st) ==
  sym.offset # 0 =>
    \E m \in DOMAIN st : st[m].name = sym.name /\ sym.offset = 4 + StringAt(st, m)

\* If no larger table is refused, the table has what the symbols say, and as much
\* as its size says; the size of the file counts itself.
StringsInv ==
  ~AllocFails =>
    /\ c_file.string_table_size
         = StringAt(c_file.string_table, Len(c_file.string_table) + 1)
             + (IF stage = "done" THEN 4 ELSE 0)
    /\ \A n \in DOMAIN c_file.symbol : Backed(c_file.symbol[n], c_file.string_table)

\* Strings have places.
LEMMA StringsTyped ==
  ASSUME NEW st \in Seq(StringEntry)
  PROVE  /\ Len(st) \in Nat /\ DOMAIN st = 1 .. Len(st)
         /\ StringLens(st) \in Seq(Nat) /\ Len(StringLens(st)) = Len(st)
         /\ \A n \in 1 .. Len(st) : StringLens(st)[n] = st[n].len /\ st[n].len \in Nat /\ st[n].name \in SymNames
<1>1. Len(st) \in Nat /\ DOMAIN st = 1 .. Len(st) /\ \A n \in 1 .. Len(st) : st[n] \in StringEntry
  OBVIOUS
<1>2. \A n \in 1 .. Len(st) : st[n].len \in Nat /\ st[n].name \in SymNames
  BY <1>1 DEF StringEntry
<1>3. PICK a : a = StringLens(st)
  OBVIOUS
<1>4. a = [n \in 1 .. Len(st) |-> st[n].len]
  BY <1>1, <1>3 DEF StringLens
<1>5. a \in Seq(Nat) /\ Len(a) = Len(st) /\ \A n \in 1 .. Len(st) : a[n] = st[n].len
  BY <1>1, <1>2, <1>4
<1> QED
  BY <1>1, <1>2, <1>3, <1>5

\* A table with one more string.
Behind(r, st, x) ==
  /\ r \in Seq(StringEntry) /\ Len(r) = Len(st) + 1 /\ r[Len(st) + 1] = x
  /\ \A n \in 1 .. Len(st) : r[n] = st[n]
  /\ \A n \in 1 .. Len(st) + 1 : StringAt(r, n) = StringAt(st, n) /\ StringAt(st, n) \in Nat
  /\ StringAt(r, Len(r) + 1) = StringAt(st, Len(st) + 1) + x.len

\* A string that is added starts where the table ended, and moves none.
LEMMA StringBehind ==
  ASSUME NEW st \in Seq(StringEntry), NEW x \in StringEntry, NEW r, r = Append(st, x)
  PROVE  Behind(r, st, x)
<1>1. PICK l : l = Len(st)
  OBVIOUS
<1>2. /\ l \in Nat /\ r \in Seq(StringEntry) /\ Len(r) = l + 1 /\ r[l + 1] = x
      /\ \A n \in 1 .. l : r[n] = st[n]
  BY <1>1
<1>3. PICK a, b : a = StringLens(st) /\ b = StringLens(r)
  OBVIOUS
<1>4. /\ a \in Seq(Nat) /\ Len(a) = l /\ b \in Seq(Nat) /\ Len(b) = l + 1
      /\ \A n \in 1 .. l : a[n] = st[n].len
      /\ \A n \in 1 .. l + 1 : b[n] = r[n].len
  BY <1>1, <1>2, <1>3, StringsTyped
<1>5. \A n \in 1 .. l : b[n] = a[n]
  <2> TAKE n \in 1 .. l
  <2>1. n \in 1 .. l + 1
    BY <1>2
  <2>2. b[n] = r[n].len
    BY <1>4, <2>1
  <2>3. r[n] = st[n]
    BY <1>2
  <2>4. a[n] = st[n].len
    BY <1>4
  <2> QED
    BY <2>2, <2>3, <2>4
<1>6. b[l + 1] = x.len
  <2>1. l + 1 \in 1 .. l + 1
    BY <1>2
  <2> QED
    BY <1>2, <1>4, <2>1
<1>7. ASSUME NEW n \in 0 .. l PROVE Upto(b, n) = Upto(a, n) /\ Upto(a, n) \in Nat
  <2>1. \A m \in 1 .. n : m \in 1 .. l
    BY <1>2
  <2>2. [m \in 1 .. n |-> b[m]] = [m \in 1 .. n |-> a[m]]
    BY <1>5, <2>1
  <2>3. Upto(a, n) \in Nat
    BY <1>4, UptoGrow
  <2> QED
    BY <2>2, <2>3 DEF Upto
<1>8. Upto(b, l + 1) = Upto(a, l) + x.len
  <2>1. l \in 0 .. Len(b) - 1 /\ l \in 0 .. l
    BY <1>2, <1>4
  <2>2. Upto(b, l + 1) = Upto(b, l) + b[l + 1]
    BY <1>4, <2>1, UptoGrow
  <2> QED
    BY <1>6, <1>7, <2>1, <2>2
<1>9. \A n \in 1 .. l + 1 : StringAt(r, n) = StringAt(st, n) /\ StringAt(st, n) \in Nat
  <2> TAKE n \in 1 .. l + 1
  <2>1. n - 1 \in 0 .. l
    BY <1>2
  <2> QED
    BY <1>3, <1>7, <2>1 DEF StringAt
<1>10. StringAt(r, (l + 1) + 1) = StringAt(st, l + 1) + x.len
  <2>1. ((l + 1) + 1) - 1 = l + 1 /\ (l + 1) - 1 = l
    BY <1>2
  <2> QED
    BY <1>3, <1>8, <2>1 DEF StringAt
<1>11. Len(st) = l /\ Len(r) = l + 1
  BY <1>1, <1>2
<1> QED
  BY <1>2, <1>9, <1>10, <1>11 DEF Behind

\* A file with one more string.
Longer(g, f, name, len) ==
  /\ g.symbol = f.symbol
  /\ g.string_table = Append(f.string_table, [name |-> name, len |-> len + 1])
  /\ g.string_table_size = f.string_table_size + len + 1
  /\ g.max_string_table_size = IF Full(f, len) THEN 2 * f.max_string_table_size ELSE f.max_string_table_size
  /\ g.room = IF Full(f, len) THEN 2 * f.max_string_table_size ELSE f.room

\* AddCoffString, if the larger table is not refused.
LEMMA StringIsAdded ==
  ASSUME NEW f \in File, NEW name \in SymNames, NEW len \in Nat, NEW g,
         g = AddCoffString(f, name, len, FALSE)
  PROVE  Longer(g, f, name, len)
<1>1. PICK grow : grow = Full(f, len)
  OBVIOUS
<1>2. PICK max : max = IF grow THEN 2 * f.max_string_table_size ELSE f.max_string_table_size
  OBVIOUS
<1>3. PICK larger : larger = [f EXCEPT !.max_string_table_size = max]
  OBVIOUS
<1>4. g = [larger EXCEPT !.room = IF grow THEN max ELSE @,
                      !.string_table = Append(@, [name |-> name, len |-> len + 1]),
                      !.string_table_size = @ + len + 1]
  BY <1>1, <1>2, <1>3 DEF AddCoffString
<1>5. f.max_string_table_size \in Nat
  BY DEF File
<1>6. max \in Nat
  BY <1>2, <1>5
<1>7. /\ larger \in File /\ larger.symbol = f.symbol /\ larger.string_table = f.string_table
      /\ larger.string_table_size = f.string_table_size /\ larger.room = f.room
      /\ larger.max_string_table_size = max
  BY <1>3, <1>6 DEF File
<1>8. PICK st, size, room : /\ st = Append(larger.string_table, [name |-> name, len |-> len + 1])
                            /\ size = larger.string_table_size + len + 1
                            /\ room = IF grow THEN max ELSE larger.room
  OBVIOUS
<1>9. g = [larger EXCEPT !.room = room, !.string_table = st, !.string_table_size = size]
  BY <1>4, <1>7, <1>8 DEF File
<1>10. /\ g.symbol = larger.symbol /\ g.string_table = st /\ g.string_table_size = size
       /\ g.max_string_table_size = max /\ g.room = room
  BY <1>7, <1>9 DEF File
<1> QED
  BY <1>1, <1>2, <1>7, <1>8, <1>10 DEF Longer

\* What AddCoffSymbol makes of the file.
LEMMA SymbolCalled ==
  ASSUME Inv, AddCoffSymbol
  PROVE  \E s \in SymbolCall, e \in SymbolEntry, new \in File, fails \in BOOLEAN :
           /\ s = todo[1] /\ todo # <<>>
           /\ e.name = s.name /\ e.offset = IF s.len > NAME_LEN THEN NameOffset(c_file) ELSE 0
           /\ new = [c_file EXCEPT !.symbol = Append(@, e)]
           /\ fails => AllocFails
           /\ c_file' = IF s.len > NAME_LEN THEN AddCoffString(new, s.name, s.len, fails) ELSE new
<1>1. Called("symbol") /\ TypesInv
  BY DEF Inv, AddCoffSymbol
<1>2. todo[1].call = "symbol" /\ Head(todo) = todo[1] /\ todo[1] \in Calls /\ todo # <<>>
  BY <1>1, AfterCalled
<1>3. PICK f, s, y : f = c_file /\ s = todo[1] /\ y = Len(f.section)
  OBVIOUS
<1>4. f \in File
  BY <1>1, <1>3 DEF TypesInv
<1>5. f.symbol \in Seq(SymbolEntry) /\ y \in Nat
  BY <1>3, <1>4, FileTyped
<1>6. s \in SymbolCall
  BY <1>2, <1>3 DEF Calls, SectionCall, SymSecCall
<1>7. s.name \in SymNames
  BY <1>6 DEF SymbolCall
<1>8. PICK off : off = IF s.len > NAME_LEN THEN NameOffset(f) ELSE 0
  OBVIOUS
<1>9. off \in Nat
  <2>1. f.string_table_size \in Nat
    BY <1>4 DEF File
  <2> QED
    BY <1>8, <2>1 DEF NameOffset
<1>10. PICK e : e = Entry(s.name, IF s.here THEN y ELSE 0, off, FALSE)
  OBVIOUS
<1>11. e \in SymbolEntry /\ e.name = s.name /\ e.offset = off
  <2>1. PICK sec \in Nat : sec = IF s.here THEN y ELSE 0
    BY <1>5
  <2>2. e = [name |-> s.name, sec |-> sec, offset |-> off, aux |-> FALSE]
    BY <1>10, <2>1 DEF Entry
  <2> QED
    BY <1>7, <1>9, <2>2 DEF SymbolEntry
<1>12. PICK new : new = [f EXCEPT !.symbol = Append(@, e)]
  OBVIOUS
<1>13. new \in File
  <2>1. Append(f.symbol, e) \in Seq(SymbolEntry)
    BY <1>5, <1>11
  <2> QED
    BY <1>4, <1>12, <2>1 DEF File
<1>14. PICK fails \in {FALSE, AllocFails} :
          c_file' = IF s.len > NAME_LEN THEN AddCoffString(new, s.name, s.len, fails) ELSE new
  BY <1>2, <1>3, <1>8, <1>10, <1>12 DEF AddCoffSymbol
<1>15. fails \in BOOLEAN /\ (fails => AllocFails)
  <2>1. AllocFails \in BOOLEAN
    BY InputsAssumption
  <2>2. CASE fails = FALSE
    BY <2>2
  <2>3. CASE fails = AllocFails
    BY <2>1, <2>3, Zenon
  <2>4. fails = FALSE \/ fails = AllocFails
    BY Zenon
  <2> QED
    BY <2>2, <2>3, <2>4
<1> QED
  BY <1>2, <1>3, <1>6, <1>8, <1>11, <1>12, <1>13, <1>14, <1>15

\* Symbols that have their names keep them when another symbol gets one.
LEMMA SymbolBacked ==
  ASSUME Inv, AddCoffSymbol, StringsInv
  PROVE  StringsInv'
<1> SUFFICES ASSUME ~AllocFails PROVE StringsInv'
  BY DEF StringsInv
<1>0. stage = "declare" /\ stage' = "declare"
  BY DEF AddCoffSymbol, Called
<1>1. PICK f, g, st, l : f = c_file /\ g = c_file' /\ st = f.string_table /\ l = Len(st)
  OBVIOUS
<1>2. f \in File
  BY <1>1 DEF Inv, TypesInv
<1>3. /\ f.symbol \in Seq(SymbolEntry) /\ st \in Seq(StringEntry) /\ l \in Nat /\ DOMAIN st = 1 .. l
      /\ f.string_table_size \in Nat
  <2>1. f.symbol \in Seq(SymbolEntry) /\ st \in Seq(StringEntry) /\ f.string_table_size \in Nat
    BY <1>1, <1>2 DEF File
  <2> QED
    BY <1>1, <2>1
<1>4. f.string_table_size = StringAt(st, l + 1) /\ \A n \in DOMAIN f.symbol : Backed(f.symbol[n], st)
  <2>1. /\ f.string_table_size = StringAt(st, l + 1) + (IF stage = "done" THEN 4 ELSE 0)
        /\ \A n \in DOMAIN f.symbol : Backed(f.symbol[n], st)
    BY <1>1 DEF StringsInv
  <2>2. f.string_table_size = StringAt(st, l + 1) + 0
    BY <1>0, <2>1
  <2>3. StringAt(st, l + 1) \in Nat
    <3>1. StringLens(st) \in Seq(Nat) /\ Len(StringLens(st)) = l
      BY <1>1, <1>3, StringsTyped
    <3>2. (l + 1) - 1 \in 0 .. Len(StringLens(st))
      BY <1>3, <3>1
    <3> QED
      BY <3>1, <3>2, UptoGrow DEF StringAt
  <2> QED
    BY <2>1, <2>2, <2>3
<1>5. PICK s \in SymbolCall, e \in SymbolEntry, new \in File, fails \in BOOLEAN :
           /\ s = todo[1] /\ todo # <<>>
           /\ e.name = s.name /\ e.offset = IF s.len > NAME_LEN THEN NameOffset(c_file) ELSE 0
           /\ new = [c_file EXCEPT !.symbol = Append(@, e)]
           /\ fails => AllocFails
           /\ c_file' = IF s.len > NAME_LEN THEN AddCoffString(new, s.name, s.len, fails) ELSE new
  BY SymbolCalled
<1>6. fails = FALSE
  BY <1>5
<1>7. new.symbol = Append(f.symbol, e) /\ new.string_table = st /\ new.string_table_size = f.string_table_size
  BY <1>1, <1>2, <1>5 DEF File
<1>8. s.name \in SymNames /\ s.len \in Nat
  BY DEF SymbolCall
<1>9. PICK t, k : t = Append(f.symbol, e) /\ k = Len(f.symbol)
  OBVIOUS
<1>10. k \in Nat /\ DOMAIN t = 1 .. k + 1 /\ t[k + 1] = e /\ DOMAIN f.symbol = 1 .. k /\ \A n \in 1 .. k : t[n] = f.symbol[n]
  BY <1>3, <1>9
<1>11. \A n \in DOMAIN t : n \in 1 .. k \/ n = k + 1
  BY <1>10
<1>12. CASE s.len > NAME_LEN
  <2>1. PICK x, r : x = [name |-> s.name, len |-> s.len + 1] /\ r = Append(st, x)
    OBVIOUS
  <2>2. g = AddCoffString(new, s.name, s.len, FALSE)
    BY <1>1, <1>5, <1>6, <1>12
  <2>3. g.symbol = t /\ g.string_table = r /\ g.string_table_size = f.string_table_size + s.len + 1
    <3>1. new \in File
      OBVIOUS
    <3>2. Longer(g, new, s.name, s.len)
      BY ONLY <1>8, <2>2, <3>1, StringIsAdded
    <3> QED
      BY <1>7, <1>9, <2>1, <3>2 DEF Longer
  <2>4. x \in StringEntry /\ x.name = s.name /\ x.len = s.len + 1
    BY <1>8, <2>1 DEF StringEntry
  <2>5. /\ r \in Seq(StringEntry) /\ Len(r) = l + 1 /\ r[l + 1] = x
        /\ \A n \in 1 .. l : r[n] = st[n]
        /\ \A n \in 1 .. l + 1 : StringAt(r, n) = StringAt(st, n) /\ StringAt(st, n) \in Nat
        /\ StringAt(r, Len(r) + 1) = StringAt(st, l + 1) + x.len
    <3>1. st \in Seq(StringEntry) /\ x \in StringEntry /\ r = Append(st, x)
      BY <1>3, <2>1, <2>4
    <3>2. Behind(r, st, x)
      BY ONLY <3>1, StringBehind
    <3> QED
      BY <1>1, <3>2, Zenon DEF Behind
  <2>6. g.string_table_size = StringAt(r, Len(r) + 1) + 0
    <3>1. l + 1 \in 1 .. l + 1
      BY <1>3
    <3>2. StringAt(st, l + 1) \in Nat
      BY <2>5, <3>1
    <3> QED
      BY <1>4, <1>8, <2>3, <2>4, <2>5, <3>2
  <2>7. DOMAIN r = 1 .. l + 1
    BY <2>5
  <2>8. \A sym : Backed(sym, st) => Backed(sym, r)
    <3> TAKE sym
    <3> SUFFICES ASSUME sym.offset # 0, NEW m \in 1 .. l, st[m].name = sym.name, sym.offset = 4 + StringAt(st, m)
                 PROVE  Backed(sym, r)
      BY <1>3 DEF Backed
    <3>1. m \in 1 .. l + 1
      BY <1>3
    <3>2. r[m].name = sym.name /\ sym.offset = 4 + StringAt(r, m)
      BY <2>5, <3>1
    <3> QED
      BY <2>7, <3>1, <3>2 DEF Backed
  <2>9. Backed(e, r)
    <3>1. l + 1 \in 1 .. l + 1
      BY <1>3
    <3>2. e.offset = f.string_table_size + 4
      BY <1>1, <1>5, <1>12 DEF NameOffset
    <3>3. e.offset = 4 + StringAt(r, l + 1)
      BY <1>3, <1>4, <2>5, <3>1, <3>2
    <3>4. r[l + 1].name = e.name
      BY <1>5, <2>4, <2>5
    <3> QED
      BY <2>7, <3>1, <3>3, <3>4 DEF Backed
  <2>10. \A n \in DOMAIN t : Backed(t[n], r)
    <3> TAKE n \in DOMAIN t
    <3>1. CASE n \in 1 .. k
      BY <1>4, <1>10, <2>8, <3>1
    <3>2. CASE n = k + 1
      BY <1>10, <2>9, <3>2
    <3> QED
      BY <1>11, <3>1, <3>2
  <2> QED
    BY <1>0, <1>1, <2>3, <2>6, <2>10 DEF StringsInv
<1>13. CASE ~(s.len > NAME_LEN)
  <2>1. g = new /\ e.offset = 0
    BY <1>1, <1>5, <1>13
  <2>2. g.symbol = t /\ g.string_table = st /\ g.string_table_size = f.string_table_size
    BY <1>7, <1>9, <2>1
  <2>3. Backed(e, st)
    BY <2>1 DEF Backed
  <2>4. \A n \in DOMAIN t : Backed(t[n], st)
    <3> TAKE n \in DOMAIN t
    <3>1. CASE n \in 1 .. k
      BY <1>4, <1>10, <3>1
    <3>2. CASE n = k + 1
      BY <1>10, <2>3, <3>2
    <3> QED
      BY <1>11, <3>1, <3>2
  <2>5. g.string_table_size = StringAt(st, Len(st) + 1) + 0
    BY <1>1, <1>3, <1>4, <2>2
  <2> QED
    BY <1>0, <1>1, <2>2, <2>4, <2>5 DEF StringsInv
<1> QED
  BY <1>12, <1>13

\* The other calls, and what is written, leave the strings.
LEMMA NextStrings == Inv /\ StringsInv /\ [Next]_vars => StringsInv'
<1> SUFFICES ASSUME Inv, StringsInv, [Next]_vars, ~AllocFails PROVE StringsInv'
  BY DEF StringsInv
<1>1. PICK f, g, st : f = c_file /\ g = c_file' /\ st = f.string_table
  OBVIOUS
<1>2. f \in File
  BY <1>1 DEF Inv, TypesInv
<1>3. /\ f.string_table_size = StringAt(st, Len(st) + 1) + (IF stage = "done" THEN 4 ELSE 0)
      /\ \A n \in DOMAIN f.symbol : Backed(f.symbol[n], st)
  BY <1>1 DEF StringsInv
<1>4. CASE /\ g.symbol = f.symbol /\ g.string_table = st /\ g.string_table_size = f.string_table_size
           /\ stage' = "done" <=> stage = "done"
  BY <1>1, <1>3, <1>4 DEF StringsInv
<1>5. CASE Refuse
  BY <1>1, <1>4, <1>5 DEF Refuse
<1>6. CASE AddCoffSection
  <2>1. PICK secs : g = [f EXCEPT !.section = secs]
    BY <1>1, <1>2, <1>6 DEF AddCoffSection, File
  <2>2. g.symbol = f.symbol /\ g.string_table = st /\ g.string_table_size = f.string_table_size
    BY <1>1, <1>2, <2>1 DEF File
  <2>3. stage' = stage
    BY <1>6 DEF AddCoffSection, Called
  <2> QED
    BY <1>4, <2>2, <2>3
<1>7. CASE AddCoffSymSec
  <2>1. PICK a, b : /\ a = Entry("section", Len(f.section), 0, FALSE) /\ b = Entry("section", Len(f.section), 0, TRUE)
    OBVIOUS
  <2>2. g = [f EXCEPT !.symbol = @ \o <<a, b>>]
    BY <1>1, <1>7, <2>1 DEF AddCoffSymSec
  <2>3. PICK k, t : k = Len(f.symbol) /\ t = f.symbol \o <<a, b>>
    OBVIOUS
  <2>4. a.offset = 0 /\ b.offset = 0 /\ a \in SymbolEntry /\ b \in SymbolEntry
    <3>1. Len(f.section) \in Nat
      BY <1>2, FileTyped
    <3> QED
      BY <2>1, <3>1 DEF Entry, SymbolEntry
  <2>5. g.symbol = t /\ g.string_table = st /\ g.string_table_size = f.string_table_size
    BY <1>1, <1>2, <2>2, <2>3 DEF File
  <2>6. /\ k \in Nat /\ DOMAIN t = 1 .. k + 2 /\ t[k + 1] = a /\ t[k + 2] = b
        /\ DOMAIN f.symbol = 1 .. k /\ \A n \in 1 .. k : t[n] = f.symbol[n]
    <3>1. f.symbol \in Seq(SymbolEntry) /\ k \in Nat /\ DOMAIN f.symbol = 1 .. k
      BY <1>2, <2>3, FileTyped
    <3>2. /\ t \in Seq(SymbolEntry) /\ Len(t) = k + 2 /\ t[k + 1] = a /\ t[k + 2] = b
          /\ \A n \in 1 .. k : t[n] = f.symbol[n]
      BY <2>3, <2>4, <3>1, TwoBehind
    <3> QED
      BY <3>1, <3>2
  <2>7. Backed(a, st) /\ Backed(b, st)
    BY <2>4 DEF Backed
  <2>8. \A n \in DOMAIN t : Backed(t[n], st)
    <3> TAKE n \in DOMAIN t
    <3>1. n \in 1 .. k \/ n = k + 1 \/ n = k + 2
      BY <2>6
    <3>2. CASE n \in 1 .. k
      BY <1>3, <2>6, <3>2
    <3>3. CASE n = k + 1 \/ n = k + 2
      BY <2>6, <2>7, <3>3
    <3> QED
      BY <3>1, <3>2, <3>3
  <2>9. stage' = stage
    BY <1>7 DEF AddCoffSymSec, Called
  <2> QED
    BY <1>1, <1>3, <2>5, <2>8, <2>9 DEF StringsInv
<1>8. CASE AddCoffSymbol
  BY <1>8, SymbolBacked
<1>9. CASE CreateCoffFileHeader
  <2>1. PICK p, x : g = [f EXCEPT !.section = p, !.sym_table = x]
    BY <1>1, <1>9 DEF CreateCoffFileHeader
  <2>2. g.symbol = f.symbol /\ g.string_table = st /\ g.string_table_size = f.string_table_size
    BY <1>1, <1>2, <2>1 DEF File
  <2>3. stage' = "write" /\ stage = "declare"
    BY <1>9 DEF CreateCoffFileHeader
  <2> QED
    BY <1>4, <2>2, <2>3, SMTT(30)
<1>10. CASE AddDataImpLib \/ CreateCoffReloc
  BY <1>1, <1>4, <1>10 DEF AddDataImpLib, CreateCoffReloc
<1>11. CASE CreateCoffTables
  <2>1. g = [f EXCEPT !.string_table_size = @ + 4, !.room = 0] /\ stage = "write" /\ stage' = "done"
    BY <1>1, <1>11 DEF CreateCoffTables
  <2>2. g.symbol = f.symbol /\ g.string_table = st /\ g.string_table_size = f.string_table_size + 4
    BY <1>1, <1>2, <2>1 DEF File
  <2>3. g.string_table_size = StringAt(st, Len(st) + 1) + 4
    <3>1. f.string_table_size = StringAt(st, Len(st) + 1) + 0 /\ f.string_table_size \in Nat
      BY <1>2, <1>3, <2>1 DEF File
    <3>2. StringAt(st, Len(st) + 1) \in Nat
      <4>1. st \in Seq(StringEntry)
        BY <1>1, <1>2 DEF File
      <4>2. StringLens(st) \in Seq(Nat) /\ Len(StringLens(st)) = Len(st) /\ Len(st) \in Nat
        BY <4>1, StringsTyped
      <4>3. (Len(st) + 1) - 1 \in 0 .. Len(StringLens(st))
        BY <4>2
      <4> QED
        BY <4>2, <4>3, UptoGrow DEF StringAt
    <3> QED
      BY <2>2, <3>1, <3>2
  <2> QED
    BY <1>1, <1>3, <2>1, <2>2, <2>3 DEF StringsInv
<1>12. CASE UNCHANGED vars
  BY <1>1, <1>4, <1>12 DEF vars
<1> QED
  BY <1>5, <1>6, <1>7, <1>8, <1>9, <1>10, <1>11, <1>12 DEF Next

-----------------------------------------------------------------------------
(* The names in the file.                                                  *)

\* The shapes of the tables of a file.
Listed(c, l, st) ==
  /\ c \in Seq(Shaped) /\ Len(c) = 2 + Len(st)
  /\ Of(c, "file", "size") = {2} /\ End(c, 1) = l
  /\ \A n \in 0 .. Len(st) : Upto(StringLens(st), n) \in Nat /\ End(c, 2 + n) = (l + 4) + Upto(StringLens(st), n)
  /\ \A n \in 1 .. Len(st) : 2 + n \in Of(c, "file", st[n].name)

\* The strings are behind the symbols and the size, one behind the other.
LEMMA ClosingListed ==
  ASSUME NEW f \in File
  PROVE  Listed(Shapes(Closing(f)), Len(f.symbol) * SymbolSize, f.string_table)
<1>1. PICK k, s, l, st, m : /\ k = Closing(f) /\ s = Shapes(k) /\ l = Len(f.symbol) * SymbolSize
                            /\ st = f.string_table /\ m = Len(st)
  OBVIOUS
<1>2. st \in Seq(StringEntry) /\ m \in Nat /\ DOMAIN st = 1 .. m /\ l \in Nat
  <2>1. st \in Seq(StringEntry)
    BY <1>1 DEF File
  <2>2. Len(f.symbol) \in Nat
    BY FileTyped
  <2> QED
    BY <1>1, <2>1, <2>2 DEF SymbolSize
<1>3. PICK b : b = StringLens(st)
  OBVIOUS
<1>4. /\ b \in Seq(Nat) /\ Len(b) = m
      /\ \A n \in 1 .. m : b[n] = st[n].len /\ st[n].len \in Nat /\ st[n].name \in SymNames
  BY <1>1, <1>2, <1>3, StringsTyped
<1>5. /\ k \in Seq(Piece) /\ Len(k) = 2 + m
      /\ \A n \in DOMAIN k : k[n].sec = "file"
      /\ k[1] = [sec |-> "file", what |-> "symbols", len |-> l]
      /\ k[2] = [sec |-> "file", what |-> "size", len |-> 4]
      /\ \A n \in 1 .. m : k[2 + n] = [sec |-> "file", what |-> st[n].name, len |-> st[n].len]
  BY <1>1, ClosingTyped
<1>6. s \in Seq(Shaped) /\ Len(s) = 2 + m /\ DOMAIN s = 1 .. 2 + m /\ \A n \in 1 .. 2 + m : s[n] = Shape(k[n])
  <2>1. \A q \in Piece : Shape(q) \in Shaped
    BY PiecesShaped
  <2>2. s \in Seq(Shaped) /\ Len(s) = Len(k) /\ DOMAIN s = 1 .. Len(k) /\ \A n \in 1 .. Len(k) : s[n] = Shape(k[n])
    BY ONLY <1>1, <1>5, <2>1, ShapesTyped
  <2> QED
    BY <1>5, <2>2
<1>7. \A n \in 1 .. 2 + m : s[n].sec = "file" /\ s[n].what = k[n].what /\ s[n].len = k[n].len
  <2>1. DOMAIN k = 1 .. 2 + m
    BY <1>5
  <2> QED
    BY <1>5, <1>6, <2>1 DEF Shape
<1>8. s[1].what = "symbols" /\ s[1].len = l /\ s[2].what = "size" /\ s[2].len = 4
  <2>1. 1 \in 1 .. 2 + m /\ 2 \in 1 .. 2 + m
    BY <1>2
  <2> QED
    BY <1>5, <1>7, <2>1
<1>9. ASSUME NEW n \in 1 .. m PROVE s[2 + n].what = st[n].name /\ s[2 + n].len = b[n]
  <2>1. PICK x : x = st[n]
    OBVIOUS
  <2>2. k[2 + n] = [sec |-> "file", what |-> x.name, len |-> x.len]
    BY <1>5, <2>1
  <2>3. k[2 + n].what = x.name /\ k[2 + n].len = x.len
    BY <2>2
  <2>4. 2 + n \in 1 .. 2 + m
    BY <1>2
  <2> QED
    BY <1>4, <1>7, <2>1, <2>3, <2>4
<1>10. Of(s, "file", "size") = {2}
  <2>1. \A n \in 1 .. 2 + m : n = 1 \/ n = 2 \/ (n - 2 \in 1 .. m /\ n = 2 + (n - 2))
    BY <1>2
  <2>2. \A n \in 1 .. m : s[2 + n].what # "size"
    BY <1>4, <1>9 DEF SymNames
  <2>3. \A n \in 1 .. 2 + m : s[n].what = "size" <=> n = 2
    BY <1>8, <2>1, <2>2
  <2>4. 2 \in 1 .. 2 + m
    BY <1>2
  <2> QED
    BY <1>6, <1>7, <2>3, <2>4 DEF Of
<1>11. \A n \in 0 .. 1 + m : End(s, n + 1) = End(s, n) + s[n + 1].len
  <2>1. \A n \in 0 .. 1 + m : n \in 0 .. Len(s) - 1
    BY <1>2, <1>6
  <2> QED
    BY <1>6, <2>1, EndConcat
<1>12. End(s, 1) = l /\ End(s, 2) = l + 4
  <2>1. End(s, 0) = 0 /\ 0 \in 0 .. 1 + m /\ 1 \in 0 .. 1 + m
    BY <1>2, <1>6, EndConcat
  <2>2. End(s, 0 + 1) = 0 + l /\ End(s, 1 + 1) = End(s, 1) + 4
    BY <1>8, <1>11, <2>1
  <2> QED
    BY <1>2, <2>2
<1>13. \A n \in 0 .. m : Upto(b, n) \in Nat
  BY <1>4, UptoGrow
<1> DEFINE P == {n \in Nat : n <= m => End(s, 2 + n) = (l + 4) + Upto(b, n)}
<1>14. 0 \in P
  <2>1. Upto(b, 0) = 0
    BY <1>4, UptoGrow
  <2> QED
    BY <1>2, <1>12, <2>1
<1>15. ASSUME NEW n \in Nat, n \in P PROVE n + 1 \in P
  <2> SUFFICES ASSUME n + 1 <= m PROVE End(s, 2 + (n + 1)) = (l + 4) + Upto(b, n + 1)
    OBVIOUS
  <2>1. End(s, 2 + n) = (l + 4) + Upto(b, n)
    BY <1>2, <1>15
  <2> HIDE DEF P
  <2>2. /\ n \in 0 .. m /\ n \in 0 .. Len(b) - 1 /\ 2 + n \in 0 .. 1 + m /\ n + 1 \in 1 .. m
        /\ 2 + (n + 1) = (2 + n) + 1
    BY <1>2, <1>4
  <2>3. End(s, (2 + n) + 1) = End(s, 2 + n) + b[n + 1]
    BY <1>9, <1>11, <2>2
  <2>4. Upto(b, n + 1) = Upto(b, n) + b[n + 1]
    BY <1>4, <2>2, UptoGrow
  <2>5. Upto(b, n) \in Nat /\ b[n + 1] \in Nat
    BY <1>4, <1>13, <2>2
  <2> QED
    BY <1>2, <2>1, <2>2, <2>3, <2>4, <2>5, SMTT(30)
<1>16. \A n \in Nat : n \in P
  <2> HIDE DEF P
  <2> QED
    BY <1>14, <1>15, Induction
<1>17. \A n \in 0 .. m : End(s, 2 + n) = (l + 4) + Upto(b, n)
  BY <1>2, <1>16
<1>18. \A n \in 1 .. m : 2 + n \in Of(s, "file", st[n].name)
  <2>1. \A n \in 1 .. m : 2 + n \in 1 .. 2 + m
    BY <1>2
  <2> QED
    BY <1>6, <1>7, <1>9, <2>1 DEF Of
<1> HIDE DEF P
<1>19. Listed(s, l, st)
  BY <1>1, <1>3, <1>6, <1>10, <1>12, <1>13, <1>17, <1>18 DEF Listed
<1> QED
  BY <1>1, <1>19

\* In front of the tables there are the headers and the sections.
LEMMA FrontAndTables ==
  ASSUME Inv, PiecesInv, stage = "done"
  PROVE  \E hv \in Seq(Shaped) :
           /\ Shapes(out) = hv \o Shapes(Closing(c_file))
           /\ \A what : what \notin {"header", "sections"} => Of(hv, "file", what) = {}
<1>1. PICK f, secs, i, p : f = c_file /\ secs = f.section /\ i = import /\ p = AsCalls(secs)
  OBVIOUS
<1>2. f \in File /\ i \in Imports /\ i.machine # "other" /\ Plan(i) = p
  BY <1>1 DEF Inv, TypesInv, SectionsInv, PiecesInv
<1>3. secs \in Seq(Header) /\ Len(secs) \in Nat /\ DOMAIN secs = 1 .. Len(secs)
  BY <1>1, <1>2, FileTyped
<1>4. p \in Seq(SectionCall) /\ Len(p) = Len(secs)
  BY <1>1, <1>3, AsCallsTyped
<1>5. PICK h, v, hv : h = Shapes(Heading(Len(secs))) /\ v = Shapes(Written(i)) /\ hv = h \o v
  OBVIOUS
<1>6. Shapes(out) = hv \o Shapes(Closing(c_file))
  BY <1>1, <1>5 DEF PiecesInv
<1>7. h \in Seq(Shaped) /\ \A sec, what : what \notin {"header", "sections"} => Of(h, sec, what) = {}
  BY <1>3, <1>5, HeadingTyped
<1>8. Laid(v, p)
  BY <1>2, <1>5, WrittenLaid
<1>9. v \in Seq(Shaped) /\ \A n \in DOMAIN v : v[n].sec \in Names(p)
  BY ONLY <1>8 DEF Laid
<1>10. \A what : Of(v, "file", what) = {}
  <2>1. \A m \in DOMAIN p : p[m].name \in SecNames
    BY <1>4, RoomsTyped
  <2>2. \A m \in DOMAIN p : p[m].name # "file"
    BY <2>1 DEF SecNames
  <2>3. "file" \notin Names(p)
    BY <2>2 DEF Names
  <2> QED
    BY <1>9, <2>3 DEF Of
<1>11. PICK k \in Nat, d \in Nat : k = Len(h) /\ d = Len(v)
  <2>1. Len(h) \in Nat /\ Len(v) \in Nat
    BY <1>7, <1>9
  <2> QED
    BY <2>1
<1>12. ASSUME NEW what, what \notin {"header", "sections"} PROVE Of(hv, "file", what) = {}
  <2>1. PICK P : P = Of(hv, "file", what)
    OBVIOUS
  <2>2. /\ P \subseteq 1 .. k + d
        /\ \A n \in 1 .. k : n \in P <=> n \in Of(h, "file", what)
        /\ \A n \in 1 .. d : k + n \in P <=> n \in Of(v, "file", what)
    BY <1>5, <1>7, <1>9, <1>11, <2>1, OfConcat, SMTT(30)
  <2>3. Of(h, "file", what) = {} /\ Of(v, "file", what) = {}
    BY <1>7, <1>10, <1>12
  <2>4. ASSUME NEW n \in P PROVE FALSE
    <3>1. n \in 1 .. k \/ (n - k \in 1 .. d /\ n = k + (n - k))
      BY <2>2
    <3> QED
      BY <2>2, <2>3, <3>1
  <2> QED
    BY <2>1, <2>4
<1>13. hv \in Seq(Shaped)
  BY <1>5, <1>7, <1>9, ListsConcat
<1> QED
  BY <1>6, <1>12, <1>13

\* The names are where the symbols say, behind the size that covers them.
LEMMA NamesInPlace ==
  ASSUME Inv, PiecesInv, StringsInv, ~AllocFails
  PROVE  NamesFound
<1> SUFFICES ASSUME stage = "done" PROVE NamesFound
  BY DEF NamesFound
<1>1. PICK hv \in Seq(Shaped) :
        /\ Shapes(out) = hv \o Shapes(Closing(c_file))
        /\ \A what : what \notin {"header", "sections"} => Of(hv, "file", what) = {}
  BY FrontAndTables
<1>2. PICK f, c, w, l, st, k : /\ f = c_file /\ c = Shapes(Closing(f)) /\ w = Shapes(out)
                               /\ l = Len(f.symbol) * SymbolSize /\ st = f.string_table /\ k = Len(hv)
  OBVIOUS
<1>3. f \in File /\ out \in Seq(Piece)
  BY <1>2 DEF Inv, TypesInv
<1>4. st \in Seq(StringEntry) /\ k \in Nat /\ l \in Nat
  <2>1. Len(f.symbol) \in Nat
    BY <1>3, FileTyped
  <2> QED
    BY <1>2, <1>3, <2>1 DEF File, SymbolSize
<1>5. PICK m \in Nat : m = Len(st) /\ DOMAIN st = 1 .. m
  BY <1>4
<1>6. Listed(c, l, st)
  BY <1>2, <1>3, ClosingListed
<1>7. /\ c \in Seq(Shaped) /\ Len(c) = 2 + m
      /\ Of(c, "file", "size") = {2} /\ End(c, 1) = l
      /\ \A n \in 0 .. m : Upto(StringLens(st), n) \in Nat /\ End(c, 2 + n) = (l + 4) + Upto(StringLens(st), n)
      /\ \A n \in 1 .. m : 2 + n \in Of(c, "file", st[n].name)
  BY <1>5, <1>6 DEF Listed
<1>8. w = hv \o c /\ w \in Seq(Shaped) /\ Len(w) = k + (2 + m)
  <2>1. hv \in Seq(Shaped) /\ w = hv \o c
    BY <1>1, <1>2
  <2>2. hv \o c \in Seq(Shaped) /\ Len(hv \o c) = Len(hv) + Len(c)
    BY ONLY <1>7, <2>1, ListsConcat
  <2> QED
    BY <1>2, <1>7, <2>1, <2>2
<1>9. PICK e \in Nat : e = End(hv, k)
  <2>1. k \in 0 .. Len(hv)
    BY <1>2, <1>4
  <2> QED
    BY <1>7, <2>1, EndConcat
<1>10. \A n \in 0 .. 2 + m : End(w, k + n) = e + End(c, n)
  BY <1>2, <1>7, <1>8, <1>9, EndConcat
<1>11. /\ \A n \in 1 .. k + (2 + m) + 1 : At(n) = End(w, n - 1)
       /\ \A sec, what : Pieces(sec, what) = Of(w, sec, what)
       /\ Len(out) = k + (2 + m)
  BY <1>2, <1>3, <1>8, AtEnd
<1>12. \A n \in 1 .. 3 + m : At(k + n) = e + End(c, n - 1)
  <2> TAKE n \in 1 .. 3 + m
  <2>1. k + n \in 1 .. k + (2 + m) + 1 /\ (k + n) - 1 = k + (n - 1) /\ n - 1 \in 0 .. 2 + m
    BY <1>4
  <2> QED
    BY <1>10, <1>11, <2>1
<1>13. At(k + 2) = e + l
  <2>1. 2 \in 1 .. 3 + m /\ 2 - 1 = 1
    OBVIOUS
  <2> QED
    BY <1>7, <1>12, <2>1
<1>14. \A n \in 0 .. m : At(k + (3 + n)) = (e + l) + (4 + Upto(StringLens(st), n))
  <2> TAKE n \in 0 .. m
  <2>1. 3 + n \in 1 .. 3 + m /\ (3 + n) - 1 = 2 + n
    OBVIOUS
  <2>2. At(k + (3 + n)) = e + ((l + 4) + Upto(StringLens(st), n))
    BY <1>7, <1>12, <2>1
  <2>3. Upto(StringLens(st), n) \in Nat
    BY <1>7
  <2> QED
    BY <1>4, <2>2, <2>3
<1>15. /\ \A n \in Pieces("file", "size") : n = k + 2
       /\ \A what : \A n \in Of(c, "file", what) : k + n \in Pieces("file", what)
  <2>1. ASSUME NEW what
        PROVE  /\ Of(w, "file", what) \subseteq 1 .. k + (2 + m)
               /\ \A n \in 1 .. k : n \in Of(w, "file", what) <=> n \in Of(hv, "file", what)
               /\ Of(c, "file", what) \subseteq 1 .. 2 + m
               /\ \A n \in 1 .. 2 + m : k + n \in Of(w, "file", what) <=> n \in Of(c, "file", what)
    BY <1>2, <1>7, <1>8, OfConcat, SMTT(30)
  <2>2. Of(hv, "file", "size") = {}
    BY <1>1
  <2>3. ASSUME NEW n \in Of(w, "file", "size") PROVE n = k + 2
    <3>1. n \in 1 .. k \/ (n - k \in 1 .. 2 + m /\ n = k + (n - k))
      BY <1>4, <2>1
    <3>2. n - k \in Of(c, "file", "size") /\ n = k + (n - k)
      BY <2>1, <2>2, <3>1
    <3> QED
      BY <1>7, <3>2
  <2>4. \A what : \A n \in Of(c, "file", what) : k + n \in Of(w, "file", what)
    BY <2>1
  <2> QED
    BY <1>11, <2>3, <2>4
<1>16. /\ f.string_table_size = StringAt(st, m + 1) + 4
       /\ \A n \in DOMAIN f.symbol : Backed(f.symbol[n], st)
  BY <1>2, <1>5 DEF StringsInv
<1>17. ASSUME NEW sym, Backed(sym, st), sym.offset # 0
       PROVE  \E piece \in Pieces("file", sym.name) : At(piece) = (e + l) + sym.offset
  <2>1. PICK n \in 1 .. m : st[n].name = sym.name /\ sym.offset = 4 + StringAt(st, n)
    BY <1>5, <1>17 DEF Backed
  <2>2. k + (2 + n) \in Pieces("file", sym.name)
    BY <1>7, <1>15, <2>1
  <2>3. n - 1 \in 0 .. m /\ 3 + (n - 1) = 2 + n
    OBVIOUS
  <2>4. At(k + (2 + n)) = (e + l) + (4 + Upto(StringLens(st), n - 1))
    BY <1>14, <2>3
  <2>5. At(k + (2 + n)) = (e + l) + sym.offset
    BY <2>1, <2>4 DEF StringAt
  <2> QED
    BY <2>2, <2>5
<1>18. At(Len(out) + 1) = (e + l) + f.string_table_size
  <2>1. Len(out) + 1 = k + (3 + m) /\ m \in 0 .. m /\ (m + 1) - 1 = m
    BY <1>4, <1>11
  <2>2. At(k + (3 + m)) = (e + l) + (4 + Upto(StringLens(st), m))
    BY <1>14, <2>1
  <2>3. f.string_table_size = 4 + Upto(StringLens(st), m)
    <3>1. f.string_table_size = Upto(StringLens(st), m) + 4
      BY <1>16, <2>1 DEF StringAt
    <3>2. Upto(StringLens(st), m) \in Nat
      BY <1>7, <2>1
    <3> QED
      BY <3>1, <3>2
  <2> QED
    BY <2>1, <2>2, <2>3
<1>19. ASSUME NEW start \in Pieces("file", "size")
       PROVE  /\ \A n \in DOMAIN f.symbol :
                   f.symbol[n].offset # 0 =>
                     \E piece \in Pieces("file", f.symbol[n].name) : At(piece) = At(start) + f.symbol[n].offset
              /\ At(Len(out) + 1) = At(start) + f.string_table_size
  <2>1. At(start) = e + l
    BY <1>13, <1>15
  <2> QED
    BY <1>16, <1>17, <1>18, <2>1
<1> QED
  BY <1>2, <1>19 DEF NamesFound

\* The strings of a file without any.
LEMMA InitStrings == Init => StringsInv
<1> SUFFICES ASSUME Init PROVE StringsInv
  OBVIOUS
<1>1. /\ c_file.string_table_size = 0 /\ c_file.symbol = <<>> /\ c_file.string_table = <<>>
      /\ stage = "declare"
  BY DEF Init
<1>2. <<>> \in Seq(Nat) /\ StringLens(<<>>) = <<>> /\ (Len(<<>>) + 1) - 1 = 0
  BY DEF StringLens
<1>3. StringAt(<<>>, Len(<<>>) + 1) = 0
  BY <1>2, UptoGrow DEF StringAt
<1> QED
  BY <1>1, <1>3 DEF StringsInv

\* The strings stay where the symbols say.
LEMMA AlwaysStrings == Spec => [](Inv /\ PiecesInv /\ StringsInv)
BY AlwaysPieces, InitStrings, NextStrings, PTL DEF Spec

-----------------------------------------------------------------------------
(* The room for the names.                                                 *)

\* No symbol is as long as the table is at first.
NamesShort ==
  /\ \A l \in NameLens : l + 10 <= INIT_MAX_SIZE_COFF_STRING_TABLE
  /\ \A d \in DllLens : d + 21 <= INIT_MAX_SIZE_COFF_STRING_TABLE

ShortCalls ==
  SectionCall \cup SymSecCall
    \cup {c \in SymbolCall : c.len + 1 <= INIT_MAX_SIZE_COFF_STRING_TABLE}

\* The table is in a block of the size that is meant, and no longer.
RoomInv ==
  ~AllocFails /\ NamesShort =>
    /\ stage = "declare" => todo \in Seq(ShortCalls)
    /\ stage # "done" =>
         /\ c_file.room = c_file.max_string_table_size
         /\ c_file.max_string_table_size >= INIT_MAX_SIZE_COFF_STRING_TABLE
         /\ c_file.string_table_size <= c_file.max_string_table_size

\* The names of symbols are short if those of functions and DLLs are.
LEMMA SymbolsShort ==
  ASSUME NamesShort, NEW i \in Imports
  PROVE  /\ SymbolLen(i) \in Nat /\ SymbolLen(i) + 7 <= INIT_MAX_SIZE_COFF_STRING_TABLE
         /\ i.dll \in Nat /\ i.dll + 21 <= INIT_MAX_SIZE_COFF_STRING_TABLE
<1>1. i.name \in NameLens /\ i.suffix \in {0, 2} /\ i.dll \in DllLens
  BY DEF Imports
<1>2. NameLens \subseteq Nat /\ DllLens \subseteq Nat
  BY InputsAssumption
<1>3. i.name \in Nat /\ i.suffix \in 0 .. 2 /\ i.dll \in Nat
  <2>1. i.name \in Nat /\ i.dll \in Nat
    BY <1>1, <1>2
  <2>2. i.suffix \in 0 .. 2
    BY <1>1
  <2> QED
    BY <2>1, <2>2
<1>4. i.name + 10 <= INIT_MAX_SIZE_COFF_STRING_TABLE /\ i.dll + 21 <= INIT_MAX_SIZE_COFF_STRING_TABLE
  BY <1>1 DEF NamesShort
<1>5. PICK m \in 0 .. 1 : m = IF i.mark = "none" THEN 0 ELSE 1
  OBVIOUS
<1>6. SymbolLen(i) = i.name + i.suffix + m
  BY <1>5 DEF SymbolLen
<1> QED
  BY <1>3, <1>4, <1>6 DEF INIT_MAX_SIZE_COFF_STRING_TABLE

\* What is declared is short.
LEMMA DeclaredShort ==
  ASSUME NamesShort, NEW i \in Imports
  PROVE  Declared(i) \in Seq(ShortCalls)
<1> DEFINE S == ShortCalls
<1>1. \A s, t \in Seq(S) : s \o t \in Seq(S)
  OBVIOUS
<1>2. <<>> \in Seq(S) /\ \A x \in S : <<x>> \in Seq(S) /\ \A y \in S : <<x, y>> \in Seq(S) /\ \A z \in S : <<x, y, z>> \in Seq(S)
  OBVIOUS
<1>3. /\ \A c \in SectionCall : c \in S
      /\ \A c \in SymSecCall : c \in S
      /\ \A c \in SymbolCall : c.len + 1 <= INIT_MAX_SIZE_COFF_STRING_TABLE => c \in S
  BY DEF ShortCalls
<1> HIDE DEF S
<1>4. PICK l \in Nat, d \in Nat : l = SymbolLen(i) /\ d = i.dll /\ l + 7 <= 1024 /\ d + 21 <= 1024
  BY SymbolsShort DEF INIT_MAX_SIZE_COFF_STRING_TABLE
<1>5. /\ ".text" \in SecNames /\ ".pdata" \in SecNames /\ ".reldata" \in SecNames
      /\ ".idata$5" \in SecNames /\ ".idata$4" \in SecNames /\ ".idata$6" \in SecNames
      /\ "name" \in SymNames /\ "descriptor" \in SymNames
  BY DEF SecNames, SymNames
<1>6. \A name \in SecNames, size \in Nat \ {0}, relocs \in Nat : Section(name, size, relocs) \in S
  BY <1>3, CallsTyped
<1>7. SymSec("none") \in S /\ SymSec("idata6") \in S
  BY <1>3, CallsTyped
<1>8. ASSUME NEW len \in Nat, len + 1 <= 1024
      PROVE  /\ Symbol("text", len, TRUE, "text") \in S /\ Symbol("imp", len, TRUE, "imp") \in S
             /\ Symbol("toc", len, FALSE, "toc") \in S
             /\ Symbol("name", len, TRUE, "none") \in S /\ Symbol("descriptor", len, FALSE, "none") \in S
  <2>1. /\ Symbol("text", len, TRUE, "text") \in SymbolCall /\ Symbol("imp", len, TRUE, "imp") \in SymbolCall
        /\ Symbol("toc", len, FALSE, "toc") \in SymbolCall
        /\ Symbol("name", len, TRUE, "none") \in SymbolCall /\ Symbol("descriptor", len, FALSE, "none") \in SymbolCall
    BY <1>5, CallsTyped
  <2>2. \A name, here, keep : Symbol(name, len, here, keep).len = len
    BY DEF Symbol
  <2>3. \A c \in SymbolCall : c.len = len => c \in S
    BY <1>3, <1>8 DEF INIT_MAX_SIZE_COFF_STRING_TABLE
  <2> QED
    BY ONLY <2>1, <2>2, <2>3
<1>9. CodeCalls(i) \in Seq(S)
  <2>1. CASE i.machine = "alpha"
    <3>1. CodeCalls(i) = <<Section(".text", 12, 3), SymSec("none"), Symbol("text", l, TRUE, "text")>>
      BY <1>4, <2>1, ZenonT(60) DEF CodeCalls
    <3>2. Section(".text", 12, 3) \in S
      <4>1. 12 \in Nat \ {0} /\ 3 \in Nat
        OBVIOUS
      <4> QED
        BY <1>5, <1>6, <4>1
    <3>3. Symbol("text", l, TRUE, "text") \in S
      <4>1. l + 1 <= 1024
        BY <1>4
      <4> QED
        BY <1>8, <4>1
    <3> QED
      BY <1>2, <1>7, <3>1, <3>2, <3>3
  <2>2. CASE i.machine = "powerpc"
    <3>1. PICK a, b, c, e, o : /\ a = Section(".text", 24, 1) /\ b = Section(".pdata", 20, 4)
                               /\ c = Section(".reldata", 8, 2) /\ e = Symbol("text", l + 2, TRUE, "text")
                               /\ o = IF i.type = "ordinal" THEN <<>> ELSE <<SymSec("none")>>
      OBVIOUS
    <3>2. PICK g : g = Symbol("name", l, TRUE, "none")
      OBVIOUS
    <3>3. a \in S /\ b \in S /\ c \in S
      BY <1>5, <1>6, <3>1
    <3>4. e \in S /\ g \in S
      <4>1. l + 2 \in Nat /\ (l + 2) + 1 <= 1024 /\ l + 1 <= 1024
        BY <1>4
      <4> QED
        BY <1>8, <3>1, <3>2, <4>1, ZenonT(60)
    <3>5. o \in Seq(S)
      BY <1>2, <1>7, <3>1
    <3>6. CodeCalls(i) = ((<<a, SymSec("none"), e>> \o <<b, SymSec("none"), c>>) \o o) \o <<g>>
      BY <1>4, <2>2, <3>1, <3>2 DEF CodeCalls
    <3>7. <<a, SymSec("none"), e>> \in Seq(S) /\ <<b, SymSec("none"), c>> \in Seq(S) /\ <<g>> \in Seq(S)
      BY <1>2, <1>7, <3>3, <3>4
    <3> QED
      BY <1>1, <3>5, <3>6, <3>7
  <2>3. CASE i.machine = "i386"
    <3>1. CodeCalls(i) = <<Section(".text", 6, 1), SymSec("none"), Symbol("text", l, TRUE, "text")>>
      BY <1>4, <2>3, ZenonT(60) DEF CodeCalls
    <3>2. Section(".text", 6, 1) \in S
      <4>1. 6 \in Nat \ {0} /\ 1 \in Nat
        OBVIOUS
      <4> QED
        BY <1>5, <1>6, <4>1
    <3>3. Symbol("text", l, TRUE, "text") \in S
      <4>1. l + 1 <= 1024
        BY <1>4
      <4> QED
        BY <1>8, <4>1
    <3> QED
      BY <1>2, <1>7, <3>1, <3>2, <3>3
  <2>4. CASE i.machine = "other"
    BY <1>2, <2>4 DEF CodeCalls
  <2> QED
    BY <2>1, <2>2, <2>3, <2>4, Machines
<1>10. ImportCalls(i) \in Seq(S)
  <2>1. NameSize(i) \in Nat \ {0}
    <3>1. PICK q \in Nat : q = DllSymbolLen(i)
      BY LensAreNumbers
    <3>2. q \div 2 \in Nat
      OBVIOUS
    <3> QED
      BY <3>1, <3>2 DEF NameSize
  <2>2. PICK named \in Nat : named = IF i.type = "ordinal" THEN 0 ELSE 1
    OBVIOUS
  <2>3. PICK a, b, c, e, o : /\ a = Section(".idata$5", 4, named) /\ b = Section(".idata$4", 4, named)
                             /\ c = Section(".idata$6", NameSize(i), 0) /\ e = Symbol("imp", l + 6, TRUE, "imp")
                             /\ o = IF i.type = "ordinal" THEN <<>> ELSE <<c, SymSec("idata6")>>
    OBVIOUS
  <2>4. a \in S /\ b \in S /\ c \in S
    BY <1>5, <1>6, <2>1, <2>3
  <2>5. e \in S
    <3>1. l + 6 \in Nat /\ (l + 6) + 1 <= 1024
      BY <1>4
    <3> QED
      BY <1>8, <2>3, <3>1
  <2>6. o \in Seq(S)
    BY <1>2, <1>7, <2>3, <2>4
  <2>7. ImportCalls(i) = (<<a, SymSec("none"), e>> \o <<b, SymSec("none")>>) \o o
    BY <1>4, <2>2, <2>3 DEF ImportCalls
  <2>8. <<a, SymSec("none"), e>> \in Seq(S) /\ <<b, SymSec("none")>> \in Seq(S)
    BY <1>2, <1>7, <2>4, <2>5
  <2> QED
    BY <1>1, <2>6, <2>7, <2>8
<1>11. OtherCalls(i) \in Seq(S)
  <2>1. PICK t, e : t = Symbol("toc", 4, FALSE, "toc") /\ e = Symbol("descriptor", d + 20, FALSE, "none")
    OBVIOUS
  <2>2. t \in S /\ e \in S
    <3>1. d + 20 \in Nat /\ (d + 20) + 1 <= 1024 /\ 4 \in Nat /\ 4 + 1 <= 1024
      BY <1>4
    <3> QED
      BY <1>8, <2>1, <3>1
  <2>3. OtherCalls(i) = (IF i.machine = "powerpc" THEN <<t>> ELSE <<>>) \o <<e>>
    BY <1>4, <2>1 DEF OtherCalls
  <2>4. (IF i.machine = "powerpc" THEN <<t>> ELSE <<>>) \in Seq(S) /\ <<e>> \in Seq(S)
    BY <1>2, <2>2
  <2> QED
    BY <1>1, <2>3, <2>4
<1>12. (CodeCalls(i) \o ImportCalls(i)) \o OtherCalls(i) \in Seq(S)
  BY <1>1, <1>9, <1>10, <1>11
<1> QED
  BY <1>12 DEF Declared, S

\* A table that is large enough stays so if it grows once for a short name.
LEMMA RoomForOne ==
  ASSUME NEW size \in Nat, NEW max \in Nat, NEW len \in Nat, NEW larger,
         size <= max, max >= 1024, len + 1 <= 1024,
         larger = IF size + len + 1 >= max THEN 2 * max ELSE max
  PROVE  larger \in Nat /\ larger >= 1024 /\ size + len + 1 <= larger
<1>1. CASE size + len + 1 >= max
  <2>1. larger = 2 * max
    BY <1>1
  <2> QED
    BY <2>1
<1>2. CASE ~(size + len + 1 >= max)
  <2>1. larger = max
    BY <1>2
  <2> QED
    BY <1>2, <2>1
<1> QED
  BY <1>1, <1>2

\* There is room for the name of a symbol.
LEMMA SymbolFits ==
  ASSUME Inv, AddCoffSymbol, RoomInv
  PROVE  RoomInv'
<1> SUFFICES ASSUME ~AllocFails, NamesShort PROVE RoomInv'
  BY DEF RoomInv
<1>0. stage = "declare" /\ stage' = "declare" /\ todo # <<>> /\ todo' = Tail(todo)
  BY DEF AddCoffSymbol, Called
<1>1. PICK f, g : f = c_file /\ g = c_file'
  OBVIOUS
<1>2. /\ f \in File /\ todo \in Seq(ShortCalls)
      /\ f.room = f.max_string_table_size /\ f.max_string_table_size >= 1024
      /\ f.string_table_size <= f.max_string_table_size
  BY <1>0, <1>1 DEF Inv, TypesInv, RoomInv, INIT_MAX_SIZE_COFF_STRING_TABLE
<1>3. todo[1] \in ShortCalls /\ Tail(todo) \in Seq(ShortCalls)
  BY <1>0, <1>2
<1>4. PICK s \in SymbolCall, e \in SymbolEntry, new \in File, fails \in BOOLEAN :
           /\ s = todo[1] /\ todo # <<>>
           /\ e.name = s.name /\ e.offset = IF s.len > NAME_LEN THEN NameOffset(c_file) ELSE 0
           /\ new = [c_file EXCEPT !.symbol = Append(@, e)]
           /\ fails => AllocFails
           /\ c_file' = IF s.len > NAME_LEN THEN AddCoffString(new, s.name, s.len, fails) ELSE new
  BY SymbolCalled
<1>5. s.name \in SymNames /\ s.len \in Nat /\ s.call = "symbol"
  BY DEF SymbolCall
<1>6. s.len + 1 <= 1024
  <2>1. s \in ShortCalls
    BY <1>3, <1>4
  <2>2. s \notin SectionCall /\ s \notin SymSecCall
    BY <1>5 DEF SectionCall, SymSecCall
  <2> QED
    BY <2>1, <2>2 DEF ShortCalls, INIT_MAX_SIZE_COFF_STRING_TABLE
<1>7. /\ new.room = f.room /\ new.max_string_table_size = f.max_string_table_size
      /\ new.string_table_size = f.string_table_size
  BY <1>1, <1>2, <1>4 DEF File
<1>8. g.room = g.max_string_table_size /\ g.max_string_table_size >= 1024 /\ g.string_table_size <= g.max_string_table_size
  <2>1. CASE s.len > NAME_LEN
    <3>1. PICK size \in Nat, max \in Nat, len \in Nat :
            size = f.string_table_size /\ max = f.max_string_table_size /\ len = s.len
      BY <1>2, <1>5 DEF File
    <3>3. PICK larger : larger = IF size + len + 1 >= max THEN 2 * max ELSE max
      OBVIOUS
    <3>4. larger \in Nat /\ larger >= 1024 /\ size + len + 1 <= larger
      <4>1. size <= max /\ max >= 1024 /\ len + 1 <= 1024
        BY <1>2, <1>6, <3>1
      <4> QED
        BY ONLY <3>3, <4>1, RoomForOne
    <3>5. Longer(g, new, s.name, s.len)
      <4>1. g = AddCoffString(new, s.name, s.len, FALSE) /\ new \in File
        BY <1>1, <1>4, <2>1
      <4> QED
        BY ONLY <1>5, <4>1, StringIsAdded
    <3>6. Full(new, s.len) <=> size + len + 1 >= max
      BY <1>7, <3>1 DEF Full
    <3>7. /\ g.string_table_size = size + len + 1 /\ g.max_string_table_size = larger
          /\ g.room = larger
      BY <1>2, <1>7, <3>1, <3>3, <3>5, <3>6 DEF Longer
    <3> QED
      BY <3>4, <3>7
  <2>2. CASE ~(s.len > NAME_LEN)
    BY <1>1, <1>2, <1>4, <1>7, <2>2
  <2> QED
    BY <2>1, <2>2
<1> QED
  BY <1>0, <1>1, <1>3, <1>8 DEF RoomInv, INIT_MAX_SIZE_COFF_STRING_TABLE

\* The other calls leave the table.
LEMMA NextRoom == Inv /\ RoomInv /\ [Next]_vars => RoomInv'
<1> SUFFICES ASSUME Inv, RoomInv, [Next]_vars, ~AllocFails, NamesShort PROVE RoomInv'
  BY DEF RoomInv
<1>1. PICK f, g : f = c_file /\ g = c_file'
  OBVIOUS
<1>2. f \in File
  BY <1>1 DEF Inv, TypesInv
<1>3. /\ stage = "declare" => todo \in Seq(ShortCalls)
      /\ stage # "done" =>
           /\ f.room = f.max_string_table_size
           /\ f.max_string_table_size >= INIT_MAX_SIZE_COFF_STRING_TABLE
           /\ f.string_table_size <= f.max_string_table_size
  BY <1>1 DEF RoomInv
<1>4. CASE /\ g.room = f.room /\ g.max_string_table_size = f.max_string_table_size
           /\ g.string_table_size = f.string_table_size
           /\ stage' # "done" => stage # "done"
           /\ stage' = "declare" => stage = "declare" /\ (todo' = todo \/ (todo # <<>> /\ todo' = Tail(todo)))
  <2>1. stage' = "declare" => todo' \in Seq(ShortCalls)
    BY <1>3, <1>4
  <2> QED
    BY <1>1, <1>3, <1>4, <2>1 DEF RoomInv
<1>5. CASE Refuse
  BY <1>1, <1>4, <1>5 DEF Refuse
<1>6. CASE AddCoffSection
  <2>1. PICK secs : g = [f EXCEPT !.section = secs]
    BY <1>1, <1>2, <1>6 DEF AddCoffSection, File
  <2>2. /\ g.room = f.room /\ g.max_string_table_size = f.max_string_table_size
        /\ g.string_table_size = f.string_table_size
    BY <1>1, <1>2, <2>1 DEF File
  <2>3. stage' = stage /\ todo # <<>> /\ todo' = Tail(todo)
    BY <1>6 DEF AddCoffSection, Called
  <2> QED
    BY <1>4, <2>2, <2>3
<1>7. CASE AddCoffSymSec
  <2>1. PICK syms : g = [f EXCEPT !.symbol = syms]
    BY <1>1, <1>2, <1>7 DEF AddCoffSymSec, File
  <2>2. /\ g.room = f.room /\ g.max_string_table_size = f.max_string_table_size
        /\ g.string_table_size = f.string_table_size
    BY <1>1, <1>2, <2>1 DEF File
  <2>3. stage' = stage /\ todo # <<>> /\ todo' = Tail(todo)
    BY <1>7 DEF AddCoffSymSec, Called
  <2> QED
    BY <1>4, <2>2, <2>3
<1>8. CASE AddCoffSymbol
  BY <1>8, SymbolFits
<1>9. CASE CreateCoffFileHeader
  <2>1. PICK p, x : g = [f EXCEPT !.section = p, !.sym_table = x]
    BY <1>1, <1>9 DEF CreateCoffFileHeader
  <2>2. /\ g.room = f.room /\ g.max_string_table_size = f.max_string_table_size
        /\ g.string_table_size = f.string_table_size
    BY <1>1, <1>2, <2>1 DEF File
  <2>3. stage' = "write" /\ stage = "declare"
    BY <1>9 DEF CreateCoffFileHeader
  <2> QED
    BY <1>4, <2>2, <2>3, SMTT(30)
<1>10. CASE AddDataImpLib \/ CreateCoffReloc
  BY <1>1, <1>4, <1>10 DEF AddDataImpLib, CreateCoffReloc
<1>11. CASE CreateCoffTables
  <2>1. stage' = "done"
    BY <1>11 DEF CreateCoffTables
  <2> QED
    BY <2>1 DEF RoomInv
<1>12. CASE UNCHANGED vars
  BY <1>1, <1>4, <1>12 DEF vars
<1> QED
  BY <1>5, <1>6, <1>7, <1>8, <1>9, <1>10, <1>11, <1>12 DEF Next

\* Room at first.
LEMMA InitRoom == Init => RoomInv
<1> SUFFICES ASSUME Init, NamesShort PROVE RoomInv
  BY DEF RoomInv
<1>1. todo \in Seq(ShortCalls)
  BY DeclaredShort DEF Init
<1>2. /\ c_file.room = 1024 /\ c_file.max_string_table_size = 1024 /\ c_file.string_table_size = 0
  BY DEF Init, INIT_MAX_SIZE_COFF_STRING_TABLE
<1> QED
  BY <1>1, <1>2 DEF RoomInv, INIT_MAX_SIZE_COFF_STRING_TABLE

-----------------------------------------------------------------------------
(* The theorems.                                                           *)

\* For names of every length, and also if memory for a larger string table is
\* refused: what CoffCreateImport declares for an entry fits the fixed arrays of 8
\* sections and 32 symbols (coffimpl.c:62-80 does not ask), every symbol is in a
\* section that is there, and every number that it remembers is one of a symbol.
THEOREM TypeCorrect == Spec => []TypeOK
BY AlwaysInv, InvImpliesType, PTL

\* For names of every length: whatever was declared in between, every relocation
\* that CreateCoffReloc writes has the number of the symbol that it stands for, of
\* its first entry and in the section where it belongs, for all three machines.
THEOREM RelocationsReferToTheirSymbols == Spec => []RelocsMeetSymbols
<1>1. Inv => RelocsMeetSymbols
  BY DEF Inv
<1> QED
  BY <1>1, AlwaysInv, PTL

\* For names of every length, and also if memory for a larger string table is
\* refused: every section's data and relocations are written where the header that
\* was written before them says, without a gap and as long, and the symbol table
\* where the file header says (CreateCoffFileHeader, coffimpl.c:280-292).
THEOREM HeadersMeetTheirData == Spec => []PointersMeetData
BY AlwaysPieces, PiecesInPlace, PTL

\* For names of every length, if no larger table is refused (AddCoffString then
\* drops the name of a symbol that has an offset already): a name that is too long
\* for its symbol starts at the symbol's offset from the size of the string table,
\* and that size covers all of them up to the end of the file.
THEOREM NamesAreFound == Spec => [](~AllocFails => NamesFound)
<1>1. Inv /\ PiecesInv /\ StringsInv => (~AllocFails => NamesFound)
  BY NamesInPlace
<1> QED
  BY <1>1, AlwaysStrings, PTL

\* Names below 1015 characters, of DLLs below 1004, are never copied behind the end
\* of the block of the string table, although it is doubled only once for a string
\* (coffimpl.c:127-139): the table has always room for a string of the first size.
THEOREM ShortNamesFit == Spec => [](~AllocFails /\ NamesShort => StringsFit)
<1>1. RoomInv => (~AllocFails /\ NamesShort => StringsFit)
  BY DEF RoomInv, StringsFit
<1> QED
  BY <1>1, AlwaysPieces, InitRoom, NextRoom, PTL DEF Spec

=============================================================================
