--------------------------- MODULE ElfFileProofs ---------------------------
(***************************************************************************)
(* Theorems about ElfFile for every set of images, every hash function and *)
(* every depth of callbacks: the tables of a file are built once, whatever *)
(* the order of the scans and however they are nested, and closing the     *)
(* file gives every block of it back.  And ElfFile implements              *)
(* SectionScans: a scan of the sections of an ELF file, found through the  *)
(* hash table of their names and nested in any other scans, visits the     *)
(* sections of the name in the order of their offsets.  That proof goes as *)
(* the one in CoffFileProofs; what differs is the order, which the load    *)
(* chooses.                                                                *)
(***************************************************************************)
EXTENDS ElfFile, DataLemmas, TLAPS

\* The lemmas of the hash table, for the table of this file.
HP == INSTANCE OrlHashProofs
        WITH Keys <- DOMAIN HashOf, Datas <- Nat, Size <- HashSize,
             MaxBlocks <- 0, table <- names, blocks <- 0, answer <- <<>>

-----------------------------------------------------------------------------
(* The inductive invariant.                                                *)

\* The file that is open has its links; no scan outlives its file.
PhaseInv ==
  /\ img \in Images
  /\ phase \in {"closed", "open"} \cup Undefined
  /\ phase = "open" => ~WildLink
  /\ phase = "closed" => calls = <<>>
  /\ order \in Seq(Secs)
  /\ result \in {"OKAY", "FALSE", "ERROR", STOP}
  /\ given \subseteq Secs
  /\ refused \in Seq({"early", "io", "eof"})
  /\ \A i \in DOMAIN heard : heard[i].note \in img.notes

\* What was built of the tables: the entries of exactly those sections were
\* swapped, and only symbols that exist were missed once.
TablesInv ==
  /\ symbols \subseteq Secs /\ \A s \in symbols : Type(s) = "sym"
  /\ DOMAIN relocs \subseteq Secs /\ \A r \in DOMAIN relocs : Type(r) = "rel"
  /\ \A r \in DOMAIN relocs : relocs[r] = OrigSec(r) /\ SymTab(r) \in symbols
  /\ swaps \in [Secs -> Nat] /\ bare \in [Secs -> Nat]
  /\ \A h \in Secs : swaps[h] = IF h \in symbols \cup DOMAIN relocs THEN 1 ELSE 0
  /\ \A s \in Secs : bare[s] <= IF s \in symbols THEN 1 ELSE 0

\* A hash table of section names, in which every name is where it belongs.
NamedTable(t) ==
  /\ t \in [HP!Buckets -> Seq(HP!Entry)]
  /\ \A b \in HP!Buckets : HP!Good(b, t[b])

NamesInv == names = NoTable \/ NamedTable(names)

\* What a scan in progress walks is there.
CallInv(c) ==
  /\ c.op = "named" => c.want \in DOMAIN HashOf /\ names # NoTable
  /\ c.op = "symbols" => c.sec \in symbols
  /\ c.op \in {"relocs", "query"} =>
       /\ c.sec \in Secs /\ Type(c.sec) = "rel"
       /\ c.real => c.sec \in DOMAIN relocs

CallsInv == calls \in Seq(Call) /\ \A i \in DOMAIN calls : CallInv(calls[i])

Inv ==
  /\ PhaseInv /\ TablesInv /\ NamesInv /\ CallsInv
  /\ blocks \in Nat /\ EveryBlockReached /\ RefusedGivesBack

-----------------------------------------------------------------------------
(* Lemmas about the operators of the model.                                *)

\* The operators of the table are those that OrlHashProofs is about.
LEMMA SameHash ==
  /\ \A s, k, d : Hash!Inserted(s, k, d) = HP!Inserted(s, k, d)
  /\ \A s, k : Hash!Lookup(s, k) = HP!Lookup(s, k)
  /\ \A t : Hash!Reached(t) = HP!Reached(t)
<1>1. \A s, k : Hash!Matches(s, k) = HP!Matches(s, k)
  BY DEF Hash!Matches, HP!Matches
<1>2. \A s, k : Hash!Found(s, k) = HP!Found(s, k)
  BY <1>1 DEF Hash!Found, HP!Found
<1>3. \A e, d : Hash!WithData(e, d) = HP!WithData(e, d)
  BY DEF Hash!WithData, HP!WithData
<1>4. \A s, k, d : Hash!Inserted(s, k, d) = HP!Inserted(s, k, d)
  BY <1>1, <1>2, <1>3 DEF Hash!Inserted, HP!Inserted
<1>5. \A s, k : Hash!Lookup(s, k) = HP!Lookup(s, k)
  BY <1>1, <1>2 DEF Hash!Lookup, HP!Lookup
<1>6. \A f : Hash!SumFunction(f) = HP!SumFunction(f)
  BY DEF Hash!SumFunction, Hash!SumFunctionOnSet, Hash!FoldFunctionOnSet,
         HP!SumFunction, HP!SumFunctionOnSet, HP!FoldFunctionOnSet, Hash!MapThenFoldSet, HP!MapThenFoldSet
<1>7. \A t : Hash!Reached(t) = HP!Reached(t)
  BY <1>6 DEF Hash!Reached, HP!Reached, Hash!Buckets, HP!Buckets
<1> QED
  BY <1>4, <1>5, <1>7

\* The assumptions of OrlHash hold of this table.
LEMMA HashAssumptions ==
  /\ HashSize \in Nat \ {0}
  /\ HashOf \in [DOMAIN HashOf -> HP!Buckets]
  /\ DOMAIN FoldOf = DOMAIN HashOf
  /\ \A j, k \in DOMAIN HashOf : FoldOf[j] = FoldOf[k] => HashOf[j] = HashOf[k]
  /\ NoTable \notin [HP!Buckets -> Seq(HP!Entry)]
BY NamesAssumption DEF HP!Buckets, HP!Entry

\* A name and a section go into a bucket that stays good.
LEMMA NamedInserted ==
  ASSUME NEW t, NamedTable(t), NEW k \in DOMAIN HashOf, NEW d \in Nat
  PROVE  NamedTable([t EXCEPT ![HashOf[k]] = Hash!Inserted(@, k, d)])
<1> DEFINE b == HashOf[k]
           s == HP!Inserted(t[b], k, d)
<1>1. b \in HP!Buckets /\ t[b] \in Seq(HP!Entry) /\ HP!Good(b, t[b])
  BY HashAssumptions DEF NamedTable
<1>2. s \in Seq(HP!Entry) /\ HP!Good(b, s)
  BY <1>1, HP!InsertedGood, HashAssumptions
<1>3. [t EXCEPT ![HashOf[k]] = Hash!Inserted(@, k, d)] = [t EXCEPT ![b] = s]
  BY SameHash
<1> HIDE DEF b, s
<1>4. [t EXCEPT ![b] = s] \in [HP!Buckets -> Seq(HP!Entry)]
  BY <1>1, <1>2 DEF NamedTable
<1>5. \A c \in HP!Buckets : HP!Good(c, [t EXCEPT ![b] = s][c])
  BY <1>1, <1>2 DEF NamedTable
<1> QED
  BY <1>3, <1>4, <1>5 DEF NamedTable

\* What the table holds is a number of blocks; a lookup is a list of sections.
LEMMA NamedReached ==
  ASSUME NEW t, NamedTable(t)
  PROVE  /\ Hash!Reached(t) \in Nat
         /\ t # NoTable
         /\ \A k \in DOMAIN HashOf : Hash!Lookup(t[HashOf[k]], k) \in Seq(Nat)
<1>1. t \in [HP!Buckets -> Seq(HP!Entry)]
  BY DEF NamedTable
<1>2. HP!Reached(t) \in Nat
  BY <1>1, HP!ReachedIsNat, HashAssumptions
<1>3. ASSUME NEW k \in DOMAIN HashOf
      PROVE  Hash!Lookup(t[HashOf[k]], k) \in Seq(Nat)
  <2>1. HashOf[k] \in HP!Buckets
    BY HashAssumptions
  <2>2. t[HashOf[k]] \in Seq(HP!Entry) /\ HP!Good(HashOf[k], t[HashOf[k]])
    BY <2>1 DEF NamedTable
  <2>3. HP!Lookup(t[HashOf[k]], k) \in Seq(Nat)
    BY <2>2, HP!LookupType, HashAssumptions
  <2> QED
    BY <2>3, SameHash
<1> QED
  BY <1>1, <1>2, <1>3, SameHash, HashAssumptions

\* The table with section h under its name, as NameTable has it; the tables of
\* the first sections, up to n of them.
With(t, h) ==
  LET k == img.secs[h].name
  IN  [t EXCEPT ![HashOf[k]] = Hash!Inserted(@, k, h)]

IsUpto(n, u) ==
  u = [i \in 0 .. n |-> IF i = 0 THEN [b \in 0 .. HashSize - 1 |-> <<>>]
                       ELSE With(u[i - 1], order[i])]

\* The recursion of NameTable defines a function.
LEMMA UptoExists == \A n \in Nat : \E u : IsUpto(n, u)
<1> DEFINE T == {n \in Nat : \E u : IsUpto(n, u)}
           empty == [b \in 0 .. HashSize - 1 |-> <<>>]
<1>1. 0 \in T
  <2> DEFINE u == [i \in 0 .. 0 |-> empty]
  <2>1. IsUpto(0, u)
    BY DEF IsUpto
  <2> QED
    BY <2>1
<1>2. ASSUME NEW n \in Nat, n \in T PROVE n + 1 \in T
  <2>1. PICK u : IsUpto(n, u)
    BY <1>2
  <2> DEFINE W(v, i) == IF i = 0 THEN empty ELSE With(v[i - 1], order[i])
             v == [i \in 0 .. n + 1 |-> W(u, i)]
  <2>2. ASSUME NEW i \in 0 .. n + 1 PROVE W(u, i) = W(v, i)
    <3>1. CASE i = 0
      BY <3>1
    <3>2. CASE i # 0
      <4>1. i - 1 \in 0 .. n /\ i - 1 \in 0 .. n + 1
        BY <3>2
      <4>2. u[i - 1] = W(u, i - 1) /\ v[i - 1] = W(u, i - 1)
        BY <2>1, <4>1 DEF IsUpto
      <4> QED
        BY <3>2, <4>2
    <3> QED
      BY <3>1, <3>2
  <2>3. v = [i \in 0 .. n + 1 |-> W(v, i)]
    BY <2>2
  <2>4. IsUpto(n + 1, v)
    BY <2>3 DEF IsUpto
  <2> QED
    BY <2>4
<1> HIDE DEF T
<1>3. Nat \subseteq T
  BY <1>1, <1>2, Induction
<1> QED
  BY <1>3 DEF T

\* The table of names is one, whatever the sections and their order.
LEMMA NameTableIsNamed ==
  ASSUME img \in Images, order \in Seq(Secs)
  PROVE  NamedTable(NameTable)
<1> DEFINE n == Len(order)
           u == CHOOSE v : IsUpto(n, v)
           T == {i \in Nat : i <= n => NamedTable(u[i])}
<1>1. n \in Nat
  OBVIOUS
<1>2. IsUpto(n, u)
  BY <1>1, UptoExists
<1>3. NameTable = u[n]
  BY DEF NameTable, IsUpto, With
<1> HIDE DEF u
<1>4. 0 \in T
  <2>1. u[0] = [b \in HP!Buckets |-> <<>>]
    BY <1>1, <1>2 DEF IsUpto, HP!Buckets
  <2>2. \A b \in HP!Buckets : HP!Good(b, <<>>)
    BY DEF HP!Good
  <2>3. [b \in HP!Buckets |-> <<>>] \in [HP!Buckets -> Seq(HP!Entry)]
    OBVIOUS
  <2>4. NamedTable(u[0])
    BY <2>1, <2>2, <2>3 DEF NamedTable
  <2> QED
    BY <2>4
<1>5. ASSUME NEW i \in Nat, i \in T PROVE i + 1 \in T
  <2> SUFFICES ASSUME i + 1 <= n PROVE NamedTable(u[i + 1])
    OBVIOUS
  <2>1. NamedTable(u[i])
    BY <1>1, <1>5
  <2>2. i + 1 \in 0 .. n /\ i + 1 \in 1 .. n /\ i + 1 # 0 /\ (i + 1) - 1 = i
    BY <1>1
  <2>3. u[i + 1] = With(u[i], order[i + 1])
    BY <1>2, <2>2 DEF IsUpto
  <2>4. order[i + 1] \in Secs
    BY <2>2
  <2>5. img.secs[order[i + 1]].name \in DOMAIN HashOf /\ order[i + 1] \in Nat
    BY <2>4, ImagesAssumption DEF Secs
  <2> QED
    BY <2>1, <2>3, <2>5, NamedInserted DEF With
<1> HIDE DEF T
<1>6. n \in T
  BY <1>1, <1>4, <1>5, Induction
<1> QED
  BY <1>1, <1>3, <1>6 DEF T

\* The least of a set of numbers is one of them.
LEMMA MinIsIn ==
  ASSUME NEW S, S \subseteq Nat, S # {}
  PROVE  Min(S) \in S
BY LeastNumber DEF Min

\* The sections are numbered from 1.
LEMMA SecsAreNumbered ==
  ASSUME img \in Images
  PROVE  /\ Len(img.secs) \in Nat
         /\ Secs = 1 .. Len(img.secs)
         /\ IsFiniteSet(Secs)
<1>1. img.secs \in Seq(Range(img.secs))
  BY ImagesAssumption
<1>2. Len(img.secs) \in Nat /\ Secs = 1 .. Len(img.secs)
  BY <1>1 DEF Secs
<1> QED
  BY <1>2, FS_Interval

\* The symbol table of a relocation section is a symbol table, and what its
\* relocations are for a section, where there are any.
LEMMA LinksAreTyped ==
  ASSUME img \in Images, NEW r \in Secs, Type(r) = "rel"
  PROVE  /\ SymTab(r) # 0 => SymTab(r) \in Secs /\ Type(SymTab(r)) = "sym"
         /\ OrigSec(r) \in Secs \cup {0}
<1>1. img.secs[r].type = "rel"
  BY DEF Type
<1>2. /\ img.secs[r].link \in {0} \cup {j \in DOMAIN img.secs : img.secs[j].type = "sym"}
      /\ img.secs[r].info \in {0} \cup {j \in DOMAIN img.secs : img.secs[j].type = "prog"}
  BY <1>1, ImagesAssumption DEF Secs
<1> QED
  BY <1>2 DEF Secs, Type, SymTab, OrigSec

\* The relocation section of h is one, and is for h.
LEMMA RelocSecIsFor ==
  ASSUME img \in Images, NEW h, RelocSec(h) # 0
  PROVE  /\ RelocSec(h) \in Secs
         /\ Type(RelocSec(h)) = "rel"
         /\ OrigSec(RelocSec(h)) = h
<1> DEFINE rs == {r \in Secs : Type(r) = "rel" /\ SizeOf(r) # 0 /\ OrigSec(r) = h}
<1>1. rs # {} /\ RelocSec(h) = Max(rs)
  BY DEF RelocSec
<1>2. rs \subseteq 0 .. Len(img.secs) /\ Len(img.secs) \in Nat
  BY SecsAreNumbered
<1>3. PICK m \in rs : \A k \in rs : k <= m
  <2> HIDE DEF rs
  <2> QED
    BY <1>1, <1>2, GreatestNumber
<1>4. \A x, y \in rs : x >= y <=> y <= x
  BY <1>2
<1>5. Max(rs) \in rs
  <2> HIDE DEF rs
  <2> QED
    BY <1>3, <1>4 DEF Max
<1> QED
  BY <1>1, <1>5

\* Where a loop can stop is the index of an entry.
LEMMA StopsAreIndices ==
  ASSUME img \in Images, order \in Seq(Secs), NEW t, NEW c, c.op \in Ops,
         c.op = "named" => NamedTable(t) /\ c.want \in DOMAIN HashOf,
         c.op \notin {"all", "named"} => c.sec \in Secs
  PROVE  Stops(c, t) \subseteq Nat \ {0}
<1>1. \A s \in Seq(Nat) : DOMAIN s \subseteq Nat \ {0}
  OBVIOUS
<1>2. CASE c.op = "all"
  <2>1. DOMAIN order \subseteq Nat \ {0}
    OBVIOUS
  <2> QED
    BY <1>2, <2>1 DEF Stops
<1>3. CASE c.op = "named"
  <2>1. Hash!Lookup(t[HashOf[c.want]], c.want) \in Seq(Nat)
    BY <1>3, NamedReached
  <2> QED
    BY <1>1, <1>3, <2>1 DEF Stops
<1>4. CASE c.op \notin {"all", "named"}
  <2>1. img.secs[c.sec].ents \in Seq(Nat)
    BY <1>4, ImagesAssumption DEF Secs
  <2>2. Stops(c, t) \subseteq DOMAIN img.secs[c.sec].ents
    BY <1>4 DEF Stops, Ops
  <2> QED
    BY <1>1, <2>1, <2>2
<1> QED
  BY <1>2, <1>3, <1>4

\* A scan at another entry is the same scan.
LEMMA CallAt ==
  ASSUME NEW c \in Call, NEW n \in Nat
  PROVE  /\ [c EXCEPT !.at = n] \in Call
         /\ [c EXCEPT !.at = n].op = c.op
         /\ [c EXCEPT !.at = n].sec = c.sec
         /\ [c EXCEPT !.at = n].want = c.want
         /\ [c EXCEPT !.at = n].real = c.real
         /\ [c EXCEPT !.at = n].at = n
BY DEF Call

-----------------------------------------------------------------------------
(* What the steps do to the parts of the invariant.                        *)

\* What grows when the tables of a file are built.
Grown ==
  /\ symbols \subseteq symbols'
  /\ DOMAIN relocs \subseteq DOMAIN relocs'
  /\ names # NoTable => names' # NoTable

\* A scan in progress keeps what it walks.
LEMMA GrownKeepsCall ==
  ASSUME img' = img, Grown, NEW c, CallInv(c)
  PROVE  CallInv(c)'
BY DEF Grown, CallInv, Secs, Type

\* A call whose index is one, on top of calls or of those below the innermost.
LEMMA PushKeepsCalls ==
  ASSUME CallsInv, img' = img, Grown, NEW c \in Call, CallInv(c)',
         NEW n \in Nat, NEW below \in Seq(Call),
         \A i \in DOMAIN below : CallInv(below[i]),
         calls' = <<[c EXCEPT !.at = n]>> \o below
  PROVE  CallsInv'
<1> DEFINE d == [c EXCEPT !.at = n]
<1>1. d \in Call /\ d.op = c.op /\ d.sec = c.sec /\ d.want = c.want /\ d.real = c.real
  BY CallAt
<1> HIDE DEF d
<1>2. CallInv(d)'
  BY <1>1 DEF CallInv
<1>3. calls' = <<d>> \o below
  BY DEF d
<1>4. \A i \in DOMAIN below : CallInv(below[i])'
  BY GrownKeepsCall
<1>5. calls' \in Seq(Call) /\ Len(calls') = Len(below) + 1
  BY <1>1, <1>3
<1>6. calls'[1] = d /\ \A i \in 2 .. Len(below) + 1 : calls'[i] = below[i - 1]
  BY <1>1, <1>3
<1>7. \A i \in DOMAIN calls' : CallInv(calls[i])'
  <2> SUFFICES ASSUME NEW i \in DOMAIN calls' PROVE CallInv(calls[i])'
    OBVIOUS
  <2>1. i \in 1 .. Len(below) + 1 /\ Len(below) \in Nat
    BY <1>5
  <2>2. CASE i = 1
    BY <1>2, <1>6, <2>2 DEF CallInv
  <2>3. CASE i # 1
    <3>1. i \in 2 .. Len(below) + 1 /\ i - 1 \in DOMAIN below
      BY <2>1, <2>3
    <3>2. calls'[i] = below[i - 1]
      BY <1>6, <3>1
    <3> QED
      BY <1>4, <3>1, <3>2 DEF CallInv
  <2> QED
    BY <2>2, <2>3
<1>8. Call' = Call
  BY DEF Call, Secs
<1> QED
  BY <1>5, <1>7, <1>8 DEF CallsInv

\* The innermost scan returns.
LEMMA PopKeepsCalls ==
  ASSUME CallsInv, img' = img, Grown, calls # <<>>, calls' = Tail(calls)
  PROVE  CallsInv'
<1>1. Call' = Call
  BY DEF Call, Secs
<1>2. calls \in Seq(Call) /\ \A c : c \in Range(calls) => CallInv(c)'
  BY GrownKeepsCall DEF CallsInv, Range
<1>3. /\ calls' \in Seq(Call)
      /\ \A i \in DOMAIN calls' : i + 1 \in DOMAIN calls /\ calls'[i] = calls[i + 1]
  BY <1>2
<1>4. \A i \in DOMAIN calls' : CallInv(calls[i])'
  <2> SUFFICES ASSUME NEW i \in DOMAIN calls' PROVE CallInv(calls[i])'
    OBVIOUS
  <2>1. calls'[i] \in Range(calls)
    BY <1>3 DEF Range
  <2> QED
    BY <1>2, <2>1 DEF CallInv
<1> QED
  BY <1>1, <1>3, <1>4 DEF CallsInv

\* The scans stay as they are.
LEMMA StayKeepsCalls ==
  ASSUME CallsInv, img' = img, Grown, calls' = calls
  PROVE  CallsInv'
<1>1. Call' = Call
  BY DEF Call, Secs
<1>2. \A i \in DOMAIN calls' : CallInv(calls[i])'
  <2> SUFFICES ASSUME NEW i \in DOMAIN calls' PROVE CallInv(calls[i])'
    OBVIOUS
  <2>1. CallInv(calls[i])
    BY DEF CallsInv
  <2> QED
    BY <2>1, GrownKeepsCall DEF CallInv
<1> QED
  BY <1>1, <1>2 DEF CallsInv

\* A scan begins.
LEMMA EnterKeepsCalls ==
  ASSUME Inv, img' = img, Grown, NEW t, NEW c \in Call, CallInv(c)',
         c.op = "named" => NamedTable(t),
         c.op \notin {"all", "named"} => c.sec \in Secs, Enter(c, t)
  PROVE  CallsInv' /\ result' = result
<1> DEFINE n == IF Stops(c, t) = {} THEN 0 ELSE Min(Stops(c, t))
<1>1. c.op \in Ops /\ (c.op = "named" => c.want \in DOMAIN HashOf)
  BY DEF Call, CallInv
<1>2. Stops(c, t) \subseteq Nat
  BY <1>1, StopsAreIndices DEF Inv, PhaseInv
<1>3. n \in Nat
  BY <1>2, MinIsIn
<1>4. calls' = <<[c EXCEPT !.at = n]>> \o calls /\ result' = result
  BY DEF Enter
<1> HIDE DEF n
<1>5. CallsInv
  BY DEF Inv
<1>6. calls \in Seq(Call) /\ \A i \in DOMAIN calls : CallInv(calls[i])
  BY <1>5 DEF CallsInv
<1> QED
  BY <1>3, <1>4, <1>5, <1>6, PushKeepsCalls

\* The blocks of what was built of the tables, and of the table of names.
Built == Cardinality(symbols) + Cardinality(DOMAIN relocs)
NameBlocks == IF names = NoTable THEN 0 ELSE 2 + Hash!Reached(names)
Leaked == Cardinality({i \in DOMAIN refused : refused[i] # "early"})

\* They are numbers.
LEMMA BlocksAreNumbers ==
  ASSUME PhaseInv, TablesInv, NamesInv
  PROVE  /\ IsFiniteSet(symbols) /\ IsFiniteSet(DOMAIN relocs)
         /\ Built \in Nat /\ NameBlocks \in Nat /\ Leaked \in Nat
         /\ Len(img.secs) \in Nat
<1>1. IsFiniteSet(Secs) /\ Len(img.secs) \in Nat
  BY SecsAreNumbered DEF PhaseInv
<1>2. IsFiniteSet(symbols) /\ IsFiniteSet(DOMAIN relocs)
  BY <1>1, FS_Subset DEF TablesInv
<1>3. Cardinality(symbols) \in Nat /\ Cardinality(DOMAIN relocs) \in Nat
  BY <1>2, FS_CardinalityType
<1>4. Built \in Nat
  BY <1>3 DEF Built
<1>5. NameBlocks \in Nat
  <2>1. CASE names = NoTable
    BY <2>1 DEF NameBlocks
  <2>2. CASE NamedTable(names)
    <3>1. Hash!Reached(names) \in Nat
      BY <2>2, NamedReached
    <3> QED
      BY <3>1 DEF NameBlocks
  <2> QED
    BY <2>1, <2>2 DEF NamesInv
<1>6. Leaked \in Nat
  <2>1. IsFiniteSet(DOMAIN refused)
    BY FS_Interval DEF PhaseInv
  <2>2. IsFiniteSet({i \in DOMAIN refused : refused[i] # "early"})
    BY <2>1, FS_Subset
  <2> QED
    BY <2>2, FS_CardinalityType DEF Leaked
<1> QED
  BY <1>1, <1>2, <1>4, <1>5, <1>6

\* EveryBlockReached, part by part.
LEMMA BlocksByPart ==
  PhaseInv /\ TablesInv /\ NamesInv =>
    /\ phase = "open" =>
         (EveryBlockReached
            <=> blocks = Leaked + (3 + Len(img.secs) + Built + NameBlocks))
    /\ phase = "closed" => (EveryBlockReached <=> blocks = Leaked)
    /\ phase \in Undefined => EveryBlockReached
<1> SUFFICES ASSUME PhaseInv, TablesInv, NamesInv
             PROVE  /\ phase = "open" =>
                         (EveryBlockReached
                            <=> blocks = Leaked + (3 + Len(img.secs) + Built + NameBlocks))
                    /\ phase = "closed" => (EveryBlockReached <=> blocks = Leaked)
                    /\ phase \in Undefined => EveryBlockReached
  OBVIOUS
<1>1. /\ Cardinality(symbols) \in Nat /\ Cardinality(DOMAIN relocs) \in Nat
      /\ Leaked \in Nat /\ NameBlocks \in Nat /\ Len(img.secs) \in Nat
  BY BlocksAreNumbers, FS_CardinalityType
<1>2. Reached = 3 + Len(img.secs) + Built + NameBlocks
  <2>1. Reached = 3 + Len(img.secs) + Cardinality(symbols) + Cardinality(DOMAIN relocs)
                    + NameBlocks
    BY DEF Reached, NameBlocks
  <2> QED
    BY <1>1, <2>1 DEF Built
<1>3. EveryBlockReached
        <=> (phase \in {"closed", "open"} =>
               blocks = Leaked + IF phase = "open" THEN Reached ELSE 0)
  BY DEF EveryBlockReached, Leaked
<1> QED
  BY <1>1, <1>2, <1>3 DEF Undefined

\* The same of the state after a step.
LEMMA BlocksByPartNext ==
  PhaseInv' /\ TablesInv' /\ NamesInv' =>
    /\ phase' = "open" =>
         (EveryBlockReached'
            <=> blocks' = Leaked' + (3 + Len(img'.secs) + Built' + NameBlocks'))
    /\ phase' = "closed" => (EveryBlockReached' <=> blocks' = Leaked')
    /\ phase' \in Undefined => EveryBlockReached'
<1>1. (PhaseInv /\ TablesInv /\ NamesInv =>
         /\ phase = "open" =>
              (EveryBlockReached
                 <=> blocks = Leaked + (3 + Len(img.secs) + Built + NameBlocks))
         /\ phase = "closed" => (EveryBlockReached <=> blocks = Leaked)
         /\ phase \in Undefined => EveryBlockReached)'
  BY BlocksByPart, PTL
<1> QED
  BY <1>1 DEF Undefined

\* A step of an open file that takes the blocks of what it builds.
LEMMA BuildingKeepsBlocks ==
  ASSUME Inv, PhaseInv', TablesInv', NamesInv', phase = "open", phase' # "closed",
         img' = img, refused' = refused,
         NEW p \in Nat, Built' = Built + p, NEW q \in Nat, NameBlocks' = NameBlocks + q,
         blocks' = blocks + (p + q)
  PROVE  blocks' \in Nat /\ EveryBlockReached'
<1>1. PhaseInv /\ TablesInv /\ NamesInv /\ EveryBlockReached /\ blocks \in Nat
  BY DEF Inv
<1>2. /\ Built \in Nat /\ NameBlocks \in Nat /\ Leaked \in Nat /\ Len(img.secs) \in Nat
  BY <1>1, BlocksAreNumbers
<1>3. blocks = Leaked + (3 + Len(img.secs) + Built + NameBlocks)
  BY <1>1, BlocksByPart
<1>4. Leaked' = Leaked
  BY DEF Leaked
<1>5. blocks' = Leaked' + (3 + Len(img'.secs) + Built' + NameBlocks')
  <2> DEFINE len == Len(img.secs)
  <2>1. len \in Nat /\ blocks = Leaked + (3 + len + Built + NameBlocks)
    BY <1>2, <1>3
  <2>0. Built \in Nat /\ NameBlocks \in Nat /\ Leaked \in Nat /\ blocks \in Nat
    BY <1>1, <1>2
  <2> HIDE DEF len
  <2>2. blocks' = Leaked + (3 + len + Built' + NameBlocks')
    BY <2>0, <2>1
  <2>3. len = Len(img'.secs)
    BY DEF len
  <2> QED
    BY <1>4, <2>2, <2>3
<1>6. phase' = "open" \/ phase' \in Undefined
  BY DEF PhaseInv
<1>7. EveryBlockReached'
  BY <1>5, <1>6, BlocksByPartNext
<1> QED
  BY <1>1, <1>7

\* The symbols of a table that has none are made.
LEMMA SymbolsMade ==
  ASSUME Inv, img' = img, NEW s \in Secs, Type(s) = "sym", s \notin symbols,
         CreateSymbolHandles(s), relocs' = relocs,
         bare' = bare \/ bare' = [bare EXCEPT ![s] = @ + 1]
  PROVE  /\ TablesInv'
         /\ symbols' = symbols \cup {s}
         /\ blocks' = blocks + 1 /\ Built' = Built + 1
<1>1. TablesInv /\ PhaseInv /\ NamesInv
  BY DEF Inv
<1>2. /\ symbols' = symbols \cup {s} /\ blocks' = blocks + 1
      /\ swaps' = [swaps EXCEPT ![s] = @ + 1]
  BY DEF CreateSymbolHandles
<1>3. s \notin DOMAIN relocs
  BY <1>1 DEF TablesInv
<1>4. swaps[s] = 0 /\ bare[s] = 0
  BY <1>1, <1>3 DEF TablesInv
<1>5. swaps' \in [Secs -> Nat] /\ bare' \in [Secs -> Nat]
  BY <1>1, <1>2 DEF TablesInv
<1>6. /\ \A h \in Secs : swaps'[h] = IF h \in symbols' \cup DOMAIN relocs' THEN 1 ELSE 0
      /\ \A h \in Secs : bare'[h] <= IF h \in symbols' THEN 1 ELSE 0
  BY <1>1, <1>2, <1>3, <1>4 DEF TablesInv
<1>7. /\ symbols' \subseteq Secs /\ \A q \in symbols' : Type(q) = "sym"
      /\ \A r \in DOMAIN relocs' : SymTab(r) \in symbols'
  BY <1>1, <1>2 DEF TablesInv
<1>8. Secs' = Secs /\ \A h : Type(h)' = Type(h) /\ SymTab(h)' = SymTab(h) /\ OrigSec(h)' = OrigSec(h)
  BY DEF Secs, Type, SymTab, OrigSec
<1>9. TablesInv'
  BY <1>1, <1>5, <1>6, <1>7, <1>8 DEF TablesInv
<1>10. Built' = Built + 1
  <2>1. IsFiniteSet(symbols) /\ IsFiniteSet(DOMAIN relocs)
    BY <1>1, BlocksAreNumbers
  <2>2. Cardinality(symbols') = Cardinality(symbols) + 1
    BY <1>2, <2>1, FS_AddElement
  <2>3. Cardinality(symbols) \in Nat /\ Cardinality(DOMAIN relocs) \in Nat
    BY <2>1, FS_CardinalityType
  <2> QED
    BY <2>2, <2>3 DEF Built
<1> QED
  BY <1>2, <1>9, <1>10

\* The relocations of r are made, for the section they are for.
LEMMA RelocsMade ==
  ASSUME Inv, img' = img, NEW r \in Secs, Type(r) = "rel", r \notin DOMAIN relocs,
         SymTab(r) \in symbols, CreateRelocs(OrigSec(r), r)
  PROVE  /\ TablesInv' /\ symbols' = symbols
         /\ DOMAIN relocs' = DOMAIN relocs \cup {r}
         /\ blocks' = blocks + 1 /\ Built' = Built + 1
<1>1. TablesInv /\ PhaseInv /\ NamesInv
  BY DEF Inv
<1>2. /\ symbols' = symbols /\ bare' = bare /\ blocks' = blocks + 1
      /\ swaps' = [swaps EXCEPT ![r] = @ + 1]
      /\ relocs' = [q \in DOMAIN relocs \cup {r} |-> IF q = r THEN OrigSec(r) ELSE relocs[q]]
  BY DEF CreateRelocs
<1>3. r \notin symbols
  BY <1>1 DEF TablesInv
<1>4. swaps[r] = 0
  BY <1>1, <1>3 DEF TablesInv
<1>5. swaps' \in [Secs -> Nat]
  BY <1>1, <1>2 DEF TablesInv
<1>6. \A h \in Secs : swaps'[h] = IF h \in symbols' \cup DOMAIN relocs' THEN 1 ELSE 0
  BY <1>1, <1>2, <1>3, <1>4 DEF TablesInv
<1>7. /\ DOMAIN relocs' \subseteq Secs /\ \A q \in DOMAIN relocs' : Type(q) = "rel"
      /\ \A q \in DOMAIN relocs' : relocs'[q] = OrigSec(q) /\ SymTab(q) \in symbols'
  BY <1>1, <1>2 DEF TablesInv
<1>8. Secs' = Secs /\ \A h : Type(h)' = Type(h) /\ SymTab(h)' = SymTab(h) /\ OrigSec(h)' = OrigSec(h)
  BY DEF Secs, Type, SymTab, OrigSec
<1>9. TablesInv'
  BY <1>1, <1>2, <1>5, <1>6, <1>7, <1>8 DEF TablesInv
<1>10. Built' = Built + 1
  <2>1. IsFiniteSet(symbols) /\ IsFiniteSet(DOMAIN relocs)
    BY <1>1, BlocksAreNumbers
  <2>2. Cardinality(DOMAIN relocs \cup {r}) = Cardinality(DOMAIN relocs) + 1
    BY <2>1, FS_AddElement
  <2>3. Cardinality(symbols) \in Nat /\ Cardinality(DOMAIN relocs) \in Nat
    BY <2>1, FS_CardinalityType
  <2> QED
    BY <1>2, <2>2, <2>3 DEF Built
<1> QED
  BY <1>2, <1>9, <1>10

\* When a scan of relocations sets out, they are there or their symbols are new.
LEMMA RelocsEnsured ==
  ASSUME Inv, phase = "open", img' = img, NEW r \in Secs, Type(r) = "rel",
         EnsureRelocs(OrigSec(r), r)
  PROVE  /\ TablesInv'
         /\ symbols \subseteq symbols' /\ DOMAIN relocs \subseteq DOMAIN relocs'
         /\ HasRelocs(r) => r \in DOMAIN relocs'
         /\ \E n \in Nat : blocks' = blocks + n /\ Built' = Built + n
<1>1. CASE r \in DOMAIN relocs
  <2>1. /\ symbols' = symbols /\ relocs' = relocs /\ swaps' = swaps /\ bare' = bare
        /\ blocks' = blocks
    BY <1>1 DEF EnsureRelocs
  <2>2. Built' = Built /\ Built \in Nat /\ blocks \in Nat
    BY <2>1, BlocksAreNumbers DEF Built, Inv
  <2>3. TablesInv'
    BY <2>1 DEF Inv, TablesInv, Secs, Type, SymTab, OrigSec
  <2>4. blocks' = blocks + 0 /\ Built' = Built + 0
    BY <2>1, <2>2
  <2> QED
    BY <1>1, <2>1, <2>3, <2>4
<1>2. CASE r \notin DOMAIN relocs /\ SymTab(r) \in symbols
  <2>1. CreateRelocs(OrigSec(r), r)
    BY <1>2 DEF EnsureRelocs
  <2> QED
    BY <1>2, <2>1, RelocsMade
<1>3. CASE r \notin DOMAIN relocs /\ SymTab(r) \notin symbols
  <2> DEFINE s == SymTab(r)
  <2>1. /\ CreateSymbolHandles(s) /\ relocs' = relocs
        /\ bare' = [bare EXCEPT ![s] = @ + 1]
    BY <1>3 DEF EnsureRelocs, CreateRelocs
  <2>2. s # 0
    BY DEF Inv, PhaseInv, WildLink
  <2>3. s \in Secs /\ Type(s) = "sym"
    BY <2>2, LinksAreTyped DEF Inv, PhaseInv
  <2>4. TablesInv' /\ symbols' = symbols \cup {s} /\ blocks' = blocks + 1 /\ Built' = Built + 1
    <3> HIDE DEF s
    <3> QED
      BY <1>3, <2>1, <2>3, SymbolsMade DEF s
  <2> QED
    BY <1>3, <2>1, <2>4 DEF HasRelocs
<1> QED
  BY <1>1, <1>2, <1>3

\* The tables stay as they are.
LEMMA StayKeepsTables ==
  ASSUME Inv, img' = img, UNCHANGED <<symbols, relocs, swaps, bare>>
  PROVE  TablesInv' /\ Built' = Built
<1>1. TablesInv'
  BY DEF Inv, TablesInv, Secs, Type, SymTab, OrigSec
<1> QED
  BY <1>1 DEF Built

\* The names stay as they are.
LEMMA StayKeepsNames ==
  ASSUME Inv, names' = names
  PROVE  NamesInv' /\ NameBlocks' = NameBlocks
BY DEF Inv, NamesInv, NameBlocks

\* A call of the client of an open file keeps what was loaded.
LEMMA OpenKeepsPhase ==
  ASSUME Inv, phase = "open", phase' \in {"open"} \cup Undefined,
         UNCHANGED <<img, order, given, refused>>,
         result' \in {"OKAY", "FALSE", "ERROR", STOP},
         \A i \in DOMAIN heard' : heard'[i].note \in img.notes
  PROVE  PhaseInv' /\ RefusedGivesBack'
<1>1. ~WildLink /\ WildLink' = WildLink
  BY DEF Inv, PhaseInv, WildLink, Secs, Type, SizeOf, SymTab
<1>2. phase' # "closed" /\ phase' \in {"closed", "open"} \cup Undefined
  BY DEF Undefined
<1> QED
  BY <1>1, <1>2 DEF Inv, PhaseInv, RefusedGivesBack, Secs

-----------------------------------------------------------------------------
(* The actions keep the invariant.                                         *)

\* Everything is new, and its blocks are those that the load took.
LEMMA LoadKeepsInv == Inv /\ Load => Inv'
<1> SUFFICES ASSUME Inv, Load PROVE Inv'
  OBVIOUS
<1>1. /\ PhaseInv /\ TablesInv /\ NamesInv /\ CallsInv /\ blocks \in Nat
      /\ EveryBlockReached /\ phase = "closed" /\ calls = <<>>
  BY DEF Inv, Load, PhaseInv
<1>2. /\ phase' = "open" /\ img' = img /\ calls' = <<>> /\ refused' = refused
      /\ symbols' = {} /\ relocs' = <<>> /\ names' = NoTable
      /\ blocks' = blocks + 3 + Len(img.secs)
  BY <1>1 DEF Load
<1>3. order' \in Seq(Secs)
  <2>1. order' \in [1 .. Len(img.secs) -> Secs]
    BY DEF Load, Sorted
  <2>2. Len(img.secs) \in Nat
    BY <1>1, SecsAreNumbered DEF PhaseInv
  <2> QED
    BY <2>1, <2>2
<1>4. PhaseInv'
  <2>1. WildLink' = WildLink /\ Secs' = Secs /\ ~WildLink
    BY <1>2 DEF WildLink, Secs, Type, SizeOf, SymTab, Load
  <2> QED
    BY <1>1, <1>2, <1>3, <2>1 DEF Load, PhaseInv
<1>5. TablesInv'
  <2>1. swaps' = [h \in Secs |-> 0] /\ bare' = [h \in Secs |-> 0] /\ Secs' = Secs
    BY <1>2 DEF Load, Zero, Secs
  <2>2. DOMAIN relocs' = {}
    BY <1>2
  <2> QED
    BY <1>2, <2>1, <2>2 DEF TablesInv
<1>6. NamesInv' /\ NameBlocks' = 0
  BY <1>2 DEF NamesInv, NameBlocks
<1>7. CallsInv'
  BY <1>2 DEF CallsInv
<1>8. blocks' \in Nat /\ EveryBlockReached'
  <2>1. Built' = 0
    BY <1>2, FS_EmptySet DEF Built
  <2>2. Leaked' = Leaked /\ Leaked \in Nat /\ Len(img.secs) \in Nat
    BY <1>1, <1>2, BlocksAreNumbers DEF Leaked
  <2>3. blocks = Leaked
    BY <1>1, BlocksByPart
  <2>4. blocks' = Leaked' + (3 + Len(img'.secs) + Built' + NameBlocks')
    <3> DEFINE len == Len(img.secs)
    <3>1. len \in Nat /\ blocks' = blocks + 3 + len /\ len = Len(img'.secs)
      BY <1>2, <2>2
    <3> HIDE DEF len
    <3>0. \A l, k \in Nat : l + 3 + k = l + (3 + k + 0 + 0) /\ l + 3 + k \in Nat
      OBVIOUS
    <3>2. blocks' = Leaked + (3 + len + 0 + 0)
      BY <2>2, <2>3, <3>0, <3>1, Zenon
    <3>3. blocks' = Leaked' + (3 + len + Built' + NameBlocks')
      BY <1>6, <2>1, <2>2, <3>2
    <3> QED
      BY <3>1, <3>3
  <2>5. EveryBlockReached'
    BY <1>2, <1>4, <1>5, <1>6, <2>4, BlocksByPartNext
  <2>6. blocks' \in Nat
    <3>1. \A l, k \in Nat : l + 3 + k \in Nat
      OBVIOUS
    <3> QED
      BY <1>1, <1>2, <2>2, <3>1, Zenon
  <2> QED
    BY <2>5, <2>6
<1>9. RefusedGivesBack'
  BY <1>2 DEF RefusedGivesBack
<1> QED
  BY <1>4, <1>5, <1>6, <1>7, <1>8, <1>9 DEF Inv

\* What a refused load leaves behind is counted.
LEMMA LeakedGrows ==
  ASSUME PhaseInv, NEW why \in {"early", "io", "eof"}, refused' = Append(refused, why)
  PROVE  /\ refused' \in Seq({"early", "io", "eof"})
         /\ Leaked \in Nat
         /\ Leaked' = Leaked + IF why = "early" THEN 0 ELSE 1
<1> DEFINE late == {i \in DOMAIN refused : refused[i] # "early"}
           next == {i \in DOMAIN refused' : refused'[i] # "early"}
           n == Len(refused) + 1
<1>1. refused \in Seq({"early", "io", "eof"})
  BY DEF PhaseInv
<1>2. /\ refused' \in Seq({"early", "io", "eof"})
      /\ DOMAIN refused' = DOMAIN refused \cup {n} /\ n \notin DOMAIN refused
      /\ refused'[n] = why /\ \A i \in DOMAIN refused : refused'[i] = refused[i]
  BY <1>1
<1>3. IsFiniteSet(late)
  <2>1. IsFiniteSet(DOMAIN refused)
    BY <1>1, FS_Interval
  <2> QED
    BY <2>1, FS_Subset
<1>4. n \notin late /\ next = IF why = "early" THEN late ELSE late \cup {n}
  BY <1>2
<1> HIDE DEF late, next, n
<1>5. Cardinality(late) \in Nat /\ Cardinality(late \cup {n}) = Cardinality(late) + 1
  BY <1>3, <1>4, FS_CardinalityType, FS_AddElement
<1>6. Leaked = Cardinality(late) /\ Leaked' = Cardinality(next)
  BY DEF Leaked, late, next
<1> QED
  BY <1>2, <1>4, <1>5, <1>6

\* A load that fails at once leaves nothing.
LEMMA LoadFailsEarlyKeepsInv == Inv /\ LoadFailsEarly => Inv'
<1> SUFFICES ASSUME Inv, LoadFailsEarly PROVE Inv'
  OBVIOUS
<1>1. /\ PhaseInv /\ TablesInv /\ NamesInv /\ CallsInv /\ blocks \in Nat
      /\ EveryBlockReached /\ phase = "closed" /\ calls = <<>>
  BY DEF Inv, LoadFailsEarly, PhaseInv
<1>2. /\ phase' \in {"closed", "wild_free"} /\ img' = img /\ calls' = calls /\ given' = {}
      /\ blocks' = blocks /\ UNCHANGED <<symbols, relocs, swaps, bare, names>>
      /\ refused' = Append(refused, "early")
  BY DEF LoadFailsEarly
<1>3. refused' \in Seq({"early", "io", "eof"}) /\ Leaked' = Leaked
  BY <1>1, <1>2, LeakedGrows
<1>4. PhaseInv'
  BY <1>1, <1>2, <1>3 DEF LoadFailsEarly, PhaseInv, Undefined, Secs
<1>5. TablesInv' /\ NamesInv'
  BY <1>2, StayKeepsTables, StayKeepsNames
<1>6. Grown
  BY <1>2 DEF Grown
<1>7. CallsInv'
  BY <1>1, <1>2, <1>6, StayKeepsCalls
<1>8. EveryBlockReached'
  BY <1>1, <1>2, <1>3, <1>4, <1>5, BlocksByPart, BlocksByPartNext DEF Undefined
<1>9. RefusedGivesBack'
  BY <1>2 DEF RefusedGivesBack
<1> QED
  BY <1>1, <1>2, <1>4, <1>5, <1>7, <1>8, <1>9 DEF Inv

\* A load that fails later leaves name_index.
LEMMA LoadFailsKeepsInv == Inv /\ LoadFails => Inv'
<1> SUFFICES ASSUME Inv, LoadFails PROVE Inv'
  OBVIOUS
<1>1. /\ PhaseInv /\ TablesInv /\ NamesInv /\ CallsInv /\ blocks \in Nat
      /\ EveryBlockReached /\ phase = "closed" /\ calls = <<>>
  BY DEF Inv, LoadFails, PhaseInv
<1>2. /\ phase' = "closed" /\ img' = img /\ calls' = calls /\ blocks' = blocks + 1
      /\ UNCHANGED <<symbols, relocs, swaps, bare, names, order, heard>>
      /\ result' = "ERROR"
  BY <1>1 DEF LoadFails
<1>3. given' = {} /\ \E why \in {"io", "eof"} : refused' = Append(refused, why)
  BY DEF LoadFails, FreedBuffers
<1>4. PICK why \in {"io", "eof"} : refused' = Append(refused, why)
  BY <1>3
<1>5. /\ refused' \in Seq({"early", "io", "eof"}) /\ Leaked' = Leaked + 1
  BY <1>1, <1>4, LeakedGrows
<1>6. PhaseInv'
  BY <1>1, <1>2, <1>3, <1>5 DEF PhaseInv, Secs
<1>7. TablesInv' /\ NamesInv'
  BY <1>2, StayKeepsTables, StayKeepsNames
<1>8. Grown
  BY <1>2 DEF Grown
<1>9. CallsInv'
  BY <1>1, <1>2, <1>8, StayKeepsCalls
<1>10. EveryBlockReached' /\ blocks' \in Nat
  <2>1. blocks = Leaked
    BY <1>1, BlocksByPart
  <2>2. blocks' = Leaked' /\ blocks' \in Nat
    BY <1>1, <1>2, <1>5, <2>1
  <2> QED
    BY <1>2, <1>6, <1>7, <2>2, BlocksByPartNext
<1>11. RefusedGivesBack'
  BY <1>3 DEF RefusedGivesBack
<1> QED
  BY <1>6, <1>7, <1>9, <1>10, <1>11 DEF Inv

\* The load goes astray, and nothing is known of it any more.
LEMMA LoadWildKeepsInv == Inv /\ LoadWild => Inv'
<1> SUFFICES ASSUME Inv, LoadWild PROVE Inv'
  OBVIOUS
<1>1. /\ PhaseInv /\ CallsInv /\ blocks \in Nat /\ phase' = "wild_link"
      /\ UNCHANGED <<img, order, symbols, relocs, swaps, names, calls, result,
                     blocks, given, refused, bare, heard>>
  BY DEF Inv, LoadWild
<1>2. PhaseInv'
  BY <1>1 DEF PhaseInv, Undefined, Secs
<1>3. TablesInv' /\ NamesInv'
  BY <1>1, StayKeepsTables, StayKeepsNames
<1>4. Grown
  BY <1>1 DEF Grown
<1>5. CallsInv'
  BY <1>1, <1>4, StayKeepsCalls
<1>6. EveryBlockReached' /\ RefusedGivesBack'
  BY <1>1 DEF EveryBlockReached, RefusedGivesBack
<1> QED
  BY <1>1, <1>2, <1>3, <1>5, <1>6 DEF Inv

\* Closing gives back what the tables, the names and the sections took.
LEMMA CloseKeepsInv == Inv /\ Close => Inv'
<1> SUFFICES ASSUME Inv, Close PROVE Inv'
  OBVIOUS
<1>1. /\ PhaseInv /\ TablesInv /\ NamesInv /\ CallsInv /\ blocks \in Nat
      /\ EveryBlockReached /\ phase = "open" /\ calls = <<>>
  BY DEF Inv, Close
<1>2. /\ phase' = "closed" /\ img' = img /\ calls' = <<>> /\ refused' = refused
      /\ symbols' = {} /\ relocs' = <<>> /\ names' = NoTable /\ order' = <<>>
      /\ blocks' = blocks - Reached /\ result' = "OKAY" /\ given' = given /\ heard' = heard
  BY <1>1 DEF Close
<1>3. PhaseInv'
  BY <1>1, <1>2 DEF PhaseInv, Secs
<1>4. TablesInv'
  <2>1. swaps' = [h \in Secs |-> 0] /\ bare' = [h \in Secs |-> 0] /\ Secs' = Secs
    BY <1>2 DEF Close, Zero, Secs
  <2>2. DOMAIN relocs' = {}
    BY <1>2
  <2> QED
    BY <1>2, <2>1, <2>2 DEF TablesInv
<1>5. NamesInv' /\ CallsInv'
  BY <1>2 DEF NamesInv, CallsInv
<1>6. blocks' = Leaked /\ Leaked \in Nat /\ Leaked' = Leaked
  <2>1. Leaked \in Nat /\ Built \in Nat /\ NameBlocks \in Nat /\ Len(img.secs) \in Nat
    BY <1>1, BlocksAreNumbers
  <2>2. Reached \in Nat /\ blocks = Leaked + Reached
    <3>1. blocks = Leaked + Reached
      BY <1>1 DEF EveryBlockReached, Leaked
    <3>2. Cardinality(symbols) \in Nat /\ Cardinality(DOMAIN relocs) \in Nat
      BY <1>1, BlocksAreNumbers, FS_CardinalityType
    <3>3. Reached = 3 + Len(img.secs) + Cardinality(symbols) + Cardinality(DOMAIN relocs)
                      + NameBlocks
      BY DEF Reached, NameBlocks
    <3> QED
      BY <2>1, <3>1, <3>2, <3>3, SMTT(30)
  <2> QED
    BY <1>2, <2>1, <2>2 DEF Leaked
<1>7. EveryBlockReached'
  BY <1>2, <1>3, <1>4, <1>5, <1>6, BlocksByPartNext
<1>8. RefusedGivesBack'
  BY <1>2 DEF RefusedGivesBack
<1> QED
  BY <1>3, <1>4, <1>5, <1>6, <1>7, <1>8 DEF Inv

\* A scan of sections, which builds the table of names if it needs one.
LEMMA FileScanKeepsInv ==
  ASSUME Inv, NEW name \in DOMAIN HashOf \cup {ANY}, FileScan(name)
  PROVE  Inv'
<1>1. /\ PhaseInv /\ TablesInv /\ NamesInv /\ CallsInv /\ blocks \in Nat
      /\ phase = "open" /\ phase' = phase
      /\ UNCHANGED <<img, order, symbols, relocs, swaps, given, refused, bare, heard>>
  BY DEF Inv, FileScan, CanCall
<1>2. TablesInv' /\ Built' = Built
  BY <1>1, StayKeepsTables
<1>3. CASE name = ANY
  <2> DEFINE c == Scan("all", 0, ANY, TRUE)
  <2>1. names' = names /\ blocks' = blocks /\ Enter(c, names)
    BY <1>3 DEF FileScan
  <2>2. NamesInv' /\ NameBlocks' = NameBlocks
    BY <2>1, StayKeepsNames
  <2>3. c \in Call /\ c.op = "all"
    BY DEF Scan, Call, Ops
  <2> HIDE DEF c
  <2>4. Grown /\ CallInv(c)'
    BY <1>1, <2>1, <2>3 DEF Grown, CallInv
  <2>5. CallsInv' /\ result' = result
    BY <1>1, <2>1, <2>3, <2>4, EnterKeepsCalls
  <2>6. PhaseInv' /\ RefusedGivesBack'
    <3>1. result' \in {"OKAY", "FALSE", "ERROR", STOP}
      BY <1>1, <2>5 DEF PhaseInv
    <3>2. \A i \in DOMAIN heard' : heard'[i].note \in img.notes
      BY <1>1 DEF PhaseInv
    <3> QED
      BY <1>1, <3>1, <3>2, OpenKeepsPhase
  <2>7. blocks' \in Nat /\ EveryBlockReached'
    <3>1. Built \in Nat /\ NameBlocks \in Nat
      BY <1>1, BlocksAreNumbers
    <3>2. Built' = Built + 0 /\ NameBlocks' = NameBlocks + 0 /\ blocks' = blocks + (0 + 0)
      BY <1>1, <1>2, <2>1, <2>2, <3>1
    <3> QED
      BY <1>1, <1>2, <2>2, <2>6, <3>2, BuildingKeepsBlocks
  <2> QED
    BY <1>2, <2>2, <2>5, <2>6, <2>7 DEF Inv
<1>4. CASE name # ANY
  <2> DEFINE c == Scan("named", 0, name, TRUE)
             t == IF names = NoTable THEN NameTable ELSE names
             q == IF names = NoTable THEN 2 + Hash!Reached(t) ELSE 0
  <2>1. /\ names' = t /\ Enter(c, t)
        /\ blocks' = IF names = NoTable THEN blocks + 2 + Hash!Reached(t) ELSE blocks
    BY <1>4 DEF FileScan
  <2>2. NamedTable(t)
    BY <1>1, NameTableIsNamed DEF PhaseInv, NamesInv
  <2>3. c \in Call /\ c.op = "named" /\ c.want = name
    BY <1>4 DEF Scan, Call, Ops
  <2>4. t # NoTable /\ Hash!Reached(t) \in Nat
    BY <2>2, NamedReached
  <2>11. blocks' = blocks + q
    <3>1. blocks' = IF names = NoTable THEN blocks + 2 + Hash!Reached(t) ELSE blocks
      BY <2>1
    <3> HIDE DEF t
    <3> QED
      BY <1>1, <2>4, <3>1
  <2>5. q \in Nat /\ NameBlocks' = NameBlocks + q
    <3>1. NameBlocks' = 2 + Hash!Reached(t)
      BY <2>1, <2>4 DEF NameBlocks
    <3>2. NameBlocks = IF names = NoTable THEN 0 ELSE 2 + Hash!Reached(t)
      BY DEF NameBlocks
    <3> HIDE DEF t
    <3> QED
      BY <2>4, <3>1, <3>2
  <2> HIDE DEF c, t, q
  <2>6. NamesInv'
    BY <2>1, <2>2 DEF NamesInv
  <2>7. Grown /\ CallInv(c)'
    BY <1>1, <1>4, <2>1, <2>3, <2>4 DEF Grown, CallInv
  <2>8. CallsInv' /\ result' = result
    BY <1>1, <2>1, <2>2, <2>3, <2>7, EnterKeepsCalls
  <2>9. PhaseInv' /\ RefusedGivesBack'
    <3>1. result' \in {"OKAY", "FALSE", "ERROR", STOP}
      BY <1>1, <2>8 DEF PhaseInv
    <3>2. \A i \in DOMAIN heard' : heard'[i].note \in img.notes
      BY <1>1 DEF PhaseInv
    <3> QED
      BY <1>1, <3>1, <3>2, OpenKeepsPhase
  <2>10. blocks' \in Nat /\ EveryBlockReached'
    <3>1. Built' = Built + 0 /\ blocks' = blocks + (0 + q)
      BY <1>1, <1>2, <2>11, <2>5, BlocksAreNumbers
    <3> QED
      BY <1>1, <1>2, <2>5, <2>6, <2>9, <3>1, BuildingKeepsBlocks
  <2> QED
    BY <1>2, <2>6, <2>8, <2>9, <2>10 DEF Inv
<1> QED
  BY <1>3, <1>4

\* What a scan of symbols or of relocations keeps, once its tables are there.
LEMMA ScanKeepsInv ==
  ASSUME Inv, CanCall, TablesInv', phase' = phase,
         UNCHANGED <<img, order, names, given, refused, heard>>,
         symbols \subseteq symbols', DOMAIN relocs \subseteq DOMAIN relocs',
         NEW n \in Nat, blocks' = blocks + n, Built' = Built + n,
         NEW c \in Call, c.op \in {"symbols", "relocs", "query"}, c.sec \in Secs,
         CallInv(c)', Enter(c, names)
  PROVE  Inv'
<1>1. /\ PhaseInv /\ TablesInv /\ NamesInv /\ CallsInv /\ blocks \in Nat
      /\ phase = "open"
  BY DEF Inv, CanCall
<1>2. NamesInv' /\ NameBlocks' = NameBlocks
  BY StayKeepsNames
<1>3. Grown
  BY DEF Grown
<1>4. CallsInv' /\ result' = result
  BY <1>3, EnterKeepsCalls
<1>5. PhaseInv' /\ RefusedGivesBack'
  <2>1. result' \in {"OKAY", "FALSE", "ERROR", STOP}
    BY <1>1, <1>4 DEF PhaseInv
  <2>2. \A i \in DOMAIN heard' : heard'[i].note \in img.notes
    BY <1>1 DEF PhaseInv
  <2> QED
    BY <1>1, <2>1, <2>2, OpenKeepsPhase
<1>6. blocks' \in Nat /\ EveryBlockReached'
  <2>1. NameBlocks' = NameBlocks + 0 /\ blocks' = blocks + (n + 0)
    BY <1>1, <1>2, BlocksAreNumbers
  <2> QED
    BY <1>1, <1>2, <1>5, <2>1, BuildingKeepsBlocks
<1> QED
  BY <1>2, <1>4, <1>5, <1>6 DEF Inv

\* A scan of symbols.
LEMMA SymbolSecScanKeepsInv ==
  ASSUME Inv, NEW s \in Secs, SymbolSecScan(s)
  PROVE  Inv'
<1> DEFINE c == Scan("symbols", s, ANY, TRUE)
<1>1. /\ CanCall /\ Type(s) = "sym" /\ phase' = phase /\ Enter(c, names)
      /\ UNCHANGED <<img, order, relocs, names, given, refused, bare, heard>>
      /\ IF s \in symbols THEN UNCHANGED <<symbols, swaps, blocks>> ELSE CreateSymbolHandles(s)
  BY DEF SymbolSecScan
<1>2. c \in Call /\ c.op = "symbols" /\ c.sec = s
  BY DEF Scan, Call, Ops
<1> HIDE DEF c
<1>3. /\ TablesInv' /\ symbols' = symbols \cup {s}
      /\ \E n \in Nat : blocks' = blocks + n /\ Built' = Built + n
  <2>1. CASE s \in symbols
    <3>1. /\ TablesInv' /\ Built' = Built /\ symbols' = symbols \cup {s}
      BY <1>1, <2>1, StayKeepsTables
    <3>2. Built \in Nat /\ blocks \in Nat
      BY BlocksAreNumbers DEF Inv
    <3>3. blocks' = blocks + 0 /\ Built' = Built + 0
      BY <1>1, <2>1, <3>1, <3>2
    <3> QED
      BY <3>1, <3>3
  <2>2. CASE s \notin symbols
    BY <1>1, <2>2, SymbolsMade
  <2> QED
    BY <2>1, <2>2
<1>4. CallInv(c)'
  BY <1>2, <1>3 DEF CallInv
<1> QED
  BY <1>1, <1>2, <1>3, <1>4, ScanKeepsInv

\* A scan of relocations, by their section or by the one they are for.
LEMMA RelocScanKeepsInv ==
  ASSUME Inv, CanCall, NEW r \in Secs, Type(r) = "rel", EnsureRelocs(OrigSec(r), r),
         phase' = phase, UNCHANGED <<img, order, names, given, refused, heard>>,
         NEW c \in Call, c.op \in {"relocs", "query"}, c.sec = r, c.real => HasRelocs(r),
         Enter(c, names)
  PROVE  Inv'
<1>1. /\ TablesInv'
      /\ symbols \subseteq symbols' /\ DOMAIN relocs \subseteq DOMAIN relocs'
      /\ HasRelocs(r) => r \in DOMAIN relocs'
      /\ \E n \in Nat : blocks' = blocks + n /\ Built' = Built + n
  BY RelocsEnsured DEF CanCall
<1>2. CallInv(c)'
  BY <1>1 DEF CallInv, Secs, Type
<1> QED
  BY <1>1, <1>2, ScanKeepsInv

\* ElfRelocSecScan
LEMMA RelocSecScanKeepsInv ==
  ASSUME Inv, NEW r \in Secs, RelocSecScan(r)
  PROVE  Inv'
<1> DEFINE c == Scan("relocs", r, ANY, HasRelocs(r))
<1>1. /\ CanCall /\ Type(r) = "rel" /\ EnsureRelocs(OrigSec(r), r) /\ Enter(c, names)
      /\ phase' = phase /\ UNCHANGED <<img, order, names, given, refused, heard>>
  BY DEF RelocSecScan
<1>2. c \in Call /\ c.op = "relocs" /\ c.sec = r /\ c.real = HasRelocs(r)
  BY DEF Scan, Call, Ops, HasRelocs
<1> HIDE DEF c
<1> QED
  BY <1>1, <1>2, RelocScanKeepsInv

\* ElfSecScanReloc
LEMMA SecScanRelocKeepsInv ==
  ASSUME Inv, NEW h \in Secs, SecScanReloc(h)
  PROVE  Inv'
<1> DEFINE r == RelocSec(h)
           c == Scan("relocs", r, ANY, HasRelocs(r))
<1>1. /\ CanCall /\ r # 0 /\ EnsureRelocs(h, r) /\ Enter(c, names)
      /\ phase' = phase /\ UNCHANGED <<img, order, names, given, refused, heard>>
  BY DEF SecScanReloc
<1>2. r \in Secs /\ Type(r) = "rel" /\ OrigSec(r) = h
  BY <1>1, RelocSecIsFor DEF Inv, PhaseInv
<1> HIDE DEF r
<1>3. c \in Call /\ c.op = "relocs" /\ c.sec = r /\ c.real = HasRelocs(r)
  BY <1>2 DEF Scan, Call, Ops, HasRelocs
<1> HIDE DEF c
<1> QED
  BY <1>1, <1>2, <1>3, RelocScanKeepsInv

\* ElfSecQueryReloc, which reads relocations that are not there.
LEMMA SecQueryRelocKeepsInv ==
  ASSUME Inv, NEW h \in Secs, NEW offset \in Offsets, SecQueryReloc(h, offset)
  PROVE  Inv'
<1> DEFINE r == RelocSec(h)
           c == Scan("query", r, offset, TRUE)
<1>1. /\ CanCall /\ r # 0 /\ EnsureRelocs(h, r)
      /\ UNCHANGED <<img, order, names, given, refused, heard>>
      /\ IF HasRelocs(r) THEN Enter(c, names) /\ UNCHANGED phase
         ELSE phase' = "null_reloc" /\ UNCHANGED <<calls, result>>
  BY DEF SecQueryReloc
<1>2. r \in Secs /\ Type(r) = "rel" /\ OrigSec(r) = h
  BY <1>1, RelocSecIsFor DEF Inv, PhaseInv
<1> HIDE DEF r
<1>3. c \in Call /\ c.op = "query" /\ c.sec = r
  BY <1>2 DEF Scan, Call, Ops
<1> HIDE DEF c
<1>4. CASE HasRelocs(r)
  BY <1>1, <1>2, <1>3, <1>4, RelocScanKeepsInv
<1>5. CASE ~HasRelocs(r)
  <2>1. /\ PhaseInv /\ NamesInv /\ CallsInv /\ blocks \in Nat /\ phase = "open"
        /\ phase' = "null_reloc" /\ calls' = calls /\ result' = result
    BY <1>1, <1>5 DEF Inv, CanCall
  <2>2. /\ TablesInv'
        /\ symbols \subseteq symbols' /\ DOMAIN relocs \subseteq DOMAIN relocs'
        /\ \E n \in Nat : blocks' = blocks + n
    BY <1>1, <1>2, <2>1, RelocsEnsured
  <2>3. Grown /\ NamesInv'
    BY <1>1, <2>2, StayKeepsNames DEF Grown
  <2>4. CallsInv'
    BY <1>1, <2>1, <2>3, StayKeepsCalls
  <2>5. PhaseInv' /\ RefusedGivesBack'
    BY <1>1, <2>1, OpenKeepsPhase DEF PhaseInv, Undefined
  <2>6. blocks' \in Nat /\ EveryBlockReached'
    BY <2>1, <2>2 DEF EveryBlockReached
  <2> QED
    BY <2>2, <2>3, <2>4, <2>5, <2>6 DEF Inv
<1> QED
  BY <1>4, <1>5

\* A step of an open file that leaves the tables, the names and the scans alone
\* but for the innermost one.
LEMMA QuietKeepsInv ==
  ASSUME Inv, phase = "open", phase' \in {"open"} \cup Undefined, CallsInv',
         result' \in {"OKAY", "FALSE", "ERROR", STOP},
         \A i \in DOMAIN heard' : heard'[i].note \in img.notes,
         UNCHANGED <<img, order, symbols, relocs, swaps, names, blocks, given, refused, bare>>
  PROVE  Inv'
<1>1. PhaseInv' /\ RefusedGivesBack'
  BY OpenKeepsPhase
<1>2. TablesInv' /\ NamesInv' /\ Built' = Built /\ NameBlocks' = NameBlocks
  BY StayKeepsTables, StayKeepsNames
<1>3. Built \in Nat /\ NameBlocks \in Nat /\ blocks \in Nat
  BY BlocksAreNumbers DEF Inv
<1>4. Built' = Built + 0 /\ NameBlocks' = NameBlocks + 0 /\ blocks' = blocks + (0 + 0)
  BY <1>2, <1>3
<1>5. blocks' \in Nat /\ EveryBlockReached'
  <2>1. phase' # "closed"
    BY DEF Undefined
  <2> QED
    BY <1>1, <1>2, <1>4, <2>1, BuildingKeepsBlocks
<1> QED
  BY <1>1, <1>2, <1>5 DEF Inv

\* A scan that finds nothing to do.
LEMMA ScanNothingKeepsInv ==
  ASSUME Inv, NEW h \in Secs, ScanNothing(h)
  PROVE  Inv'
<1>1. /\ phase = "open" /\ phase' = phase /\ result' \in {"ERROR", "FALSE"}
      /\ UNCHANGED <<img, order, symbols, relocs, swaps, names, calls,
                     blocks, given, refused, bare, heard>>
  BY DEF ScanNothing, CanCall
<1>2. Grown
  BY <1>1 DEF Grown
<1>3. CallsInv'
  BY <1>1, <1>2, StayKeepsCalls DEF Inv
<1>4. \A i \in DOMAIN heard' : heard'[i].note \in img.notes
  BY <1>1 DEF Inv, PhaseInv
<1> QED
  BY <1>1, <1>3, <1>4, QuietKeepsInv

\* A scan without entries returns.
LEMMA ReturnUncalledKeepsInv == Inv /\ ReturnUncalled => Inv'
<1> SUFFICES ASSUME Inv, ReturnUncalled PROVE Inv'
  OBVIOUS
<1>1. /\ phase = "open" /\ phase' = phase /\ result' = "OKAY"
      /\ calls # <<>> /\ calls' = Tail(calls)
      /\ UNCHANGED <<img, order, symbols, relocs, swaps, names,
                     blocks, given, refused, bare, heard>>
  BY DEF ReturnUncalled
<1>2. Grown
  BY <1>1 DEF Grown
<1>3. CallsInv'
  BY <1>1, <1>2, PopKeepsCalls DEF Inv
<1>4. \A i \in DOMAIN heard' : heard'[i].note \in img.notes
  BY <1>1 DEF Inv, PhaseInv
<1> QED
  BY <1>1, <1>3, <1>4, QuietKeepsInv

\* The innermost scan goes on or returns.
LEMMA AnswerKeepsInv ==
  ASSUME Inv, NEW a \in {"OKAY", STOP}, Answer(a)
  PROVE  Inv'
<1>1. /\ phase = "open" /\ phase' = phase /\ calls # <<>>
      /\ UNCHANGED <<img, order, symbols, relocs, swaps, names,
                     blocks, given, refused, bare, heard>>
      /\ PhaseInv /\ CallsInv /\ NamesInv
  BY DEF Answer, Inv
<1>2. PICK c : c = calls[1]
  OBVIOUS
<1> DEFINE later == {i \in Stops(c, names) : i > c.at}
<1>3. \/ /\ later # {} /\ calls' = <<[c EXCEPT !.at = Min(later)]>> \o Tail(calls)
         /\ result' = result
      \/ calls' = Tail(calls) /\ result' = a
  BY <1>2 DEF Answer
<1>4. /\ calls \in Seq(Call) /\ \A i \in DOMAIN calls : CallInv(calls[i])
      /\ c \in Call /\ CallInv(c)
  BY <1>1, <1>2 DEF CallsInv
<1>5. Grown
  BY <1>1 DEF Grown
<1>6. CallInv(c)'
  BY <1>1, <1>4, <1>5, GrownKeepsCall
<1>7. CallsInv'
  <2>1. CASE calls' = Tail(calls)
    BY <1>1, <1>5, <2>1, PopKeepsCalls
  <2>2. CASE later # {} /\ calls' = <<[c EXCEPT !.at = Min(later)]>> \o Tail(calls)
    <3>1. Stops(c, names) \subseteq Nat
      <4>1. /\ c.op \in Ops /\ (c.op = "named" => NamedTable(names) /\ c.want \in DOMAIN HashOf)
            /\ c.op \notin {"all", "named"} => c.sec \in Secs
        BY <1>1, <1>4 DEF Call, CallInv, NamesInv, Ops, Inv, TablesInv
      <4> QED
        BY <1>1, <4>1, StopsAreIndices DEF PhaseInv
    <3>2. Min(later) \in Nat
      BY <2>2, <3>1, MinIsIn
    <3>3. Tail(calls) \in Seq(Call) /\ \A i \in DOMAIN Tail(calls) : CallInv(Tail(calls)[i])
      <4>1. /\ Tail(calls) \in Seq(Call)
            /\ \A i \in DOMAIN Tail(calls) : i + 1 \in DOMAIN calls /\ Tail(calls)[i] = calls[i + 1]
        BY <1>1, <1>4
      <4> QED
        BY <1>4, <4>1
    <3> QED
      BY <1>1, <1>4, <1>5, <1>6, <2>2, <3>2, <3>3, PushKeepsCalls
  <2> QED
    BY <1>3, <2>1, <2>2
<1>8. result' \in {"OKAY", "FALSE", "ERROR", STOP}
  BY <1>1, <1>3 DEF PhaseInv
<1>9. \A i \in DOMAIN heard' : heard'[i].note \in img.notes
  BY <1>1 DEF PhaseInv
<1> QED
  BY <1>1, <1>7, <1>8, <1>9, QuietKeepsInv

\* The linker directives are heard.
LEMMA NoteSecScanKeepsInv ==
  ASSUME Inv, NEW h \in Secs, NoteSecScan(h)
  PROVE  Inv'
<1>1. /\ phase = "open" /\ result' = "OKAY" /\ calls' = calls
      /\ UNCHANGED <<img, order, symbols, relocs, swaps, names,
                     blocks, given, refused, bare>>
      /\ \E note \in img.notes : \E it \in ElfParseDrectve(note) :
           /\ heard' = <<[note |-> note, said |-> it]>>
           /\ phase' = IF it.wild THEN "wild_text" ELSE phase
  BY DEF NoteSecScan, CanCall
<1>7. PICK note \in img.notes : \E it \in ElfParseDrectve(note) :
        /\ heard' = <<[note |-> note, said |-> it]>>
        /\ phase' = IF it.wild THEN "wild_text" ELSE phase
  BY <1>1
<1>2. PICK it \in ElfParseDrectve(note) :
        /\ heard' = <<[note |-> note, said |-> it]>>
        /\ phase' = IF it.wild THEN "wild_text" ELSE phase
  BY <1>7
<1>3. phase' \in {"open"} \cup Undefined
  BY <1>1, <1>2 DEF Undefined
<1>4. \A i \in DOMAIN heard' : heard'[i].note \in img.notes
  BY <1>2
<1>5. Grown
  BY <1>1 DEF Grown
<1>6. CallsInv'
  BY <1>1, <1>5, StayKeepsCalls DEF Inv
<1> QED
  BY <1>1, <1>3, <1>4, <1>6, QuietKeepsInv

\* The client goes on to something else.
LEMMA ForgetKeepsInv == Inv /\ Forget => Inv'
<1> SUFFICES ASSUME Inv, Forget PROVE Inv'
  OBVIOUS
<1>1. /\ phase = "open" /\ phase' = phase /\ heard' = <<>>
      /\ UNCHANGED <<img, order, symbols, relocs, swaps, names, calls, result,
                     blocks, given, refused, bare>>
  BY DEF Forget
<1>2. Grown
  BY <1>1 DEF Grown
<1>3. CallsInv'
  BY <1>1, <1>2, StayKeepsCalls DEF Inv
<1>4. result' \in {"OKAY", "FALSE", "ERROR", STOP}
  BY <1>1 DEF Inv, PhaseInv
<1>5. \A i \in DOMAIN heard' : heard'[i].note \in img.notes
  BY <1>1
<1> QED
  BY <1>1, <1>3, <1>4, <1>5, QuietKeepsInv

\* The invariant holds initially.
LEMMA InvInit == Init => Inv
<1> SUFFICES ASSUME Init PROVE Inv
  OBVIOUS
<1>1. PhaseInv
  BY DEF Init, PhaseInv, Undefined
<1>2. TablesInv
  <2>1. swaps = [h \in Secs |-> 0] /\ bare = [h \in Secs |-> 0] /\ DOMAIN relocs = {} /\ symbols = {}
    BY DEF Init, Zero
  <2> QED
    BY <2>1 DEF TablesInv
<1>3. NamesInv /\ CallsInv /\ RefusedGivesBack
  BY DEF Init, NamesInv, CallsInv, RefusedGivesBack
<1>4. blocks \in Nat /\ EveryBlockReached
  <2>1. blocks = 0 /\ phase = "closed" /\ {i \in DOMAIN refused : refused[i] # "early"} = {}
    BY DEF Init
  <2>2. Leaked = 0
    BY <2>1, FS_EmptySet DEF Leaked
  <2> QED
    BY <1>1, <1>2, <1>3, <2>1, <2>2, BlocksByPart
<1> QED
  BY <1>1, <1>2, <1>3, <1>4 DEF Inv

\* Every step keeps the invariant.
LEMMA InvStep == Inv /\ [Next]_vars => Inv'
<1> SUFFICES ASSUME Inv, [Next]_vars PROVE Inv'
  OBVIOUS
<1>1. CASE Load
  BY <1>1, LoadKeepsInv
<1>2. CASE LoadFailsEarly
  BY <1>2, LoadFailsEarlyKeepsInv
<1>3. CASE LoadFails
  BY <1>3, LoadFailsKeepsInv
<1>4. CASE LoadWild
  BY <1>4, LoadWildKeepsInv
<1>5. CASE Close
  BY <1>5, CloseKeepsInv
<1>6. ASSUME NEW name \in DOMAIN HashOf \cup {ANY}, FileScan(name) PROVE Inv'
  BY <1>6, FileScanKeepsInv
<1>7. ASSUME NEW h \in Secs, SymbolSecScan(h) PROVE Inv'
  BY <1>7, SymbolSecScanKeepsInv
<1>8. ASSUME NEW h \in Secs, RelocSecScan(h) PROVE Inv'
  BY <1>8, RelocSecScanKeepsInv
<1>9. ASSUME NEW h \in Secs, SecScanReloc(h) PROVE Inv'
  BY <1>9, SecScanRelocKeepsInv
<1>10. ASSUME NEW h \in Secs, ScanNothing(h) PROVE Inv'
  BY <1>10, ScanNothingKeepsInv
<1>11. ASSUME NEW h \in Secs, NEW offset \in Offsets, SecQueryReloc(h, offset) PROVE Inv'
  BY <1>11, SecQueryRelocKeepsInv
<1>12. ASSUME NEW h \in Secs, NoteSecScan(h) PROVE Inv'
  BY <1>12, NoteSecScanKeepsInv
<1>13. CASE Forget
  BY <1>13, ForgetKeepsInv
<1>14. CASE ReturnUncalled
  BY <1>14, ReturnUncalledKeepsInv
<1>15. ASSUME NEW a \in {"OKAY", STOP}, Answer(a) PROVE Inv'
  BY <1>15, AnswerKeepsInv
<1>16. CASE UNCHANGED vars
  <2>1. UNCHANGED <<img, phase, order, symbols, relocs, swaps, names, calls, result,
                   blocks, given, refused, bare, heard>>
    BY <1>16 DEF vars
  <2>2. Grown
    BY <2>1 DEF Grown
  <2>3. CallsInv'
    BY <2>1, <2>2, StayKeepsCalls DEF Inv
  <2>4. TablesInv' /\ NamesInv'
    BY <2>1, StayKeepsTables, StayKeepsNames
  <2>5. PhaseInv'
    BY <2>1 DEF Inv, PhaseInv, WildLink, Secs, Type, SizeOf, SymTab
  <2>6. blocks' \in Nat /\ EveryBlockReached' /\ RefusedGivesBack'
    BY <2>1 DEF Inv, EveryBlockReached, RefusedGivesBack, Reached
  <2> QED
    BY <2>3, <2>4, <2>5, <2>6 DEF Inv
<1> QED
  BY <1>1, <1>2, <1>3, <1>4, <1>5, <1>6, <1>7, <1>8, <1>9, <1>10, <1>11, <1>12, <1>13,
     <1>14, <1>15, <1>16 DEF Next

\* The invariant holds in every behaviour.
LEMMA InvHolds == Spec => []Inv
BY InvInit, InvStep, PTL DEF Spec

-----------------------------------------------------------------------------
(* The theorems.                                                           *)

\* Every variable has its type in every state.
THEOREM TypeCorrect == Spec => []TypeOK
<1>1. Inv => TypeOK
  <2> SUFFICES ASSUME Inv PROVE TypeOK
    OBVIOUS
  <2>1. \A r \in DOMAIN relocs : relocs[r] \in Secs \cup {0}
    BY LinksAreTyped DEF Inv, PhaseInv, TablesInv
  <2> QED
    BY <2>1 DEF Inv, PhaseInv, TablesInv, CallsInv, TypeOK
<1> QED
  BY <1>1, InvHolds, PTL

\* However the scans of an open file are ordered and nested, the bytes of the
\* entries of a section have been swapped once if its table was built, and not
\* at all otherwise.
THEOREM EntriesAreSwappedOnce == Spec => []SwappedOnce
<1>1. Inv => SwappedOnce
  BY DEF Inv, TablesInv, SwappedOnce
<1> QED
  BY <1>1, InvHolds, PTL

\* Closing a file gives every block of it back, whatever was built of its
\* tables; only loads that failed behind the headers leave one each.
THEOREM NothingLeaks == Spec => []EveryBlockReached
<1>1. Inv => EveryBlockReached
  BY DEF Inv
<1> QED
  BY <1>1, InvHolds, PTL

\* Relocations are for the section that their section names, with symbols that
\* exist, and the array a scan walks is there as long as the scan runs.
THEOREM TablesAreBacked == Spec => []TablesBacked
<1>1. Inv => TablesBacked
  BY DEF Inv, TablesInv, CallsInv, CallInv, TablesBacked
<1> QED
  BY <1>1, InvHolds, PTL

\* No symbol table is the reason for more than one scan without relocations.
THEOREM OnlyOneBareScan == Spec => []OneBareScan
<1>1. Inv => OneBareScan
  <2> SUFFICES ASSUME Inv, NEW s \in Secs PROVE bare[s] <= 1
    BY DEF OneBareScan
  <2>1. bare[s] \in Nat /\ bare[s] <= IF s \in symbols THEN 1 ELSE 0
    BY DEF Inv, TablesInv
  <2> QED
    BY <2>1
<1> QED
  BY <1>1, InvHolds, PTL

\* A refused file leaves no buffer of a section behind.
THEOREM RefusedFilesGiveBack == Spec => []RefusedGivesBack
<1>1. Inv => RefusedGivesBack
  BY DEF Inv
<1> QED
  BY <1>1, InvHolds, PTL


-----------------------------------------------------------------------------
(* The inductive invariant, with what the scans are given.                 *)

\* The sections that a name is found for; those that a scan walks, and what it
\* has left of them.
Listed(k) == Hash!Lookup(NameTable[HashOf[k]], k)
Row(c) == IF c.op = "all" THEN order ELSE Listed(c.want)
Left(c) == IF c.at = 0 THEN <<>> ELSE SubSeq(Row(c), c.at, Len(Row(c)))

\* A scan of sections is at one of those it walks, if it walks any.
WalkInv(c) == c \in SectionCall /\ c.at # 0 => c.at \in DOMAIN Row(c)

\* The names are those of all sections; a scan that waits for the call of its
\* callback to return is one that called it.
ScansInv ==
  /\ names = NoTable \/ names = NameTable
  /\ \A i \in DOMAIN calls : WalkInv(calls[i])
  /\ \A i \in DOMAIN calls : i # 1 => calls[i].at # 0

\* The sections are ordered by the load.
OrderInv ==
  /\ phase = "closed" => order = <<>>
  /\ phase = "open" => order # <<>>

-----------------------------------------------------------------------------
(* What the hash table of the names finds.                                 *)

\* A section goes to the end of the list of its name, and of no other, in the
\* bucket of the name and in the table.
LEMMA BucketInserted ==
  ASSUME NEW b, NEW s \in Seq(HP!Entry), HP!Good(b, s), NEW j \in DOMAIN HashOf, HashOf[j] = b,
         NEW d \in Nat, NEW k \in DOMAIN HashOf
  PROVE  HP!Lookup(HP!Inserted(s, j, d), k)
           = IF FoldOf[k] = FoldOf[j] THEN Append(HP!Lookup(s, k), d) ELSE HP!Lookup(s, k)
BY HP!InsertedLookup, HashAssumptions

Put(t, j, d) == [t EXCEPT ![HashOf[j]] = Hash!Inserted(@, j, d)]

LEMMA LookupInserted ==
  ASSUME NEW t, NamedTable(t), NEW j \in DOMAIN HashOf, NEW d \in Nat, NEW k \in DOMAIN HashOf
  PROVE  Hash!Lookup(Put(t, j, d)[HashOf[k]], k)
           = IF FoldOf[k] = FoldOf[j] THEN Append(Hash!Lookup(t[HashOf[k]], k), d)
             ELSE Hash!Lookup(t[HashOf[k]], k)
<1>1. PICK b : b = HashOf[j]
  OBVIOUS
<1>2. PICK s : s = t[b]
  OBVIOUS
<1>3. b \in HP!Buckets /\ s \in Seq(HP!Entry) /\ HP!Good(b, s) /\ HashOf[k] \in HP!Buckets
  BY <1>1, <1>2, HashAssumptions DEF NamedTable
<1>4. /\ Put(t, j, d)[b] = HP!Inserted(s, j, d)
      /\ \A c \in HP!Buckets \ {b} : Put(t, j, d)[c] = t[c]
  BY <1>1, <1>2, <1>3, SameHash DEF NamedTable, Put
<1>5. HP!Lookup(HP!Inserted(s, j, d), k)
        = IF FoldOf[k] = FoldOf[j] THEN Append(HP!Lookup(s, k), d) ELSE HP!Lookup(s, k)
  BY <1>1, <1>3, BucketInserted
<1>6. CASE HashOf[k] = b
  BY <1>2, <1>4, <1>5, <1>6, SameHash
<1>7. CASE HashOf[k] # b
  <2>1. FoldOf[k] # FoldOf[j]
    BY <1>1, <1>7, HashAssumptions
  <2> QED
    BY <1>3, <1>4, <1>7, <2>1
<1> QED
  BY <1>6, <1>7

\* The sections of a name, whatever the case of its letters.
Named(k) == {h \in Secs : FoldOf[img.secs[h].name] = FoldOf[k]}

\* The table finds the sections of a name, in their order.
LEMMA ListedAreNamed ==
  ASSUME img \in Images, order \in Seq(Secs), NEW k \in DOMAIN HashOf
  PROVE  Listed(k) = Those(order, Named(k))
<1> DEFINE n == Len(order)
           all == order
           u == CHOOSE v : IsUpto(n, v)
           Found(t) == Hash!Lookup(t[HashOf[k]], k)
           T == {i \in Nat : i <= n => /\ NamedTable(u[i])
                                       /\ Found(u[i]) = Those(FirstOf(all, i), Named(k))}
<1>1. n \in Nat /\ all \in Seq(Secs) /\ Len(all) = n /\ \A i \in 1 .. n : all[i] \in Secs
  OBVIOUS
<1>2. IsUpto(n, u)
  BY <1>1, UptoExists
<1>3. NameTable = u[n]
  BY DEF NameTable, IsUpto, With
<1> HIDE DEF n, all
<1>4. /\ FirstOf(all, 0) = <<>> /\ FirstOf(all, n) = all
      /\ \A i \in 0 .. n : FirstOf(all, i) \in Seq(Secs)
      /\ \A i \in 0 .. n - 1 : FirstOf(all, i + 1) = Append(FirstOf(all, i), all[i + 1])
  BY <1>1, FirstGrow
<1> HIDE DEF u
<1>5. 0 \in T
  <2>1. u[0] = [b \in HP!Buckets |-> <<>>]
    BY <1>1, <1>2 DEF IsUpto, HP!Buckets
  <2>2. \A b \in HP!Buckets : HP!Good(b, <<>>)
    BY DEF HP!Good
  <2>3. [b \in HP!Buckets |-> <<>>] \in [HP!Buckets -> Seq(HP!Entry)]
    OBVIOUS
  <2>4. NamedTable(u[0])
    BY <2>1, <2>2, <2>3 DEF NamedTable
  <2>5. Found(u[0]) = <<>>
    <3>1. u[0][HashOf[k]] = <<>>
      BY <2>1, HashAssumptions
    <3>2. HP!Matches(<<>>, k) = {}
      BY DEF HP!Matches
    <3>3. HP!Lookup(<<>>, k) = <<>>
      BY <3>2 DEF HP!Lookup
    <3> QED
      BY <3>1, <3>3, SameHash
  <2>6. <<>> \in Seq(Secs)
    OBVIOUS
  <2>7. Those(<<>>, Named(k)) = <<>>
    BY <2>6, ThoseType
  <2> QED
    BY <1>4, <2>4, <2>5, <2>7
<1>6. ASSUME NEW i \in Nat, i \in T PROVE i + 1 \in T
  <2> SUFFICES ASSUME i + 1 <= n
               PROVE  /\ NamedTable(u[i + 1])
                      /\ Found(u[i + 1]) = Those(FirstOf(all, i + 1), Named(k))
    OBVIOUS
  <2>1. NamedTable(u[i]) /\ Found(u[i]) = Those(FirstOf(all, i), Named(k))
    BY <1>1, <1>6
  <2>2. /\ i + 1 \in 0 .. n /\ i + 1 \in 1 .. n /\ i + 1 # 0 /\ (i + 1) - 1 = i
        /\ i \in 0 .. n /\ i \in 0 .. n - 1
    BY <1>1
  <2>4. PICK g \in Secs : g = all[i + 1]
    BY <1>1, <2>2
  <2>3. u[i + 1] = With(u[i], g)
    BY <1>2, <2>2, <2>4 DEF IsUpto, all
  <2>5. img.secs[g].name \in DOMAIN HashOf /\ g \in Nat
    BY ImagesAssumption DEF Secs
  <2>6. NamedTable(u[i + 1])
    BY <2>1, <2>3, <2>5, NamedInserted DEF With
  <2>7. Found(u[i + 1]) = IF FoldOf[k] = FoldOf[img.secs[g].name] THEN Append(Found(u[i]), g)
                          ELSE Found(u[i])
    <3>1. PICK t : t = u[i]
      OBVIOUS
    <3>2. PICK j \in DOMAIN HashOf, d \in Nat : j = img.secs[g].name /\ d = g
      BY <2>5
    <3>3. u[i + 1] = Put(t, j, d)
      BY <2>3, <3>1, <3>2 DEF With, Put
    <3>4. NamedTable(t)
      BY <2>1, <3>1
    <3>5. Hash!Lookup(Put(t, j, d)[HashOf[k]], k)
            = IF FoldOf[k] = FoldOf[j] THEN Append(Hash!Lookup(t[HashOf[k]], k), d)
              ELSE Hash!Lookup(t[HashOf[k]], k)
      BY <3>4, LookupInserted
    <3> QED
      BY <3>1, <3>2, <3>3, <3>5
  <2>8. g \in Named(k) <=> FoldOf[k] = FoldOf[img.secs[g].name]
    BY DEF Named
  <2>9. /\ FirstOf(all, i + 1) = Append(FirstOf(all, i), g)
        /\ FirstOf(all, i) \in Seq(Secs)
    BY <1>4, <2>2, <2>4
  <2>10. PICK s \in Seq(Secs), h \in Secs : s = FirstOf(all, i) /\ h = g
    BY <2>9
  <2>11. Those(Append(s, h), Named(k))
           = IF h \in Named(k) THEN Append(Those(s, Named(k)), h) ELSE Those(s, Named(k))
    BY ThoseAppended
  <2> HIDE DEF Found
  <2> QED
    BY <2>1, <2>6, <2>7, <2>8, <2>9, <2>10, <2>11
<1> HIDE DEF T
<1>7. n \in T
  BY <1>1, <1>5, <1>6, Induction
<1>8. Found(u[n]) = Those(FirstOf(all, n), Named(k))
  BY <1>1, <1>7 DEF T
<1> QED
  BY <1>3, <1>4, <1>8 DEF Listed, all

-----------------------------------------------------------------------------
(* The scans as the client sees them.                                      *)

\* What the client sees of a scan of sections, and of a stack of scans.
Seen == [c \in SectionCall |-> [name |-> c.want, left |-> Left(c)]]
ScansOf(F, cs) == Mapped(F, Those(cs, SectionCall))

LEMMA SectionCallsAreCalls ==
  img \in Images => \A c \in Call : c \in SectionCall <=> c.op \in {"all", "named"}
<1>1. img \in Images => Secs \cup {0} \subseteq Nat
  BY SecsAreNumbered
<1> QED
  BY <1>1 DEF Call, SectionCall, Ops

\* What the scans walk is a list of sections.
LEMMA RowIsList ==
  ASSUME img \in Images, order \in Seq(Secs), NEW c, c.op = "all" \/ c.want \in DOMAIN HashOf
  PROVE  Row(c) \in Seq(Nat)
<1>1. CASE c.op = "all"
  <2>1. order \in Seq(Nat)
    BY SecsAreNumbered
  <2> QED
    BY <1>1, <2>1 DEF Row
<1>2. CASE c.op # "all"
  <2>1. NamedTable(NameTable) /\ c.want \in DOMAIN HashOf
    BY <1>2, NameTableIsNamed
  <2>2. Listed(c.want) \in Seq(Nat)
    BY <2>1, NamedReached DEF Listed
  <2> QED
    BY <1>2, <2>2 DEF Row
<1> QED
  BY <1>1, <1>2

\* The stack of the client is that of the scans of sections.
LEMMA ScansAreSeen == Inv /\ ScansInv => ClientScans = ScansOf(Seen, calls)
<1> SUFFICES ASSUME Inv, ScansInv PROVE ClientScans = ScansOf(Seen, calls)
  OBVIOUS
<1> DEFINE S == {c \in Call : CallInv(c)}
<1>1. calls \in Seq(S)
  <2>1. calls \in Seq(Call) /\ \A i \in DOMAIN calls : CallInv(calls[i])
    BY DEF Inv, CallsInv
  <2>2. \A i \in DOMAIN calls : calls[i] \in S
    BY <2>1
  <2> HIDE DEF S
  <2> QED
    BY <2>1, <2>2
<1>2. ASSUME NEW c \in S, c \in SectionCall PROVE ScanLeft(c) = Left(c)
  <2>1. c.op = "named" => names = NameTable
    BY <1>2 DEF CallInv, ScansInv
  <2>2. CASE c.op = "all"
    BY <2>2 DEF ScanLeft, Left, Row
  <2>3. CASE c.op # "all"
    <3>1. names = NameTable
      BY <1>2, <2>1, <2>3 DEF SectionCall
    <3> QED
      BY <2>3, <3>1 DEF ScanLeft, Left, Row, Listed
  <2> QED
    BY <2>2, <2>3
<1> HIDE DEF S
<1>3. SectionCalls \in Seq(S \cap SectionCall)
  BY <1>1, ThoseType DEF SectionCalls
<1>4. \A i \in DOMAIN SectionCalls : SectionCalls[i] \in S \cap SectionCall
  BY <1>3
<1>5. \A i \in DOMAIN SectionCalls :
        [name |-> SectionCalls[i].want, left |-> ScanLeft(SectionCalls[i])] = Seen[SectionCalls[i]]
  BY <1>2, <1>4 DEF Seen
<1>6. ClientScans = Mapped(Seen, SectionCalls)
  BY <1>5 DEF ClientScans, Mapped
<1> QED
  BY <1>6 DEF ScansOf, SectionCalls

\* It is a list, which a scan of sections goes to the front of.
LEMMA SeenInFront ==
  ASSUME img \in Images, NEW F, NEW cs \in Seq(Call), NEW d \in Call
  PROVE  /\ ScansOf(F, cs) \in Seq({F[c] : c \in SectionCall})
         /\ ScansOf(F, <<d>> \o cs) = IF d.op \in {"all", "named"} THEN <<F[d]>> \o ScansOf(F, cs)
                                      ELSE ScansOf(F, cs)
<1>1. PICK s : s = Those(cs, SectionCall)
  OBVIOUS
<1>2. s \in Seq(SectionCall)
  <2>1. Those(cs, SectionCall) \in Seq(Call \cap SectionCall)
    BY ThoseType
  <2> QED
    BY <1>1, <2>1
<1>3. ScansOf(F, cs) = Mapped(F, s)
  BY <1>1 DEF ScansOf
<1>4. ScansOf(F, cs) \in Seq({F[c] : c \in SectionCall})
  BY <1>2, <1>3 DEF Mapped
<1>5. Those(<<d>> \o cs, SectionCall) = IF d \in SectionCall THEN <<d>> \o s ELSE s
  BY <1>1, ThoseInFront
<1>6. CASE d.op \in {"all", "named"}
  <2>1. d \in SectionCall
    BY <1>6, SectionCallsAreCalls
  <2>2. ScansOf(F, <<d>> \o cs) = Mapped(F, <<d>> \o s)
    BY <1>5, <2>1 DEF ScansOf
  <2>3. Mapped(F, <<d>> \o s) = <<F[d]>> \o Mapped(F, s)
    BY <1>2, <2>1, MappedInFront, SMTT(30)
  <2> QED
    BY <1>3, <1>4, <1>6, <2>2, <2>3
<1>7. CASE d.op \notin {"all", "named"}
  <2>1. d \notin SectionCall
    BY <1>7, SectionCallsAreCalls
  <2>2. ScansOf(F, <<d>> \o cs) = Mapped(F, s)
    BY <1>5, <2>1 DEF ScansOf
  <2> QED
    BY <1>3, <1>4, <1>7, <2>2
<1> QED
  BY <1>6, <1>7

\* Without scans the client sees none.
LEMMA NothingSeen == \A F : ScansOf(F, <<>>) = <<>>
<1>1. <<>> \in Seq(Call)
  OBVIOUS
<1>2. Those(<<>>, SectionCall) = <<>>
  BY <1>1, ThoseType
<1> QED
  BY <1>2 DEF ScansOf, Mapped

\* What depends on the file and the order only stays with them.
LEMMA SameRows ==
  ASSUME img' = img, order' = order
  PROVE  /\ Seen' = Seen /\ NameTable' = NameTable
         /\ \A c : Row(c)' = Row(c) /\ Left(c)' = Left(c) /\ WalkInv(c)' = WalkInv(c)
<1>1. NameTable' = NameTable
  BY DEF NameTable
<1>2. \A k : Listed(k)' = Listed(k)
  BY <1>1 DEF Listed
<1>3. \A c : Row(c)' = Row(c)
  BY <1>2 DEF Row
<1>4. \A c : Left(c)' = Left(c)
  BY <1>3 DEF Left
<1>5. \A c : WalkInv(c)' = WalkInv(c)
  BY <1>3 DEF WalkInv
<1>6. Seen' = Seen
  BY <1>4 DEF Seen
<1> QED
  BY <1>1, <1>3, <1>4, <1>5, <1>6

-----------------------------------------------------------------------------
(* Where scans begin and go on.                                            *)

\* A scan is pushed, at the first of what it walks.
Entered(c) ==
  \E d \in Call : /\ d.op = c.op /\ d.want = c.want /\ calls' = <<d>> \o calls
                  /\ WalkInv(d)
                  /\ c.op \in {"all", "named"} => Left(d) = Row(d)

LEMMA EnterPushes ==
  ASSUME Inv, NEW c \in Call, NEW t, c.op \notin {"all", "named"} => c.sec \in Secs,
         c.op = "named" => t = NameTable /\ c.want \in DOMAIN HashOf, Enter(c, t)
  PROVE  Entered(c)
<1>1. PICK n : n = IF Stops(c, t) = {} THEN 0 ELSE Min(Stops(c, t))
  OBVIOUS
<1>2. PICK d : d = [c EXCEPT !.at = n]
  OBVIOUS
<1>3. calls' = <<d>> \o calls
  BY <1>1, <1>2 DEF Enter
<1>4. img \in Images /\ order \in Seq(Secs) /\ c.op \in Ops
  BY DEF Inv, PhaseInv, Call
<1>5. n \in Nat
  <2>1. c.op = "named" => NamedTable(t)
    BY <1>4, NameTableIsNamed
  <2>2. Stops(c, t) \subseteq Nat
    BY <1>4, <2>1, StopsAreIndices
  <2> QED
    BY <1>1, <2>2, MinIsIn
<1>6. d \in Call /\ d.op = c.op /\ d.want = c.want /\ d.at = n
  BY <1>2, <1>5, CallAt
<1>7. Row(d) = Row(c)
  BY <1>6 DEF Row
<1>8. CASE c.op \notin {"all", "named"}
  <2>1. d \notin SectionCall
    BY <1>6, <1>8 DEF SectionCall
  <2> QED
    BY <1>3, <1>6, <1>8, <2>1 DEF WalkInv, Entered
<1>9. CASE c.op \in {"all", "named"}
  <2>1. Stops(c, t) = DOMAIN Row(c)
    <3>1. CASE c.op = "all"
      BY <3>1 DEF Stops, Row
    <3>2. CASE c.op = "named"
      BY <3>2 DEF Stops, Row, Listed
    <3> QED
      BY <1>9, <3>1, <3>2
  <2>2. PICK r : r = Row(c)
    OBVIOUS
  <2>3. r \in Seq(Nat)
    BY <1>4, <1>9, <2>2, RowIsList
  <2>4. n = IF DOMAIN r = {} THEN 0 ELSE Min(DOMAIN r)
    BY <1>1, <2>1, <2>2
  <2>5. /\ n # 0 => n \in DOMAIN r
        /\ (IF n = 0 THEN <<>> ELSE SubSeq(r, n, Len(r))) = r
    BY <2>3, <2>4, FirstStop
  <2>6. Left(d) = Row(d)
    BY <1>6, <1>7, <2>2, <2>5 DEF Left
  <2>7. WalkInv(d)
    BY <1>6, <1>7, <2>2, <2>5 DEF WalkInv
  <2> QED
    BY <1>3, <1>6, <2>6, <2>7 DEF Entered
<1> QED
  BY <1>8, <1>9

-----------------------------------------------------------------------------
(* The steps keep the invariant.                                           *)

\* A scan in front of others that called their callbacks.
LEMMA PushKeepsScans ==
  ASSUME img' = img, order' = order, names' = NoTable \/ names' = NameTable,
         NEW d \in Call, WalkInv(d), NEW below \in Seq(Call),
         \A i \in DOMAIN below : WalkInv(below[i]) /\ below[i].at # 0,
         calls' = <<d>> \o below
  PROVE  ScansInv'
<1>1. /\ calls' \in Seq(Call) /\ Len(calls') = Len(below) + 1 /\ calls'[1] = d
      /\ \A i \in 2 .. Len(below) + 1 : calls'[i] = below[i - 1]
  OBVIOUS
<1>2. \A c : WalkInv(c)' = WalkInv(c) /\ NameTable' = NameTable
  BY SameRows
<1>3. ASSUME NEW i \in DOMAIN calls', i # 1
      PROVE  i - 1 \in DOMAIN below /\ calls'[i] = below[i - 1]
  <2>1. i \in 1 .. Len(below) + 1 /\ Len(below) \in Nat
    BY <1>1
  <2>2. i \in 2 .. Len(below) + 1 /\ i - 1 \in 1 .. Len(below)
    BY <1>3, <2>1
  <2> QED
    BY <1>1, <2>2
<1>4. ASSUME NEW i \in DOMAIN calls'
      PROVE  WalkInv(calls'[i]) /\ (i # 1 => calls'[i].at # 0)
  BY <1>1, <1>3
<1>5. \A i \in DOMAIN calls' : WalkInv(calls[i])'
  <2> SUFFICES ASSUME NEW i \in DOMAIN calls' PROVE WalkInv(calls[i])'
    OBVIOUS
  <2>1. PICK c : c = calls'[i]
    OBVIOUS
  <2>2. WalkInv(c)'
    BY <1>2, <1>4, <2>1
  <2> QED
    BY <2>1, <2>2, SameRows DEF WalkInv
<1> QED
  BY <1>2, <1>4, <1>5 DEF ScansInv

\* The scans stay, or the innermost returns.
LEMMA LessKeepsScans ==
  ASSUME Inv, ScansInv, img' = img, order' = order, names' = NoTable \/ names' = NameTable,
         calls' = calls \/ (calls # <<>> /\ calls' = Tail(calls))
  PROVE  ScansInv'
<1>1. calls \in Seq(Call)
  BY DEF Inv, CallsInv
<1>2. ASSUME NEW i \in DOMAIN calls'
      PROVE  WalkInv(calls'[i]) /\ (i # 1 => calls'[i].at # 0)
  <2>1. CASE calls' = calls
    BY <1>2, <2>1 DEF ScansInv
  <2>2. CASE calls # <<>> /\ calls' = Tail(calls)
    <3>1. i + 1 \in DOMAIN calls /\ i + 1 # 1 /\ calls'[i] = calls[i + 1]
      BY <1>1, <1>2, <2>2
    <3> QED
      BY <3>1 DEF ScansInv
  <2> QED
    BY <2>1, <2>2
<1>3. NameTable' = NameTable
  BY SameRows
<1>4. \A i \in DOMAIN calls' : WalkInv(calls[i])'
  <2> SUFFICES ASSUME NEW i \in DOMAIN calls' PROVE WalkInv(calls[i])'
    OBVIOUS
  <2>1. PICK c : c = calls'[i]
    OBVIOUS
  <2>2. WalkInv(c)'
    BY <1>2, <2>1, SameRows
  <2> QED
    BY <2>1, <2>2, SameRows DEF WalkInv
<1> QED
  BY <1>2, <1>3, <1>4 DEF ScansInv

\* No scan is in progress when the order of the sections changes.
LEMMA NoScansKeepScans ==
  ASSUME names' = NoTable, calls' = <<>>
  PROVE  ScansInv'
BY DEF ScansInv

\* A step that the scans of sections do not notice.
Idle == UNCHANGED <<img, order, names, calls>>

LEMMA IdleKeepsScans ==
  ASSUME Inv, ScansInv, Idle
  PROVE  ScansInv'
<1>1. img' = img /\ order' = order /\ names' = names /\ calls' = calls
  BY DEF Idle
<1> QED
  BY <1>1, LessKeepsScans DEF ScansInv

\* Which steps those are.
Unnoticed ==
  \/ LoadFailsEarly \/ LoadFails \/ LoadWild \/ Forget
  \/ \E h \in Secs : ScanNothing(h) \/ NoteSecScan(h)
  \/ \E h \in Secs : \E offset \in Offsets : SecQueryReloc(h, offset) /\ calls' = calls
  \/ UNCHANGED vars

LEMMA UnnoticedIsIdle ==
  ASSUME Unnoticed
  PROVE  Idle
<1>1. CASE LoadFailsEarly \/ LoadFails \/ LoadWild \/ Forget
  BY <1>1 DEF LoadFailsEarly, LoadFails, LoadWild, Forget, Idle
<1>2. ASSUME NEW h \in Secs, ScanNothing(h) \/ NoteSecScan(h) PROVE Idle
  BY <1>2 DEF ScanNothing, NoteSecScan, Idle
<1>3. ASSUME NEW h \in Secs, NEW offset \in Offsets, SecQueryReloc(h, offset), calls' = calls
      PROVE  Idle
  BY <1>3 DEF SecQueryReloc, Idle
<1>4. CASE UNCHANGED vars
  BY <1>4 DEF vars, Idle
<1> QED
  BY <1>1, <1>2, <1>3, <1>4 DEF Unnoticed

\* A scan begins when no other waits for it to be called.
LEMMA Waiting ==
  ASSUME Inv, ScansInv, CanCall
  PROVE  /\ calls \in Seq(Call)
         /\ \A i \in DOMAIN calls : WalkInv(calls[i]) /\ calls[i].at # 0
<1>1. calls \in Seq(Call)
  BY DEF Inv, CallsInv
<1>2. ASSUME NEW i \in DOMAIN calls PROVE calls[i].at # 0
  <2>1. CASE i = 1
    BY <1>1, <2>1 DEF CanCall
  <2>2. CASE i # 1
    BY <2>2 DEF ScansInv
  <2> QED
    BY <2>1, <2>2
<1> QED
  BY <1>1, <1>2 DEF ScansInv

\* What a scan that begins does to the stack and to the names.
LEMMA FileScanPushes ==
  ASSUME Inv, ScansInv, NEW name \in DOMAIN HashOf \cup {ANY}, FileScan(name)
  PROVE  /\ UNCHANGED <<img, phase, order, result>> /\ phase = "open"
         /\ names' = NoTable \/ names' = NameTable
         /\ \E d \in Call : /\ d.op = (IF name = ANY THEN "all" ELSE "named") /\ d.want = name
                            /\ calls' = <<d>> \o calls
                            /\ WalkInv(d) /\ Left(d) = Row(d)
<1>1. UNCHANGED <<img, phase, order>> /\ phase = "open"
  BY DEF FileScan, CanCall
<1>2. CASE name = ANY
  <2>1. PICK c : c = Scan("all", 0, ANY, TRUE)
    OBVIOUS
  <2>2. names' = names /\ Enter(c, names)
    BY <1>2, <2>1 DEF FileScan
  <2>3. c \in Call /\ c.op = "all" /\ c.want = ANY
    BY <2>1 DEF Scan, Call, Ops
  <2>4. result' = result /\ Entered(c)
    BY <2>2, <2>3, EnterPushes DEF Enter
  <2> QED
    BY <1>1, <1>2, <2>2, <2>3, <2>4 DEF ScansInv, Entered
<1>3. CASE name # ANY
  <2>1. PICK c, t : c = Scan("named", 0, name, TRUE) /\ t = NameTable
    OBVIOUS
  <2>2. names' = t /\ Enter(c, t) /\ name \in DOMAIN HashOf
    BY <1>3, <2>1 DEF FileScan, ScansInv
  <2>3. c \in Call /\ c.op = "named" /\ c.want = name
    BY <2>1, <2>2 DEF Scan, Call, Ops
  <2>4. result' = result /\ Entered(c)
    BY <2>1, <2>2, <2>3, EnterPushes DEF Enter
  <2> QED
    BY <1>1, <1>3, <2>1, <2>2, <2>3, <2>4 DEF Entered
<1> QED
  BY <1>2, <1>3

LEMMA FileScanKeepsScans ==
  ASSUME Inv, ScansInv, NEW name \in DOMAIN HashOf \cup {ANY}, FileScan(name)
  PROVE  ScansInv'
<1>1. /\ img' = img /\ order' = order /\ (names' = NoTable \/ names' = NameTable)
      /\ \E d \in Call : calls' = <<d>> \o calls /\ WalkInv(d)
  BY FileScanPushes
<1>2. PICK d \in Call : calls' = <<d>> \o calls /\ WalkInv(d)
  BY <1>1
<1>3. /\ calls \in Seq(Call)
      /\ \A i \in DOMAIN calls : WalkInv(calls[i]) /\ calls[i].at # 0
  BY Waiting DEF FileScan
<1> QED
  BY <1>1, <1>2, <1>3, PushKeepsScans

\* A scan of symbols or of relocations begins.
OtherScan ==
  \/ \E h \in Secs : SymbolSecScan(h) \/ RelocSecScan(h) \/ SecScanReloc(h)
  \/ \E h \in Secs : \E offset \in Offsets : SecQueryReloc(h, offset) /\ calls' # calls

LEMMA OtherScanPushes ==
  ASSUME Inv, OtherScan
  PROVE  /\ CanCall /\ UNCHANGED <<img, order, names>>
         /\ \E d \in Call : d.op \notin {"all", "named"} /\ calls' = <<d>> \o calls /\ WalkInv(d)
<1>1. img \in Images
  BY DEF Inv, PhaseInv
<1>2. ASSUME NEW c \in Call, c.op \notin {"all", "named"}, c.sec \in Secs, Enter(c, names)
      PROVE  \E d \in Call : d.op \notin {"all", "named"} /\ calls' = <<d>> \o calls /\ WalkInv(d)
  <2>1. Entered(c)
    BY <1>2, EnterPushes
  <2> QED
    BY <1>2, <2>1 DEF Entered
<1>3. ASSUME NEW h \in Secs, SymbolSecScan(h)
      PROVE  /\ CanCall /\ UNCHANGED <<img, order, names>>
             /\ \E c \in Call : /\ c.op \notin {"all", "named"} /\ c.sec \in Secs
                               /\ Enter(c, names)
  <2>1. PICK c : c = Scan("symbols", h, ANY, TRUE)
    OBVIOUS
  <2>2. c \in Call /\ c.op = "symbols" /\ c.sec = h
    BY <2>1 DEF Scan, Call, Ops
  <2> QED
    BY <1>3, <2>1, <2>2 DEF SymbolSecScan
<1>4. ASSUME NEW h \in Secs, RelocSecScan(h)
      PROVE  /\ CanCall /\ UNCHANGED <<img, order, names>>
             /\ \E c \in Call : /\ c.op \notin {"all", "named"} /\ c.sec \in Secs
                               /\ Enter(c, names)
  <2>1. PICK c : c = Scan("relocs", h, ANY, HasRelocs(h))
    OBVIOUS
  <2>2. c \in Call /\ c.op = "relocs" /\ c.sec = h
    BY <2>1 DEF Scan, Call, Ops, HasRelocs
  <2> QED
    BY <1>4, <2>1, <2>2 DEF RelocSecScan
<1>5. ASSUME NEW h \in Secs, SecScanReloc(h)
      PROVE  /\ CanCall /\ UNCHANGED <<img, order, names>>
             /\ \E c \in Call : /\ c.op \notin {"all", "named"} /\ c.sec \in Secs
                               /\ Enter(c, names)
  <2>1. PICK r : r = RelocSec(h)
    OBVIOUS
  <2>2. PICK c : c = Scan("relocs", r, ANY, HasRelocs(r))
    OBVIOUS
  <2>3. /\ CanCall /\ UNCHANGED <<img, order, names>> /\ r # 0 /\ Enter(c, names)
    BY <1>5, <2>1, <2>2 DEF SecScanReloc
  <2>4. r \in Secs
    BY <1>1, <2>1, <2>3, RelocSecIsFor
  <2>5. c \in Call /\ c.op = "relocs" /\ c.sec = r
    BY <2>2, <2>4 DEF Scan, Call, Ops, HasRelocs
  <2> QED
    BY <2>3, <2>4, <2>5
<1>6. ASSUME NEW h \in Secs, NEW offset \in Offsets, SecQueryReloc(h, offset), calls' # calls
      PROVE  /\ CanCall /\ UNCHANGED <<img, order, names>>
             /\ \E c \in Call : /\ c.op \notin {"all", "named"} /\ c.sec \in Secs
                               /\ Enter(c, names)
  <2>1. PICK r : r = RelocSec(h)
    OBVIOUS
  <2>2. PICK c : c = Scan("query", r, offset, TRUE)
    OBVIOUS
  <2>3. /\ CanCall /\ UNCHANGED <<img, order, names>> /\ r # 0 /\ Enter(c, names)
    BY <1>6, <2>1, <2>2 DEF SecQueryReloc
  <2>4. r \in Secs
    BY <1>1, <2>1, <2>3, RelocSecIsFor
  <2>5. c \in Call /\ c.op = "query" /\ c.sec = r
    BY <2>2, <2>4 DEF Scan, Call, Ops
  <2> QED
    BY <2>3, <2>4, <2>5
<1>7. /\ CanCall /\ UNCHANGED <<img, order, names>>
      /\ \E c \in Call : /\ c.op \notin {"all", "named"} /\ c.sec \in Secs
                        /\ Enter(c, names)
  BY <1>3, <1>4, <1>5, <1>6 DEF OtherScan
<1> QED
  BY <1>2, <1>7

LEMMA OtherScanKeepsScans ==
  ASSUME Inv, ScansInv, OtherScan
  PROVE  ScansInv'
<1>1. /\ CanCall /\ img' = img /\ order' = order /\ names' = names
      /\ \E d \in Call : calls' = <<d>> \o calls /\ WalkInv(d)
  BY OtherScanPushes
<1>2. PICK d \in Call : calls' = <<d>> \o calls /\ WalkInv(d)
  BY <1>1
<1>3. /\ calls \in Seq(Call)
      /\ \A i \in DOMAIN calls : WalkInv(calls[i]) /\ calls[i].at # 0
  BY <1>1, Waiting
<1>4. names' = NoTable \/ names' = NameTable
  BY <1>1 DEF ScansInv
<1> QED
  BY <1>1, <1>2, <1>3, <1>4, PushKeepsScans

\* What an answer does to the stack: the innermost scan goes on to the next of
\* what it walks, or is taken away.
GoesOn(a) ==
  /\ a = "OKAY" /\ result' = result
  /\ \E d \in Call : /\ d.op = calls[1].op /\ d.want = calls[1].want
                     /\ calls' = <<d>> \o Tail(calls)
                     /\ WalkInv(d) /\ d.at # 0
                     /\ d.op \in {"all", "named"} =>
                          Len(Left(calls[1])) > 1 /\ Left(d) = Tail(Left(calls[1]))

Returns(a) ==
  /\ calls' = Tail(calls) /\ result' = a
  /\ calls[1].op \in {"all", "named"} /\ a = "OKAY" => ~(Len(Left(calls[1])) > 1)

LEMMA AnswerMoves ==
  ASSUME Inv, ScansInv, NEW a \in {"OKAY", STOP}, Answer(a)
  PROVE  /\ UNCHANGED <<img, phase, order, names>> /\ phase = "open" /\ calls # <<>>
         /\ calls[1].op \in {"all", "named"} => Left(calls[1]) # <<>>
         /\ GoesOn(a) \/ Returns(a)
<1>1. /\ UNCHANGED <<img, phase, order, names>> /\ phase = "open" /\ calls # <<>>
      /\ img \in Images /\ order \in Seq(Secs) /\ calls \in Seq(Call) /\ 1 \in DOMAIN calls
  <2>1. calls \in Seq(Call) /\ calls # <<>>
    BY DEF Answer, Inv, CallsInv
  <2> QED
    BY <2>1 DEF Answer, Inv, PhaseInv
<1>2. PICK c \in Call : c = calls[1]
  BY <1>1
<1>3. CallInv(c) /\ WalkInv(c) /\ c.at # 0
  BY <1>1, <1>2 DEF Inv, CallsInv, ScansInv, Answer
<1>4. PICK later : later = {i \in Stops(c, names) : i > c.at}
  OBVIOUS
<1>5. IF a = "OKAY" /\ later # {}
      THEN calls' = <<[c EXCEPT !.at = Min(later)]>> \o Tail(calls) /\ result' = result
      ELSE calls' = Tail(calls) /\ result' = a
  BY <1>2, <1>4 DEF Answer
<1>6. PICK n : n = Min(later)
  OBVIOUS
<1>7. PICK d : d = [c EXCEPT !.at = n]
  OBVIOUS
<1>8. n \in Nat => d \in Call /\ d.op = c.op /\ d.want = c.want /\ d.at = n
  BY <1>7, CallAt
<1>9. CASE c.op \notin {"all", "named"}
  <2>1. later # {} => n \in Nat /\ n # 0
    <3>1. Stops(c, names) \subseteq Nat \ {0}
      <4>1. c.op \in Ops
        BY DEF Call
      <4>2. c.sec \in Secs
        <5>1. symbols \subseteq Secs
          BY DEF Inv, TablesInv
        <5> QED
          BY <1>3, <1>9, <4>1, <5>1 DEF CallInv, Ops
      <4> QED
        BY <1>1, <1>9, <4>1, <4>2, StopsAreIndices
    <3>2. later \subseteq Nat \ {0}
      BY <1>4, <3>1
    <3> QED
      BY <1>6, <3>2, MinIsIn
  <2>2. n \in Nat => WalkInv(d)
    BY <1>8, <1>9 DEF WalkInv, SectionCall
  <2>3. CASE a = "OKAY" /\ later # {}
    <3>1. calls' = <<d>> \o Tail(calls) /\ result' = result
      BY <1>5, <1>6, <1>7, <2>3
    <3>2. GoesOn(a)
      BY <1>2, <1>8, <1>9, <2>1, <2>2, <2>3, <3>1 DEF GoesOn
    <3> QED
      BY <1>1, <1>2, <1>9, <3>2
  <2>4. CASE ~(a = "OKAY" /\ later # {})
    <3>1. Returns(a)
      BY <1>2, <1>5, <1>9, <2>4 DEF Returns
    <3> QED
      BY <1>1, <1>2, <1>9, <3>1
  <2> QED
    BY <2>3, <2>4
<1>10. CASE c.op \in {"all", "named"}
  <2>1. c \in SectionCall /\ c.op \in {"all", "named"}
    BY <1>1, <1>10, SectionCallsAreCalls
  <2>2. PICK r : r = Row(c)
    OBVIOUS
  <2>3. r \in Seq(Nat)
    BY <1>1, <1>3, <2>1, <2>2, RowIsList DEF CallInv
  <2>4. Stops(c, names) = DOMAIN r
    <3>1. c.op = "named" => names = NameTable
      BY <1>3 DEF CallInv, ScansInv
    <3> QED
      BY <2>1, <2>2, <3>1 DEF Stops, Row, Listed
  <2>5. PICK m : m = c.at
    OBVIOUS
  <2>6. m \in DOMAIN r
    BY <1>3, <2>1, <2>2, <2>5 DEF WalkInv
  <2>7. later = {i \in DOMAIN r : i > m}
    BY <1>4, <2>4, <2>5
  <2>8. /\ SubSeq(r, m, Len(r)) # <<>>
        /\ later # {} <=> Len(SubSeq(r, m, Len(r))) > 1
        /\ later # {} => /\ Min(later) \in DOMAIN r /\ Min(later) # 0
                         /\ SubSeq(r, Min(later), Len(r)) = Tail(SubSeq(r, m, Len(r)))
    BY <2>3, <2>6, <2>7, NextStop
  <2>9. Left(c) = SubSeq(r, m, Len(r))
    BY <1>3, <2>2, <2>5 DEF Left
  <2>10. DOMAIN r \subseteq Nat
    BY <2>3
  <2>11. CASE a = "OKAY" /\ later # {}
    <3>1. calls' = <<d>> \o Tail(calls) /\ result' = result
      BY <1>5, <1>6, <1>7, <2>11
    <3>2. n \in DOMAIN r /\ n \in Nat /\ n # 0
      BY <1>6, <2>8, <2>10, <2>11
    <3>3. Row(d) = r
      BY <1>8, <2>2, <3>2 DEF Row
    <3>4. Left(d) = SubSeq(r, n, Len(r))
      BY <1>8, <3>2, <3>3 DEF Left
    <3>5. Left(d) = Tail(Left(c)) /\ Len(Left(c)) > 1
      BY <1>6, <2>8, <2>9, <2>11, <3>4
    <3>6. WalkInv(d)
      BY <1>8, <3>2, <3>3 DEF WalkInv
    <3>7. GoesOn(a)
      BY <1>2, <1>8, <2>11, <3>1, <3>2, <3>5, <3>6 DEF GoesOn
    <3> QED
      BY <1>1, <1>2, <2>8, <2>9, <3>7
  <2>12. CASE ~(a = "OKAY" /\ later # {})
    <3>1. Returns(a)
      BY <1>2, <1>5, <2>8, <2>9, <2>12 DEF Returns
    <3> QED
      BY <1>1, <1>2, <2>8, <2>9, <3>1
  <2> QED
    BY <2>11, <2>12
<1> QED
  BY <1>9, <1>10

LEMMA AnswerKeepsScans ==
  ASSUME Inv, ScansInv, NEW a \in {"OKAY", STOP}, Answer(a)
  PROVE  ScansInv'
<1>1. /\ img' = img /\ order' = order /\ names' = names /\ calls # <<>>
      /\ GoesOn(a) \/ Returns(a)
  BY AnswerMoves
<1>2. names' = NoTable \/ names' = NameTable
  BY <1>1 DEF ScansInv
<1>3. CASE GoesOn(a)
  <2>1. PICK d \in Call : calls' = <<d>> \o Tail(calls) /\ WalkInv(d)
    BY <1>3 DEF GoesOn
  <2>2. /\ Tail(calls) \in Seq(Call)
        /\ \A i \in DOMAIN Tail(calls) : i + 1 \in DOMAIN calls /\ i + 1 # 1
                                         /\ Tail(calls)[i] = calls[i + 1]
    <3>1. calls \in Seq(Call)
      BY DEF Inv, CallsInv
    <3> QED
      BY <1>1, <3>1
  <2>3. \A i \in DOMAIN Tail(calls) : WalkInv(Tail(calls)[i]) /\ Tail(calls)[i].at # 0
    BY <2>2 DEF ScansInv
  <2> QED
    BY <1>1, <1>2, <2>1, <2>2, <2>3, PushKeepsScans
<1>4. CASE Returns(a)
  BY <1>1, <1>2, <1>4, LessKeepsScans DEF Returns
<1> QED
  BY <1>1, <1>3, <1>4

\* Every step keeps the invariant.
LEMMA ScansInvStep == Inv /\ ScansInv /\ [Next]_vars => ScansInv'
<1> SUFFICES ASSUME Inv, ScansInv, [Next]_vars PROVE ScansInv'
  OBVIOUS
<1>1. CASE Unnoticed
  BY <1>1, UnnoticedIsIdle, IdleKeepsScans
<1>2. CASE Load
  <2>1. names' = NoTable /\ calls' = <<>>
    BY <1>2 DEF Load, Inv, PhaseInv
  <2> QED
    BY <2>1, NoScansKeepScans
<1>3. CASE Close
  <2>1. names' = NoTable /\ calls' = <<>>
    BY <1>3 DEF Close
  <2> QED
    BY <2>1, NoScansKeepScans
<1>4. ASSUME NEW name \in DOMAIN HashOf \cup {ANY}, FileScan(name) PROVE ScansInv'
  BY <1>4, FileScanKeepsScans
<1>5. CASE OtherScan
  BY <1>5, OtherScanKeepsScans
<1>6. CASE ReturnUncalled
  <2>1. /\ img' = img /\ order' = order /\ names' = names
        /\ calls # <<>> /\ calls' = Tail(calls)
    BY <1>6 DEF ReturnUncalled
  <2> QED
    BY <2>1, LessKeepsScans DEF ScansInv
<1>7. ASSUME NEW a \in {"OKAY", STOP}, Answer(a) PROVE ScansInv'
  BY <1>7, AnswerKeepsScans
<1> QED
  BY <1>1, <1>2, <1>3, <1>4, <1>5, <1>6, <1>7 DEF Next, Unnoticed, OtherScan

\* The sections are ordered while the file is open.
LEMMA OrderInvStep == Inv /\ OrderInv /\ [Next]_vars => OrderInv'
<1> SUFFICES ASSUME Inv, OrderInv, [Next]_vars PROVE OrderInv'
  OBVIOUS
<1>1. CASE Load
  <2>1. img \in Images /\ phase' = "open" /\ order' \in [1 .. Len(img.secs) -> Secs]
    BY <1>1 DEF Inv, PhaseInv, Load, Sorted
  <2>2. Len(img.secs) \in Nat /\ Len(img.secs) # 0
    <3>1. img.secs \in Seq(Range(img.secs)) /\ img.secs # <<>>
      BY <2>1, ImagesAssumption
    <3> QED
      BY <3>1
  <2>3. order' # <<>>
    BY <2>1, <2>2
  <2> QED
    BY <2>1, <2>3 DEF OrderInv
<1>2. CASE Close
  BY <1>2 DEF Close, OrderInv
<1>3. CASE order' = order /\ (phase' \in {"closed", "open"} => phase' = phase)
  BY <1>3 DEF OrderInv
<1>4. ASSUME Unnoticed PROVE order' = order /\ (phase' \in {"closed", "open"} => phase' = phase)
  <2>1. order' = order
    BY <1>4, UnnoticedIsIdle DEF Idle
  <2>2. CASE LoadFailsEarly \/ LoadFails \/ LoadWild \/ Forget
    BY <2>1, <2>2 DEF LoadFailsEarly, LoadFails, LoadWild, Forget
  <2>3. ASSUME NEW h \in Secs, ScanNothing(h) \/ NoteSecScan(h)
        PROVE  phase' \in {"closed", "open"} => phase' = phase
    BY <2>3 DEF ScanNothing, NoteSecScan, CanCall
  <2>4. ASSUME NEW h \in Secs, NEW offset \in Offsets, SecQueryReloc(h, offset)
        PROVE  phase' \in {"closed", "open"} => phase' = phase
    BY <2>4 DEF SecQueryReloc
  <2>5. CASE UNCHANGED vars
    BY <2>5 DEF vars
  <2> QED
    BY <1>4, <2>1, <2>2, <2>3, <2>4, <2>5 DEF Unnoticed
<1>5. ASSUME OtherScan PROVE order' = order /\ (phase' \in {"closed", "open"} => phase' = phase)
  BY <1>5 DEF OtherScan, SymbolSecScan, RelocSecScan, SecScanReloc, SecQueryReloc
<1>6. ASSUME NEW name \in DOMAIN HashOf \cup {ANY}, FileScan(name)
      PROVE  order' = order /\ phase' = phase
  BY <1>6 DEF FileScan
<1>7. ReturnUncalled => order' = order /\ phase' = phase
  BY DEF ReturnUncalled
<1>8. \A a \in {"OKAY", STOP} : Answer(a) => order' = order /\ phase' = phase
  BY DEF Answer
<1> QED
  BY <1>1, <1>2, <1>3, <1>4, <1>5, <1>6, <1>7, <1>8 DEF Next, Unnoticed, OtherScan

\* The invariant holds in every behaviour.
LEMMA ScansInvHolds == Spec => [](Inv /\ ScansInv /\ OrderInv)
<1>1. Init => ScansInv /\ OrderInv
  BY DEF Init, ScansInv, OrderInv
<1> QED
  BY <1>1, InvHolds, ScansInvStep, OrderInvStep, PTL DEF Spec

-----------------------------------------------------------------------------
(* The refinement: every step is one of the client's view, or none.        *)

\* The stacks of the client, before a step of the same file and after it.
LEMMA ScansNow ==
  ASSUME Inv, ScansInv, Inv', ScansInv', img' = img, order' = order
  PROVE  ClientScans = ScansOf(Seen, calls) /\ ClientScans' = ScansOf(Seen, calls')
<1>1. ClientScans = ScansOf(Seen, calls)
  BY ScansAreSeen
<1>2. (Inv /\ ScansInv => ClientScans = ScansOf(Seen, calls))'
  BY ScansAreSeen, PTL
<1>3. Seen' = Seen
  BY SameRows
<1> QED
  BY <1>1, <1>2, <1>3

\* Without scans it sees none.
LEMMA NoScansSeen == Inv /\ ScansInv /\ calls = <<>> => ClientScans = <<>>
BY ScansAreSeen, NothingSeen

LEMMA NoScansNow ==
  ASSUME Inv, ScansInv, Inv', ScansInv', calls = <<>>, calls' = <<>>
  PROVE  ClientScans = <<>> /\ ClientScans' = <<>>
<1>1. ClientScans = <<>>
  BY NoScansSeen
<1>2. (Inv /\ ScansInv /\ calls = <<>> => ClientScans = <<>>)'
  BY NoScansSeen, PTL
<1> QED
  BY <1>1, <1>2

\* The client sees in the innermost scan of sections what it has left.
LEMMA TopSeen ==
  ASSUME img \in Images, NEW c \in Call, c.op \in {"all", "named"}
  PROVE  Seen[c] = [name |-> c.want, left |-> Left(c)]
BY SectionCallsAreCalls DEF Seen

\* The steps that scans do not notice.
LEMMA IdleIsOther ==
  ASSUME Inv, ScansInv, Inv', ScansInv', Idle
  PROVE  Client!Other
<1>1. img' = img /\ order' = order /\ calls' = calls
  BY DEF Idle
<1>2. ClientScans' = ClientScans
  BY <1>1, ScansNow
<1>3. result' \in {"OKAY", "FALSE", "ERROR", STOP}
  BY DEF Inv, PhaseInv
<1> QED
  BY <1>1, <1>2, <1>3 DEF Client!Other

\* A list that is sorted from each element to the next is sorted.
LEMMA SortedList ==
  ASSUME NEW n \in Nat, NEW f, \A i \in 1 .. n : f[i] \in Nat,
         \A i \in 1 .. n - 1 : f[i] <= f[i + 1],
         NEW i \in 1 .. n, NEW j \in 1 .. n, i < j
  PROVE  f[i] <= f[j]
<1> DEFINE T == {d \in Nat : i + d <= n => f[i] <= f[i + d]}
<1>1. 0 \in T
  OBVIOUS
<1>2. ASSUME NEW d \in Nat, d \in T PROVE d + 1 \in T
  <2> SUFFICES ASSUME i + (d + 1) <= n PROVE f[i] <= f[i + (d + 1)]
    OBVIOUS
  <2>1. PICK k \in Nat : k = i + d
    OBVIOUS
  <2>2. k \in 1 .. n - 1 /\ k \in 1 .. n /\ k + 1 \in 1 .. n /\ i + (d + 1) = k + 1 /\ i + d <= n
    BY <2>1
  <2>3. f[i] <= f[k]
    BY <1>2, <2>1, <2>2
  <2>4. f[k] <= f[k + 1] /\ f[i] \in Nat /\ f[k] \in Nat /\ f[k + 1] \in Nat
    BY <2>2
  <2>5. f[i] <= f[k + 1]
    BY <2>3, <2>4
  <2> QED
    BY <2>2, <2>5
<1> HIDE DEF T
<1>3. \A d \in Nat : d \in T
  BY <1>1, <1>2, Induction
<1>4. PICK d \in Nat : d = j - i
  OBVIOUS
<1>5. i + d = j /\ d \in T
  BY <1>3, <1>4
<1> QED
  BY <1>5 DEF T

\* The load leaves the sections in the order of their offsets.
LEMMA LoadIsOpen ==
  ASSUME Inv, ScansInv, OrderInv, Inv', ScansInv', Load
  PROVE  Client!Open
<1>1. /\ img' = img /\ calls' = calls /\ phase = "closed" /\ result' = "OKAY"
      /\ img \in Images /\ calls = <<>> /\ order' \in Sorted
  BY DEF Load, Inv, PhaseInv
<1>2. ClientScans' = ClientScans
  BY <1>1, NoScansNow
<1>3. order = <<>>
  BY <1>1 DEF OrderInv
<1>4. order' \in Client!Layouts
  <2>1. PICK s : s = order'
    OBVIOUS
  <2>2. /\ s \in [1 .. Len(img.secs) -> Secs] /\ IsInjective(s)
        /\ \A i \in 1 .. Len(s) - 1 : img.secs[s[i]].off <= img.secs[s[i + 1]].off
    BY <1>1, <2>1 DEF Sorted
  <2>3. PICK n \in Nat : n = Len(img.secs)
    BY <1>1, SecsAreNumbered
  <2>4. s \in [1 .. n -> Secs] /\ DOMAIN s = 1 .. n /\ Len(s) = n
    BY <2>2, <2>3
  <2>5. PICK f : f = [i \in 1 .. n |-> img.secs[s[i]].off]
    OBVIOUS
  <2>6. \A i \in 1 .. n : f[i] = img.secs[s[i]].off /\ f[i] \in Nat
    BY <1>1, <2>4, <2>5, ImagesAssumption DEF Secs
  <2>7. \A i \in 1 .. n - 1 : f[i] <= f[i + 1]
    <3> SUFFICES ASSUME NEW i \in 1 .. n - 1 PROVE f[i] <= f[i + 1]
      OBVIOUS
    <3>1. i \in 1 .. n /\ i + 1 \in 1 .. n
      BY <2>3
    <3> QED
      BY <2>2, <2>4, <2>6, <3>1
  <2>8. \A i, j \in 1 .. n : i < j => f[i] <= f[j]
    BY <2>6, <2>7, SortedList
  <2>9. \A i, j \in DOMAIN s : i < j => img.secs[s[i]].off <= img.secs[s[j]].off
    BY <2>4, <2>6, <2>8
  <2>10. \A i, j \in DOMAIN s : s[i] = s[j] => i = j
    BY <2>2 DEF IsInjective
  <2>11. s \in [1 .. Len(img.secs) -> Client!Numbers]
    BY <2>2 DEF Client!Numbers, Secs
  <2> QED
    BY <2>1, <2>9, <2>10, <2>11 DEF Client!Layouts
<1> QED
  BY <1>1, <1>2, <1>3, <1>4 DEF Client!Open

LEMMA CloseIsClose ==
  ASSUME Inv, ScansInv, Inv', ScansInv', Close
  PROVE  Client!Close
<1>1. img' = img /\ calls' = calls /\ order' = <<>> /\ result' = "OKAY" /\ calls = <<>>
  BY DEF Close
<1>2. ClientScans' = ClientScans /\ ClientScans = <<>>
  BY <1>1, NoScansNow
<1> QED
  BY <1>1, <1>2 DEF Client!Close

\* What the client wants is what the scan walks.
LEMMA WantedIsWalked ==
  ASSUME img \in Images, order \in Seq(Secs), NEW name \in DOMAIN HashOf \cup {ANY}, NEW d,
         d.op = (IF name = ANY THEN "all" ELSE "named"), d.want = name
  PROVE  Client!Wanted(name) = Row(d)
<1> DEFINE T == {h \in Secs : name = ANY \/ FoldOf[img.secs[h].name] = FoldOf[name]}
<1>1. Client!Wanted(name) = Those(order, T)
  <2>1. {h \in Client!Numbers : name = ANY \/ FoldOf[img.secs[h].name] = FoldOf[name]} = T
    BY DEF Client!Numbers, Secs
  <2>2. \A s, U : Client!Those(s, U) = Those(s, U)
    BY DEF Client!Those, Those
  <2> HIDE DEF T
  <2> QED
    BY <2>1, <2>2 DEF Client!Wanted
<1>2. CASE name = ANY
  <2>1. Secs \subseteq T
    BY <1>2
  <2> HIDE DEF T
  <2>2. Those(order, T) = order
    BY <2>1, ThoseAll
  <2> QED
    BY <1>1, <1>2, <2>2 DEF Row
<1>3. CASE name # ANY
  <2>1. T = Named(name)
    BY <1>3 DEF Named
  <2>2. Listed(name) = Those(order, Named(name))
    BY <1>3, ListedAreNamed
  <2> QED
    BY <1>1, <1>3, <2>1, <2>2 DEF Row
<1> QED
  BY <1>2, <1>3

\* While no scan waits to be called, every one that the client sees has
\* something left.
LEMMA NoneIsOver ==
  ASSUME img \in Images, order \in Seq(Secs), NEW cs \in Seq(Call),
         \A i \in DOMAIN cs : CallInv(cs[i]) /\ WalkInv(cs[i]) /\ cs[i].at # 0
  PROVE  ScansOf(Seen, cs) # <<>> => ScansOf(Seen, cs)[1].left # <<>>
<1> DEFINE S == {c \in Call : CallInv(c) /\ WalkInv(c) /\ c.at # 0}
<1>1. cs \in Seq(S)
  <2>1. \A i \in DOMAIN cs : cs[i] \in S
    OBVIOUS
  <2> HIDE DEF S
  <2> QED
    BY <2>1
<1>2. ASSUME NEW c \in S, c \in SectionCall PROVE Seen[c].left # <<>>
  <2>1. /\ c.op \in {"all", "named"} /\ (c.op = "all" \/ c.want \in DOMAIN HashOf)
    BY <1>2 DEF SectionCall, CallInv
  <2>2. PICK r : r = Row(c)
    OBVIOUS
  <2>3. r \in Seq(Nat)
    BY <2>1, <2>2, RowIsList
  <2>4. PICK n : n = c.at
    OBVIOUS
  <2>5. n \in DOMAIN r
    BY <1>2, <2>2, <2>4 DEF WalkInv
  <2>6. PICK L : L = {i \in DOMAIN r : i > n}
    OBVIOUS
  <2>7. SubSeq(r, n, Len(r)) # <<>>
    BY <2>3, <2>5, <2>6, NextStop
  <2>8. Left(c) # <<>>
    BY <1>2, <2>2, <2>4, <2>7 DEF Left
  <2>9. c \in Call
    BY <1>2
  <2> HIDE DEF S
  <2>10. Seen[c] = [name |-> c.want, left |-> Left(c)]
    BY <2>1, <2>9, TopSeen
  <2> QED
    BY <2>8, <2>10
<1> HIDE DEF S
<1>3. PICK s : s = Those(cs, SectionCall)
  OBVIOUS
<1>4. s \in Seq(S \cap SectionCall)
  BY <1>1, <1>3, ThoseType
<1>5. ScansOf(Seen, cs) = [i \in DOMAIN s |-> Seen[s[i]]]
  BY <1>3 DEF ScansOf, Mapped
<1>6. CASE s = <<>>
  BY <1>5, <1>6
<1>7. CASE s # <<>>
  <2>1. 1 \in DOMAIN s /\ s[1] \in S \cap SectionCall
    BY <1>4, <1>7
  <2> QED
    BY <1>2, <1>5, <2>1
<1> QED
  BY <1>6, <1>7

LEMMA FileScanIsBegin ==
  ASSUME Inv, ScansInv, OrderInv, Inv', ScansInv',
         NEW name \in DOMAIN HashOf \cup {ANY}, FileScan(name)
  PROVE  Client!Begin(name)
<1>1. /\ UNCHANGED <<img, order, result>> /\ phase = "open"
      /\ \E d \in Call : /\ d.op = (IF name = ANY THEN "all" ELSE "named") /\ d.want = name
                         /\ calls' = <<d>> \o calls /\ Left(d) = Row(d)
  BY FileScanPushes
<1>2. PICK d \in Call : /\ d.op = (IF name = ANY THEN "all" ELSE "named") /\ d.want = name
                        /\ calls' = <<d>> \o calls /\ Left(d) = Row(d)
  BY <1>1
<1>3. img \in Images /\ order \in Seq(Secs) /\ calls \in Seq(Call)
  BY DEF Inv, PhaseInv, CallsInv
<1>4. ClientScans = ScansOf(Seen, calls) /\ ClientScans' = ScansOf(Seen, calls')
  BY <1>1, ScansNow
<1>5. PICK F : F = Seen
  OBVIOUS
<1>6. ScansOf(F, <<d>> \o calls) = <<F[d]>> \o ScansOf(F, calls)
  <2>1. d.op \in {"all", "named"}
    BY <1>2
  <2> QED
    BY <1>3, <2>1, SeenInFront
<1>7. F[d] = [name |-> name, left |-> Client!Wanted(name)]
  <2>1. F[d] = [name |-> d.want, left |-> Left(d)]
    BY <1>2, <1>3, <1>5, TopSeen
  <2>2. Client!Wanted(name) = Row(d)
    BY <1>1, <1>2, <1>3, WantedIsWalked
  <2> QED
    BY <1>2, <2>1, <2>2
<1>8. ClientScans' = <<[name |-> name, left |-> Client!Wanted(name)]>> \o ClientScans
  BY <1>2, <1>4, <1>5, <1>6, <1>7
<1>9. order # <<>>
  BY <1>1 DEF OrderInv
<1>10. ClientScans # <<>> => ClientScans[1].left # <<>>
  <2>1. \A i \in DOMAIN calls : CallInv(calls[i]) /\ WalkInv(calls[i]) /\ calls[i].at # 0
    BY Waiting DEF FileScan, Inv, CallsInv
  <2> QED
    BY <1>3, <1>4, <2>1, NoneIsOver
<1> QED
  BY <1>1, <1>8, <1>9, <1>10 DEF Client!Begin

LEMMA OtherScanIsOther ==
  ASSUME Inv, ScansInv, Inv', ScansInv', OtherScan
  PROVE  Client!Other
<1>1. /\ UNCHANGED <<img, order>>
      /\ \E d \in Call : d.op \notin {"all", "named"} /\ calls' = <<d>> \o calls
  BY OtherScanPushes
<1>2. PICK d \in Call : d.op \notin {"all", "named"} /\ calls' = <<d>> \o calls
  BY <1>1
<1>3. ClientScans = ScansOf(Seen, calls) /\ ClientScans' = ScansOf(Seen, calls')
  BY <1>1, ScansNow
<1>4. PICK F : F = Seen
  OBVIOUS
<1>5. ScansOf(F, <<d>> \o calls) = ScansOf(F, calls)
  <2>1. img \in Images /\ calls \in Seq(Call)
    BY DEF Inv, PhaseInv, CallsInv
  <2> QED
    BY <1>2, <2>1, SeenInFront
<1>6. ClientScans' = ClientScans
  BY <1>2, <1>3, <1>4, <1>5
<1>7. result' \in {"OKAY", "FALSE", "ERROR", STOP}
  BY DEF Inv, PhaseInv
<1> QED
  BY <1>1, <1>6, <1>7 DEF Client!Other

\* The stack of the client without and with its innermost scan.
LEMMA StackSeen ==
  ASSUME Inv, calls # <<>>, NEW F, F = Seen
  PROVE  /\ calls[1] \in Call /\ Tail(calls) \in Seq(Call)
         /\ ScansOf(F, calls) = IF calls[1].op \in {"all", "named"}
                                THEN <<F[calls[1]]>> \o ScansOf(F, Tail(calls))
                                ELSE ScansOf(F, Tail(calls))
         /\ ScansOf(F, Tail(calls)) \in Seq({F[c] : c \in SectionCall})
<1>1. img \in Images /\ calls \in Seq(Call)
  BY DEF Inv, PhaseInv, CallsInv
<1>2. PICK c, t : c = calls[1] /\ t = Tail(calls)
  OBVIOUS
<1>3. calls = <<c>> \o t /\ c \in Call /\ t \in Seq(Call)
  BY <1>1, <1>2, Uppermost
<1>4. /\ ScansOf(F, t) \in Seq({F[b] : b \in SectionCall})
      /\ ScansOf(F, <<c>> \o t) = IF c.op \in {"all", "named"} THEN <<F[c]>> \o ScansOf(F, t)
                                  ELSE ScansOf(F, t)
  BY <1>1, <1>3, SeenInFront
<1> QED
  BY <1>2, <1>3, <1>4

\* A step that takes the innermost scan away, or moves it, where that is none
\* of sections.
LEMMA SymbolsAreOther ==
  ASSUME Inv, ScansInv, Inv', ScansInv', UNCHANGED <<img, order>>, calls # <<>>,
         calls[1].op \notin {"all", "named"},
         \/ calls' = Tail(calls)
         \/ \E d \in Call : d.op = calls[1].op /\ calls' = <<d>> \o Tail(calls)
  PROVE  Client!Other
<1>1. ClientScans = ScansOf(Seen, calls) /\ ClientScans' = ScansOf(Seen, calls')
  BY ScansNow
<1>2. PICK F : F = Seen
  OBVIOUS
<1>3. PICK t : t = Tail(calls)
  OBVIOUS
<1>4. t \in Seq(Call) /\ ScansOf(F, calls) = ScansOf(F, t)
  BY <1>2, <1>3, StackSeen
<1>5. ScansOf(F, calls') = ScansOf(F, t)
  <2>1. CASE calls' = Tail(calls)
    BY <1>3, <2>1
  <2>2. CASE \E d \in Call : d.op = calls[1].op /\ calls' = <<d>> \o Tail(calls)
    <3>1. PICK d \in Call : d.op \notin {"all", "named"} /\ calls' = <<d>> \o t
      BY <1>3, <2>2
    <3>2. ScansOf(F, <<d>> \o t) = ScansOf(F, t)
      BY <1>4, <3>1, SeenInFront DEF Inv, PhaseInv
    <3> QED
      BY <3>1, <3>2
  <2> QED
    BY <2>1, <2>2
<1>6. ClientScans' = ClientScans
  BY <1>1, <1>2, <1>4, <1>5
<1>7. result' \in {"OKAY", "FALSE", "ERROR", STOP}
  BY DEF Inv, PhaseInv
<1> QED
  BY <1>6, <1>7 DEF Client!Other

LEMMA ReturnUncalledIsSeen ==
  ASSUME Inv, ScansInv, Inv', ScansInv', ReturnUncalled
  PROVE  Client!ReturnUncalled \/ Client!Other
<1>1. /\ UNCHANGED <<img, order>> /\ calls # <<>> /\ calls[1].at = 0
      /\ calls' = Tail(calls) /\ result' = "OKAY" /\ img \in Images
  BY DEF ReturnUncalled, Inv, PhaseInv
<1>2. CASE calls[1].op \notin {"all", "named"}
  BY <1>1, <1>2, SymbolsAreOther
<1>3. CASE calls[1].op \in {"all", "named"}
  <2>1. ClientScans = ScansOf(Seen, calls) /\ ClientScans' = ScansOf(Seen, calls')
    BY <1>1, ScansNow
  <2>2. PICK F : F = Seen
    OBVIOUS
  <2>3. PICK c, rest, S : /\ c = calls[1] /\ rest = ScansOf(F, Tail(calls))
                          /\ S = {F[b] : b \in SectionCall}
    OBVIOUS
  <2>4. c \in Call /\ ScansOf(F, calls) = <<F[c]>> \o rest /\ rest \in Seq(S)
    BY <1>1, <1>3, <2>2, <2>3, StackSeen
  <2>5. F[c] \in S
    BY <1>1, <1>3, <2>3, <2>4, SectionCallsAreCalls
  <2>6. F[c].left = <<>>
    <3>1. F[c] = [name |-> c.want, left |-> Left(c)]
      BY <1>1, <1>3, <2>2, <2>3, <2>4, TopSeen
    <3>2. Left(c) = <<>>
      BY <1>1, <2>3 DEF Left
    <3> QED
      BY <3>1, <3>2
  <2>7. PICK x : x = F[c]
    OBVIOUS
  <2>8. /\ <<x>> \o rest # <<>> /\ (<<x>> \o rest)[1] = x /\ Tail(<<x>> \o rest) = rest
    BY <2>4, <2>5, <2>7, FrontOf
  <2>9. ClientScans # <<>> /\ ClientScans[1].left = <<>> /\ ClientScans' = Tail(ClientScans)
    BY <1>1, <2>1, <2>2, <2>3, <2>4, <2>6, <2>7, <2>8
  <2> QED
    BY <1>1, <2>9 DEF Client!ReturnUncalled
<1> QED
  BY <1>2, <1>3

LEMMA AnswerIsSeen ==
  ASSUME Inv, ScansInv, Inv', ScansInv', NEW a \in {"OKAY", STOP}, Answer(a)
  PROVE  Client!Return(a) \/ Client!Other
<1>1. /\ UNCHANGED <<img, phase, order, names>> /\ phase = "open" /\ calls # <<>>
      /\ calls[1].op \in {"all", "named"} => Left(calls[1]) # <<>>
      /\ GoesOn(a) \/ Returns(a)
      /\ img \in Images
  BY AnswerMoves DEF Inv, PhaseInv
<1>2. CASE calls[1].op \notin {"all", "named"}
  <2>1. \/ calls' = Tail(calls)
        \/ \E d \in Call : d.op = calls[1].op /\ calls' = <<d>> \o Tail(calls)
    BY <1>1 DEF GoesOn, Returns
  <2> QED
    BY <1>1, <1>2, <2>1, SymbolsAreOther
<1>3. CASE calls[1].op \in {"all", "named"}
  <2>1. ClientScans = ScansOf(Seen, calls) /\ ClientScans' = ScansOf(Seen, calls')
    BY <1>1, ScansNow
  <2>2. PICK F : F = Seen
    OBVIOUS
  <2>3. PICK c, t, rest, S : /\ c = calls[1] /\ t = Tail(calls) /\ rest = ScansOf(F, t)
                             /\ S = {F[b] : b \in SectionCall}
    OBVIOUS
  <2>4. /\ c \in Call /\ t \in Seq(Call)
        /\ ScansOf(F, calls) = <<F[c]>> \o rest /\ rest \in Seq(S)
    BY <1>1, <1>3, <2>2, <2>3, StackSeen
  <2>5. PICK x : x = F[c]
    OBVIOUS
  <2>6. x \in S
    BY <1>1, <1>3, <2>3, <2>4, <2>5, SectionCallsAreCalls
  <2>7. x = [name |-> c.want, left |-> Left(c)] /\ Left(c) # <<>>
    BY <1>1, <1>3, <2>2, <2>3, <2>4, <2>5, TopSeen
  <2>8. /\ <<x>> \o rest # <<>> /\ (<<x>> \o rest)[1] = x /\ Tail(<<x>> \o rest) = rest
        /\ \A y \in S : [<<x>> \o rest EXCEPT ![1] = y] = <<y>> \o rest
    BY <2>4, <2>6, FrontOf
  <2>9. ClientScans = <<x>> \o rest
    BY <2>1, <2>2, <2>4, <2>5
  <2>10. ClientScans # <<>> /\ ClientScans[1] = x
    BY <2>8, <2>9
  <2>11. CASE GoesOn(a)
    <3>1. PICK d \in Call : /\ d.op = c.op /\ d.want = c.want /\ calls' = <<d>> \o t
                            /\ Len(Left(c)) > 1 /\ Left(d) = Tail(Left(c))
      BY <1>3, <2>3, <2>11 DEF GoesOn
    <3>2. a = "OKAY" /\ result' = result
      BY <2>11 DEF GoesOn
    <3>3. PICK y : y = F[d]
      OBVIOUS
    <3>4. d.op \in {"all", "named"}
      BY <1>3, <2>3, <3>1
    <3>5. ScansOf(F, <<d>> \o t) = <<y>> \o rest
      BY <1>1, <2>3, <2>4, <3>1, <3>3, <3>4, SeenInFront
    <3>6. y \in S /\ y = [name |-> c.want, left |-> Tail(Left(c))]
      <4>1. y \in S
        BY <1>1, <2>3, <3>1, <3>3, <3>4, SectionCallsAreCalls
      <4> QED
        BY <1>1, <2>2, <3>1, <3>3, <3>4, <4>1, TopSeen
    <3>7. ClientScans' = [ClientScans EXCEPT ![1] = y]
      BY <2>1, <2>2, <2>8, <2>9, <3>1, <3>5, <3>6
    <3>8. [ClientScans EXCEPT ![1].left = Tail(@)] = [ClientScans EXCEPT ![1] = y]
      <4>1. PICK p, q : p = c.want /\ q = Left(c)
        OBVIOUS
      <4>2. x = [name |-> p, left |-> q] /\ y = [name |-> p, left |-> Tail(q)]
        BY <2>7, <3>6, <4>1
      <4>3. \A u : [[name |-> p, left |-> q] EXCEPT !.left = u] = [name |-> p, left |-> u]
        OBVIOUS
      <4>4. [x EXCEPT !.left = Tail(x.left)] = y
        <5>1. x.left = q
          BY <4>2
        <5> QED
          BY <4>2, <4>3, <5>1
      <4> QED
        BY <2>10, <4>4
    <3>9. Len(ClientScans[1].left) > 1 /\ ClientScans[1].left # <<>>
      BY <2>7, <2>10, <3>1
    <3> QED
      BY <1>1, <2>10, <3>2, <3>7, <3>8, <3>9 DEF Client!Return
  <2>12. CASE Returns(a)
    <3>1. calls' = t /\ result' = a /\ (a = "OKAY" => ~(Len(Left(c)) > 1))
      BY <1>3, <2>3, <2>12 DEF Returns
    <3>2. ClientScans' = Tail(ClientScans)
      BY <2>1, <2>2, <2>3, <2>8, <2>9, <3>1
    <3>3. ClientScans[1].left = Left(c)
      BY <2>7, <2>10
    <3> QED
      BY <1>1, <2>7, <2>10, <3>1, <3>2, <3>3 DEF Client!Return
  <2> QED
    BY <1>1, <2>11, <2>12
<1> QED
  BY <1>2, <1>3

\* Every step is one of the client's view.
LEMMA StepIsSeen ==
  ASSUME Inv, ScansInv, OrderInv, Inv', ScansInv', [Next]_vars
  PROVE  Client!Next
<1>1. CASE Unnoticed
  BY <1>1, UnnoticedIsIdle, IdleIsOther DEF Client!Next
<1>2. CASE Load
  BY <1>2, LoadIsOpen DEF Client!Next
<1>3. CASE Close
  BY <1>3, CloseIsClose DEF Client!Next
<1>4. ASSUME NEW name \in DOMAIN HashOf \cup {ANY}, FileScan(name) PROVE Client!Next
  <2>1. Client!Begin(name)
    BY <1>4, FileScanIsBegin
  <2>2. name \in DOMAIN FoldOf \cup {ANY}
    BY NamesAssumption
  <2> QED
    BY <2>1, <2>2 DEF Client!Next
<1>5. CASE OtherScan
  BY <1>5, OtherScanIsOther DEF Client!Next
<1>6. CASE ReturnUncalled
  BY <1>6, ReturnUncalledIsSeen DEF Client!Next
<1>7. ASSUME NEW a \in {"OKAY", STOP}, Answer(a) PROVE Client!Next
  <2>1. Client!Return(a) \/ Client!Other
    BY <1>7, AnswerIsSeen
  <2> QED
    BY <2>1 DEF Client!Next
<1> QED
  BY <1>1, <1>2, <1>3, <1>4, <1>5, <1>6, <1>7 DEF Next, Unnoticed, OtherScan

\* The client sees nothing at first.
LEMMA InitIsSeen == Init => Client!Init
<1> SUFFICES ASSUME Init PROVE Client!Init
  OBVIOUS
<1>1. Inv /\ ScansInv
  BY InvInit DEF Init, ScansInv
<1>2. ClientScans = <<>>
  BY <1>1, ScansAreSeen, NothingSeen DEF Init
<1> QED
  BY <1>2 DEF Init, Client!Init

-----------------------------------------------------------------------------
(* The theorem.                                                            *)

\* Whatever a client does from within its callbacks, every scan of sections of
\* an ELF file calls it for the sections of the name it asked for, in the order
\* of their offsets, and for no other, and the answer that is not ORL_OKAY ends
\* it.
THEOREM ScansAreServed == Spec => ImplementsSectionScans
<1>1. Inv /\ ScansInv /\ OrderInv /\ [Next]_vars /\ Inv' /\ ScansInv' => [Client!Next]_Client!vars
  BY StepIsSeen
<1> QED
  BY <1>1, InitIsSeen, ScansInvHolds, PTL DEF Spec, ImplementsSectionScans, Client!Spec

=============================================================================
