--------------------------- MODULE CoffFileProofs ---------------------------
(***************************************************************************)
(* Theorems about CoffFile for every set of images, every hash function    *)
(* and every depth of callbacks: line numbers are converted once, files    *)
(* that are cut off are refused, and what a file does not give back is     *)
(* what its loads left behind.  And CoffFile implements SectionScans: a    *)
(* scan of the sections of a COFF file, found through the hash table of    *)
(* their names and nested in any other scans, visits the sections of the   *)
(* name in their order.                                                    *)
(***************************************************************************)
EXTENDS CoffFile, DataLemmas, TLAPS

\* The lemmas of the hash table, for the table of this file.
HP == INSTANCE OrlHashProofs
        WITH Keys <- DOMAIN HashOf, Datas <- Nat, Size <- HashSize,
             MaxBlocks <- 0, table <- names, blocks <- 0, answer <- <<>>

-----------------------------------------------------------------------------
(* The inductive invariant.                                                *)

\* A string table that is where it is looked for, and was left out.
Expected == img.symoff # 0 /\ img.strs # 0 /\ BufEnd = Off(StrTab)
LeftOut == loads[Len(loads)] = "no_size" \/ BufEnd = img.eof

\* What the last load has found; no scan and no table outlives its file.
PhaseInv ==
  /\ img \in Images
  /\ phase \in {"closed", "open"} \cup Undefined
  /\ strings \in {"none", "read", "inside"}
  /\ result \in {"OKAY", "FALSE", "ERROR", STOP}
  /\ loads \in Seq(Outcomes)
  /\ phase = "closed" => NothingBuilt /\ calls = <<>>
  /\ phase = "open" =>
       /\ RestInFile
       /\ strings = "read" => BufEnd = Off(StrTab) /\ BufEnd + 1 + img.strs <= img.eof
       /\ strings = "none" /\ Expected => LeftOut
  /\ phase = "wild_name" /\ Expected => LeftOut
  /\ \A i \in DOMAIN heard : heard[i].note \in img.notes

\* What was built of the tables.
TablesInv ==
  /\ symbols \in BOOLEAN /\ (symbols => NumSymbols # 0)
  /\ relocs \subseteq RelocSecs
  /\ done \subseteq Secs
  /\ NumSymbols # 0 /\ done \cup relocs # {} => symbols
  /\ lines = [h \in Secs |-> IF h \in done THEN Based(img.secs[h].lines)
                             ELSE img.secs[h].lines]

\* A hash table of section names, in which every name is where it belongs.
NamedTable(t) ==
  /\ t \in [HP!Buckets -> Seq(HP!Entry)]
  /\ \A b \in HP!Buckets : HP!Good(b, t[b])

NamesInv == names = NoTable \/ NamedTable(names)

\* What a scan in progress walks is there.
CallInv(c) ==
  /\ c.op = "named" => c.want \in DOMAIN HashOf /\ names # NoTable
  /\ c.op = "symbols" /\ c.at # 0 => symbols

CallsInv == calls \in Seq(Call) /\ \A i \in DOMAIN calls : CallInv(calls[i])

Inv ==
  /\ PhaseInv /\ TablesInv /\ NamesInv /\ CallsInv
  /\ blocks \in Nat /\ EveryBlockReached

-----------------------------------------------------------------------------
(* Lemmas about the operators of the model.                                *)

\* The operators of the table are those that OrlHashProofs is about.
LEMMA SameHash ==
  /\ \A s, k, d : Hash!Inserted(s, k, d) = HP!Inserted(s, k, d)
  /\ \A s, k : Hash!Lookup(s, k) = HP!Lookup(s, k)
  /\ \A t : Hash!Reached(t) = HP!Reached(t)
<1>1. \A s, k : Hash!Matches(s, k) = HP!Matches(s, k)
  BY DEF Hash!Matches, HP!Matches
<1>2. \A s, k : Hash!Found(s, k) = HP!Found(s, k)
  BY <1>1 DEF Hash!Found, HP!Found
<1>3. \A e, d : Hash!WithData(e, d) = HP!WithData(e, d)
  BY DEF Hash!WithData, HP!WithData
<1>4. \A s, k, d : Hash!Inserted(s, k, d) = HP!Inserted(s, k, d)
  BY <1>1, <1>2, <1>3 DEF Hash!Inserted, HP!Inserted
<1>5. \A s, k : Hash!Lookup(s, k) = HP!Lookup(s, k)
  BY <1>1, <1>2 DEF Hash!Lookup, HP!Lookup
<1>6. \A f : Hash!SumFunction(f) = HP!SumFunction(f)
  BY DEF Hash!SumFunction, Hash!SumFunctionOnSet, Hash!FoldFunctionOnSet,
         HP!SumFunction, HP!SumFunctionOnSet, HP!FoldFunctionOnSet, Hash!MapThenFoldSet, HP!MapThenFoldSet
<1>7. \A t : Hash!Reached(t) = HP!Reached(t)
  BY <1>6 DEF Hash!Reached, HP!Reached, Hash!Buckets, HP!Buckets
<1> QED
  BY <1>4, <1>5, <1>7

\* The assumptions of OrlHash hold of this table.
LEMMA HashAssumptions ==
  /\ HashSize \in Nat \ {0}
  /\ HashOf \in [DOMAIN HashOf -> HP!Buckets]
  /\ DOMAIN FoldOf = DOMAIN HashOf
  /\ \A j, k \in DOMAIN HashOf : FoldOf[j] = FoldOf[k] => HashOf[j] = HashOf[k]
  /\ NoTable \notin [HP!Buckets -> Seq(HP!Entry)]
BY NamesAssumption DEF HP!Buckets, HP!Entry

\* A name and a section go into a bucket that stays good.
LEMMA NamedInserted ==
  ASSUME NEW t, NamedTable(t), NEW k \in DOMAIN HashOf, NEW d \in Nat
  PROVE  NamedTable([t EXCEPT ![HashOf[k]] = Hash!Inserted(@, k, d)])
<1> DEFINE b == HashOf[k]
           s == HP!Inserted(t[b], k, d)
<1>1. b \in HP!Buckets /\ t[b] \in Seq(HP!Entry) /\ HP!Good(b, t[b])
  BY HashAssumptions DEF NamedTable
<1>2. s \in Seq(HP!Entry) /\ HP!Good(b, s)
  BY <1>1, HP!InsertedGood, HashAssumptions
<1>3. [t EXCEPT ![HashOf[k]] = Hash!Inserted(@, k, d)] = [t EXCEPT ![b] = s]
  BY SameHash
<1> HIDE DEF b, s
<1>4. [t EXCEPT ![b] = s] \in [HP!Buckets -> Seq(HP!Entry)]
  BY <1>1, <1>2 DEF NamedTable
<1>5. \A c \in HP!Buckets : HP!Good(c, [t EXCEPT ![b] = s][c])
  BY <1>1, <1>2 DEF NamedTable
<1> QED
  BY <1>3, <1>4, <1>5 DEF NamedTable

\* What the table holds is a number of blocks; a lookup is a list of sections.
LEMMA NamedReached ==
  ASSUME NEW t, NamedTable(t)
  PROVE  /\ Hash!Reached(t) \in Nat
         /\ t # NoTable
         /\ \A k \in DOMAIN HashOf : Hash!Lookup(t[HashOf[k]], k) \in Seq(Nat)
<1>1. t \in [HP!Buckets -> Seq(HP!Entry)]
  BY DEF NamedTable
<1>2. HP!Reached(t) \in Nat
  BY <1>1, HP!ReachedIsNat, HashAssumptions
<1>3. ASSUME NEW k \in DOMAIN HashOf
      PROVE  Hash!Lookup(t[HashOf[k]], k) \in Seq(Nat)
  <2>1. HashOf[k] \in HP!Buckets
    BY HashAssumptions
  <2>2. t[HashOf[k]] \in Seq(HP!Entry) /\ HP!Good(HashOf[k], t[HashOf[k]])
    BY <2>1 DEF NamedTable
  <2>3. HP!Lookup(t[HashOf[k]], k) \in Seq(Nat)
    BY <2>2, HP!LookupType, HashAssumptions
  <2> QED
    BY <2>3, SameHash
<1> QED
  BY <1>1, <1>2, <1>3, SameHash, HashAssumptions


\* What depends on the file only stays with the file.
LEMMA SameFile ==
  ASSUME img' = img
  PROVE  /\ Secs' = Secs /\ RelocSecs' = RelocSecs /\ Handles' = Handles
         /\ NumSymbols' = NumSymbols /\ SymbolBlocks' = SymbolBlocks
         /\ BufEnd' = BufEnd /\ Off(StrTab)' = Off(StrTab) /\ RestInFile' = RestInFile
         /\ StrTab' = StrTab /\ Heads' = Heads
         /\ LinesInFile' = LinesInFile
<1>1. /\ Secs' = Secs /\ RelocSecs' = RelocSecs /\ Handles' = Handles /\ StrTab' = StrTab
      /\ NumSymbols' = NumSymbols /\ SymTab' = SymTab /\ Heads' = Heads
  BY DEF Secs, RelocSecs, RelocSec, Relocated, Handles, SymTab, StrTab, NumSymbols, Heads
<1>2. SymbolBlocks' = SymbolBlocks
  BY <1>1 DEF SymbolBlocks
<1>3. \A h : OrigSec(h)' = OrigSec(h)
  BY DEF OrigSec, Relocated, RelocSec, Secs
<1>4. \A h : Off(h)' = Off(h) /\ SizeOf(h)' = SizeOf(h)
  BY <1>1, <1>3 DEF Off, SizeOf
<1>5. BufEnd' = BufEnd
  BY <1>1, <1>4 DEF BufEnd
<1>6. Off(StrTab)' = Off(StrTab)
  BY <1>1, <1>4 DEF Off
<1>7. RestInFile' = RestInFile
  BY <1>5 DEF RestInFile
<1> QED
  BY <1>1, <1>2, <1>5, <1>6, <1>7 DEF LinesInFile

\* The lines of a section should be the same.
LEMMA SameLines ==
  ASSUME img' = img
  PROVE  \A t : Based(t)' = Based(t)
<1>1. \A i : Follower(i)' = Follower(i) /\ BfFollows(i)' = BfFollows(i)
  BY SameFile DEF Follower, BfFollows
<1>2. \A t, i : Starts(t, i)' = Starts(t, i)
  BY <1>1 DEF Starts
<1>3. \A t, i : BaseLine(t, i)' = BaseLine(t, i)
  BY <1>1, <1>2 DEF BaseLine
<1> QED
  BY <1>3 DEF Based

\* The parts of the assumption on the files.
LEMMA FilesAreTyped ==
  ASSUME NEW f \in Images
  PROVE  /\ f.secs \in Seq(Range(f.secs)) /\ f.syms \in Seq(Range(f.syms))
         /\ f.hdr \in Nat /\ f.symoff \in Nat /\ f.strs \in Nat /\ f.eof \in Nat
BY ImagesAssumption

LEMMA SymbolsAreTyped ==
  ASSUME NEW f \in Images
  PROVE  /\ \A i \in DOMAIN f.syms :
              f.syms[i].value \in Nat /\ f.syms[i].aux \in Nat /\ f.syms[i].line \in Nat
         /\ \A i \in HeadsOf(f) : i + f.syms[i].aux <= Len(f.syms) /\ (i = 1 => ~f.syms[i].bf)
BY ImagesAssumption

LEMMA SectionsAreTyped ==
  ASSUME NEW f \in Images, NEW i \in DOMAIN f.secs
  PROVE  /\ f.secs[i].name \in DOMAIN HashOf
         /\ f.secs[i].off \in Nat /\ f.secs[i].size \in Nat
         /\ f.secs[i].relocs \in Nat /\ f.secs[i].reloff \in Nat
         /\ f.secs[i].lines \in Seq([num : LineNumbers, ref : Nat])
         /\ \A j \in DOMAIN f.secs[i].lines :
              f.secs[i].lines[j].num = 0 => f.secs[i].lines[j].ref \in HeadsOf(f)
BY ImagesAssumption

\* The symbols of a file up to n that are not auxiliary, as HeadsOf finds them.
IsHeads(f, n, u) ==
  u = [i \in 0 .. n |->
         IF i = 0 THEN {}
         ELSE IF i = 1 \/ \E j \in u[i - 1] : j + f.syms[j].aux + 1 = i
         THEN u[i - 1] \cup {i} ELSE u[i - 1]]

\* The recursion of HeadsOf defines a function.
LEMMA HeadsExist == \A f : \A n \in Nat : \E u : IsHeads(f, n, u)
<1> TAKE f
<1> DEFINE T == {n \in Nat : \E u : IsHeads(f, n, u)}
           W(v, i) == IF i = 0 THEN {}
                      ELSE IF i = 1 \/ \E j \in v[i - 1] : j + f.syms[j].aux + 1 = i
                      THEN v[i - 1] \cup {i} ELSE v[i - 1]
<1>1. 0 \in T
  <2> DEFINE u == [i \in 0 .. 0 |-> {}]
  <2>1. IsHeads(f, 0, u)
    BY DEF IsHeads
  <2> QED
    BY <2>1
<1>2. ASSUME NEW n \in Nat, n \in T PROVE n + 1 \in T
  <2>1. PICK u : IsHeads(f, n, u)
    BY <1>2
  <2> DEFINE v == [i \in 0 .. n + 1 |-> W(u, i)]
  <2>2. ASSUME NEW i \in 0 .. n + 1 PROVE W(u, i) = W(v, i)
    <3>1. CASE i = 0
      BY <3>1
    <3>2. CASE i # 0
      <4>1. i - 1 \in 0 .. n /\ i - 1 \in 0 .. n + 1
        BY <3>2
      <4>2. u[i - 1] = W(u, i - 1) /\ v[i - 1] = W(u, i - 1)
        BY <2>1, <4>1 DEF IsHeads
      <4>3. u[i - 1] = v[i - 1]
        BY <4>2
      <4> QED
        BY <3>2, <4>3
    <3> QED
      BY <3>1, <3>2
  <2>3. v = [i \in 0 .. n + 1 |-> W(v, i)]
    BY <2>2
  <2>4. IsHeads(f, n + 1, v)
    BY <2>3 DEF IsHeads
  <2> QED
    BY <2>4
<1> HIDE DEF T
<1>3. Nat \subseteq T
  BY <1>1, <1>2, Induction
<1> QED
  BY <1>3 DEF T

\* A chain of symbols up to n: each but the first follows another, and none
\* is among the auxiliary entries of another.
Chain(f, n, U) ==
  /\ U \subseteq 1 .. n
  /\ \A k \in U : k # 1 => \E j \in U : j + f.syms[j].aux + 1 = k
  /\ \A j \in U : j + f.syms[j].aux + 1 <= n => j + f.syms[j].aux + 1 \in U
  /\ \A j, k \in U : j < k => j + f.syms[j].aux + 1 <= k

\* The symbols of a file are such a chain.
LEMMA HeadsAreAChain ==
  ASSUME NEW f \in Images
  PROVE  HeadsOf(f) = {} \/ Chain(f, Len(f.syms), HeadsOf(f))
<1> DEFINE n == Len(f.syms)
           u == CHOOSE v : IsHeads(f, n, v)
           A(j) == f.syms[j].aux
           T == {i \in Nat : i <= n => Chain(f, i, u[i])}
<1>0. n \in Nat /\ DOMAIN f.syms = 1 .. n
  BY FilesAreTyped
<1>1. \A j \in 1 .. n : A(j) \in Nat
  BY <1>0, SymbolsAreTyped
<1>2. IsHeads(f, n, u)
  BY <1>0, HeadsExist
<1>3. HeadsOf(f) = {} \/ HeadsOf(f) = u[n]
  BY DEF HeadsOf, IsHeads
<1> HIDE DEF u, n
<1>4. 0 \in T
  <2>1. u[0] = {}
    BY <1>0, <1>2 DEF IsHeads
  <2> QED
    BY <2>1 DEF Chain
<1>5. ASSUME NEW i \in Nat, i \in T PROVE i + 1 \in T
  <2> SUFFICES ASSUME i + 1 <= n PROVE Chain(f, i + 1, u[i + 1])
    OBVIOUS
  <2> DEFINE U == u[i]
             V == u[i + 1]
             Follows == i + 1 = 1 \/ \E j \in U : j + A(j) + 1 = i + 1
  <2>1. /\ U \subseteq 1 .. i
        /\ \A k \in U : k # 1 => \E j \in U : j + A(j) + 1 = k
        /\ \A j \in U : j + A(j) + 1 <= i => j + A(j) + 1 \in U
        /\ \A j, k \in U : j < k => j + A(j) + 1 <= k
    BY <1>0, <1>5 DEF Chain
  <2>2. V = IF Follows THEN U \cup {i + 1} ELSE U
    <3>1. i + 1 \in 0 .. n /\ i + 1 # 0 /\ (i + 1) - 1 = i
      BY <1>0
    <3> QED
      BY <1>2, <3>1 DEF IsHeads
  <2> HIDE DEF U, V
  <2>3. \A j \in U : j \in 1 .. n /\ j \in Nat /\ A(j) \in Nat
    BY <1>0, <1>1, <2>1
  <2>4. V \subseteq 1 .. i + 1
    <3> HIDE DEF A, Follows
    <3>1. U \subseteq 1 .. i + 1 /\ i + 1 \in 1 .. i + 1
      BY <2>1
    <3> QED
      BY <2>2, <3>1
  <2>5. ASSUME NEW k \in V, k # 1 PROVE \E j \in V : j + A(j) + 1 = k
    <3> HIDE DEF A
    <3> QED
      BY <2>1, <2>2, <2>5
  <2>6. ASSUME NEW j \in V, j + A(j) + 1 <= i + 1 PROVE j + A(j) + 1 \in V
    <3>1. j \in 1 .. n /\ A(j) \in Nat
      BY <1>0, <1>1, <2>4
    <3> HIDE DEF A
    <3>2. j # i + 1
      BY <2>6, <3>1
    <3>3. j \in U
      BY <2>2, <3>2
    <3>4. CASE j + A(j) + 1 <= i
      BY <2>1, <2>2, <3>3, <3>4
    <3>5. CASE j + A(j) + 1 = i + 1
      BY <2>2, <3>3, <3>5
    <3> QED
      BY <2>6, <3>1, <3>4, <3>5
  <2>7. ASSUME NEW j \in V, NEW k \in V, j < k PROVE j + A(j) + 1 <= k
    <3>1. CASE k \in U
      <4>1. j \in U
        BY <2>1, <2>2, <2>7, <3>1
      <4> QED
        BY <2>1, <2>7, <3>1, <4>1
    <3>2. CASE k \notin U
      <4>1. k = i + 1 /\ Follows
        BY <2>2, <3>2
      <4>2. j \in U /\ i # 0
        BY <2>1, <2>2, <2>7, <4>1
      <4>3. PICK m \in U : m + A(m) + 1 = i + 1
        BY <4>1, <4>2
      <4>4. j \in Nat /\ A(j) \in Nat /\ m \in Nat /\ A(m) \in Nat
        BY <2>3, <4>2
      <4> HIDE DEF A
      <4>5. CASE j = m
        BY <4>1, <4>3, <4>5
      <4>6. CASE j < m
        <5>1. j + A(j) + 1 <= m
          BY <2>1, <4>2, <4>6
        <5> QED
          BY <4>1, <4>3, <4>4, <5>1
      <4>7. CASE m < j
        <5>1. m + A(m) + 1 <= j
          BY <2>1, <4>2, <4>7
        <5>2. j <= i
          BY <2>1, <4>2
        <5> QED
          BY <4>3, <4>4, <5>1, <5>2
      <4> QED
        BY <4>4, <4>5, <4>6, <4>7
    <3> QED
      BY <3>1, <3>2
  <2> QED
    BY <2>4, <2>5, <2>6, <2>7 DEF Chain, V
<1> HIDE DEF T
<1>6. n \in T
  BY <1>0, <1>4, <1>5, Induction
<1>7. Chain(f, n, u[n])
  BY <1>0, <1>6 DEF T
<1> QED
  BY <1>3, <1>7 DEF n

\* A line number is a number, and a sum cut to its bits is a line number.
LEMMA SixteenBits == TwoTo16 \in Nat /\ TwoTo16 > 0
BY SMT DEF TwoTo16

LEMMA LineNumbersWrap ==
  /\ LineNumbers \subseteq Nat
  /\ \A a, b \in Nat : (a + b) % TwoTo16 \in LineNumbers
BY SixteenBits DEF LineNumbers

\* The greatest of a finite set of numbers is one of them, and none is greater.
LEMMA MaxIsGreatest ==
  ASSUME NEW S, IsFiniteSet(S), S \subseteq Nat, S # {}
  PROVE  Max(S) \in S /\ \A k \in S : k <= Max(S)
<1>1. PICK m \in S : \A k \in S : k <= m
  BY GreatestOfFinite
<1>2. \A x, y \in S : x >= y <=> y <= x
  OBVIOUS
<1>3. Max(S) \in S /\ \A k \in S : Max(S) >= k
  BY <1>1, <1>2 DEF Max
<1> QED
  BY <1>2, <1>3

\* The symbols of the file as a chain.
LEMMA HeadsChain ==
  ASSUME img \in Images
  PROVE  /\ Heads \subseteq 1 .. Len(img.syms) /\ Len(img.syms) \in Nat
         /\ DOMAIN img.syms = 1 .. Len(img.syms)
         /\ NumSymbols = 0 => Heads = {}
         /\ \A k \in Heads : k # 1 => \E j \in Heads : j + img.syms[j].aux + 1 = k
         /\ \A j, k \in Heads : j < k => j + img.syms[j].aux + 1 <= k
         /\ \A j \in Heads : img.syms[j].aux \in Nat /\ j + img.syms[j].aux <= Len(img.syms)
         /\ 1 \in Heads => ~img.syms[1].bf
<1>1. Len(img.syms) \in Nat /\ DOMAIN img.syms = 1 .. Len(img.syms)
  BY FilesAreTyped
<1>2. Heads = {} \/ Chain(img, Len(img.syms), Heads)
  BY HeadsAreAChain DEF Heads
<1>3. Heads \subseteq 1 .. Len(img.syms)
  BY <1>2 DEF Chain
<1>4. NumSymbols = 0 => Heads = {}
  <2>1. CASE img.symoff = 0
    BY <2>1 DEF Heads, HeadsOf
  <2>2. CASE img.symoff # 0
    BY <1>1, <1>3, <2>2 DEF NumSymbols
  <2> QED
    BY <2>1, <2>2
<1>5. /\ \A j \in Heads : img.syms[j].aux \in Nat /\ j + img.syms[j].aux <= Len(img.syms)
      /\ 1 \in Heads => ~img.syms[1].bf
  BY <1>1, <1>3, SymbolsAreTyped DEF Heads
<1> QED
  BY <1>1, <1>2, <1>3, <1>4, <1>5 DEF Chain

\* The symbol before the next one is the symbol itself.
LEMMA PrevIsBefore ==
  ASSUME img \in Images, NEW i \in Heads, NEW j \in Heads, j # 1
  PROVE  Prev(j) = i <=> j = Follower(i)
<1> DEFINE A(k) == img.syms[k].aux
           S == {k \in Heads : k < j}
<1>1. /\ Heads \subseteq 1 .. Len(img.syms) /\ Len(img.syms) \in Nat
      /\ \A k \in Heads : A(k) \in Nat /\ k \in Nat
      /\ \A k, l \in Heads : k < l => k + A(k) + 1 <= l
  BY HeadsChain
<1>2. PICK m \in Heads : m + A(m) + 1 = j
  BY HeadsChain
<1>3. Prev(j) = Max(S)
  BY DEF Prev
<1>4. Follower(i) = i + A(i) + 1
  BY DEF Follower
<1> HIDE DEF A
<1>5. m \in S /\ S \subseteq Nat
  <2>1. m \in Nat /\ A(m) \in Nat /\ j \in Nat
    BY <1>1
  <2>2. m < j
    BY <1>2, <2>1
  <2> QED
    BY <1>1, <2>2
<1>6. \A k \in S : k <= m
  <2> SUFFICES ASSUME NEW k \in S, m < k PROVE FALSE
    BY <1>1
  <2>1. m + A(m) + 1 <= k /\ k < j /\ k \in Nat
    BY <1>1
  <2> QED
    BY <1>1, <1>2, <2>1
<1>7. \A x, y \in S : x >= y <=> y <= x
  BY <1>1
<1> HIDE DEF S
<1>8. Max(S) = m
  <2>1. Max(S) \in S /\ \A k \in S : Max(S) >= k
    BY <1>5, <1>6, <1>7 DEF Max
  <2>2. Max(S) <= m /\ m <= Max(S) /\ Max(S) \in Nat /\ m \in Nat
    BY <1>5, <1>6, <1>7, <2>1
  <2> QED
    BY <2>2
<1>9. CASE i = m
  BY <1>2, <1>3, <1>4, <1>8, <1>9
<1>10. CASE i < m
  <2>1. i + A(i) + 1 <= m /\ m < j
    BY <1>1, <1>2, <1>10
  <2> QED
    BY <1>1, <1>3, <1>4, <1>8, <1>10, <2>1
<1>11. CASE m < i
  <2>1. A(i) \in Nat /\ i \in Nat /\ m \in Nat /\ A(m) \in Nat /\ m + A(m) + 1 <= i
    BY <1>1, <1>11
  <2> QED
    BY <1>2, <1>3, <1>4, <1>8, <1>11, <2>1
<1> QED
  BY <1>1, <1>9, <1>10, <1>11

\* has_bf is set if the next symbol is a .bf with auxiliary entries.
LEMMA HasBfIsFollowed ==
  ASSUME img \in Images, NEW i \in Heads
  PROVE  HasBf(i) <=> BfFollows(i)
<1>1. /\ 1 \in Heads => ~img.syms[1].bf
      /\ i \in Nat /\ img.syms[i].aux \in Nat /\ i >= 1
  BY HeadsChain
<1>2. ASSUME HasBf(i) PROVE BfFollows(i)
  <2>1. PICK j \in Heads : img.syms[j].bf /\ img.syms[j].aux >= 1 /\ Prev(j) = i
    BY <1>2 DEF HasBf
  <2>2. j # 1
    BY <1>1, <2>1
  <2>3. j = Follower(i)
    BY <2>1, <2>2, PrevIsBefore
  <2> QED
    BY <2>1, <2>3 DEF BfFollows
<1>3. ASSUME BfFollows(i) PROVE HasBf(i)
  <2>1. Follower(i) # 1
    BY <1>1 DEF Follower
  <2>2. Follower(i) \in Heads /\ img.syms[Follower(i)].bf /\ img.syms[Follower(i)].aux >= 1
    BY <1>3 DEF BfFollows
  <2>3. Prev(Follower(i)) = i
    BY <2>1, <2>2, PrevIsBefore
  <2> QED
    BY <2>2, <2>3 DEF HasBf
<1> QED
  BY <1>2, <1>3

\* The lines of a section, and their references to functions.
FileLines(t) ==
  /\ t \in Seq([num : LineNumbers, ref : Nat])
  /\ \A j \in DOMAIN t : t[j].num = 0 => t[j].ref \in Heads

\* The bases of the entries up to n, as the loop of CoffConvertLines has them.
IsBases(t, n, u) ==
  u = [i \in 0 .. n |->
         IF i = 0 THEN 0
         ELSE IF t[i].num = 0 /\ HasBf(t[i].ref) THEN img.syms[t[i].ref + img.syms[t[i].ref].aux + 2].line
         ELSE u[i - 1]]

\* The recursion of Converted defines a function.
LEMMA BasesExist == \A t : \A n \in Nat : \E u : IsBases(t, n, u)
<1> TAKE t
<1> DEFINE T == {n \in Nat : \E u : IsBases(t, n, u)}
           W(v, i) == IF i = 0 THEN 0
                      ELSE IF t[i].num = 0 /\ HasBf(t[i].ref)
                      THEN img.syms[t[i].ref + img.syms[t[i].ref].aux + 2].line
                      ELSE v[i - 1]
<1>1. 0 \in T
  <2> DEFINE u == [i \in 0 .. 0 |-> 0]
  <2>1. IsBases(t, 0, u)
    BY DEF IsBases
  <2> QED
    BY <2>1
<1>2. ASSUME NEW n \in Nat, n \in T PROVE n + 1 \in T
  <2>1. PICK u : IsBases(t, n, u)
    <3> HIDE DEF W
    <3> QED
      BY <1>2
  <2> HIDE DEF T
  <2>2. u = [i \in 0 .. n |-> W(u, i)]
    BY <2>1 DEF IsBases
  <2>3. PICK v : v = [i \in 0 .. n + 1 |-> W(u, i)]
    OBVIOUS
  <2>4. ASSUME NEW i \in 0 .. n + 1 PROVE W(v, i) = W(u, i)
    <3>1. CASE i = 0
      BY <3>1
    <3>2. CASE i # 0
      <4>1. i - 1 \in 0 .. n /\ i - 1 \in 0 .. n + 1
        BY <3>2
      <4>2. v[i - 1] = u[i - 1]
        <5> HIDE DEF W
        <5> QED
          BY <2>2, <2>3, <4>1
      <4> QED
        BY <3>2, <4>2, Zenon
    <3> QED
      BY <3>1, <3>2
  <2>5. v = [i \in 0 .. n + 1 |-> W(v, i)]
    <3> HIDE DEF W
    <3> QED
      BY <2>3, <2>4, Zenon
  <2>6. IsBases(t, n + 1, v)
    BY <2>5 DEF IsBases
  <2> QED
    BY <2>6 DEF T
<1> HIDE DEF T
<1>3. Nat \subseteq T
  BY <1>1, <1>2, Induction
<1> QED
  BY <1>3 DEF T

\* The base of an entry is the line of the last function that has one.
LEMMA BasesAreLines ==
  ASSUME img \in Images, NEW t, FileLines(t), NEW u, IsBases(t, Len(t), u)
  PROVE  \A i \in 0 .. Len(t) : u[i] = BaseLine(t, i) /\ u[i] \in Nat
<1> DEFINE n == Len(t)
           Starting(i) == t[i].num = 0 /\ BfFollows(t[i].ref)
           Line(i) == img.syms[Follower(t[i].ref) + 1].line
           T == {i \in Nat : i <= n => u[i] = BaseLine(t, i) /\ u[i] \in Nat}
<1>0. n \in Nat /\ DOMAIN t = 1 .. n
  BY DEF FileLines
<1>1. \A i \in 1 .. n : Starting(i) <=> t[i].num = 0 /\ HasBf(t[i].ref)
  BY <1>0, HasBfIsFollowed DEF FileLines
<1>2. ASSUME NEW i \in 1 .. n, Starting(i)
      PROVE  /\ Line(i) \in Nat
             /\ Line(i) = img.syms[t[i].ref + img.syms[t[i].ref].aux + 2].line
  <2> DEFINE r == t[i].ref
             f == Follower(r)
             a == img.syms[r].aux
             b == img.syms[f].aux
  <2>1. r \in Heads /\ f \in Heads /\ b >= 1
    BY <1>0, <1>2 DEF FileLines, BfFollows
  <2>2. /\ r \in Nat /\ a \in Nat /\ b \in Nat /\ f \in Nat /\ f >= 1
        /\ f + b <= Len(img.syms) /\ Len(img.syms) \in Nat
    BY <2>1, HeadsChain
  <2>3. f = r + a + 1
    BY DEF Follower
  <2> HIDE DEF r, f, a, b
  <2>4. f + 1 \in 1 .. Len(img.syms) /\ f + 1 = r + a + 2
    BY <2>1, <2>2, <2>3
  <2>5. img.syms[f + 1].line \in Nat
    BY <2>4, HeadsChain, SymbolsAreTyped
  <2> QED
    BY <2>4, <2>5 DEF r, f, a
<1>3. 0 \in T
  <2>1. u[0] = 0
    BY <1>0 DEF IsBases
  <2>2. Starts(t, 0) = {}
    BY DEF Starts
  <2> QED
    BY <2>1, <2>2 DEF BaseLine
<1>4. ASSUME NEW i \in Nat, i \in T PROVE i + 1 \in T
  <2> SUFFICES ASSUME i + 1 <= n PROVE u[i + 1] = BaseLine(t, i + 1) /\ u[i + 1] \in Nat
    OBVIOUS
  <2>1. i + 1 \in 0 .. n /\ i + 1 \in 1 .. n /\ i + 1 # 0 /\ (i + 1) - 1 = i
    BY <1>0, SMTT(30)
  <2>2. u[i + 1] = IF t[i + 1].num = 0 /\ HasBf(t[i + 1].ref)
                   THEN img.syms[t[i + 1].ref + img.syms[t[i + 1].ref].aux + 2].line
                   ELSE u[i]
    BY <2>1, ZenonT(60) DEF IsBases
  <2>3. u[i + 1] = IF Starting(i + 1) THEN Line(i + 1) ELSE u[i]
    BY <1>1, <1>2, <2>1, <2>2
  <2>4. Starts(t, i + 1) = IF Starting(i + 1) THEN Starts(t, i) \cup {i + 1} ELSE Starts(t, i)
    BY DEF Starts
  <2>5. u[i] = BaseLine(t, i) /\ u[i] \in Nat
    BY <1>0, <1>4
  <2>6. CASE Starting(i + 1)
    <3> DEFINE S == Starts(t, i + 1)
    <3>1. i + 1 \in S /\ S \subseteq 1 .. i + 1
      BY <2>4, <2>6 DEF Starts
    <3> HIDE DEF S
    <3>2. IsFiniteSet(1 .. i + 1) /\ S \subseteq Nat
      BY <3>1, FS_Interval
    <3>6. IsFiniteSet(S)
      BY <3>1, <3>2, FS_Subset
    <3>3. Max(S) \in S /\ i + 1 <= Max(S)
      BY <3>1, <3>2, <3>6, MaxIsGreatest
    <3>7. Max(S) \in 1 .. i + 1
      BY <3>1, <3>3
    <3>4. Max(S) = i + 1
      BY <3>3, <3>7
    <3>5. BaseLine(t, i + 1) = Line(i + 1)
      BY <3>1, <3>4 DEF BaseLine, S
    <3> QED
      BY <1>2, <2>1, <2>3, <2>6, <3>5
  <2>7. CASE ~Starting(i + 1)
    BY <2>3, <2>4, <2>5, <2>7 DEF BaseLine
  <2> QED
    BY <2>6, <2>7
<1> HIDE DEF T
<1>5. Nat \subseteq T
  BY <1>3, <1>4, Induction
<1> QED
  BY <1>0, <1>5 DEF T

\* The loop of CoffConvertLines converts the lines as it should, and a line
\* number stays one.
LEMMA ConvertedIsBased ==
  ASSUME img \in Images, NEW t, FileLines(t)
  PROVE  Converted(t) = Based(t) /\ Based(t) \in Seq([num : LineNumbers, ref : Nat])
<1> DEFINE n == Len(t)
           u == CHOOSE v : IsBases(t, n, v)
           Ref(i) == IF t[i].num = 0 THEN img.syms[t[i].ref].value ELSE t[i].ref
<1>0. /\ n \in Nat /\ DOMAIN t = 1 .. n
      /\ \A i \in 1 .. n : t[i].num \in LineNumbers
      /\ \A i \in 1 .. n : t[i].ref \in Nat
  <2> DEFINE Line == [num : LineNumbers, ref : Nat]
  <2>1. t \in Seq(Line)
    BY DEF FileLines
  <2> HIDE DEF Line
  <2>2. n \in Nat /\ DOMAIN t = 1 .. n /\ \A i \in 1 .. n : t[i] \in Line
    BY <2>1
  <2>3. \A e \in Line : e.num \in LineNumbers /\ e.ref \in Nat
    BY DEF Line
  <2> QED
    BY <2>2, <2>3
<1>1. IsBases(t, n, u)
  BY <1>0, BasesExist
<1>2. Converted(t) = [i \in DOMAIN t |-> [num |-> (t[i].num + u[i]) % TwoTo16, ref |-> Ref(i)]]
  BY DEF Converted, IsBases
<1> HIDE DEF u
<1>3. \A i \in 1 .. n : u[i] = BaseLine(t, i) /\ u[i] \in Nat
  BY <1>0, <1>1, BasesAreLines
<1>4. Based(t) = [i \in DOMAIN t |-> [num |-> (t[i].num + BaseLine(t, i)) % TwoTo16, ref |-> Ref(i)]]
  BY DEF Based
<1>5. Converted(t) = Based(t)
  BY <1>0, <1>2, <1>3, <1>4
<1>6. \A i \in 1 .. n : Ref(i) \in Nat
  <2> SUFFICES ASSUME NEW i \in 1 .. n, t[i].num = 0 PROVE img.syms[t[i].ref].value \in Nat
    BY <1>0
  <2>1. t[i].ref \in Heads
    BY <1>0 DEF FileLines
  <2> QED
    BY <2>1, HeadsChain, SymbolsAreTyped
<1>7. \A i \in 1 .. n : (t[i].num + BaseLine(t, i)) % TwoTo16 \in LineNumbers
  <2>1. \A i \in 1 .. n : t[i].num \in Nat
    BY <1>0, LineNumbersWrap
  <2> QED
    BY <1>3, <2>1, LineNumbersWrap
<1> HIDE DEF Ref
<1>8. Based(t) \in Seq([num : LineNumbers, ref : Nat])
  BY <1>0, <1>4, <1>6, <1>7
<1> QED
  BY <1>5, <1>8

\* The sections are numbered from 1.
LEMMA SecsAreNumbered ==
  ASSUME img \in Images
  PROVE  /\ Len(img.secs) \in Nat
         /\ Secs = 1 .. Len(img.secs)
         /\ IsFiniteSet(Secs)
<1>1. img.secs \in Seq(Range(img.secs))
  BY FilesAreTyped
<1>2. Len(img.secs) \in Nat /\ Secs = 1 .. Len(img.secs)
  BY <1>1 DEF Secs
<1> QED
  BY <1>2, FS_Interval

\* Every handle is one of a section, of relocations, of symbols or of strings.
LEMMA HandlesAreFourfold ==
  ASSUME img \in Images
  PROVE  /\ StrTab \in Nat /\ SymTab \in Nat /\ Len(img.secs) < StrTab
         /\ IsFiniteSet(Handles) /\ StrTab \in Handles
         /\ \A h \in Handles : h \in Secs \/ h \in RelocSecs \/ h = SymTab \/ h = StrTab
<1> DEFINE n == Len(img.secs)
           c == Cardinality(Relocated)
<1>1. n \in Nat /\ Secs = 1 .. n /\ IsFiniteSet(Secs)
  BY SecsAreNumbered
<1>2. IsFiniteSet(Relocated) /\ Relocated \subseteq Nat
  BY <1>1, FS_Subset DEF Relocated
<1>3. c \in Nat
  BY <1>2, FS_CardinalityType
<1>4. \A h \in Relocated : RelocSec(h) = n + Rank(Relocated, h)
  BY DEF RelocSec, Rank
<1>5. SymTab = n + c + 1 /\ StrTab = SymTab + 1
  BY DEF SymTab, StrTab
<1>6. \A k \in 1 .. c : \E h \in Relocated : Rank(Relocated, h) = k
  BY <1>2, RanksCover
<1> HIDE DEF n, c
<1>7. ASSUME NEW h \in 1 .. StrTab
      PROVE  h \in Secs \/ h \in RelocSecs \/ h = SymTab \/ h = StrTab
  <2>1. CASE h \in n + 1 .. n + c
    <3>1. h - n \in 1 .. c /\ h = n + (h - n)
      BY <1>1, <1>3, <2>1
    <3>2. PICK g \in Relocated : Rank(Relocated, g) = h - n
      BY <1>6, <3>1
    <3>3. h = RelocSec(g)
      BY <1>4, <3>1, <3>2
    <3> QED
      BY <3>3 DEF RelocSecs
  <2>2. CASE h \notin n + 1 .. n + c
    BY <1>1, <1>3, <1>5, <2>2
  <2> QED
    BY <2>1, <2>2
<1>8. StrTab \in Nat /\ SymTab \in Nat /\ n < StrTab /\ StrTab \in 1 .. StrTab
  BY <1>1, <1>3, <1>5
<1>9. IsFiniteSet(1 .. StrTab)
  BY <1>8, FS_Interval
<1> QED
  BY <1>7, <1>8, <1>9 DEF Handles, n

\* The section of a section of relocations has some.
LEMMA OrigSecIsRelocated ==
  ASSUME NEW r \in RelocSecs
  PROVE  OrigSec(r) \in Relocated
BY DEF RelocSecs, OrigSec

\* Every handle has a name that is hashed, a place and a size.
LEMMA HandlesAreTyped ==
  ASSUME img \in Images, NEW h \in Handles
  PROVE  NameOf(h) \in DOMAIN HashOf /\ Off(h) \in Nat /\ SizeOf(h) \in Nat
<1>1. \A g \in Secs : /\ img.secs[g].name \in DOMAIN HashOf
                      /\ img.secs[g].off \in Nat /\ img.secs[g].size \in Nat
                      /\ img.secs[g].relocs \in Nat /\ img.secs[g].reloff \in Nat
  BY SectionsAreTyped DEF Secs
<1>2. img.symoff \in Nat /\ NumSymbols \in Nat
  BY FilesAreTyped DEF NumSymbols
<1>3. h \in RelocSecs => OrigSec(h) \in Secs
  BY OrigSecIsRelocated DEF Relocated
<1>4. h \in Secs \/ h \in RelocSecs \/ h = SymTab \/ h = StrTab
  BY HandlesAreFourfold
<1>5. NameOf(h) \in DOMAIN HashOf
  BY <1>1, <1>4, NamesAssumption DEF NameOf
<1>6. Off(h) \in Nat
  BY <1>1, <1>2, <1>3, <1>4 DEF Off
<1>7. SizeOf(h) \in Nat
  BY <1>1, <1>2, <1>3, <1>4 DEF SizeOf
<1> QED
  BY <1>5, <1>6, <1>7

\* The file is read up to the end of everything in it.
LEMMA BufEndIsLast ==
  ASSUME img \in Images
  PROVE  /\ BufEnd \in Nat
         /\ \A h \in Handles : (h \in Secs => img.secs[h].kind # "bss")
              => Off(h) + SizeOf(h) <= BufEnd
<1> DEFINE Read == {g \in Handles : g \in Secs => img.secs[g].kind # "bss"}
           end == [h \in Read |-> Off(h) + SizeOf(h)]
           Limits == {Off(h) + SizeOf(h) : h \in Read}
<1>1. StrTab \in Read /\ IsFiniteSet(Read)
  <2>1. StrTab \notin Secs
    BY HandlesAreFourfold, SecsAreNumbered
  <2> QED
    BY <2>1, HandlesAreFourfold, FS_Subset
<1>2. BufEnd = Max(Limits)
  BY DEF BufEnd
<1>3. \A h \in Read : Off(h) + SizeOf(h) \in Nat
  BY HandlesAreTyped
<1>4. Limits \subseteq Nat /\ Limits # {} /\ \A h \in Read : Off(h) + SizeOf(h) \in Limits
  BY <1>1, <1>3
<1>5. IsFiniteSet(Limits)
  <2>1. end \in Surjection(Read, Limits)
    BY DEF Surjection
  <2> QED
    BY <1>1, <2>1, FS_Surjection DEF ExistsSurjection
<1> HIDE DEF Limits
<1>6. Max(Limits) \in Nat /\ \A k \in Limits : k <= Max(Limits)
  BY <1>4, <1>5, MaxIsGreatest
<1> QED
  BY <1>2, <1>4, <1>6

\* The table with handle h under its name, as NameTable has it; the tables of
\* the first handles, up to n of them.
With(t, h) == [t EXCEPT ![HashOf[NameOf(h)]] = Hash!Inserted(@, NameOf(h), h)]

IsUpto(n, u) ==
  u = [i \in 0 .. n |-> IF i = 0 THEN [b \in 0 .. HashSize - 1 |-> <<>>] ELSE With(u[i - 1], i)]

\* The recursion of NameTable defines a function.
LEMMA UptoExists == \A n \in Nat : \E u : IsUpto(n, u)
<1> DEFINE T == {n \in Nat : \E u : IsUpto(n, u)}
           empty == [b \in 0 .. HashSize - 1 |-> <<>>]
<1>1. 0 \in T
  <2> DEFINE u == [i \in 0 .. 0 |-> empty]
  <2>1. IsUpto(0, u)
    BY DEF IsUpto
  <2> QED
    BY <2>1
<1>2. ASSUME NEW n \in Nat, n \in T PROVE n + 1 \in T
  <2>1. PICK u : IsUpto(n, u)
    BY <1>2
  <2> DEFINE W(v, i) == IF i = 0 THEN empty ELSE With(v[i - 1], i)
             v == [i \in 0 .. n + 1 |-> W(u, i)]
  <2>2. ASSUME NEW i \in 0 .. n + 1 PROVE W(u, i) = W(v, i)
    <3>1. CASE i = 0
      BY <3>1
    <3>2. CASE i # 0
      <4>1. i - 1 \in 0 .. n /\ i - 1 \in 0 .. n + 1
        BY <3>2
      <4>2. u[i - 1] = W(u, i - 1) /\ v[i - 1] = W(u, i - 1)
        BY <2>1, <4>1 DEF IsUpto
      <4> QED
        BY <3>2, <4>2
    <3> QED
      BY <3>1, <3>2
  <2>3. v = [i \in 0 .. n + 1 |-> W(v, i)]
    BY <2>2
  <2>4. IsUpto(n + 1, v)
    BY <2>3 DEF IsUpto
  <2> QED
    BY <2>4
<1> HIDE DEF T
<1>3. Nat \subseteq T
  BY <1>1, <1>2, Induction
<1> QED
  BY <1>3 DEF T

\* The table of names is one, whatever the handles.
LEMMA NameTableIsNamed ==
  ASSUME img \in Images
  PROVE  NamedTable(NameTable)
<1> DEFINE n == StrTab
           u == CHOOSE v : IsUpto(n, v)
           T == {i \in Nat : i <= n => NamedTable(u[i])}
<1>1. n \in Nat
  BY HandlesAreFourfold
<1>2. IsUpto(n, u)
  BY <1>1, UptoExists
<1>3. NameTable = u[n]
  BY DEF NameTable, IsUpto, With
<1> HIDE DEF u, n
<1>4. 0 \in T
  <2>1. u[0] = [b \in HP!Buckets |-> <<>>]
    BY <1>1, <1>2 DEF IsUpto, HP!Buckets
  <2>2. \A b \in HP!Buckets : HP!Good(b, <<>>)
    BY DEF HP!Good
  <2>3. [b \in HP!Buckets |-> <<>>] \in [HP!Buckets -> Seq(HP!Entry)]
    OBVIOUS
  <2>4. NamedTable(u[0])
    BY <2>1, <2>2, <2>3 DEF NamedTable
  <2> QED
    BY <2>4
<1>5. ASSUME NEW i \in Nat, i \in T PROVE i + 1 \in T
  <2> SUFFICES ASSUME i + 1 <= n PROVE NamedTable(u[i + 1])
    OBVIOUS
  <2>1. NamedTable(u[i])
    BY <1>1, <1>5
  <2>2. i + 1 \in 0 .. n /\ i + 1 \in 1 .. n /\ i + 1 # 0 /\ (i + 1) - 1 = i
    BY <1>1
  <2>3. u[i + 1] = With(u[i], i + 1)
    BY <1>2, <2>2 DEF IsUpto
  <2>4. i + 1 \in Handles
    BY <2>2 DEF Handles, n
  <2>5. NameOf(i + 1) \in DOMAIN HashOf /\ i + 1 \in Nat
    BY <2>4, HandlesAreTyped
  <2> QED
    BY <2>1, <2>3, <2>5, NamedInserted DEF With
<1> HIDE DEF T
<1>6. n \in T
  BY <1>1, <1>4, <1>5, Induction
<1> QED
  BY <1>1, <1>3, <1>6 DEF T

\* The least of a set of numbers is one of them.
LEMMA MinIsIn ==
  ASSUME NEW S, S \subseteq Nat, S # {}
  PROVE  Min(S) \in S
BY LeastNumber DEF Min

\* Where a loop can stop is the index of an entry.
LEMMA StopsAreIndices ==
  ASSUME img \in Images, NEW t, NEW c, c.op \in {"all", "named", "symbols"},
         c.op = "named" => NamedTable(t) /\ c.want \in DOMAIN HashOf
  PROVE  Stops(c, t) \subseteq Nat \ {0}
<1>1. CASE c.op = "all"
  BY <1>1, HandlesAreFourfold DEF Stops, Handles
<1>2. CASE c.op = "named"
  <2>1. Hash!Lookup(t[HashOf[c.want]], c.want) \in Seq(Nat)
    BY <1>2, NamedReached
  <2>2. \A s \in Seq(Nat) : DOMAIN s \subseteq Nat \ {0}
    OBVIOUS
  <2> QED
    BY <1>2, <2>1, <2>2 DEF Stops
<1>3. CASE c.op = "symbols"
  BY <1>3, HeadsChain DEF Stops
<1> QED
  BY <1>1, <1>2, <1>3

\* A scan at another entry is the same scan.
LEMMA CallAt ==
  ASSUME NEW c \in Call, NEW n \in Nat
  PROVE  /\ [c EXCEPT !.at = n] \in Call
         /\ [c EXCEPT !.at = n].op = c.op
         /\ [c EXCEPT !.at = n].want = c.want
         /\ [c EXCEPT !.at = n].at = n
BY DEF Call

-----------------------------------------------------------------------------
(* What the steps do to the parts of the invariant.                        *)

\* What grows when the tables of a file are built.
Grown ==
  /\ symbols => symbols'
  /\ names # NoTable => names' # NoTable

\* A scan in progress keeps what it walks.
LEMMA GrownKeepsCall ==
  ASSUME Grown, NEW c, CallInv(c)
  PROVE  CallInv(c)'
BY DEF Grown, CallInv

\* A scan on top of those in progress, or of those below the innermost.
LEMMA PushKeepsCalls ==
  ASSUME CallsInv, Grown, NEW d \in Call, CallInv(d)', NEW below \in Seq(Call),
         \A i \in DOMAIN below : CallInv(below[i]),
         calls' = <<d>> \o below
  PROVE  CallsInv'
<1>4. \A i \in DOMAIN below : CallInv(below[i])'
  BY GrownKeepsCall
<1>5. calls' \in Seq(Call) /\ Len(calls') = Len(below) + 1
  OBVIOUS
<1>6. calls'[1] = d /\ \A i \in 2 .. Len(below) + 1 : calls'[i] = below[i - 1]
  OBVIOUS
<1>7. \A i \in DOMAIN calls' : CallInv(calls[i])'
  <2> SUFFICES ASSUME NEW i \in DOMAIN calls' PROVE CallInv(calls[i])'
    OBVIOUS
  <2>1. i \in 1 .. Len(below) + 1 /\ Len(below) \in Nat
    BY <1>5
  <2>2. CASE i = 1
    BY <1>6, <2>2 DEF CallInv
  <2>3. CASE i # 1
    <3>1. i \in 2 .. Len(below) + 1 /\ i - 1 \in DOMAIN below
      BY <2>1, <2>3
    <3>2. calls'[i] = below[i - 1]
      BY <1>6, <3>1
    <3> QED
      BY <1>4, <3>1, <3>2 DEF CallInv
  <2> QED
    BY <2>2, <2>3
<1> QED
  BY <1>5, <1>7 DEF CallsInv

\* The innermost scan returns.
LEMMA PopKeepsCalls ==
  ASSUME CallsInv, Grown, calls # <<>>, calls' = Tail(calls)
  PROVE  CallsInv'
<1>2. calls \in Seq(Call) /\ \A c : c \in Range(calls) => CallInv(c)'
  BY GrownKeepsCall DEF CallsInv, Range
<1>3. /\ calls' \in Seq(Call)
      /\ \A i \in DOMAIN calls' : i + 1 \in DOMAIN calls /\ calls'[i] = calls[i + 1]
  BY <1>2
<1>4. \A i \in DOMAIN calls' : CallInv(calls[i])'
  <2> SUFFICES ASSUME NEW i \in DOMAIN calls' PROVE CallInv(calls[i])'
    OBVIOUS
  <2>1. calls'[i] \in Range(calls)
    BY <1>3 DEF Range
  <2> QED
    BY <1>2, <2>1 DEF CallInv
<1> QED
  BY <1>3, <1>4 DEF CallsInv

\* The scans stay as they are.
LEMMA StayKeepsCalls ==
  ASSUME CallsInv, Grown, calls' = calls
  PROVE  CallsInv'
<1>2. \A i \in DOMAIN calls' : CallInv(calls[i])'
  <2> SUFFICES ASSUME NEW i \in DOMAIN calls' PROVE CallInv(calls[i])'
    OBVIOUS
  <2>1. CallInv(calls[i])
    BY DEF CallsInv
  <2> QED
    BY <2>1, GrownKeepsCall DEF CallInv
<1> QED
  BY <1>2 DEF CallsInv

\* A scan begins.
LEMMA EnterKeepsCalls ==
  ASSUME Inv, Grown, NEW t, NEW op \in {"all", "named", "symbols"},
         NEW want \in DOMAIN HashOf \cup {ANY},
         op = "named" => NamedTable(t) /\ want \in DOMAIN HashOf /\ names' # NoTable,
         op = "symbols" => (Heads # {} => symbols'),
         Enter(op, want, t)
  PROVE  CallsInv' /\ result' = result
<1> DEFINE c == [op |-> op, want |-> want, at |-> 0]
<1>1. c \in Call /\ c.op = op /\ c.want = want
  BY DEF Call
<1>2. PICK n : n = IF Stops(c, t) = {} THEN 0 ELSE Min(Stops(c, t))
  OBVIOUS
<1> DEFINE d == [c EXCEPT !.at = n]
<1>3. calls' = <<d>> \o calls /\ result' = result
  BY <1>2 DEF Enter
<1> HIDE DEF c
<1>4. Stops(c, t) \subseteq Nat
  BY <1>1, StopsAreIndices DEF Inv, PhaseInv
<1>5. n \in Nat
  BY <1>2, <1>4, MinIsIn
<1>6. op = "symbols" /\ n # 0 => Heads # {}
  BY <1>1, <1>2 DEF Stops
<1>7. d \in Call /\ d.op = op /\ d.want = want /\ d.at = n
  BY <1>1, <1>5, CallAt
<1> HIDE DEF d
<1>8. CallInv(d)'
  BY <1>6, <1>7 DEF CallInv
<1>9. CallsInv
  BY DEF Inv
<1>10. calls \in Seq(Call) /\ \A i \in DOMAIN calls : CallInv(calls[i])
  BY <1>9 DEF CallsInv
<1> QED
  BY <1>3, <1>7, <1>8, <1>9, <1>10, PushKeepsCalls

\* The blocks of what was built of the tables, and of the table of names; those
\* of every open file; those that a load leaves behind, and all loads have.
SymBlocks == IF symbols THEN SymbolBlocks ELSE 0
Built == Cardinality(relocs) + SymBlocks
NameBlocks == IF names = NoTable THEN 0 ELSE 2 + Hash!Reached(names)
Fixed ==
  2 + StrTab + Cardinality({h \in Secs : ~img.secs[h].long}) + (IF Secs = {} THEN 0 ELSE 1)
LeftBy(o) ==
  CASE o = "machine" -> IF img.import = "unsupported" THEN 2 ELSE 0
    [] o = "table"   -> 0
    [] OTHER         -> (IF Secs = {} THEN 0 ELSE 2) + (IF img.import = "yes" THEN 1 ELSE 0)
Losses == [i \in DOMAIN loads |-> LeftBy(loads[i])]
Leaked == SumFunction(Losses)

\* The symbols take a number of blocks, none if there are none.
LEMMA SymbolBlocksAreNumbers ==
  ASSUME img \in Images
  PROVE  SymbolBlocks \in Nat /\ (NumSymbols = 0 => SymbolBlocks = 0)
<1>1. IsFiniteSet(1 .. Len(img.syms)) /\ Heads \subseteq 1 .. Len(img.syms)
  BY HeadsChain, FS_Interval
<1>2. IsFiniteSet({i \in Heads : img.syms[i].eight})
  BY <1>1, FS_Subset
<1>3. Cardinality({i \in Heads : img.syms[i].eight}) \in Nat
  BY <1>2, FS_CardinalityType
<1> QED
  BY <1>3 DEF SymbolBlocks

\* A load leaves a number of blocks.
LEMMA LeftByIsNat == \A o : LeftBy(o) \in Nat
BY DEF LeftBy

\* They are numbers.
LEMMA BlocksAreNumbers ==
  ASSUME PhaseInv, TablesInv, NamesInv
  PROVE  /\ IsFiniteSet(relocs) /\ Cardinality(relocs) \in Nat /\ SymBlocks \in Nat
         /\ Built \in Nat /\ NameBlocks \in Nat /\ Leaked \in Nat /\ Fixed \in Nat
<1>1. img \in Images
  BY DEF PhaseInv
<1>2. IsFiniteSet(Secs) /\ IsFiniteSet(Handles)
  BY <1>1, SecsAreNumbered, HandlesAreFourfold
<1>3. IsFiniteSet(relocs) /\ Cardinality(relocs) \in Nat
  <2>1. IsFiniteSet(Relocated)
    BY <1>2, FS_Subset DEF Relocated
  <2> DEFINE sec == [h \in Relocated |-> RelocSec(h)]
  <2>2. sec \in Surjection(Relocated, RelocSecs)
    BY DEF Surjection, RelocSecs
  <2>3. IsFiniteSet(RelocSecs)
    BY <2>1, <2>2, FS_Surjection
  <2> QED
    BY <2>3, FS_Subset, FS_CardinalityType DEF TablesInv
<1>4. SymBlocks \in Nat
  BY <1>1, SymbolBlocksAreNumbers DEF SymBlocks
<1>5. Built \in Nat
  BY <1>3, <1>4 DEF Built
<1>6. NameBlocks \in Nat
  <2>1. CASE names = NoTable
    BY <2>1 DEF NameBlocks
  <2>2. CASE NamedTable(names)
    <3>1. Hash!Reached(names) \in Nat
      BY <2>2, NamedReached
    <3> QED
      BY <3>1 DEF NameBlocks
  <2> QED
    BY <2>1, <2>2 DEF NamesInv
<1>7. Fixed \in Nat
  <2>1. IsFiniteSet({h \in Secs : ~img.secs[h].long})
    BY <1>2, FS_Subset
  <2>2. Cardinality({h \in Secs : ~img.secs[h].long}) \in Nat /\ StrTab \in Nat
    BY <1>1, <2>1, FS_CardinalityType, HandlesAreFourfold
  <2> QED
    BY <2>2 DEF Fixed
<1>8. Leaked \in Nat
  <2>1. IsFiniteSet(DOMAIN loads)
    BY FS_Interval DEF PhaseInv
  <2>2. \A i \in DOMAIN loads : Losses[i] \in Nat
    BY LeftByIsNat DEF Losses
  <2>3. Leaked = SumFunctionOnSet(Losses, DOMAIN loads)
    BY DEF Leaked, Losses, SumFunction
  <2> QED
    BY <2>1, <2>2, <2>3, SumType
<1> QED
  BY <1>3, <1>4, <1>5, <1>6, <1>7, <1>8

\* What is freed, part by part.
LEMMA ReachedByPart ==
  ASSUME PhaseInv, TablesInv, NamesInv
  PROVE  Reached = Fixed + Built + NameBlocks
<1>1. Reached = Fixed + Cardinality(relocs) + SymBlocks + NameBlocks
  BY DEF Reached, Fixed, SymBlocks, NameBlocks
<1> QED
  BY <1>1, BlocksAreNumbers DEF Built

\* EveryBlockReached, part by part.
LEMMA BlocksByPart ==
  PhaseInv /\ TablesInv /\ NamesInv =>
    /\ phase = "open" => (EveryBlockReached <=> blocks = Leaked + (Fixed + Built + NameBlocks))
    /\ phase = "closed" => (EveryBlockReached <=> blocks = Leaked)
    /\ phase \in Undefined => EveryBlockReached
<1> SUFFICES ASSUME PhaseInv, TablesInv, NamesInv
             PROVE  /\ phase = "open" => (EveryBlockReached
                                            <=> blocks = Leaked + (Fixed + Built + NameBlocks))
                    /\ phase = "closed" => (EveryBlockReached <=> blocks = Leaked)
                    /\ phase \in Undefined => EveryBlockReached
  OBVIOUS
<1>1. EveryBlockReached
        <=> (phase \in {"closed", "open"} =>
               blocks = Leaked + IF phase = "open" THEN Reached ELSE 0)
  BY DEF EveryBlockReached, Leaked, Losses, LeftBy
<1> QED
  BY <1>1, ReachedByPart, BlocksAreNumbers DEF Undefined

\* The same of the state after a step.
LEMMA BlocksByPartNext ==
  PhaseInv' /\ TablesInv' /\ NamesInv' =>
    /\ phase' = "open" => (EveryBlockReached' <=> blocks' = Leaked' + (Fixed' + Built' + NameBlocks'))
    /\ phase' = "closed" => (EveryBlockReached' <=> blocks' = Leaked')
    /\ phase' \in Undefined => EveryBlockReached'
<1>1. (PhaseInv /\ TablesInv /\ NamesInv =>
         /\ phase = "open" => (EveryBlockReached
                                 <=> blocks = Leaked + (Fixed + Built + NameBlocks))
         /\ phase = "closed" => (EveryBlockReached <=> blocks = Leaked)
         /\ phase \in Undefined => EveryBlockReached)'
  BY BlocksByPart, PTL
<1> QED
  BY <1>1 DEF Undefined

\* What is the same of the same file.
LEMMA SameLosses ==
  ASSUME img' = img
  PROVE  /\ Fixed' = Fixed /\ \A o : LeftBy(o)' = LeftBy(o)
         /\ loads' = loads => Leaked' = Leaked
<1>1. Fixed' = Fixed /\ \A o : LeftBy(o)' = LeftBy(o)
  BY SameFile DEF Fixed, LeftBy
<1>2. ASSUME loads' = loads PROVE Losses' = Losses
  BY <1>1, <1>2 DEF Losses
<1> QED
  BY <1>1, <1>2 DEF Leaked

\* A step of an open file that takes the blocks of what it builds.
LEMMA BuildingKeepsBlocks ==
  ASSUME Inv, PhaseInv', TablesInv', NamesInv', phase = "open", phase' # "closed",
         img' = img, loads' = loads,
         NEW p \in Nat, Built' = Built + p, NEW q \in Nat, NameBlocks' = NameBlocks + q,
         blocks' = blocks + (p + q)
  PROVE  blocks' \in Nat /\ EveryBlockReached'
<1>1. PhaseInv /\ TablesInv /\ NamesInv /\ EveryBlockReached /\ blocks \in Nat
  BY DEF Inv
<1>2. Built \in Nat /\ NameBlocks \in Nat /\ Leaked \in Nat /\ Fixed \in Nat
  BY <1>1, BlocksAreNumbers
<1>3. blocks = Leaked + (Fixed + Built + NameBlocks)
  BY <1>1, BlocksByPart
<1>4. Leaked' = Leaked /\ Fixed' = Fixed
  BY SameLosses
<1>5. blocks' = Leaked' + (Fixed' + Built' + NameBlocks')
  BY <1>1, <1>2, <1>3, <1>4
<1>6. phase' = "open" \/ phase' \in Undefined
  BY DEF PhaseInv
<1>7. EveryBlockReached'
  BY <1>5, <1>6, BlocksByPartNext
<1> QED
  BY <1>1, <1>7

\* The names stay as they are.
LEMMA StayKeepsNames ==
  ASSUME Inv, names' = names
  PROVE  NamesInv' /\ NameBlocks' = NameBlocks
BY DEF Inv, NamesInv, NameBlocks

\* The tables stay as they are.
LEMMA StayKeepsTables ==
  ASSUME Inv, img' = img, UNCHANGED <<symbols, relocs, lines, done>>
  PROVE  TablesInv' /\ Built' = Built
<1>1. TablesInv'
  BY SameFile, SameLines DEF Inv, TablesInv
<1> QED
  BY <1>1, SameFile DEF Built, SymBlocks

\* A call of the client of an open file keeps what was loaded.
LEMMA OpenKeepsPhase ==
  ASSUME Inv, phase = "open", phase' \in {"open"} \cup Undefined,
         UNCHANGED <<img, strings, loads>>,
         phase' = "wild_name" => strings = "none",
         result' \in {"OKAY", "FALSE", "ERROR", STOP},
         \A i \in DOMAIN heard' : heard'[i].note \in img.notes
  PROVE  PhaseInv'
<1>1. PhaseInv
  BY DEF Inv
<1>2. /\ RestInFile' = RestInFile /\ BufEnd' = BufEnd /\ Expected' = Expected /\ LeftOut' = LeftOut
      /\ Off(StrTab)' = Off(StrTab)
  BY SameFile DEF Expected, LeftOut
<1>3. phase' # "closed" /\ phase' \in {"closed", "open"} \cup Undefined
  BY DEF Undefined
<1> QED
  BY <1>1, <1>2, <1>3 DEF PhaseInv

-----------------------------------------------------------------------------
(* The actions keep the invariant.                                         *)

\* A load takes the blocks of an open file, and those it leaves behind.
LEMMA MadeByPart ==
  ASSUME img \in Images
  PROVE  \A o \in Outcomes \ {"machine", "table"} : Made = Fixed + LeftBy(o)
<1> DEFINE c == Cardinality({h \in Secs : ~img.secs[h].long})
<1>1. c \in Nat /\ StrTab \in Nat
  <2>1. IsFiniteSet({h \in Secs : ~img.secs[h].long})
    BY SecsAreNumbered, FS_Subset
  <2> QED
    BY <2>1, FS_CardinalityType, HandlesAreFourfold
<1>2. Made = 2 + StrTab + c + (IF Secs = {} THEN 0 ELSE 3) + (IF img.import = "yes" THEN 1 ELSE 0)
  BY DEF Made
<1>3. Fixed = 2 + StrTab + c + (IF Secs = {} THEN 0 ELSE 1)
  BY DEF Fixed
<1>4. \A o \in Outcomes \ {"machine", "table"} :
        LeftBy(o) = (IF Secs = {} THEN 0 ELSE 2) + (IF img.import = "yes" THEN 1 ELSE 0)
  BY DEF LeftBy
<1> HIDE DEF c
<1> QED
  BY <1>1, <1>2, <1>3, <1>4

\* Nothing that is built of the tables has no blocks.
LEMMA NothingIsNothing == NothingBuilt => Built = 0 /\ NameBlocks = 0
BY FS_EmptySet DEF NothingBuilt, Built, NameBlocks, SymBlocks

\* Sums of the same summands are the same.
LEMMA SumsAgree ==
  ASSUME NEW S, IsFiniteSet(S), NEW f, NEW g, \A x \in S : f[x] \in Nat, \A x \in S : f[x] = g[x]
  PROVE  SumFunctionOnSet(f, S) = SumFunctionOnSet(g, S)
BY SumAgrees

\* What a load leaves behind is counted.
LEMMA LeakedGrows ==
  ASSUME PhaseInv, img' = img, NEW o \in Outcomes, loads' = Append(loads, o)
  PROVE  /\ loads' \in Seq(Outcomes) /\ loads'[Len(loads')] = o
         /\ Leaked' = Leaked + LeftBy(o)
<1> DEFINE n == Len(loads)
           late == Losses'
<1>1. loads \in Seq(Outcomes) /\ n \in Nat /\ DOMAIN loads = 1 .. n
  BY DEF PhaseInv
<1>2. /\ loads' \in Seq(Outcomes) /\ Len(loads') = n + 1 /\ DOMAIN loads' = 1 .. n + 1
      /\ loads'[n + 1] = o /\ \A i \in 1 .. n : loads'[i] = loads[i]
  BY <1>1
<1> HIDE DEF n
<1>3. /\ \A i \in 1 .. n : Losses[i] \in Nat
      /\ \A i \in 1 .. n : Losses[i] = LeftBy(loads[i])
  BY <1>1, LeftByIsNat DEF Losses
<1>4. \A i \in 1 .. n + 1 : late[i] = LeftBy(loads'[i])
  BY <1>2, SameLosses DEF Losses
<1>5. /\ \A i \in 1 .. n + 1 : late[i] \in Nat
      /\ \A i \in 1 .. n : Losses[i] = late[i]
      /\ late[n + 1] = LeftBy(o)
  <2>1. \A i \in 1 .. n : i \in 1 .. n + 1
    BY <1>1
  <2>2. n + 1 \in 1 .. n + 1
    BY <1>1
  <2> QED
    BY <1>2, <1>3, <1>4, <2>1, <2>2, LeftByIsNat
<1>6. Leaked = SumFunctionOnSet(Losses, 1 .. n)
  BY <1>1 DEF Leaked, Losses, SumFunction
<1>7. Leaked' = SumFunctionOnSet(late, 1 .. n + 1)
  BY <1>2 DEF Leaked, Losses, SumFunction
<1> HIDE DEF late
<1>8. SumFunctionOnSet(Losses, 1 .. n) = SumFunctionOnSet(late, 1 .. n)
  <2>1. IsFiniteSet(1 .. n)
    BY <1>1, FS_Interval
  <2>2. \A i \in 1 .. n : Losses[i] = late[i]
    BY <1>5
  <2> QED
    BY <1>3, <2>1, <2>2, SumsAgree
<1>9. /\ SumFunctionOnSet(late, 1 .. n) \in Nat
      /\ SumFunctionOnSet(late, 1 .. n + 1) = late[n + 1] + SumFunctionOnSet(late, 1 .. n)
  BY <1>1, <1>5, SumOfLast
<1>10. LeftBy(o) \in Nat
  BY LeftByIsNat
<1>11. Leaked' = Leaked + LeftBy(o)
  BY <1>5, <1>6, <1>7, <1>8, <1>9, <1>10
<1> QED
  BY <1>2, <1>11

\* A load finds the string table where it is looked for, or leaves it out.
LEMMA LoadKeepsInv == Inv /\ Load => Inv'
<1> SUFFICES ASSUME Inv, Load PROVE Inv'
  OBVIOUS
<1>1. /\ PhaseInv /\ TablesInv /\ NamesInv /\ CallsInv /\ blocks \in Nat
      /\ EveryBlockReached /\ phase = "closed" /\ img \in Images /\ NothingBuilt
  BY DEF Inv, Load, CanLoad, PhaseInv
<1>2. /\ phase' = "open" /\ img' = img /\ calls' = calls /\ result' = "OKAY" /\ heard' = heard
      /\ UNCHANGED <<symbols, names, relocs, lines, done>>
      /\ RestInFile /\ blocks' = blocks + Made
  BY DEF Load
<1>3. \E o \in {"loaded", "no_size"} :
        /\ loads' = Append(loads, o)
        /\ \/ o = "no_size" /\ strings' = "none"
           \/ \E size \in StringSizes : StringsInFile(size) /\ strings' = FoundStrings(size)
  BY DEF Load
<1>4. PICK o \in {"loaded", "no_size"} :
        /\ loads' = Append(loads, o)
        /\ \/ o = "no_size" /\ strings' = "none"
           \/ \E size \in StringSizes : StringsInFile(size) /\ strings' = FoundStrings(size)
  BY <1>3
<1>5. o \in Outcomes \ {"machine", "table"}
  BY DEF Outcomes
<1>6. loads' \in Seq(Outcomes) /\ loads'[Len(loads')] = o /\ Leaked' = Leaked + LeftBy(o)
  BY <1>1, <1>2, <1>4, <1>5, LeakedGrows
<1>7. /\ strings' \in {"none", "read", "inside"}
      /\ strings' = "read" => BufEnd = Off(StrTab) /\ BufEnd + 1 + img.strs <= img.eof
      /\ strings' = "none" /\ Expected => o = "no_size" \/ BufEnd = img.eof
  <2>1. CASE o = "no_size" /\ strings' = "none"
    BY <2>1
  <2>2. ASSUME NEW size \in StringSizes, StringsInFile(size), strings' = FoundStrings(size)
        PROVE  /\ strings' \in {"none", "read", "inside"}
               /\ strings' = "read" => BufEnd = Off(StrTab) /\ BufEnd + 1 + img.strs <= img.eof
               /\ strings' = "none" /\ Expected => BufEnd = img.eof
    <3>1. strings' \in {"none", "read", "inside"}
      BY <2>2 DEF FoundStrings
    <3>2. ASSUME strings' = "read" PROVE BufEnd = Off(StrTab) /\ BufEnd + 1 + img.strs <= img.eof
      <4>1. size # 0 /\ BufEnd = Off(StrTab) /\ BufEnd + 1 + size <= img.eof
        BY <2>2, <3>2 DEF FoundStrings, StringsInFile
      <4>2. size = img.strs
        BY <2>2, <4>1 DEF StringSizes
      <4> QED
        BY <4>1, <4>2
    <3>3. ASSUME strings' = "none", Expected PROVE BufEnd = img.eof
      <4>1. size = 0
        BY <2>2, <3>3 DEF FoundStrings
      <4> QED
        BY <2>2, <3>3, <4>1 DEF StringSizes, Expected
    <3> QED
      BY <3>1, <3>2, <3>3
  <2> QED
    BY <1>4, <2>1, <2>2
<1>8. PhaseInv'
  <2>1. /\ RestInFile' = RestInFile /\ BufEnd' = BufEnd /\ Expected' = Expected
        /\ Off(StrTab)' = Off(StrTab)
    BY <1>2, SameFile DEF Expected
  <2>2. strings' = "none" /\ Expected' => LeftOut'
    BY <1>2, <1>6, <1>7, <2>1 DEF LeftOut
  <2> QED
    BY <1>1, <1>2, <1>6, <1>7, <2>1, <2>2 DEF PhaseInv
<1>9. TablesInv' /\ NamesInv' /\ Built' = Built /\ NameBlocks' = NameBlocks
  BY <1>2, StayKeepsTables, StayKeepsNames
<1>10. Grown
  BY <1>2 DEF Grown
<1>11. CallsInv'
  BY <1>1, <1>2, <1>10, StayKeepsCalls
<1>12. blocks' \in Nat /\ EveryBlockReached'
  <2>1. Built = 0 /\ NameBlocks = 0 /\ blocks = Leaked
    BY <1>1, NothingIsNothing, BlocksByPart
  <2>2. Leaked \in Nat /\ Fixed \in Nat /\ LeftBy(o) \in Nat
    BY <1>1, BlocksAreNumbers, LeftByIsNat
  <2>3. Fixed' = Fixed /\ Made = Fixed + LeftBy(o)
    BY <1>1, <1>2, <1>5, SameLosses, MadeByPart
  <2>4. blocks' \in Nat /\ blocks' = Leaked' + (Fixed' + Built' + NameBlocks')
    BY <1>2, <1>6, <1>9, <2>1, <2>2, <2>3
  <2> QED
    BY <1>2, <1>8, <1>9, <2>4, BlocksByPartNext
<1> QED
  BY <1>8, <1>9, <1>11, <1>12 DEF Inv

\* A load that fails keeps the file closed; what it leaves is counted.
LEMMA FailureKeepsInv ==
  ASSUME Inv, phase = "closed", phase' = "closed", NEW o \in Outcomes,
         loads' = Append(loads, o), blocks' = blocks + LeftBy(o), result' = "ERROR",
         UNCHANGED <<img, strings, symbols, names, relocs, lines, done, calls, heard>>
  PROVE  Inv'
<1>1. /\ PhaseInv /\ TablesInv /\ NamesInv /\ CallsInv /\ blocks \in Nat /\ EveryBlockReached
  BY DEF Inv
<1>2. loads' \in Seq(Outcomes) /\ Leaked' = Leaked + LeftBy(o) /\ LeftBy(o) \in Nat
  BY <1>1, LeakedGrows, LeftByIsNat
<1>3. PhaseInv'
  <2>1. NothingBuilt /\ NothingBuilt' = NothingBuilt
    BY <1>1, SameFile DEF PhaseInv, NothingBuilt
  <2> QED
    BY <1>1, <1>2, <2>1 DEF PhaseInv
<1>4. TablesInv' /\ NamesInv'
  BY StayKeepsTables, StayKeepsNames
<1>5. Grown
  BY DEF Grown
<1>6. CallsInv'
  BY <1>1, <1>5, StayKeepsCalls
<1>7. blocks' \in Nat /\ EveryBlockReached'
  <2>1. blocks = Leaked
    BY <1>1, BlocksByPart
  <2> QED
    BY <1>1, <1>2, <1>3, <1>4, <2>1, BlocksByPartNext
<1> QED
  BY <1>3, <1>4, <1>6, <1>7 DEF Inv

\* A load that fails before it makes handles.
LEMMA LoadFailsEarlyKeepsInv == Inv /\ LoadFailsEarly => Inv'
<1> SUFFICES ASSUME Inv, LoadFailsEarly PROVE Inv'
  OBVIOUS
<1>1. /\ phase = "closed" /\ phase' = "closed" /\ result' = "ERROR" /\ blocks \in Nat
      /\ UNCHANGED <<img, strings, symbols, names, relocs, lines, done, calls, heard>>
  BY DEF LoadFailsEarly, CanLoad, Inv
<1>2. \E o \in {"machine", "table"} : loads' = Append(loads, o) /\ blocks' = blocks + LeftBy(o)
  <2>1. CASE /\ loads' = Append(loads, "machine")
             /\ blocks' = blocks + IF img.import = "unsupported" THEN 2 ELSE 0
    BY <2>1 DEF LeftBy
  <2>2. CASE loads' = Append(loads, "table") /\ blocks' = blocks
    BY <1>1, <2>2 DEF LeftBy
  <2> QED
    BY <2>1, <2>2 DEF LoadFailsEarly
<1> QED
  BY <1>1, <1>2, FailureKeepsInv DEF Outcomes

\* A load that fails behind the handles frees what the file handle reaches.
LEMMA LoadFailsKeepsInv == Inv /\ LoadFails => Inv'
<1> SUFFICES ASSUME Inv, LoadFails PROVE Inv'
  OBVIOUS
<1>1. /\ phase = "closed" /\ phase' = "closed" /\ result' = "ERROR" /\ blocks \in Nat
      /\ UNCHANGED <<img, strings, symbols, names, relocs, lines, done, calls, heard>>
      /\ PhaseInv /\ TablesInv /\ NamesInv /\ NothingBuilt /\ img \in Images
      /\ blocks' = blocks + Made - Reached
  BY DEF LoadFails, CanLoad, Inv, PhaseInv
<1>2. \E o \in {"rest", "strings"} : loads' = Append(loads, o)
  BY DEF LoadFails
<1>3. ASSUME NEW o \in {"rest", "strings"} PROVE blocks' = blocks + LeftBy(o)
  <2>1. Made = Fixed + LeftBy(o)
    BY <1>1, MadeByPart DEF Outcomes
  <2>2. Reached = Fixed /\ Fixed \in Nat /\ LeftBy(o) \in Nat
    BY <1>1, ReachedByPart, NothingIsNothing, BlocksAreNumbers, LeftByIsNat
  <2> QED
    BY <1>1, <2>1, <2>2
<1> QED
  BY <1>1, <1>2, <1>3, FailureKeepsInv DEF Outcomes

\* A program that has lost its meaning keeps what it had.
LEMMA LostKeepsInv ==
  ASSUME Inv, phase' \in Undefined, phase' = "wild_name" => phase = "open" /\ strings = "none",
         UNCHANGED <<img, strings, symbols, names, relocs, lines, done, calls,
                     result, blocks, loads, heard>>
  PROVE  Inv'
<1>1. PhaseInv /\ CallsInv /\ blocks \in Nat
  BY DEF Inv
<1>2. Expected' = Expected /\ LeftOut' = LeftOut
  BY SameFile DEF Expected, LeftOut
<1>3. PhaseInv'
  BY <1>1, <1>2 DEF PhaseInv, Undefined
<1>4. TablesInv' /\ NamesInv'
  BY StayKeepsTables, StayKeepsNames
<1>5. Grown
  BY DEF Grown
<1>6. CallsInv'
  BY <1>1, <1>5, StayKeepsCalls
<1>7. EveryBlockReached'
  BY <1>3, <1>4, BlocksByPartNext
<1> QED
  BY <1>1, <1>3, <1>4, <1>6, <1>7 DEF Inv

\* Closing gives back what the tables, the names and the handles took.
LEMMA CloseKeepsInv == Inv /\ Close => Inv'
<1> SUFFICES ASSUME Inv, Close PROVE Inv'
  OBVIOUS
<1>1. /\ PhaseInv /\ TablesInv /\ NamesInv /\ CallsInv /\ blocks \in Nat
      /\ EveryBlockReached /\ phase = "open" /\ calls = <<>> /\ img \in Images
  BY DEF Inv, Close, PhaseInv
<1>2. /\ phase' = "closed" /\ img' = img /\ calls' = <<>> /\ loads' = loads
      /\ symbols' = FALSE /\ relocs' = {} /\ names' = NoTable
      /\ lines' = LinesInFile /\ done' = {} /\ strings' = "none"
      /\ blocks' = blocks - Reached /\ result' = "OKAY" /\ heard' = heard
  BY <1>1 DEF Close
<1>3. NothingBuilt'
  BY <1>2, SameFile DEF NothingBuilt
<1>4. PhaseInv'
  BY <1>1, <1>2, <1>3 DEF PhaseInv
<1>5. TablesInv'
  <2>1. lines' = [h \in Secs |-> img.secs[h].lines] /\ Secs' = Secs
    BY <1>2, SameFile DEF LinesInFile
  <2> QED
    BY <1>2, <2>1 DEF TablesInv
<1>6. NamesInv' /\ CallsInv'
  BY <1>2 DEF NamesInv, CallsInv
<1>7. blocks' = Leaked' /\ blocks' \in Nat
  <2>1. Leaked \in Nat /\ Fixed \in Nat /\ Built \in Nat /\ NameBlocks \in Nat
    BY <1>1, BlocksAreNumbers
  <2>2. blocks = Leaked + (Fixed + Built + NameBlocks) /\ Reached = Fixed + Built + NameBlocks
    BY <1>1, BlocksByPart, ReachedByPart
  <2>3. Leaked' = Leaked
    BY <1>2, SameLosses
  <2> QED
    BY <1>2, <2>1, <2>2, <2>3
<1>8. EveryBlockReached'
  BY <1>2, <1>4, <1>5, <1>6, <1>7, BlocksByPartNext
<1> QED
  BY <1>4, <1>5, <1>6, <1>7, <1>8 DEF Inv

\* A step of an open file that builds some of its tables.
LEMMA BuildKeepsInv ==
  ASSUME Inv, phase = "open", phase' \in {"open"} \cup Undefined, phase' # "wild_name",
         UNCHANGED <<img, strings, names, loads, heard>>,
         TablesInv', CallsInv', result' \in {"OKAY", "FALSE", "ERROR", STOP},
         NEW p \in Nat, Built' = Built + p, blocks' = blocks + p
  PROVE  Inv'
<1>1. PhaseInv /\ TablesInv /\ NamesInv /\ blocks \in Nat
  BY DEF Inv
<1>2. \A i \in DOMAIN heard' : heard'[i].note \in img.notes
  BY <1>1 DEF PhaseInv
<1>3. PhaseInv'
  BY <1>2, OpenKeepsPhase
<1>4. NamesInv' /\ NameBlocks' = NameBlocks /\ NameBlocks \in Nat
  BY <1>1, StayKeepsNames, BlocksAreNumbers
<1>5. phase' # "closed"
  BY DEF Undefined
<1>6. NameBlocks' = NameBlocks + 0 /\ blocks' = blocks + (p + 0)
  BY <1>1, <1>4
<1>7. blocks' \in Nat /\ EveryBlockReached'
  BY <1>3, <1>4, <1>5, <1>6, BuildingKeepsBlocks
<1> QED
  BY <1>3, <1>4, <1>7 DEF Inv

\* A step of an open file that builds nothing.
LEMMA QuietKeepsInv ==
  ASSUME Inv, phase = "open", phase' \in {"open"} \cup Undefined,
         phase' = "wild_name" => strings = "none",
         UNCHANGED <<img, strings, symbols, names, relocs, lines, done, blocks, loads>>,
         CallsInv', result' \in {"OKAY", "FALSE", "ERROR", STOP},
         \A i \in DOMAIN heard' : heard'[i].note \in img.notes
  PROVE  Inv'
<1>1. PhaseInv /\ TablesInv /\ NamesInv /\ blocks \in Nat
  BY DEF Inv
<1>2. PhaseInv'
  BY OpenKeepsPhase
<1>3. TablesInv' /\ NamesInv' /\ Built' = Built /\ NameBlocks' = NameBlocks
  BY StayKeepsTables, StayKeepsNames
<1>4. Built \in Nat /\ NameBlocks \in Nat
  BY <1>1, BlocksAreNumbers
<1>5. Built' = Built + 0 /\ NameBlocks' = NameBlocks + 0 /\ blocks' = blocks + (0 + 0)
  BY <1>1, <1>3, <1>4
<1>6. phase' # "closed"
  BY DEF Undefined
<1>7. blocks' \in Nat /\ EveryBlockReached'
  BY <1>2, <1>3, <1>5, <1>6, BuildingKeepsBlocks
<1> QED
  BY <1>2, <1>3, <1>7 DEF Inv

\* CoffFileScan
LEMMA FileScanKeepsInv ==
  ASSUME Inv, NEW name \in DOMAIN HashOf \cup {ANY}, FileScan(name)
  PROVE  Inv'
<1>1. /\ PhaseInv /\ TablesInv /\ NamesInv /\ CallsInv /\ blocks \in Nat
      /\ phase = "open" /\ phase' = phase
      /\ UNCHANGED <<img, strings, symbols, relocs, lines, done, loads, heard>>
  BY DEF Inv, FileScan, CanCall
<1>2. TablesInv' /\ Built' = Built
  BY <1>1, StayKeepsTables
<1>3. \A i \in DOMAIN heard' : heard'[i].note \in img.notes
  BY <1>1 DEF PhaseInv
<1>4. CASE name = ANY
  <2>1. names' = names /\ blocks' = blocks /\ Enter("all", ANY, names)
    BY <1>4 DEF FileScan
  <2>2. Grown
    BY <1>1, <2>1 DEF Grown
  <2>3. CallsInv' /\ result' = result
    BY <2>1, <2>2, EnterKeepsCalls
  <2>4. result' \in {"OKAY", "FALSE", "ERROR", STOP}
    BY <1>1, <2>3 DEF PhaseInv
  <2> QED
    BY <1>1, <1>3, <2>1, <2>3, <2>4, QuietKeepsInv
<1>5. CASE name # ANY
  <2> DEFINE t == IF names = NoTable THEN NameTable ELSE names
             q == IF names = NoTable THEN 2 + Hash!Reached(t) ELSE 0
  <2>1. /\ names' = t /\ Enter("named", name, t) /\ name \in DOMAIN HashOf
        /\ blocks' = IF names = NoTable THEN blocks + 2 + Hash!Reached(t) ELSE blocks
    BY <1>5 DEF FileScan
  <2>2. NamedTable(t)
    BY <1>1, NameTableIsNamed DEF PhaseInv, NamesInv
  <2>3. t # NoTable /\ Hash!Reached(t) \in Nat
    BY <2>2, NamedReached
  <2>4. blocks' = blocks + q
    <3>1. blocks' = IF names = NoTable THEN blocks + 2 + Hash!Reached(t) ELSE blocks
      BY <2>1
    <3> HIDE DEF t
    <3> QED
      BY <1>1, <2>3, <3>1
  <2>5. q \in Nat /\ NameBlocks' = NameBlocks + q
    <3>1. NameBlocks' = 2 + Hash!Reached(t)
      BY <2>1, <2>3 DEF NameBlocks
    <3>2. NameBlocks = IF names = NoTable THEN 0 ELSE 2 + Hash!Reached(t)
      BY DEF NameBlocks
    <3> HIDE DEF t
    <3> QED
      BY <2>3, <3>1, <3>2
  <2> HIDE DEF t, q
  <2>6. NamesInv'
    BY <2>1, <2>2 DEF NamesInv
  <2>7. Grown
    BY <1>1, <2>1, <2>3 DEF Grown
  <2>8. CallsInv' /\ result' = result
    BY <2>1, <2>2, <2>3, <2>7, EnterKeepsCalls
  <2>9. PhaseInv'
    <3>1. result' \in {"OKAY", "FALSE", "ERROR", STOP} /\ phase' # "wild_name"
      BY <1>1, <2>8 DEF PhaseInv
    <3> QED
      BY <1>1, <1>3, <3>1, OpenKeepsPhase
  <2>10. blocks' \in Nat /\ EveryBlockReached'
    <3>1. Built' = Built + 0 /\ blocks' = blocks + (0 + q)
      BY <1>1, <1>2, <2>4, <2>5, BlocksAreNumbers
    <3> QED
      BY <1>1, <1>2, <2>5, <2>6, <2>9, <3>1, BuildingKeepsBlocks
  <2> QED
    BY <1>2, <2>6, <2>8, <2>9, <2>10 DEF Inv
<1> QED
  BY <1>4, <1>5

\* The symbols are made, if there are some, and take their blocks once.
LEMMA SymbolsEnsured ==
  ASSUME Inv, img' = img, NEW more \in Nat, EnsureSymbols(more)
  PROVE  /\ symbols' = (NumSymbols # 0) /\ (symbols => symbols')
         /\ \E p \in Nat : SymBlocks' = SymBlocks + p /\ blocks' = blocks + (more + p)
<1>1. /\ symbols \in BOOLEAN /\ (symbols => NumSymbols # 0) /\ blocks \in Nat /\ img \in Images
  BY DEF Inv, TablesInv, PhaseInv
<1>2. SymbolBlocks \in Nat /\ (NumSymbols = 0 => SymbolBlocks = 0) /\ SymbolBlocks' = SymbolBlocks
  BY <1>1, SymbolBlocksAreNumbers, SameFile
<1>3. /\ symbols' = (NumSymbols # 0)
      /\ blocks' = blocks + more + IF symbols THEN 0 ELSE SymbolBlocks
  BY DEF EnsureSymbols
<1>4. symbols => symbols'
  BY <1>1, <1>3
<1> DEFINE p == IF symbols THEN 0 ELSE SymbolBlocks
<1>5. p \in Nat /\ blocks' = blocks + (more + p)
  BY <1>1, <1>2, <1>3
<1>6. SymBlocks' = SymBlocks + p
  <2>1. CASE symbols
    <3>1. SymBlocks' = SymbolBlocks /\ SymBlocks = SymbolBlocks /\ p = 0
      BY <1>2, <1>4, <2>1 DEF SymBlocks
    <3> QED
      BY <1>2, <3>1
  <2>2. CASE ~symbols /\ NumSymbols # 0
    <3>1. SymBlocks' = SymbolBlocks /\ SymBlocks = 0 /\ p = SymbolBlocks
      BY <1>2, <1>3, <2>2 DEF SymBlocks
    <3> QED
      BY <1>2, <3>1
  <2>3. CASE ~symbols /\ NumSymbols = 0
    <3>1. SymBlocks' = 0 /\ SymBlocks = 0 /\ p = 0
      BY <1>2, <1>3, <2>3 DEF SymBlocks
    <3> QED
      BY <3>1
  <2> QED
    BY <2>1, <2>2, <2>3
<1> HIDE DEF p
<1> QED
  BY <1>3, <1>4, <1>5, <1>6

\* A step that makes the symbols, and the relocations of a section or none.
LEMMA SymbolsKeepTables ==
  ASSUME Inv, UNCHANGED <<img, lines, done>>,
         \/ EnsureSymbols(0) /\ relocs' = relocs
         \/ \E r \in RelocSecs \ relocs : EnsureSymbols(1) /\ relocs' = relocs \cup {r}
  PROVE  /\ TablesInv'
         /\ \E p \in Nat : Built' = Built + p /\ blocks' = blocks + p
<1>1. /\ PhaseInv /\ TablesInv /\ NamesInv /\ blocks \in Nat
      /\ Secs' = Secs /\ RelocSecs' = RelocSecs /\ NumSymbols' = NumSymbols
      /\ \A t : Based(t)' = Based(t)
  BY SameFile, SameLines DEF Inv
<1>2. IsFiniteSet(relocs) /\ Cardinality(relocs) \in Nat /\ SymBlocks \in Nat
  BY <1>1, BlocksAreNumbers
<1>3. ASSUME symbols' = (NumSymbols # 0), relocs' \subseteq RelocSecs PROVE TablesInv'
  BY <1>1, <1>3 DEF TablesInv
<1>4. CASE EnsureSymbols(0) /\ relocs' = relocs
  <2>1. /\ symbols' = (NumSymbols # 0)
        /\ \E p \in Nat : SymBlocks' = SymBlocks + p /\ blocks' = blocks + (0 + p)
    BY <1>4, SymbolsEnsured
  <2>2. PICK p \in Nat : SymBlocks' = SymBlocks + p /\ blocks' = blocks + (0 + p)
    BY <2>1
  <2>3. Cardinality(relocs') = Cardinality(relocs)
    BY <1>4
  <2>4. Built' = Built + p /\ blocks' = blocks + p
    BY <1>1, <1>2, <2>2, <2>3 DEF Built
  <2> QED
    BY <1>1, <1>3, <1>4, <2>1, <2>4 DEF TablesInv
<1>5. ASSUME NEW r \in RelocSecs \ relocs, EnsureSymbols(1), relocs' = relocs \cup {r}
      PROVE  /\ TablesInv'
             /\ \E p \in Nat : Built' = Built + p /\ blocks' = blocks + p
  <2>1. /\ symbols' = (NumSymbols # 0)
        /\ \E p \in Nat : SymBlocks' = SymBlocks + p /\ blocks' = blocks + (1 + p)
    BY <1>5, SymbolsEnsured
  <2>2. PICK p \in Nat : SymBlocks' = SymBlocks + p /\ blocks' = blocks + (1 + p)
    BY <2>1
  <2>3. Cardinality(relocs') = Cardinality(relocs) + 1
    BY <1>2, <1>5, FS_AddElement
  <2>4. Built' = Built + (1 + p) /\ 1 + p \in Nat
    BY <1>2, <2>2, <2>3 DEF Built
  <2>5. \E x \in Nat : Built' = Built + x /\ blocks' = blocks + x
    BY <2>2, <2>4
  <2> QED
    BY <1>1, <1>3, <1>5, <2>1, <2>5 DEF TablesInv
<1> QED
  BY <1>4, <1>5

\* CoffSymbolSecScan
LEMMA SymbolSecScanKeepsInv == Inv /\ SymbolSecScan => Inv'
<1> SUFFICES ASSUME Inv, SymbolSecScan PROVE Inv'
  OBVIOUS
<1>1. /\ phase = "open" /\ phase' = phase /\ EnsureSymbols(0) /\ Enter("symbols", ANY, names)
      /\ UNCHANGED <<img, strings, names, relocs, lines, done, loads, heard>>
      /\ img \in Images /\ result \in {"OKAY", "FALSE", "ERROR", STOP}
  BY DEF SymbolSecScan, CanCall, Inv, PhaseInv
<1>2. TablesInv' /\ \E p \in Nat : Built' = Built + p /\ blocks' = blocks + p
  BY <1>1, SymbolsKeepTables
<1>3. symbols' = (NumSymbols # 0) /\ (symbols => symbols')
  BY <1>1, SymbolsEnsured
<1>4. Grown /\ (Heads # {} => symbols')
  BY <1>1, <1>3, HeadsChain DEF Grown
<1>5. CallsInv' /\ result' = result
  BY <1>1, <1>4, EnterKeepsCalls
<1> QED
  BY <1>1, <1>2, <1>5, BuildKeepsInv

\* A scan of relocations, which fails whatever it makes.
LEMMA ScanRelocsKeepsInv ==
  ASSUME Inv, NEW r \in RelocSecs, ScanRelocs(r)
  PROVE  Inv'
<1>1. /\ phase = "open" /\ result \in {"OKAY", "FALSE", "ERROR", STOP} /\ CallsInv
      /\ UNCHANGED <<img, strings, names, lines, done, calls, loads, heard>>
      /\ \A i \in DOMAIN heard' : heard'[i].note \in img.notes
  BY DEF ScanRelocs, CanCall, Inv, PhaseInv
<1>2. CASE r \in relocs
  <2>1. result' = "ERROR" /\ UNCHANGED <<phase, symbols, relocs, blocks>>
    BY <1>2 DEF ScanRelocs
  <2>2. Grown
    BY <1>1, <2>1 DEF Grown
  <2>3. CallsInv'
    BY <1>1, <2>2, StayKeepsCalls
  <2> QED
    BY <1>1, <2>1, <2>3, QuietKeepsInv
<1>3. CASE r \notin relocs
  <2>1. \/ /\ EnsureSymbols(1) /\ phase' = "wild_write" /\ relocs' = relocs /\ result' = result
        \/ /\ \/ EnsureSymbols(0) /\ relocs' = relocs
              \/ EnsureSymbols(1) /\ relocs' = relocs \cup {r}
           /\ result' = "ERROR" /\ phase' = phase
    BY <1>3 DEF ScanRelocs
  <2>2. symbols => symbols'
    BY <1>1, <2>1, SymbolsEnsured
  <2>3. Grown
    BY <1>1, <2>2 DEF Grown
  <2>4. CallsInv'
    BY <1>1, <2>3, StayKeepsCalls
  <2>5. CASE /\ \/ EnsureSymbols(0) /\ relocs' = relocs
                \/ EnsureSymbols(1) /\ relocs' = relocs \cup {r}
             /\ result' = "ERROR" /\ phase' = phase
    <3>1. TablesInv' /\ \E p \in Nat : Built' = Built + p /\ blocks' = blocks + p
      BY <1>1, <1>3, <2>5, SymbolsKeepTables
    <3> QED
      BY <1>1, <2>4, <2>5, <3>1, BuildKeepsInv
  <2>6. CASE /\ EnsureSymbols(1) /\ phase' = "wild_write" /\ relocs' = relocs
             /\ result' = result
    <3>1. /\ symbols' = (NumSymbols # 0)
          /\ \E p \in Nat : SymBlocks' = SymBlocks + p /\ blocks' = blocks + (1 + p)
      BY <1>1, <2>6, SymbolsEnsured
    <3>2. TablesInv /\ NumSymbols' = NumSymbols /\ Secs' = Secs /\ RelocSecs' = RelocSecs
          /\ \A t : Based(t)' = Based(t)
      BY <1>1, SameFile, SameLines DEF Inv
    <3>3. TablesInv'
      BY <1>1, <2>6, <3>1, <3>2 DEF TablesInv
    <3>4. blocks' \in Nat
      BY <3>1 DEF Inv
    <3>5. NamesInv'
      BY <1>1, StayKeepsNames
    <3>6. PhaseInv'
      BY <1>1, <2>6, OpenKeepsPhase DEF Undefined
    <3>7. EveryBlockReached'
      BY <2>6, <3>3, <3>5, <3>6, BlocksByPartNext DEF Undefined
    <3> QED
      BY <2>4, <3>3, <3>4, <3>5, <3>6, <3>7 DEF Inv
  <2> QED
    BY <2>1, <2>5, <2>6
<1> QED
  BY <1>2, <1>3

\* The section of relocations of a section that has some is one.
LEMMA RelocSecIsOne == \A h : RelocSec(h) # 0 => RelocSec(h) \in RelocSecs
BY DEF RelocSec, RelocSecs

\* A scan of a section that has nothing to scan.
LEMMA ScanNothingKeepsInv ==
  ASSUME Inv, NEW h, ScanNothing(h)
  PROVE  Inv'
<1>1. /\ phase = "open" /\ phase' = phase /\ result' \in {"ERROR", "FALSE"}
      /\ UNCHANGED <<img, strings, symbols, names, relocs, lines, done, calls, blocks, loads, heard>>
  BY DEF ScanNothing, CanCall
<1>2. Grown
  BY <1>1 DEF Grown
<1>3. CallsInv'
  BY <1>1, <1>2, StayKeepsCalls DEF Inv
<1>4. \A i \in DOMAIN heard' : heard'[i].note \in img.notes
  BY <1>1 DEF Inv, PhaseInv
<1> QED
  BY <1>1, <1>3, <1>4, QuietKeepsInv

\* CoffSecGetLines, which converts the lines of the file, and those only.
LEMMA SecGetLinesKeepsInv ==
  ASSUME Inv, NEW h, SecGetLines(h)
  PROVE  Inv'
<1>1. /\ phase = "open" /\ phase' = phase /\ EnsureSymbols(0) /\ h \in Secs
      /\ lines' = [lines EXCEPT ![h] = IF h \in done THEN @ ELSE Converted(@)]
      /\ done' = done \cup {h}
      /\ UNCHANGED <<img, strings, names, relocs, calls, result, loads, heard>>
      /\ PhaseInv /\ TablesInv /\ NamesInv /\ CallsInv /\ blocks \in Nat /\ img \in Images
  BY DEF SecGetLines, CanCall, Inv, PhaseInv
<1>2. /\ symbols' = (NumSymbols # 0) /\ (symbols => symbols')
      /\ \E p \in Nat : SymBlocks' = SymBlocks + p /\ blocks' = blocks + (0 + p)
  BY <1>1, SymbolsEnsured
<1>3. Converted(img.secs[h].lines) = Based(img.secs[h].lines)
  <2>1. FileLines(img.secs[h].lines)
    BY <1>1, SectionsAreTyped DEF Secs, FileLines, Heads
  <2> QED
    BY <1>1, <2>1, ConvertedIsBased
<1>4. lines' = [g \in Secs |-> IF g \in done' THEN Based(img.secs[g].lines) ELSE img.secs[g].lines]
  <2>1. lines = [g \in Secs |-> IF g \in done THEN Based(img.secs[g].lines) ELSE img.secs[g].lines]
    BY <1>1 DEF TablesInv
  <2>2. h \in done => lines[h] = Based(img.secs[h].lines)
    BY <1>1, <2>1
  <2>3. h \notin done => Converted(lines[h]) = Based(img.secs[h].lines)
    BY <1>1, <1>3, <2>1
  <2>4. lines' = [lines EXCEPT ![h] = Based(img.secs[h].lines)]
    BY <1>1, <2>2, <2>3
  <2> QED
    BY <1>1, <2>1, <2>4
<1>5. TablesInv'
  <2>1. Secs' = Secs /\ RelocSecs' = RelocSecs /\ NumSymbols' = NumSymbols
    BY <1>1, SameFile
  <2>2. \A t : Based(t)' = Based(t)
    BY <1>1, SameLines
  <2> QED
    BY <1>1, <1>2, <1>4, <2>1, <2>2 DEF TablesInv
<1>6. Grown
  BY <1>1, <1>2 DEF Grown
<1>7. CallsInv'
  BY <1>1, <1>6, StayKeepsCalls
<1>8. \E p \in Nat : Built' = Built + p /\ blocks' = blocks + p
  <2>1. PICK p \in Nat : SymBlocks' = SymBlocks + p /\ blocks' = blocks + (0 + p)
    BY <1>2
  <2>2. Cardinality(relocs) \in Nat /\ SymBlocks \in Nat /\ Cardinality(relocs') = Cardinality(relocs)
    BY <1>1, BlocksAreNumbers
  <2>3. Built' = Built + p /\ blocks' = blocks + p
    BY <1>1, <2>1, <2>2 DEF Built
  <2> QED
    BY <2>3
<1>9. result' \in {"OKAY", "FALSE", "ERROR", STOP}
  BY <1>1 DEF PhaseInv
<1> QED
  BY <1>1, <1>5, <1>7, <1>8, <1>9, BuildKeepsInv

\* A scan without entries returns.
LEMMA ReturnUncalledKeepsInv == Inv /\ ReturnUncalled => Inv'
<1> SUFFICES ASSUME Inv, ReturnUncalled PROVE Inv'
  OBVIOUS
<1>1. /\ phase = "open" /\ phase' = phase /\ result' = "OKAY"
      /\ calls # <<>> /\ calls' = Tail(calls)
      /\ UNCHANGED <<img, strings, symbols, names, relocs, lines, done, blocks, loads, heard>>
  BY DEF ReturnUncalled
<1>2. Grown
  BY <1>1 DEF Grown
<1>3. CallsInv'
  BY <1>1, <1>2, PopKeepsCalls DEF Inv
<1>4. \A i \in DOMAIN heard' : heard'[i].note \in img.notes
  BY <1>1 DEF Inv, PhaseInv
<1> QED
  BY <1>1, <1>3, <1>4, QuietKeepsInv

\* The innermost scan goes on or returns.
LEMMA AnswerKeepsInv ==
  ASSUME Inv, NEW a \in {"OKAY", STOP}, Answer(a)
  PROVE  Inv'
<1>1. /\ phase = "open" /\ phase' = phase /\ calls # <<>>
      /\ UNCHANGED <<img, strings, symbols, names, relocs, lines, done, blocks, loads, heard>>
      /\ PhaseInv /\ CallsInv /\ NamesInv
  BY DEF Answer, Inv
<1>2. PICK c : c = calls[1]
  OBVIOUS
<1> DEFINE later == {i \in Stops(c, names) : i > c.at}
<1>3. \/ /\ later # {} /\ calls' = <<[c EXCEPT !.at = Min(later)]>> \o Tail(calls)
         /\ result' = result
      \/ calls' = Tail(calls) /\ result' = a
  BY <1>2 DEF Answer
<1>4. /\ calls \in Seq(Call) /\ \A i \in DOMAIN calls : CallInv(calls[i])
      /\ c \in Call /\ CallInv(c)
  BY <1>1, <1>2 DEF CallsInv
<1>5. Grown
  BY <1>1 DEF Grown
<1>6. c.at # 0
  BY <1>2 DEF Answer
<1>7. CallsInv'
  <2>1. CASE calls' = Tail(calls)
    BY <1>1, <1>5, <2>1, PopKeepsCalls
  <2>2. CASE later # {} /\ calls' = <<[c EXCEPT !.at = Min(later)]>> \o Tail(calls)
    <3>1. Stops(c, names) \subseteq Nat
      <4>1. /\ c.op \in {"all", "named", "symbols"}
            /\ c.op = "named" => NamedTable(names) /\ c.want \in DOMAIN HashOf
        BY <1>1, <1>4 DEF Call, CallInv, NamesInv
      <4> QED
        BY <1>1, <4>1, StopsAreIndices DEF PhaseInv
    <3>2. Min(later) \in Nat
      BY <2>2, <3>1, MinIsIn
    <3>3. Tail(calls) \in Seq(Call) /\ \A i \in DOMAIN Tail(calls) : CallInv(Tail(calls)[i])
      <4>1. /\ Tail(calls) \in Seq(Call)
            /\ \A i \in DOMAIN Tail(calls) : i + 1 \in DOMAIN calls /\ Tail(calls)[i] = calls[i + 1]
        BY <1>1, <1>4
      <4> QED
        BY <1>4, <4>1
    <3>4. PICK n \in Nat : n = Min(later)
      BY <3>2
    <3>5. PICK d : d = [c EXCEPT !.at = n]
      OBVIOUS
    <3>6. d \in Call /\ d.op = c.op /\ d.want = c.want
      BY <1>4, <3>5, CallAt
    <3>7. CallInv(d)'
      <4>1. /\ c.op = "symbols" => symbols'
            /\ c.op = "named" => c.want \in DOMAIN HashOf /\ names' # NoTable
        BY <1>1, <1>4, <1>6 DEF CallInv
      <4> QED
        BY <3>6, <4>1 DEF CallInv
    <3>8. calls' = <<d>> \o Tail(calls)
      BY <2>2, <3>4, <3>5
    <3> QED
      BY <1>1, <1>5, <3>3, <3>6, <3>7, <3>8, PushKeepsCalls
  <2> QED
    BY <1>3, <2>1, <2>2
<1>8. result' \in {"OKAY", "FALSE", "ERROR", STOP}
  BY <1>1, <1>3 DEF PhaseInv
<1>9. \A i \in DOMAIN heard' : heard'[i].note \in img.notes
  BY <1>1 DEF PhaseInv
<1> QED
  BY <1>1, <1>7, <1>8, <1>9, QuietKeepsInv

\* The linker directives are heard.
LEMMA NoteSecScanKeepsInv ==
  ASSUME Inv, NEW h, NoteSecScan(h)
  PROVE  Inv'
<1>1. /\ phase = "open" /\ result' = "OKAY" /\ calls' = calls
      /\ UNCHANGED <<img, strings, symbols, names, relocs, lines, done, blocks, loads>>
      /\ \E note \in img.notes : \E it \in CoffParseDrectve(note) :
           /\ heard' = <<[note |-> note, said |-> it]>>
           /\ phase' = IF it.wild THEN "wild_text" ELSE phase
  BY DEF NoteSecScan, CanCall
<1>2. PICK note \in img.notes : \E it \in CoffParseDrectve(note) :
        /\ heard' = <<[note |-> note, said |-> it]>>
        /\ phase' = IF it.wild THEN "wild_text" ELSE phase
  BY <1>1
<1>3. PICK it \in CoffParseDrectve(note) :
        /\ heard' = <<[note |-> note, said |-> it]>>
        /\ phase' = IF it.wild THEN "wild_text" ELSE phase
  BY <1>2
<1>4. phase' \in {"open"} \cup Undefined /\ phase' # "wild_name"
  BY <1>1, <1>3 DEF Undefined
<1>5. \A i \in DOMAIN heard' : heard'[i].note \in img.notes
  BY <1>3
<1>6. Grown
  BY <1>1 DEF Grown
<1>7. CallsInv'
  BY <1>1, <1>6, StayKeepsCalls DEF Inv
<1> QED
  BY <1>1, <1>4, <1>5, <1>7, QuietKeepsInv

\* The client goes on to something else.
LEMMA ForgetKeepsInv == Inv /\ Forget => Inv'
<1> SUFFICES ASSUME Inv, Forget PROVE Inv'
  OBVIOUS
<1>1. /\ phase = "open" /\ phase' = phase /\ heard' = <<>>
      /\ UNCHANGED <<img, strings, symbols, names, relocs, lines, done, calls, result, blocks, loads>>
  BY DEF Forget
<1>2. Grown
  BY <1>1 DEF Grown
<1>3. CallsInv'
  BY <1>1, <1>2, StayKeepsCalls DEF Inv
<1>4. result' \in {"OKAY", "FALSE", "ERROR", STOP}
  BY <1>1 DEF Inv, PhaseInv
<1>5. \A i \in DOMAIN heard' : heard'[i].note \in img.notes
  BY <1>1
<1> QED
  BY <1>1, <1>3, <1>4, <1>5, QuietKeepsInv

\* The program loses its meaning.
LEMMA CrashesKeepInv == Inv /\ (LoadCrashes \/ FollowWildName) => Inv'
<1>1. LoadCrashes => /\ phase' \in Undefined /\ phase' # "wild_name"
                     /\ UNCHANGED <<img, strings, symbols, names, relocs, lines, done, calls,
                                    result, blocks, loads, heard>>
  BY DEF LoadCrashes, Undefined
<1>2. FollowWildName => /\ phase' \in Undefined /\ phase = "open" /\ strings = "none"
                        /\ UNCHANGED <<img, strings, symbols, names, relocs, lines, done, calls,
                                       result, blocks, loads, heard>>
  BY DEF FollowWildName, CanCall, WildNames, WildSymbols, Undefined
<1> QED
  BY <1>1, <1>2, LostKeepsInv

\* The invariant holds initially.
LEMMA InvInit == Init => Inv
<1> SUFFICES ASSUME Init PROVE Inv
  OBVIOUS
<1>1. PhaseInv /\ NothingBuilt
  BY DEF Init, PhaseInv, Undefined
<1>2. TablesInv
  BY <1>1 DEF TablesInv, NothingBuilt, LinesInFile
<1>3. NamesInv /\ CallsInv
  BY <1>1 DEF Init, NamesInv, CallsInv, NothingBuilt
<1>4. blocks \in Nat /\ EveryBlockReached
  <2>1. blocks = 0 /\ phase = "closed" /\ DOMAIN loads = {}
    BY DEF Init
  <2>2. Leaked = SumFunctionOnSet(Losses, {})
    BY <2>1 DEF Leaked, Losses, SumFunction
  <2>3. Leaked = 0
    BY <2>2, SumOfNothing
  <2> QED
    BY <1>1, <1>2, <1>3, <2>1, <2>3, BlocksByPart
<1> QED
  BY <1>1, <1>2, <1>3, <1>4 DEF Inv

\* Every step keeps the invariant.
LEMMA InvStep == Inv /\ [Next]_vars => Inv'
<1> SUFFICES ASSUME Inv, [Next]_vars PROVE Inv'
  OBVIOUS
<1>1. CASE Load
  BY <1>1, LoadKeepsInv
<1>2. CASE LoadFailsEarly
  BY <1>2, LoadFailsEarlyKeepsInv
<1>3. CASE LoadFails
  BY <1>3, LoadFailsKeepsInv
<1>4. CASE LoadCrashes \/ FollowWildName
  BY <1>4, CrashesKeepInv
<1>5. CASE Close
  BY <1>5, CloseKeepsInv
<1>6. ASSUME NEW name \in DOMAIN HashOf \cup {ANY}, FileScan(name) PROVE Inv'
  BY <1>6, FileScanKeepsInv
<1>7. CASE SymbolSecScan
  BY <1>7, SymbolSecScanKeepsInv
<1>8. ASSUME NEW h \in Handles, RelocSecScan(h) PROVE Inv'
  BY <1>8, ScanRelocsKeepsInv DEF RelocSecScan
<1>9. ASSUME NEW h \in Handles, SecScanReloc(h) PROVE Inv'
  BY <1>9, ScanRelocsKeepsInv, RelocSecIsOne DEF SecScanReloc
<1>10. ASSUME NEW h \in Handles, ScanNothing(h) PROVE Inv'
  BY <1>10, ScanNothingKeepsInv
<1>11. ASSUME NEW h \in Handles, SecGetLines(h) PROVE Inv'
  BY <1>11, SecGetLinesKeepsInv
<1>12. ASSUME NEW h \in Handles, NoteSecScan(h) PROVE Inv'
  BY <1>12, NoteSecScanKeepsInv
<1>13. CASE Forget
  BY <1>13, ForgetKeepsInv
<1>14. CASE ReturnUncalled
  BY <1>14, ReturnUncalledKeepsInv
<1>15. ASSUME NEW a \in {"OKAY", STOP}, Answer(a) PROVE Inv'
  BY <1>15, AnswerKeepsInv
<1>16. CASE UNCHANGED vars
  <2>1. UNCHANGED <<img, phase, strings, symbols, names, relocs, lines, done, calls,
                    result, blocks, loads, heard>>
    BY <1>16 DEF vars
  <2>2. Grown
    BY <2>1 DEF Grown
  <2>3. CallsInv'
    BY <2>1, <2>2, StayKeepsCalls DEF Inv
  <2>4. TablesInv' /\ NamesInv'
    BY <2>1, StayKeepsTables, StayKeepsNames
  <2>5. PhaseInv'
    <3>1. /\ RestInFile' = RestInFile /\ BufEnd' = BufEnd /\ Expected' = Expected
          /\ LeftOut' = LeftOut /\ Off(StrTab)' = Off(StrTab) /\ NothingBuilt' = NothingBuilt
      BY <2>1, SameFile DEF Expected, LeftOut, NothingBuilt
    <3> QED
      BY <2>1, <3>1 DEF Inv, PhaseInv
  <2>6. blocks' \in Nat /\ EveryBlockReached'
    <3>1. PhaseInv /\ TablesInv /\ NamesInv /\ EveryBlockReached /\ blocks \in Nat
      BY DEF Inv
    <3>2. /\ Leaked' = Leaked /\ Fixed' = Fixed /\ Built' = Built /\ NameBlocks' = NameBlocks
      BY <2>1, SameLosses, StayKeepsTables, StayKeepsNames
    <3>3. phase \in {"closed", "open"} \cup Undefined
      BY <3>1 DEF PhaseInv
    <3> QED
      BY <2>1, <2>4, <2>5, <3>1, <3>2, <3>3, BlocksByPart, BlocksByPartNext
  <2> QED
    BY <2>3, <2>4, <2>5, <2>6 DEF Inv
<1> QED
  BY <1>1, <1>2, <1>3, <1>4, <1>5, <1>6, <1>7, <1>8, <1>9, <1>10, <1>11, <1>12, <1>13,
     <1>14, <1>15, <1>16 DEF Next

\* The invariant holds in every behaviour.
LEMMA InvHolds == Spec => []Inv
BY InvInit, InvStep, PTL DEF Spec

-----------------------------------------------------------------------------
(* The theorems.                                                           *)

\* Every variable has its type in every state.
THEOREM TypeCorrect == Spec => []TypeOK
<1>1. Inv => TypeOK
  <2> SUFFICES ASSUME Inv PROVE TypeOK
    OBVIOUS
  <2>1. PhaseInv /\ TablesInv /\ CallsInv /\ blocks \in Nat /\ img \in Images
    BY DEF Inv, PhaseInv
  <2>2. ASSUME NEW h \in Secs PROVE lines[h] \in Seq([num : LineNumbers, ref : Nat])
    <3>1. img.secs[h].lines \in Seq([num : LineNumbers, ref : Nat]) /\ FileLines(img.secs[h].lines)
      BY <2>1, SectionsAreTyped DEF Secs, FileLines, Heads
    <3>2. Based(img.secs[h].lines) \in Seq([num : LineNumbers, ref : Nat])
      BY <2>1, <3>1, ConvertedIsBased
    <3> QED
      BY <2>1, <3>1, <3>2 DEF TablesInv
  <2> QED
    BY <2>1, <2>2 DEF PhaseInv, TablesInv, CallsInv, TypeOK
<1> QED
  BY <1>1, InvHolds, PTL

\* However often and from wherever they are asked for, the line numbers of a
\* section are those of the file until the first time, and from then on those of
\* the file with the base of their function added once.
THEOREM LinesAreConvertedOnce == Spec => []LinesConvertedOnce
<1>1. Inv => LinesConvertedOnce
  BY DEF Inv, TablesInv, LinesConvertedOnce
<1> QED
  BY <1>1, InvHolds, PTL

\* Closing a file gives back what was built of it; what its loads leave behind
\* are the two arrays of relocations and the data of an import library.
THEOREM NothingLeaks == Spec => []EveryBlockReached
<1>1. Inv => EveryBlockReached
  BY DEF Inv
<1> QED
  BY <1>1, InvHolds, PTL

\* Line numbers and relocations are made of symbols that exist, and a scan in
\* progress walks a table that is there.
THEOREM TablesAreBacked == Spec => []TablesBacked
<1>1. Inv => TablesBacked
  BY DEF Inv, TablesInv, CallsInv, CallInv, TablesBacked
<1> QED
  BY <1>1, InvHolds, PTL

\* An open file has all its sections, relocations and symbols, and its whole
\* string table or none; names that are beside the string table are taken only
\* when its size could not be read or was not there.
THEOREM CutOffFilesAreRefused == Spec => []NothingTruncated
<1>1. Inv => NothingTruncated
  <2> SUFFICES ASSUME Inv PROVE NothingTruncated
    OBVIOUS
  <2>1. PhaseInv /\ img \in Images
    BY DEF Inv, PhaseInv
  <2>2. BufEnd \in Nat /\ img.eof \in Nat
    BY <2>1, BufEndIsLast, FilesAreTyped
  <2>3. ASSUME phase = "open", NEW h \in Handles, h \in Secs => img.secs[h].kind # "bss"
        PROVE  Off(h) + SizeOf(h) <= img.eof
    <3>1. BufEnd <= img.eof /\ Off(h) + SizeOf(h) <= BufEnd
      BY <2>1, <2>3, BufEndIsLast DEF PhaseInv, RestInFile
    <3>2. Off(h) \in Nat /\ SizeOf(h) \in Nat
      BY <2>1, HandlesAreTyped
    <3> QED
      BY <2>2, <3>1, <3>2
  <2>4. phase = "open" /\ strings = "read" => Off(StrTab) + 1 + img.strs <= img.eof
    BY <2>1 DEF PhaseInv
  <2>5. phase = "wild_name" /\ Expected => loads[Len(loads)] = "no_size" \/ img.eof = Off(StrTab)
    BY <2>1 DEF PhaseInv, LeftOut, Expected
  <2> QED
    BY <2>3, <2>4, <2>5 DEF NothingTruncated, Expected
<1> QED
  BY <1>1, InvHolds, PTL


-----------------------------------------------------------------------------
(* The inductive invariant, with what the scans are given.                 *)

\* The sections that a name is found for; those that a scan walks, and what it
\* has left of them.
Listed(k) == Hash!Lookup(NameTable[HashOf[k]], k)
Row(c) == IF c.op = "all" THEN [h \in Handles |-> h] ELSE Listed(c.want)
Left(c) == IF c.at = 0 THEN <<>> ELSE SubSeq(Row(c), c.at, Len(Row(c)))

\* A scan of sections is at one of those it walks, if it walks any.
WalkInv(c) == c \in SectionCall /\ c.at # 0 => c.at \in DOMAIN Row(c)

\* The names are those of all handles; a scan that waits for the call of its
\* callback to return is one that called it.
ScansInv ==
  /\ names = NoTable \/ names = NameTable
  /\ \A i \in DOMAIN calls : WalkInv(calls[i])
  /\ \A i \in DOMAIN calls : i # 1 => calls[i].at # 0

-----------------------------------------------------------------------------
(* What the hash table of the names finds.                                 *)

\* A section goes to the end of the list of its name, and of no other, in the
\* bucket of the name and in the table.
LEMMA BucketInserted ==
  ASSUME NEW b, NEW s \in Seq(HP!Entry), HP!Good(b, s), NEW j \in DOMAIN HashOf, HashOf[j] = b,
         NEW d \in Nat, NEW k \in DOMAIN HashOf
  PROVE  HP!Lookup(HP!Inserted(s, j, d), k)
           = IF FoldOf[k] = FoldOf[j] THEN Append(HP!Lookup(s, k), d) ELSE HP!Lookup(s, k)
BY HP!InsertedLookup, HashAssumptions

Put(t, j, d) == [t EXCEPT ![HashOf[j]] = Hash!Inserted(@, j, d)]

LEMMA LookupInserted ==
  ASSUME NEW t, NamedTable(t), NEW j \in DOMAIN HashOf, NEW d \in Nat, NEW k \in DOMAIN HashOf
  PROVE  Hash!Lookup(Put(t, j, d)[HashOf[k]], k)
           = IF FoldOf[k] = FoldOf[j] THEN Append(Hash!Lookup(t[HashOf[k]], k), d)
             ELSE Hash!Lookup(t[HashOf[k]], k)
<1>1. PICK b : b = HashOf[j]
  OBVIOUS
<1>2. PICK s : s = t[b]
  OBVIOUS
<1>3. b \in HP!Buckets /\ s \in Seq(HP!Entry) /\ HP!Good(b, s) /\ HashOf[k] \in HP!Buckets
  BY <1>1, <1>2, HashAssumptions DEF NamedTable
<1>4. /\ Put(t, j, d)[b] = HP!Inserted(s, j, d)
      /\ \A c \in HP!Buckets \ {b} : Put(t, j, d)[c] = t[c]
  BY <1>1, <1>2, <1>3, SameHash DEF NamedTable, Put
<1>5. HP!Lookup(HP!Inserted(s, j, d), k)
        = IF FoldOf[k] = FoldOf[j] THEN Append(HP!Lookup(s, k), d) ELSE HP!Lookup(s, k)
  BY <1>1, <1>3, BucketInserted
<1>6. CASE HashOf[k] = b
  BY <1>2, <1>4, <1>5, <1>6, SameHash
<1>7. CASE HashOf[k] # b
  <2>1. FoldOf[k] # FoldOf[j]
    BY <1>1, <1>7, HashAssumptions
  <2> QED
    BY <1>3, <1>4, <1>7, <2>1
<1> QED
  BY <1>6, <1>7

\* The handles of a name, whatever the case of its letters.
Named(k) == {h \in Handles : FoldOf[NameOf(h)] = FoldOf[k]}

\* The list of all handles.
LEMMA HandlesAreListed ==
  ASSUME img \in Images
  PROVE  /\ StrTab \in Nat /\ Handles = 1 .. StrTab
         /\ [h \in Handles |-> h] \in Seq(Handles) /\ Len([h \in Handles |-> h]) = StrTab
         /\ \A i \in 1 .. StrTab : [h \in Handles |-> h][i] = i
<1>1. StrTab \in Nat /\ Handles = 1 .. StrTab
  BY HandlesAreFourfold DEF Handles
<1>2. \A n \in Nat : \A H : H = 1 .. n =>
        /\ [h \in H |-> h] \in Seq(H) /\ Len([h \in H |-> h]) = n
        /\ \A i \in 1 .. n : [h \in H |-> h][i] = i
  OBVIOUS
<1> QED
  BY <1>1, <1>2

\* The table finds the handles of a name, in their order.
LEMMA ListedAreNamed ==
  ASSUME img \in Images, NEW k \in DOMAIN HashOf
  PROVE  Listed(k) = Those([h \in Handles |-> h], Named(k))
<1> DEFINE n == StrTab
           all == [h \in Handles |-> h]
           u == CHOOSE v : IsUpto(n, v)
           Found(t) == Hash!Lookup(t[HashOf[k]], k)
           T == {i \in Nat : i <= n => /\ NamedTable(u[i])
                                       /\ Found(u[i]) = Those(FirstOf(all, i), Named(k))}
<1>1. n \in Nat /\ Handles = 1 .. n /\ all \in Seq(Handles) /\ Len(all) = n
      /\ \A i \in 1 .. n : all[i] = i
  BY HandlesAreListed
<1>2. IsUpto(n, u)
  BY <1>1, UptoExists
<1>3. NameTable = u[n]
  BY DEF NameTable, IsUpto, With
<1> HIDE DEF n, all
<1>4. /\ FirstOf(all, 0) = <<>> /\ FirstOf(all, n) = all
      /\ \A i \in 0 .. n : FirstOf(all, i) \in Seq(Handles)
      /\ \A i \in 0 .. n - 1 : FirstOf(all, i + 1) = Append(FirstOf(all, i), all[i + 1])
  BY <1>1, FirstGrow
<1> HIDE DEF u
<1>5. 0 \in T
  <2>1. u[0] = [b \in HP!Buckets |-> <<>>]
    BY <1>1, <1>2 DEF IsUpto, HP!Buckets
  <2>2. \A b \in HP!Buckets : HP!Good(b, <<>>)
    BY DEF HP!Good
  <2>3. [b \in HP!Buckets |-> <<>>] \in [HP!Buckets -> Seq(HP!Entry)]
    OBVIOUS
  <2>4. NamedTable(u[0])
    BY <2>1, <2>2, <2>3 DEF NamedTable
  <2>5. Found(u[0]) = <<>>
    <3>1. u[0][HashOf[k]] = <<>>
      BY <2>1, HashAssumptions
    <3>2. HP!Matches(<<>>, k) = {}
      BY DEF HP!Matches
    <3>3. HP!Lookup(<<>>, k) = <<>>
      BY <3>2 DEF HP!Lookup
    <3> QED
      BY <3>1, <3>3, SameHash
  <2>6. <<>> \in Seq(Handles)
    OBVIOUS
  <2>7. Those(<<>>, Named(k)) = <<>>
    BY <2>6, ThoseType
  <2> QED
    BY <1>4, <2>4, <2>5, <2>7
<1>6. ASSUME NEW i \in Nat, i \in T PROVE i + 1 \in T
  <2> SUFFICES ASSUME i + 1 <= n
               PROVE  /\ NamedTable(u[i + 1])
                      /\ Found(u[i + 1]) = Those(FirstOf(all, i + 1), Named(k))
    OBVIOUS
  <2>1. NamedTable(u[i]) /\ Found(u[i]) = Those(FirstOf(all, i), Named(k))
    BY <1>1, <1>6
  <2>2. /\ i + 1 \in 0 .. n /\ i + 1 \in 1 .. n /\ i + 1 # 0 /\ (i + 1) - 1 = i
        /\ i \in 0 .. n /\ i \in 0 .. n - 1
    BY <1>1
  <2>3. u[i + 1] = With(u[i], i + 1)
    BY <1>2, <2>2 DEF IsUpto
  <2>4. i + 1 \in Handles /\ all[i + 1] = i + 1
    BY <1>1, <2>2
  <2>5. NameOf(i + 1) \in DOMAIN HashOf /\ i + 1 \in Nat
    BY <2>4, HandlesAreTyped
  <2>6. NamedTable(u[i + 1])
    BY <2>1, <2>3, <2>5, NamedInserted DEF With
  <2>7. Found(u[i + 1]) = IF FoldOf[k] = FoldOf[NameOf(i + 1)] THEN Append(Found(u[i]), i + 1)
                          ELSE Found(u[i])
    <3>1. PICK t : t = u[i]
      OBVIOUS
    <3>2. PICK j \in DOMAIN HashOf, d \in Nat : j = NameOf(i + 1) /\ d = i + 1
      BY <2>5
    <3>3. u[i + 1] = Put(t, j, d)
      BY <2>3, <3>1, <3>2 DEF With, Put
    <3>4. NamedTable(t)
      BY <2>1, <3>1
    <3>5. Hash!Lookup(Put(t, j, d)[HashOf[k]], k)
            = IF FoldOf[k] = FoldOf[j] THEN Append(Hash!Lookup(t[HashOf[k]], k), d)
              ELSE Hash!Lookup(t[HashOf[k]], k)
      BY <3>4, LookupInserted
    <3> QED
      BY <3>1, <3>2, <3>3, <3>5
  <2>8. i + 1 \in Named(k) <=> FoldOf[k] = FoldOf[NameOf(i + 1)]
    BY <2>4 DEF Named
  <2>9. /\ FirstOf(all, i + 1) = Append(FirstOf(all, i), i + 1)
        /\ FirstOf(all, i) \in Seq(Handles)
    BY <1>4, <2>2, <2>4
  <2>10. PICK s \in Seq(Handles), h \in Handles : s = FirstOf(all, i) /\ h = i + 1
    BY <2>4, <2>9
  <2>11. Those(Append(s, h), Named(k))
           = IF h \in Named(k) THEN Append(Those(s, Named(k)), h) ELSE Those(s, Named(k))
    BY ThoseAppended
  <2> HIDE DEF Found
  <2> QED
    BY <2>1, <2>6, <2>7, <2>8, <2>9, <2>10, <2>11
<1> HIDE DEF T
<1>7. n \in T
  BY <1>1, <1>5, <1>6, Induction
<1>8. Found(u[n]) = Those(FirstOf(all, n), Named(k))
  BY <1>1, <1>7 DEF T
<1> QED
  BY <1>3, <1>4, <1>8 DEF Listed, all

-----------------------------------------------------------------------------
(* The scans as the client sees them.                                      *)

\* What the client sees of a scan of sections, and of a stack of scans.
Seen == [c \in SectionCall |-> [name |-> c.want, left |-> Left(c)]]
ScansOf(F, cs) == Mapped(F, Those(cs, SectionCall))

LEMMA SectionCallsAreCalls ==
  \A c \in Call : c \in SectionCall <=> c.op \in {"all", "named"}
BY DEF Call, SectionCall

\* What the scans walk is a list of handles.
LEMMA RowIsList ==
  ASSUME img \in Images, NEW c, c.op = "all" \/ c.want \in DOMAIN HashOf
  PROVE  Row(c) \in Seq(Nat)
<1>1. CASE c.op = "all"
  <2>1. [h \in Handles |-> h] \in Seq(Handles) /\ Handles \subseteq Nat
    BY HandlesAreListed
  <2> QED
    BY <1>1, <2>1 DEF Row
<1>2. CASE c.op # "all"
  <2>1. NamedTable(NameTable) /\ c.want \in DOMAIN HashOf
    BY <1>2, NameTableIsNamed
  <2>2. Listed(c.want) \in Seq(Nat)
    BY <2>1, NamedReached DEF Listed
  <2> QED
    BY <1>2, <2>2 DEF Row
<1> QED
  BY <1>1, <1>2

\* The stack of the client is that of the scans of sections.
LEMMA ScansAreSeen == Inv /\ ScansInv => ClientScans = ScansOf(Seen, calls)
<1> SUFFICES ASSUME Inv, ScansInv PROVE ClientScans = ScansOf(Seen, calls)
  OBVIOUS
<1> DEFINE S == {c \in Call : CallInv(c)}
<1>1. calls \in Seq(S)
  <2>1. calls \in Seq(Call) /\ \A i \in DOMAIN calls : CallInv(calls[i])
    BY DEF Inv, CallsInv
  <2>2. \A i \in DOMAIN calls : calls[i] \in S
    BY <2>1
  <2> HIDE DEF S
  <2> QED
    BY <2>1, <2>2
<1>2. ASSUME NEW c \in S, c \in SectionCall PROVE ScanLeft(c) = Left(c)
  <2>1. c.op = "named" => names = NameTable
    BY <1>2 DEF CallInv, ScansInv
  <2>2. CASE c.op = "all"
    BY <2>2 DEF ScanLeft, Left, Row
  <2>3. CASE c.op # "all"
    <3>1. names = NameTable
      BY <1>2, <2>1, <2>3 DEF SectionCall
    <3> QED
      BY <2>3, <3>1 DEF ScanLeft, Left, Row, Listed
  <2> QED
    BY <2>2, <2>3
<1> HIDE DEF S
<1>3. SectionCalls \in Seq(S \cap SectionCall)
  BY <1>1, ThoseType DEF SectionCalls
<1>4. \A i \in DOMAIN SectionCalls : SectionCalls[i] \in S \cap SectionCall
  BY <1>3
<1>5. \A i \in DOMAIN SectionCalls :
        [name |-> SectionCalls[i].want, left |-> ScanLeft(SectionCalls[i])] = Seen[SectionCalls[i]]
  BY <1>2, <1>4 DEF Seen
<1>6. ClientScans = Mapped(Seen, SectionCalls)
  BY <1>5 DEF ClientScans, Mapped
<1> QED
  BY <1>6 DEF ScansOf, SectionCalls

\* It is a list, which a scan of sections goes to the front of.
LEMMA SeenInFront ==
  ASSUME NEW F, NEW cs \in Seq(Call), NEW d \in Call
  PROVE  /\ ScansOf(F, cs) \in Seq({F[c] : c \in SectionCall})
         /\ ScansOf(F, <<d>> \o cs) = IF d.op \in {"all", "named"} THEN <<F[d]>> \o ScansOf(F, cs)
                                      ELSE ScansOf(F, cs)
<1>1. PICK s : s = Those(cs, SectionCall)
  OBVIOUS
<1>2. s \in Seq(SectionCall)
  <2>1. Those(cs, SectionCall) \in Seq(Call \cap SectionCall)
    BY ThoseType
  <2> QED
    BY <1>1, <2>1
<1>3. ScansOf(F, cs) = Mapped(F, s)
  BY <1>1 DEF ScansOf
<1>4. ScansOf(F, cs) \in Seq({F[c] : c \in SectionCall})
  BY <1>2, <1>3 DEF Mapped
<1>5. Those(<<d>> \o cs, SectionCall) = IF d \in SectionCall THEN <<d>> \o s ELSE s
  BY <1>1, ThoseInFront
<1>6. CASE d.op \in {"all", "named"}
  <2>1. d \in SectionCall
    BY <1>6, SectionCallsAreCalls
  <2>2. ScansOf(F, <<d>> \o cs) = Mapped(F, <<d>> \o s)
    BY <1>5, <2>1 DEF ScansOf
  <2>3. Mapped(F, <<d>> \o s) = <<F[d]>> \o Mapped(F, s)
    BY <1>2, <2>1, MappedInFront
  <2> QED
    BY <1>3, <1>4, <1>6, <2>2, <2>3
<1>7. CASE d.op \notin {"all", "named"}
  <2>1. d \notin SectionCall
    BY <1>7, SectionCallsAreCalls
  <2>2. ScansOf(F, <<d>> \o cs) = Mapped(F, s)
    BY <1>5, <2>1 DEF ScansOf
  <2> QED
    BY <1>3, <1>4, <1>7, <2>2
<1> QED
  BY <1>6, <1>7

\* Without scans the client sees none.
LEMMA NothingSeen == \A F : ScansOf(F, <<>>) = <<>>
<1>1. <<>> \in Seq(Call)
  OBVIOUS
<1>2. Those(<<>>, SectionCall) = <<>>
  BY <1>1, ThoseType
<1> QED
  BY <1>2 DEF ScansOf, Mapped

\* What depends on the file only stays with the file.
LEMMA SameRows ==
  ASSUME img' = img
  PROVE  /\ Seen' = Seen /\ ClientFile' = ClientFile /\ NameTable' = NameTable
         /\ Handles' = Handles
         /\ \A c : Row(c)' = Row(c) /\ Left(c)' = Left(c) /\ WalkInv(c)' = WalkInv(c)
<1>1. /\ Secs' = Secs /\ RelocSecs' = RelocSecs /\ Handles' = Handles /\ StrTab' = StrTab
  BY SameFile
<1>2. SymTab' = SymTab
  BY DEF SymTab, Relocated, Secs
<1>3. \A h : NameOf(h)' = NameOf(h)
  BY <1>1, <1>2 DEF NameOf
<1>4. NameTable' = NameTable
  BY <1>1, <1>3 DEF NameTable
<1>5. \A k : Listed(k)' = Listed(k)
  BY <1>4 DEF Listed
<1>6. \A c : Row(c)' = Row(c)
  BY <1>1, <1>5 DEF Row
<1>7. \A c : Left(c)' = Left(c)
  BY <1>6 DEF Left
<1>8. \A c : WalkInv(c)' = WalkInv(c)
  BY <1>6 DEF WalkInv
<1>9. Seen' = Seen
  BY <1>7 DEF Seen
<1>10. ClientFile' = ClientFile
  BY <1>1, <1>3 DEF ClientFile
<1> QED
  BY <1>1, <1>4, <1>6, <1>7, <1>8, <1>9, <1>10

-----------------------------------------------------------------------------
(* Where scans begin and go on.                                            *)

\* A scan is pushed, at the first of what it walks.
Entered(op, want) ==
  \E d \in Call : /\ d.op = op /\ d.want = want /\ calls' = <<d>> \o calls
                  /\ WalkInv(d)
                  /\ op \in {"all", "named"} => Left(d) = Row(d)

LEMMA EnterPushes ==
  ASSUME Inv, NEW op \in {"all", "named", "symbols"}, NEW want \in DOMAIN HashOf \cup {ANY},
         NEW t, op = "named" => t = NameTable /\ want \in DOMAIN HashOf,
         Enter(op, want, t)
  PROVE  Entered(op, want)
<1> DEFINE c == [op |-> op, want |-> want, at |-> 0]
<1>1. c \in Call /\ c.op = op /\ c.want = want
  BY DEF Call
<1>2. PICK n : n = IF Stops(c, t) = {} THEN 0 ELSE Min(Stops(c, t))
  OBVIOUS
<1> DEFINE d == [c EXCEPT !.at = n]
<1>3. calls' = <<d>> \o calls
  BY <1>2 DEF Enter
<1> HIDE DEF c
<1>4. img \in Images
  BY DEF Inv, PhaseInv
<1>5. n \in Nat
  <2>1. op = "named" => NamedTable(t)
    BY <1>4, NameTableIsNamed
  <2>2. Stops(c, t) \subseteq Nat
    BY <1>1, <1>4, <2>1, StopsAreIndices
  <2> QED
    BY <1>2, <2>2, MinIsIn
<1>6. d \in Call /\ d.op = op /\ d.want = want /\ d.at = n
  BY <1>1, <1>5, CallAt
<1> HIDE DEF d
<1>7. Row(d) = Row(c)
  BY <1>1, <1>6 DEF Row
<1>8. CASE op = "symbols"
  <2>1. d \notin SectionCall
    BY <1>6, <1>8 DEF SectionCall
  <2> QED
    BY <1>3, <1>6, <1>8, <2>1 DEF WalkInv, Entered
<1>9. CASE op # "symbols"
  <2>1. op = "all" \/ (op = "named" /\ want \in DOMAIN HashOf)
    BY <1>9
  <2>2. Stops(c, t) = DOMAIN Row(c)
    <3>1. CASE op = "all"
      BY <1>1, <3>1 DEF Stops, Row
    <3>2. CASE op = "named"
      BY <1>1, <3>2 DEF Stops, Row, Listed
    <3> QED
      BY <2>1, <3>1, <3>2
  <2>3. PICK r : r = Row(c)
    OBVIOUS
  <2>4. r \in Seq(Nat)
    BY <1>1, <1>4, <2>1, <2>3, RowIsList
  <2>5. n = IF DOMAIN r = {} THEN 0 ELSE Min(DOMAIN r)
    BY <1>2, <2>2, <2>3
  <2>6. /\ n # 0 => n \in DOMAIN r
        /\ (IF n = 0 THEN <<>> ELSE SubSeq(r, n, Len(r))) = r
    BY <2>4, <2>5, FirstStop
  <2>7. Left(d) = Row(d)
    BY <1>6, <1>7, <2>3, <2>6 DEF Left
  <2>8. WalkInv(d)
    BY <1>6, <1>7, <2>3, <2>6 DEF WalkInv
  <2> QED
    BY <1>3, <1>6, <2>7, <2>8 DEF Entered
<1> QED
  BY <1>8, <1>9

-----------------------------------------------------------------------------
(* The steps keep the invariant.                                           *)

\* A scan in front of others that called their callbacks.
LEMMA PushKeepsScans ==
  ASSUME img' = img, names' = NoTable \/ names' = NameTable,
         NEW d \in Call, WalkInv(d), NEW below \in Seq(Call),
         \A i \in DOMAIN below : WalkInv(below[i]) /\ below[i].at # 0,
         calls' = <<d>> \o below
  PROVE  ScansInv'
<1>1. /\ calls' \in Seq(Call) /\ Len(calls') = Len(below) + 1 /\ calls'[1] = d
      /\ \A i \in 2 .. Len(below) + 1 : calls'[i] = below[i - 1]
  OBVIOUS
<1>2. \A c : WalkInv(c)' = WalkInv(c) /\ NameTable' = NameTable
  BY SameRows
<1>3. ASSUME NEW i \in DOMAIN calls', i # 1
      PROVE  i - 1 \in DOMAIN below /\ calls'[i] = below[i - 1]
  <2>1. i \in 1 .. Len(below) + 1 /\ Len(below) \in Nat
    BY <1>1
  <2>2. i \in 2 .. Len(below) + 1 /\ i - 1 \in 1 .. Len(below)
    BY <1>3, <2>1
  <2> QED
    BY <1>1, <2>2
<1>4. ASSUME NEW i \in DOMAIN calls'
      PROVE  WalkInv(calls'[i]) /\ (i # 1 => calls'[i].at # 0)
  BY <1>1, <1>3
<1>5. \A i \in DOMAIN calls' : WalkInv(calls[i])'
  <2> SUFFICES ASSUME NEW i \in DOMAIN calls' PROVE WalkInv(calls[i])'
    OBVIOUS
  <2>1. PICK c : c = calls'[i]
    OBVIOUS
  <2>2. WalkInv(c)'
    BY <1>2, <1>4, <2>1
  <2> QED
    BY <2>1, <2>2, SameRows DEF WalkInv
<1> QED
  BY <1>2, <1>4, <1>5 DEF ScansInv

\* The scans stay, or the innermost returns.
LEMMA LessKeepsScans ==
  ASSUME Inv, ScansInv, img' = img, names' = NoTable \/ names' = NameTable,
         calls' = calls \/ (calls # <<>> /\ calls' = Tail(calls))
  PROVE  ScansInv'
<1>1. calls \in Seq(Call)
  BY DEF Inv, CallsInv
<1>2. ASSUME NEW i \in DOMAIN calls'
      PROVE  WalkInv(calls'[i]) /\ (i # 1 => calls'[i].at # 0)
  <2>1. CASE calls' = calls
    BY <1>2, <2>1 DEF ScansInv
  <2>2. CASE calls # <<>> /\ calls' = Tail(calls)
    <3>1. i + 1 \in DOMAIN calls /\ i + 1 # 1 /\ calls'[i] = calls[i + 1]
      BY <1>1, <1>2, <2>2
    <3> QED
      BY <3>1 DEF ScansInv
  <2> QED
    BY <2>1, <2>2
<1>3. NameTable' = NameTable
  BY SameRows
<1>4. \A i \in DOMAIN calls' : WalkInv(calls[i])'
  <2> SUFFICES ASSUME NEW i \in DOMAIN calls' PROVE WalkInv(calls[i])'
    OBVIOUS
  <2>1. PICK c : c = calls'[i]
    OBVIOUS
  <2>2. WalkInv(c)'
    BY <1>2, <2>1, SameRows
  <2> QED
    BY <2>1, <2>2, SameRows DEF WalkInv
<1> QED
  BY <1>2, <1>3, <1>4 DEF ScansInv

\* A step that the scans of sections do not notice.
Idle ==
  /\ UNCHANGED <<img, names, calls>>
  /\ ClientSections' = ClientSections

LEMMA IdleKeepsScans ==
  ASSUME Inv, ScansInv, Idle
  PROVE  ScansInv'
<1>1. img' = img /\ names' = names /\ calls' = calls
  BY DEF Idle
<1>2. NameTable' = NameTable
  BY <1>1, SameRows
<1> QED
  BY <1>1, <1>2, LessKeepsScans DEF ScansInv

\* The file stays open.
LEMMA OpenStays ==
  ASSUME img' = img, phase \in ({"open"} \cup Undefined) \ {"null_header"},
         phase' \in ({"open"} \cup Undefined) \ {"null_header"}
  PROVE  ClientSections' = ClientSections
BY SameRows DEF ClientSections, Undefined

\* Which steps those are.
Unnoticed ==
  \/ LoadFailsEarly \/ LoadFails \/ LoadCrashes \/ FollowWildName \/ Forget
  \/ \E h \in Handles : \/ RelocSecScan(h) \/ SecScanReloc(h) \/ ScanNothing(h)
                        \/ SecGetLines(h) \/ NoteSecScan(h)
  \/ UNCHANGED vars

LEMMA UnnoticedIsIdle ==
  ASSUME Unnoticed
  PROVE  Idle
<1>1. CASE LoadFailsEarly \/ LoadFails
  <2>1. UNCHANGED <<img, names, calls, phase>>
    BY <1>1 DEF LoadFailsEarly, LoadFails
  <2> QED
    BY <2>1, SameRows DEF Idle, ClientSections
<1>2. CASE LoadCrashes
  <2>1. UNCHANGED <<img, names, calls>> /\ phase = "closed" /\ phase' = "null_header"
    BY <1>2 DEF LoadCrashes, CanLoad
  <2> QED
    BY <2>1 DEF Idle, ClientSections
<1>3. CASE FollowWildName
  <2>1. UNCHANGED <<img, names, calls>> /\ phase = "open" /\ phase' = "wild_name"
    BY <1>3 DEF FollowWildName, CanCall
  <2> QED
    BY <2>1, OpenStays DEF Idle, Undefined
<1>4. CASE Forget
  <2>1. UNCHANGED <<img, names, calls, phase>>
    BY <1>4 DEF Forget
  <2> QED
    BY <2>1, SameRows DEF Idle, ClientSections
<1>5. ASSUME NEW r, ScanRelocs(r) PROVE Idle
  <2>1. UNCHANGED <<img, names, calls>> /\ phase = "open" /\ phase' \in {"open", "wild_write"}
    BY <1>5 DEF ScanRelocs, CanCall
  <2> QED
    BY <2>1, OpenStays DEF Idle, Undefined
<1>6. ASSUME NEW h \in Handles, RelocSecScan(h) \/ SecScanReloc(h) PROVE Idle
  BY <1>5, <1>6 DEF RelocSecScan, SecScanReloc
<1>7. ASSUME NEW h \in Handles, ScanNothing(h) \/ SecGetLines(h) PROVE Idle
  <2>1. UNCHANGED <<img, names, calls, phase>>
    BY <1>7 DEF ScanNothing, SecGetLines
  <2> QED
    BY <2>1, SameRows DEF Idle, ClientSections
<1>8. ASSUME NEW h \in Handles, NoteSecScan(h) PROVE Idle
  <2>1. UNCHANGED <<img, names, calls>> /\ phase = "open" /\ phase' \in {"open", "wild_text"}
    BY <1>8 DEF NoteSecScan, CanCall
  <2> QED
    BY <2>1, OpenStays DEF Idle, Undefined
<1>9. CASE UNCHANGED vars
  <2>1. UNCHANGED <<img, names, calls, phase>>
    BY <1>9 DEF vars
  <2> QED
    BY <2>1, SameRows DEF Idle, ClientSections
<1> QED
  BY <1>1, <1>2, <1>3, <1>4, <1>6, <1>7, <1>8, <1>9 DEF Unnoticed

\* A scan begins when no other waits for it to be called.
LEMMA Waiting ==
  ASSUME Inv, ScansInv, CanCall
  PROVE  /\ calls \in Seq(Call)
         /\ \A i \in DOMAIN calls : WalkInv(calls[i]) /\ calls[i].at # 0
<1>1. calls \in Seq(Call)
  BY DEF Inv, CallsInv
<1>2. ASSUME NEW i \in DOMAIN calls PROVE calls[i].at # 0
  <2>1. CASE i = 1
    BY <1>1, <2>1 DEF CanCall
  <2>2. CASE i # 1
    BY <2>2 DEF ScansInv
  <2> QED
    BY <2>1, <2>2
<1> QED
  BY <1>1, <1>2 DEF ScansInv

\* What a scan that begins does to the stack and to the names.
LEMMA FileScanPushes ==
  ASSUME Inv, ScansInv, NEW name \in DOMAIN HashOf \cup {ANY}, FileScan(name)
  PROVE  /\ UNCHANGED <<img, phase, result>> /\ phase = "open"
         /\ names' = NoTable \/ names' = NameTable
         /\ \E d \in Call : /\ d.op = (IF name = ANY THEN "all" ELSE "named") /\ d.want = name
                            /\ calls' = <<d>> \o calls
                            /\ WalkInv(d) /\ Left(d) = Row(d)
<1>1. UNCHANGED <<img, phase>> /\ phase = "open"
  BY DEF FileScan, CanCall
<1>2. CASE name = ANY
  <2>1. names' = names /\ Enter("all", ANY, names)
    BY <1>2 DEF FileScan
  <2>2. result' = result
    BY <2>1 DEF Enter
  <2>3. Entered("all", ANY)
    BY <2>1, EnterPushes
  <2> QED
    BY <1>1, <1>2, <2>1, <2>2, <2>3 DEF ScansInv, Entered
<1>3. CASE name # ANY
  <2>1. PICK t : t = NameTable
    OBVIOUS
  <2>2. names' = t /\ Enter("named", name, t) /\ name \in DOMAIN HashOf
    BY <1>3, <2>1 DEF FileScan, ScansInv
  <2>3. result' = result
    BY <2>2 DEF Enter
  <2>4. Entered("named", name)
    BY <2>1, <2>2, EnterPushes
  <2> QED
    BY <1>1, <1>3, <2>1, <2>2, <2>3, <2>4 DEF Entered
<1> QED
  BY <1>2, <1>3

LEMMA FileScanKeepsScans ==
  ASSUME Inv, ScansInv, NEW name \in DOMAIN HashOf \cup {ANY}, FileScan(name)
  PROVE  ScansInv'
<1>1. /\ img' = img /\ (names' = NoTable \/ names' = NameTable)
      /\ \E d \in Call : calls' = <<d>> \o calls /\ WalkInv(d)
  BY FileScanPushes
<1>2. PICK d \in Call : calls' = <<d>> \o calls /\ WalkInv(d)
  BY <1>1
<1>3. /\ calls \in Seq(Call)
      /\ \A i \in DOMAIN calls : WalkInv(calls[i]) /\ calls[i].at # 0
  BY Waiting DEF FileScan
<1> QED
  BY <1>1, <1>2, <1>3, PushKeepsScans

\* A scan of symbols begins.
LEMMA SymbolSecScanPushes ==
  ASSUME Inv, ScansInv, SymbolSecScan
  PROVE  /\ UNCHANGED <<img, names, phase, result>> /\ phase = "open"
         /\ \E d \in Call : d.op = "symbols" /\ calls' = <<d>> \o calls /\ WalkInv(d)
<1>1. UNCHANGED <<img, names, phase>> /\ phase = "open" /\ Enter("symbols", ANY, names)
  BY DEF SymbolSecScan, CanCall
<1>2. result' = result
  BY <1>1 DEF Enter
<1>3. Entered("symbols", ANY)
  BY <1>1, EnterPushes
<1> QED
  BY <1>1, <1>2, <1>3 DEF Entered

LEMMA SymbolSecScanKeepsScans ==
  ASSUME Inv, ScansInv, SymbolSecScan
  PROVE  ScansInv'
<1>1. /\ img' = img /\ names' = names
      /\ \E d \in Call : calls' = <<d>> \o calls /\ WalkInv(d)
  BY SymbolSecScanPushes
<1>2. PICK d \in Call : calls' = <<d>> \o calls /\ WalkInv(d)
  BY <1>1
<1>3. /\ calls \in Seq(Call)
      /\ \A i \in DOMAIN calls : WalkInv(calls[i]) /\ calls[i].at # 0
  BY Waiting DEF SymbolSecScan
<1>4. names' = NoTable \/ names' = NameTable
  BY <1>1 DEF ScansInv
<1> QED
  BY <1>1, <1>2, <1>3, <1>4, PushKeepsScans

\* What an answer does to the stack: the innermost scan goes on to the next of
\* what it walks, or is taken away.
GoesOn(a) ==
  /\ a = "OKAY" /\ result' = result
  /\ \E d \in Call : /\ d.op = calls[1].op /\ d.want = calls[1].want
                     /\ calls' = <<d>> \o Tail(calls)
                     /\ WalkInv(d) /\ d.at # 0
                     /\ d.op \in {"all", "named"} =>
                          Len(Left(calls[1])) > 1 /\ Left(d) = Tail(Left(calls[1]))

Returns(a) ==
  /\ calls' = Tail(calls) /\ result' = a
  /\ calls[1].op \in {"all", "named"} /\ a = "OKAY" => ~(Len(Left(calls[1])) > 1)

LEMMA AnswerMoves ==
  ASSUME Inv, ScansInv, NEW a \in {"OKAY", STOP}, Answer(a)
  PROVE  /\ UNCHANGED <<img, phase, names>> /\ phase = "open" /\ calls # <<>>
         /\ calls[1].op \in {"all", "named"} => Left(calls[1]) # <<>>
         /\ GoesOn(a) \/ Returns(a)
<1>1. /\ UNCHANGED <<img, phase, names>> /\ phase = "open" /\ calls # <<>>
      /\ img \in Images /\ calls \in Seq(Call) /\ 1 \in DOMAIN calls
  <2>1. calls \in Seq(Call) /\ calls # <<>>
    BY DEF Answer, Inv, CallsInv
  <2> QED
    BY <2>1 DEF Answer, Inv, PhaseInv
<1>2. PICK c \in Call : c = calls[1]
  BY <1>1
<1>3. CallInv(c) /\ WalkInv(c) /\ c.at # 0
  BY <1>1, <1>2 DEF Inv, CallsInv, ScansInv, Answer
<1>4. PICK later : later = {i \in Stops(c, names) : i > c.at}
  OBVIOUS
<1>5. IF a = "OKAY" /\ later # {}
      THEN calls' = <<[c EXCEPT !.at = Min(later)]>> \o Tail(calls) /\ result' = result
      ELSE calls' = Tail(calls) /\ result' = a
  BY <1>2, <1>4 DEF Answer
<1>6. PICK n : n = Min(later)
  OBVIOUS
<1>7. PICK d : d = [c EXCEPT !.at = n]
  OBVIOUS
<1>8. n \in Nat => d \in Call /\ d.op = c.op /\ d.want = c.want /\ d.at = n
  BY <1>7, CallAt
<1>9. CASE c.op = "symbols"
  <2>1. later # {} => n \in Nat /\ n # 0
    <3>1. Stops(c, names) \subseteq Nat \ {0}
      BY <1>1, <1>9, StopsAreIndices
    <3>2. later \subseteq Nat \ {0}
      BY <1>4, <3>1
    <3> QED
      BY <1>6, <3>2, MinIsIn
  <2>2. n \in Nat => WalkInv(d)
    BY <1>8, <1>9 DEF WalkInv, SectionCall
  <2>3. CASE a = "OKAY" /\ later # {}
    <3>1. calls' = <<d>> \o Tail(calls) /\ result' = result
      BY <1>5, <1>6, <1>7, <2>3
    <3>2. GoesOn(a)
      BY <1>2, <1>8, <1>9, <2>1, <2>2, <2>3, <3>1 DEF GoesOn
    <3> QED
      BY <1>1, <1>2, <1>9, <3>2
  <2>4. CASE ~(a = "OKAY" /\ later # {})
    <3>1. Returns(a)
      BY <1>2, <1>5, <1>9, <2>4 DEF Returns
    <3> QED
      BY <1>1, <1>2, <1>9, <3>1
  <2> QED
    BY <2>3, <2>4
<1>10. CASE c.op # "symbols"
  <2>1. c \in SectionCall /\ c.op \in {"all", "named"}
    BY <1>10 DEF Call, SectionCall
  <2>2. PICK r : r = Row(c)
    OBVIOUS
  <2>3. r \in Seq(Nat)
    BY <1>1, <1>3, <2>1, <2>2, RowIsList DEF CallInv
  <2>4. Stops(c, names) = DOMAIN r
    <3>1. c.op = "named" => names = NameTable
      BY <1>3 DEF CallInv, ScansInv
    <3> QED
      BY <2>1, <2>2, <3>1 DEF Stops, Row, Listed
  <2>5. PICK m : m = c.at
    OBVIOUS
  <2>6. m \in DOMAIN r
    BY <1>3, <2>1, <2>2, <2>5 DEF WalkInv
  <2>7. later = {i \in DOMAIN r : i > m}
    BY <1>4, <2>4, <2>5
  <2>8. /\ SubSeq(r, m, Len(r)) # <<>>
        /\ later # {} <=> Len(SubSeq(r, m, Len(r))) > 1
        /\ later # {} => /\ Min(later) \in DOMAIN r /\ Min(later) # 0
                         /\ SubSeq(r, Min(later), Len(r)) = Tail(SubSeq(r, m, Len(r)))
    BY <2>3, <2>6, <2>7, NextStop
  <2>9. Left(c) = SubSeq(r, m, Len(r))
    BY <1>3, <2>2, <2>5 DEF Left
  <2>10. DOMAIN r \subseteq Nat
    BY <2>3
  <2>11. CASE a = "OKAY" /\ later # {}
    <3>1. calls' = <<d>> \o Tail(calls) /\ result' = result
      BY <1>5, <1>6, <1>7, <2>11
    <3>2. n \in DOMAIN r /\ n \in Nat /\ n # 0
      BY <1>6, <2>8, <2>10, <2>11
    <3>3. Row(d) = r
      BY <1>8, <2>2, <3>2 DEF Row
    <3>4. Left(d) = SubSeq(r, n, Len(r))
      BY <1>8, <3>2, <3>3 DEF Left
    <3>5. Left(d) = Tail(Left(c)) /\ Len(Left(c)) > 1
      BY <1>6, <2>8, <2>9, <2>11, <3>4
    <3>6. WalkInv(d)
      BY <1>8, <3>2, <3>3 DEF WalkInv
    <3>7. GoesOn(a)
      BY <1>2, <1>8, <2>11, <3>1, <3>2, <3>5, <3>6 DEF GoesOn
    <3> QED
      BY <1>1, <1>2, <2>8, <2>9, <3>7
  <2>12. CASE ~(a = "OKAY" /\ later # {})
    <3>1. Returns(a)
      BY <1>2, <1>5, <2>8, <2>9, <2>12 DEF Returns
    <3> QED
      BY <1>1, <1>2, <2>8, <2>9, <3>1
  <2> QED
    BY <2>11, <2>12
<1> QED
  BY <1>9, <1>10

LEMMA AnswerKeepsScans ==
  ASSUME Inv, ScansInv, NEW a \in {"OKAY", STOP}, Answer(a)
  PROVE  ScansInv'
<1>1. img' = img /\ names' = names /\ calls # <<>> /\ (GoesOn(a) \/ Returns(a))
  BY AnswerMoves
<1>2. names' = NoTable \/ names' = NameTable
  BY <1>1 DEF ScansInv
<1>3. CASE GoesOn(a)
  <2>1. PICK d \in Call : calls' = <<d>> \o Tail(calls) /\ WalkInv(d)
    BY <1>3 DEF GoesOn
  <2>2. /\ Tail(calls) \in Seq(Call)
        /\ \A i \in DOMAIN Tail(calls) : i + 1 \in DOMAIN calls /\ i + 1 # 1
                                         /\ Tail(calls)[i] = calls[i + 1]
    <3>1. calls \in Seq(Call)
      BY DEF Inv, CallsInv
    <3> QED
      BY <1>1, <3>1
  <2>3. \A i \in DOMAIN Tail(calls) : WalkInv(Tail(calls)[i]) /\ Tail(calls)[i].at # 0
    BY <2>2 DEF ScansInv
  <2> QED
    BY <1>1, <1>2, <2>1, <2>2, <2>3, PushKeepsScans
<1>4. CASE Returns(a)
  BY <1>1, <1>2, <1>4, LessKeepsScans DEF Returns
<1> QED
  BY <1>1, <1>3, <1>4

\* Every step keeps the invariant.
LEMMA ScansInvStep == Inv /\ ScansInv /\ [Next]_vars => ScansInv'
<1> SUFFICES ASSUME Inv, ScansInv, [Next]_vars PROVE ScansInv'
  OBVIOUS
<1>1. CASE Unnoticed
  BY <1>1, UnnoticedIsIdle, IdleKeepsScans
<1>2. CASE Load
  <2>1. img' = img /\ names' = names /\ calls' = calls
    BY <1>2 DEF Load
  <2> QED
    BY <2>1, LessKeepsScans DEF ScansInv
<1>3. CASE Close
  <2>1. img' = img /\ names' = NoTable /\ calls' = calls
    BY <1>3 DEF Close
  <2> QED
    BY <2>1, LessKeepsScans
<1>4. ASSUME NEW name \in DOMAIN HashOf \cup {ANY}, FileScan(name) PROVE ScansInv'
  BY <1>4, FileScanKeepsScans
<1>5. CASE SymbolSecScan
  BY <1>5, SymbolSecScanKeepsScans
<1>6. CASE ReturnUncalled
  <2>1. img' = img /\ names' = names /\ calls # <<>> /\ calls' = Tail(calls)
    BY <1>6 DEF ReturnUncalled
  <2> QED
    BY <2>1, LessKeepsScans DEF ScansInv
<1>7. ASSUME NEW a \in {"OKAY", STOP}, Answer(a) PROVE ScansInv'
  BY <1>7, AnswerKeepsScans
<1> QED
  BY <1>1, <1>2, <1>3, <1>4, <1>5, <1>6, <1>7 DEF Next, Unnoticed

\* The invariant holds in every behaviour.
LEMMA ScansInvHolds == Spec => [](Inv /\ ScansInv)
<1>1. Init => ScansInv
  BY DEF Init, NothingBuilt, ScansInv
<1> QED
  BY <1>1, InvHolds, ScansInvStep, PTL DEF Spec

-----------------------------------------------------------------------------
(* The refinement: every step is one of the client's view, or none.        *)

\* The stacks of the client, before a step of the same file and after it.
LEMMA ScansNow ==
  ASSUME Inv, ScansInv, Inv', ScansInv', img' = img
  PROVE  ClientScans = ScansOf(Seen, calls) /\ ClientScans' = ScansOf(Seen, calls')
<1>1. ClientScans = ScansOf(Seen, calls)
  BY ScansAreSeen
<1>2. (Inv /\ ScansInv => ClientScans = ScansOf(Seen, calls))'
  BY ScansAreSeen, PTL
<1>3. Seen' = Seen
  BY SameRows
<1> QED
  BY <1>1, <1>2, <1>3

\* The client sees in the innermost scan of sections what it has left.
LEMMA TopSeen ==
  ASSUME NEW c \in Call, c.op \in {"all", "named"}
  PROVE  Seen[c] = [name |-> c.want, left |-> Left(c)]
BY SectionCallsAreCalls DEF Seen

\* The steps that scans do not notice.
LEMMA IdleIsOther ==
  ASSUME Inv, ScansInv, Inv', ScansInv', Idle
  PROVE  Client!Other
<1>1. img' = img /\ calls' = calls /\ ClientSections' = ClientSections
  BY DEF Idle
<1>2. ClientScans' = ClientScans
  BY <1>1, ScansNow
<1>3. ClientFile' = ClientFile
  BY <1>1, SameRows
<1>4. result' \in {"OKAY", "FALSE", "ERROR", STOP}
  BY DEF Inv, PhaseInv
<1> QED
  BY <1>1, <1>2, <1>3, <1>4 DEF Client!Other

\* The sections of a file that is loaded are all its handles.
LEMMA LoadIsOpen ==
  ASSUME Inv, ScansInv, Inv', ScansInv', Load
  PROVE  Client!Open
<1>1. /\ img' = img /\ calls' = calls /\ phase = "closed" /\ phase' = "open" /\ result' = "OKAY"
      /\ img \in Images
  BY DEF Load, CanLoad, Inv, PhaseInv
<1>2. ClientScans' = ClientScans
  BY <1>1, ScansNow
<1>3. ClientFile' = ClientFile /\ Handles' = Handles
  BY <1>1, SameRows
<1>4. ClientSections = <<>>
  BY <1>1 DEF ClientSections
<1>5. ClientSections' = [h \in Handles |-> h]
  BY <1>1, <1>3 DEF ClientSections
<1>6. [h \in Handles |-> h] \in Client!Layouts
  <2>1. StrTab \in Nat /\ Handles = 1 .. StrTab
    BY <1>1, HandlesAreListed
  <2>2. /\ ClientFile.secs = [h \in Handles |-> [name |-> NameOf(h), off |-> h]]
        /\ Client!Numbers = Handles
    BY DEF ClientFile, Client!Numbers
  <2>3. \A h \in Handles : ClientFile.secs[h].off = h
    BY <2>2
  <2>4. Len(ClientFile.secs) = StrTab
    <3>1. PICK n, f : n = StrTab /\ n \in Nat /\ f = ClientFile.secs
      BY <2>1
    <3>2. DOMAIN f = 1 .. n
      BY <2>1, <2>2, <3>1
    <3> QED
      BY <3>1, <3>2
  <2>5. [h \in Handles |-> h] \in [1 .. Len(ClientFile.secs) -> Client!Numbers]
    BY <2>1, <2>2, <2>4
  <2>6. \A i, j \in Handles : i < j => i <= j
    BY <2>1
  <2> QED
    BY <2>3, <2>5, <2>6 DEF Client!Layouts
<1> QED
  BY <1>1, <1>2, <1>3, <1>4, <1>5, <1>6 DEF Client!Open

LEMMA CloseIsClose ==
  ASSUME Inv, ScansInv, Inv', ScansInv', Close
  PROVE  Client!Close
<1>1. img' = img /\ calls' = calls /\ phase' = "closed" /\ result' = "OKAY" /\ calls = <<>>
  BY DEF Close
<1>2. ClientScans' = ClientScans /\ ClientScans = <<>>
  BY <1>1, ScansNow, NothingSeen
<1>3. ClientFile' = ClientFile
  BY <1>1, SameRows
<1>4. ClientSections' = <<>>
  BY <1>1 DEF ClientSections
<1> QED
  BY <1>1, <1>2, <1>3, <1>4 DEF Client!Close

\* What the client wants is what the scan walks.
LEMMA WantedIsWalked ==
  ASSUME img \in Images, phase = "open", NEW name \in DOMAIN HashOf \cup {ANY}, NEW d,
         d.op = (IF name = ANY THEN "all" ELSE "named"), d.want = name
  PROVE  Client!Wanted(name) = Row(d)
<1> DEFINE T == {h \in Handles : name = ANY \/ FoldOf[NameOf(h)] = FoldOf[name]}
           all == [h \in Handles |-> h]
<1>1. ClientSections = all
  BY DEF ClientSections
<1>2. Client!Wanted(name) = Those(all, T)
  <2>1. Client!Numbers = Handles /\ \A h \in Handles : ClientFile.secs[h].name = NameOf(h)
    BY DEF ClientFile, Client!Numbers
  <2>2. {h \in Client!Numbers : name = ANY \/ FoldOf[ClientFile.secs[h].name] = FoldOf[name]} = T
    BY <2>1
  <2>3. \A s, U : Client!Those(s, U) = Those(s, U)
    BY DEF Client!Those, Those
  <2> HIDE DEF T, all
  <2> QED
    BY <1>1, <2>2, <2>3 DEF Client!Wanted
<1>3. CASE name = ANY
  <2>1. all \in Seq(Handles)
    BY HandlesAreListed
  <2>2. Handles \subseteq T
    BY <1>3
  <2> HIDE DEF T, all
  <2>3. Those(all, T) = all
    BY <2>1, <2>2, ThoseAll
  <2> QED
    BY <1>2, <1>3, <2>3 DEF Row, all
<1>4. CASE name # ANY
  <2>1. T = Named(name)
    BY <1>4 DEF Named
  <2>2. Listed(name) = Those(all, Named(name))
    BY <1>4, ListedAreNamed
  <2> QED
    BY <1>2, <1>4, <2>1, <2>2 DEF Row
<1> QED
  BY <1>3, <1>4

\* While no scan waits to be called, every one that the client sees has
\* something left.
LEMMA NoneIsOver ==
  ASSUME img \in Images, NEW cs \in Seq(Call),
         \A i \in DOMAIN cs : CallInv(cs[i]) /\ WalkInv(cs[i]) /\ cs[i].at # 0
  PROVE  ScansOf(Seen, cs) # <<>> => ScansOf(Seen, cs)[1].left # <<>>
<1> DEFINE S == {c \in Call : CallInv(c) /\ WalkInv(c) /\ c.at # 0}
<1>1. cs \in Seq(S)
  <2>1. \A i \in DOMAIN cs : cs[i] \in S
    OBVIOUS
  <2> HIDE DEF S
  <2> QED
    BY <2>1
<1>2. ASSUME NEW c \in S, c \in SectionCall PROVE Seen[c].left # <<>>
  <2>1. /\ c.op \in {"all", "named"} /\ (c.op = "all" \/ c.want \in DOMAIN HashOf)
    BY <1>2 DEF SectionCall, CallInv
  <2>2. PICK r : r = Row(c)
    OBVIOUS
  <2>3. r \in Seq(Nat)
    BY <2>1, <2>2, RowIsList
  <2>4. PICK n : n = c.at
    OBVIOUS
  <2>5. n \in DOMAIN r
    BY <1>2, <2>2, <2>4 DEF WalkInv
  <2>6. PICK L : L = {i \in DOMAIN r : i > n}
    OBVIOUS
  <2>7. SubSeq(r, n, Len(r)) # <<>>
    BY <2>3, <2>5, <2>6, NextStop
  <2>8. Left(c) # <<>>
    BY <1>2, <2>2, <2>4, <2>7 DEF Left
  <2>9. c \in Call
    BY <1>2
  <2> HIDE DEF S
  <2>10. Seen[c] = [name |-> c.want, left |-> Left(c)]
    BY <2>1, <2>9, TopSeen
  <2> QED
    BY <2>8, <2>10
<1> HIDE DEF S
<1>3. PICK s : s = Those(cs, SectionCall)
  OBVIOUS
<1>4. s \in Seq(S \cap SectionCall)
  BY <1>1, <1>3, ThoseType
<1>5. ScansOf(Seen, cs) = [i \in DOMAIN s |-> Seen[s[i]]]
  BY <1>3 DEF ScansOf, Mapped
<1>6. CASE s = <<>>
  BY <1>5, <1>6
<1>7. CASE s # <<>>
  <2>1. 1 \in DOMAIN s /\ s[1] \in S \cap SectionCall
    BY <1>4, <1>7
  <2> QED
    BY <1>2, <1>5, <2>1
<1> QED
  BY <1>6, <1>7

LEMMA FileScanIsBegin ==
  ASSUME Inv, ScansInv, Inv', ScansInv', NEW name \in DOMAIN HashOf \cup {ANY}, FileScan(name)
  PROVE  Client!Begin(name)
<1>1. /\ UNCHANGED <<img, phase, result>> /\ phase = "open"
      /\ \E d \in Call : /\ d.op = (IF name = ANY THEN "all" ELSE "named") /\ d.want = name
                         /\ calls' = <<d>> \o calls /\ Left(d) = Row(d)
  BY FileScanPushes
<1>2. PICK d \in Call : /\ d.op = (IF name = ANY THEN "all" ELSE "named") /\ d.want = name
                        /\ calls' = <<d>> \o calls /\ Left(d) = Row(d)
  BY <1>1
<1>3. img \in Images /\ calls \in Seq(Call)
  BY DEF Inv, PhaseInv, CallsInv
<1>4. ClientScans = ScansOf(Seen, calls) /\ ClientScans' = ScansOf(Seen, calls')
  BY <1>1, ScansNow
<1>5. PICK F : F = Seen
  OBVIOUS
<1>6. ScansOf(F, <<d>> \o calls) = <<F[d]>> \o ScansOf(F, calls)
  <2>1. d.op \in {"all", "named"}
    BY <1>2
  <2> QED
    BY <1>3, <2>1, SeenInFront
<1>7. F[d] = [name |-> name, left |-> Client!Wanted(name)]
  <2>1. F[d] = [name |-> d.want, left |-> Left(d)]
    BY <1>2, <1>5, TopSeen
  <2>2. Client!Wanted(name) = Row(d)
    BY <1>1, <1>2, <1>3, WantedIsWalked
  <2> QED
    BY <1>2, <2>1, <2>2
<1>8. ClientScans' = <<[name |-> name, left |-> Client!Wanted(name)]>> \o ClientScans
  BY <1>2, <1>4, <1>5, <1>6, <1>7
<1>9. ClientSections # <<>>
  <2>1. ClientSections = [h \in Handles |-> h]
    BY <1>1 DEF ClientSections
  <2>2. \E h : h \in Handles
    BY <1>3, HandlesAreFourfold DEF Handles
  <2>3. \A f : (\E h : h \in DOMAIN f) => f # <<>>
    OBVIOUS
  <2> QED
    BY <2>1, <2>2, <2>3
<1>10. ClientScans # <<>> => ClientScans[1].left # <<>>
  <2>1. \A i \in DOMAIN calls : CallInv(calls[i]) /\ WalkInv(calls[i]) /\ calls[i].at # 0
    BY Waiting DEF FileScan, Inv, CallsInv
  <2> QED
    BY <1>3, <1>4, <2>1, NoneIsOver
<1>11. ClientFile' = ClientFile /\ ClientSections' = ClientSections
  BY <1>1, SameRows DEF ClientSections
<1> QED
  BY <1>1, <1>8, <1>9, <1>10, <1>11 DEF Client!Begin

LEMMA SymbolSecScanIsOther ==
  ASSUME Inv, ScansInv, Inv', ScansInv', SymbolSecScan
  PROVE  Client!Other
<1>1. /\ UNCHANGED <<img, phase>>
      /\ \E d \in Call : d.op = "symbols" /\ calls' = <<d>> \o calls
  BY SymbolSecScanPushes
<1>2. PICK d \in Call : d.op = "symbols" /\ calls' = <<d>> \o calls
  BY <1>1
<1>3. ClientScans = ScansOf(Seen, calls) /\ ClientScans' = ScansOf(Seen, calls')
  BY <1>1, ScansNow
<1>4. PICK F : F = Seen
  OBVIOUS
<1>5. ScansOf(F, <<d>> \o calls) = ScansOf(F, calls)
  <2>1. calls \in Seq(Call) /\ d.op \notin {"all", "named"}
    BY <1>2 DEF Inv, CallsInv
  <2> QED
    BY <2>1, SeenInFront
<1>6. ClientScans' = ClientScans
  BY <1>2, <1>3, <1>4, <1>5
<1>7. ClientFile' = ClientFile /\ ClientSections' = ClientSections
  BY <1>1, SameRows DEF ClientSections
<1>8. result' \in {"OKAY", "FALSE", "ERROR", STOP}
  BY DEF Inv, PhaseInv
<1> QED
  BY <1>6, <1>7, <1>8 DEF Client!Other

\* The stack of the client without and with its innermost scan.
LEMMA StackSeen ==
  ASSUME Inv, calls # <<>>, NEW F, F = Seen
  PROVE  /\ calls[1] \in Call /\ Tail(calls) \in Seq(Call)
         /\ ScansOf(F, calls) = IF calls[1].op \in {"all", "named"}
                                THEN <<F[calls[1]]>> \o ScansOf(F, Tail(calls))
                                ELSE ScansOf(F, Tail(calls))
         /\ ScansOf(F, Tail(calls)) \in Seq({F[c] : c \in SectionCall})
<1>1. calls \in Seq(Call)
  BY DEF Inv, CallsInv
<1>2. PICK c, t : c = calls[1] /\ t = Tail(calls)
  OBVIOUS
<1>3. calls = <<c>> \o t /\ c \in Call /\ t \in Seq(Call)
  BY <1>1, <1>2, Uppermost
<1>4. /\ ScansOf(F, t) \in Seq({F[b] : b \in SectionCall})
      /\ ScansOf(F, <<c>> \o t) = IF c.op \in {"all", "named"} THEN <<F[c]>> \o ScansOf(F, t)
                                  ELSE ScansOf(F, t)
  BY <1>3, SeenInFront
<1> QED
  BY <1>2, <1>3, <1>4

\* A step that takes the innermost scan away, or moves it, where that is none
\* of sections.
LEMMA SymbolsAreOther ==
  ASSUME Inv, ScansInv, Inv', ScansInv', UNCHANGED <<img, phase>>, calls # <<>>,
         calls[1].op \notin {"all", "named"},
         \/ calls' = Tail(calls)
         \/ \E d \in Call : d.op = calls[1].op /\ calls' = <<d>> \o Tail(calls)
  PROVE  Client!Other
<1>1. ClientScans = ScansOf(Seen, calls) /\ ClientScans' = ScansOf(Seen, calls')
  BY ScansNow
<1>2. PICK F : F = Seen
  OBVIOUS
<1>3. PICK t : t = Tail(calls)
  OBVIOUS
<1>4. t \in Seq(Call) /\ ScansOf(F, calls) = ScansOf(F, t)
  BY <1>2, <1>3, StackSeen
<1>5. ScansOf(F, calls') = ScansOf(F, t)
  <2>1. CASE calls' = Tail(calls)
    BY <1>3, <2>1
  <2>2. CASE \E d \in Call : d.op = calls[1].op /\ calls' = <<d>> \o Tail(calls)
    <3>1. PICK d \in Call : d.op \notin {"all", "named"} /\ calls' = <<d>> \o t
      BY <1>3, <2>2
    <3>2. ScansOf(F, <<d>> \o t) = ScansOf(F, t)
      BY <1>4, <3>1, SeenInFront
    <3> QED
      BY <3>1, <3>2
  <2> QED
    BY <2>1, <2>2
<1>6. ClientScans' = ClientScans
  BY <1>1, <1>2, <1>4, <1>5
<1>7. ClientFile' = ClientFile /\ ClientSections' = ClientSections
  BY SameRows DEF ClientSections
<1>8. result' \in {"OKAY", "FALSE", "ERROR", STOP}
  BY DEF Inv, PhaseInv
<1> QED
  BY <1>6, <1>7, <1>8 DEF Client!Other

LEMMA ReturnUncalledIsSeen ==
  ASSUME Inv, ScansInv, Inv', ScansInv', ReturnUncalled
  PROVE  Client!ReturnUncalled \/ Client!Other
<1>1. /\ UNCHANGED <<img, phase>> /\ calls # <<>> /\ calls[1].at = 0
      /\ calls' = Tail(calls) /\ result' = "OKAY"
  BY DEF ReturnUncalled
<1>2. CASE calls[1].op \notin {"all", "named"}
  BY <1>1, <1>2, SymbolsAreOther
<1>3. CASE calls[1].op \in {"all", "named"}
  <2>1. ClientScans = ScansOf(Seen, calls) /\ ClientScans' = ScansOf(Seen, calls')
    BY <1>1, ScansNow
  <2>2. PICK F : F = Seen
    OBVIOUS
  <2>3. PICK c, rest, S : /\ c = calls[1] /\ rest = ScansOf(F, Tail(calls))
                          /\ S = {F[b] : b \in SectionCall}
    OBVIOUS
  <2>4. c \in Call /\ ScansOf(F, calls) = <<F[c]>> \o rest /\ rest \in Seq(S)
    BY <1>1, <1>3, <2>2, <2>3, StackSeen
  <2>5. F[c] \in S
    BY <1>3, <2>3, <2>4, SectionCallsAreCalls
  <2>6. F[c].left = <<>>
    <3>1. F[c] = [name |-> c.want, left |-> Left(c)]
      BY <1>3, <2>2, <2>3, <2>4, TopSeen
    <3>2. Left(c) = <<>>
      BY <1>1, <2>3 DEF Left
    <3> QED
      BY <3>1, <3>2
  <2>7. PICK x : x = F[c]
    OBVIOUS
  <2>8. /\ <<x>> \o rest # <<>> /\ (<<x>> \o rest)[1] = x /\ Tail(<<x>> \o rest) = rest
    BY <2>4, <2>5, <2>7, FrontOf
  <2>9. ClientScans # <<>> /\ ClientScans[1].left = <<>> /\ ClientScans' = Tail(ClientScans)
    BY <1>1, <2>1, <2>2, <2>3, <2>4, <2>6, <2>7, <2>8
  <2>10. ClientFile' = ClientFile /\ ClientSections' = ClientSections
    BY <1>1, SameRows DEF ClientSections
  <2> QED
    BY <1>1, <2>9, <2>10 DEF Client!ReturnUncalled
<1> QED
  BY <1>2, <1>3

LEMMA AnswerIsSeen ==
  ASSUME Inv, ScansInv, Inv', ScansInv', NEW a \in {"OKAY", STOP}, Answer(a)
  PROVE  Client!Return(a) \/ Client!Other
<1>1. /\ UNCHANGED <<img, phase, names>> /\ phase = "open" /\ calls # <<>>
      /\ calls[1].op \in {"all", "named"} => Left(calls[1]) # <<>>
      /\ GoesOn(a) \/ Returns(a)
  BY AnswerMoves
<1>2. CASE calls[1].op \notin {"all", "named"}
  <2>1. \/ calls' = Tail(calls)
        \/ \E d \in Call : d.op = calls[1].op /\ calls' = <<d>> \o Tail(calls)
    BY <1>1 DEF GoesOn, Returns
  <2> QED
    BY <1>1, <1>2, <2>1, SymbolsAreOther
<1>3. CASE calls[1].op \in {"all", "named"}
  <2>1. ClientScans = ScansOf(Seen, calls) /\ ClientScans' = ScansOf(Seen, calls')
    BY <1>1, ScansNow
  <2>2. PICK F : F = Seen
    OBVIOUS
  <2>3. PICK c, t, rest, S : /\ c = calls[1] /\ t = Tail(calls) /\ rest = ScansOf(F, t)
                             /\ S = {F[b] : b \in SectionCall}
    OBVIOUS
  <2>4. /\ c \in Call /\ t \in Seq(Call)
        /\ ScansOf(F, calls) = <<F[c]>> \o rest /\ rest \in Seq(S)
    BY <1>1, <1>3, <2>2, <2>3, StackSeen
  <2>5. PICK x : x = F[c]
    OBVIOUS
  <2>6. x \in S
    BY <1>3, <2>3, <2>4, <2>5, SectionCallsAreCalls
  <2>7. x = [name |-> c.want, left |-> Left(c)] /\ Left(c) # <<>>
    BY <1>1, <1>3, <2>2, <2>3, <2>4, <2>5, TopSeen
  <2>8. /\ <<x>> \o rest # <<>> /\ (<<x>> \o rest)[1] = x /\ Tail(<<x>> \o rest) = rest
        /\ \A y \in S : [<<x>> \o rest EXCEPT ![1] = y] = <<y>> \o rest
    BY <2>4, <2>6, FrontOf
  <2>9. ClientScans = <<x>> \o rest
    BY <2>1, <2>2, <2>4, <2>5
  <2>10. ClientScans # <<>> /\ ClientScans[1] = x
    BY <2>8, <2>9
  <2>11. ClientFile' = ClientFile /\ ClientSections' = ClientSections
    BY <1>1, SameRows DEF ClientSections
  <2>12. CASE GoesOn(a)
    <3>1. PICK d \in Call : /\ d.op = c.op /\ d.want = c.want /\ calls' = <<d>> \o t
                            /\ Len(Left(c)) > 1 /\ Left(d) = Tail(Left(c))
      BY <1>3, <2>3, <2>12 DEF GoesOn
    <3>2. a = "OKAY" /\ result' = result
      BY <2>12 DEF GoesOn
    <3>3. PICK y : y = F[d]
      OBVIOUS
    <3>4. d.op \in {"all", "named"}
      BY <1>3, <2>3, <3>1
    <3>5. ScansOf(F, <<d>> \o t) = <<y>> \o rest
      BY <2>3, <2>4, <3>1, <3>3, <3>4, SeenInFront
    <3>6. y \in S /\ y = [name |-> c.want, left |-> Tail(Left(c))]
      <4>1. y \in S
        BY <2>3, <3>1, <3>3, <3>4, SectionCallsAreCalls
      <4> QED
        BY <2>2, <3>1, <3>3, <3>4, <4>1, TopSeen
    <3>7. ClientScans' = [ClientScans EXCEPT ![1] = y]
      BY <2>1, <2>2, <2>8, <2>9, <3>1, <3>5, <3>6
    <3>8. [ClientScans EXCEPT ![1].left = Tail(@)] = [ClientScans EXCEPT ![1] = y]
      <4>1. PICK p, q : p = c.want /\ q = Left(c)
        OBVIOUS
      <4>2. x = [name |-> p, left |-> q] /\ y = [name |-> p, left |-> Tail(q)]
        BY <2>7, <3>6, <4>1
      <4>3. \A u : [[name |-> p, left |-> q] EXCEPT !.left = u] = [name |-> p, left |-> u]
        OBVIOUS
      <4>4. [x EXCEPT !.left = Tail(x.left)] = y
        <5>1. x.left = q
          BY <4>2
        <5> QED
          BY <4>2, <4>3, <5>1
      <4> QED
        BY <2>10, <4>4
    <3>9. Len(ClientScans[1].left) > 1 /\ ClientScans[1].left # <<>>
      BY <2>7, <2>10, <3>1
    <3> QED
      BY <2>10, <2>11, <3>2, <3>7, <3>8, <3>9 DEF Client!Return
  <2>13. CASE Returns(a)
    <3>1. calls' = t /\ result' = a /\ (a = "OKAY" => ~(Len(Left(c)) > 1))
      BY <1>3, <2>3, <2>13 DEF Returns
    <3>2. ClientScans' = Tail(ClientScans)
      BY <2>1, <2>2, <2>3, <2>8, <2>9, <3>1
    <3>3. ClientScans[1].left = Left(c)
      BY <2>7, <2>10
    <3> QED
      BY <2>7, <2>10, <2>11, <3>1, <3>2, <3>3 DEF Client!Return
  <2> QED
    BY <1>1, <2>12, <2>13
<1> QED
  BY <1>2, <1>3

\* Every step is one of the client's view.
LEMMA StepIsSeen ==
  ASSUME Inv, ScansInv, Inv', ScansInv', [Next]_vars
  PROVE  Client!Next
<1>1. CASE Unnoticed
  BY <1>1, UnnoticedIsIdle, IdleIsOther DEF Client!Next
<1>2. CASE Load
  BY <1>2, LoadIsOpen DEF Client!Next
<1>3. CASE Close
  BY <1>3, CloseIsClose DEF Client!Next
<1>4. ASSUME NEW name \in DOMAIN HashOf \cup {ANY}, FileScan(name) PROVE Client!Next
  <2>1. Client!Begin(name)
    BY <1>4, FileScanIsBegin
  <2>2. name \in DOMAIN FoldOf \cup {ANY}
    BY NamesAssumption
  <2> QED
    BY <2>1, <2>2 DEF Client!Next
<1>5. CASE SymbolSecScan
  BY <1>5, SymbolSecScanIsOther DEF Client!Next
<1>6. CASE ReturnUncalled
  BY <1>6, ReturnUncalledIsSeen DEF Client!Next
<1>7. ASSUME NEW a \in {"OKAY", STOP}, Answer(a) PROVE Client!Next
  <2>1. Client!Return(a) \/ Client!Other
    BY <1>7, AnswerIsSeen
  <2> QED
    BY <2>1 DEF Client!Next
<1> QED
  BY <1>1, <1>2, <1>3, <1>4, <1>5, <1>6, <1>7 DEF Next, Unnoticed

\* The client sees nothing at first.
LEMMA InitIsSeen == Init => Client!Init
<1> SUFFICES ASSUME Init PROVE Client!Init
  OBVIOUS
<1>1. Inv /\ ScansInv
  BY InvInit DEF Init, NothingBuilt, ScansInv
<1>2. ClientScans = <<>>
  BY <1>1, ScansAreSeen, NothingSeen DEF Init
<1> QED
  BY <1>2 DEF Init, ClientSections, Client!Init

-----------------------------------------------------------------------------
(* The theorem.                                                            *)

\* Whatever a client does from within its callbacks, every scan of sections of
\* a COFF file calls it for the sections of the name it asked for, in their
\* order, and for no other, and the answer that is not ORL_OKAY ends it.
THEOREM ScansAreServed == Spec => ImplementsSectionScans
<1>1. Inv /\ ScansInv /\ [Next]_vars /\ Inv' /\ ScansInv' => [Client!Next]_Client!vars
  BY StepIsSeen
<1> QED
  BY <1>1, InitIsSeen, ScansInvHolds, PTL DEF Spec, ImplementsSectionScans, Client!Spec

=============================================================================
