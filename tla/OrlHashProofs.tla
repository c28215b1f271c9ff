--------------------------- MODULE OrlHashProofs ---------------------------
(***************************************************************************)
(* Theorems about OrlHash for every number of buckets, every hash function *)
(* and every set of names: a bucket never holds two entries for one name,  *)
(* and the table implements the multimap of SectionNames.                  *)
(***************************************************************************)
EXTENDS OrlHash, DataLemmas, TLAPS

\* What OneEntryPerKey says of the list s of bucket b.
Good(b, s) ==
  /\ \A i \in DOMAIN s : HashOf[s[i].key] = b
  /\ \A i, j \in DOMAIN s : FoldOf[s[i].key] = FoldOf[s[j].key] => i = j

Inv == TypeOK /\ OneEntryPerKey

-----------------------------------------------------------------------------
(* Lemmas about the walk and the insertion.                                *)

\* The answer of a query that found nothing is a list of data.
LEMMA EmptyAnswer == <<>> \in Seq(Datas)
OBVIOUS

\* The array of empty buckets is an array of lists of entries.
LEMMA EmptyBuckets == [b \in Buckets |-> <<>>] \in [Buckets -> Seq(Entry)]
OBVIOUS

\* Two functions on one domain that agree everywhere but at m.
LEMMA ChangedAt ==
  ASSUME NEW S, NEW f, NEW g, NEW m \in S, NEW v,
         f = [n \in S |-> f[n]], g = [n \in S |-> g[n]],
         \A n \in S : g[n] = IF n = m THEN v ELSE f[n]
  PROVE  g = [f EXCEPT ![m] = v]
OBVIOUS

\* Two functions on one domain that agree everywhere.
LEMMA SameEverywhere ==
  ASSUME NEW S, NEW f, NEW g,
         f = [n \in S |-> f[n]], g = [n \in S |-> g[n]],
         \A n \in S : g[n] = f[n]
  PROVE  g = f
<1>1. [n \in S |-> f[n]] = [n \in S |-> g[n]]
  OBVIOUS
<1> QED
  BY <1>1

\* A table is not NoTable.
LEMMA TableIsNotNull == \A t \in [Buckets -> Seq(Entry)] : t # NoTable
BY NoTableAssumption

\* In a good bucket the walk stops at the one entry of the key.
LEMMA FoundIsTheMatch ==
  ASSUME NEW b, NEW s \in Seq(Entry), Good(b, s), NEW k \in Keys,
         NEW m \in Matches(s, k)
  PROVE  Matches(s, k) = {m} /\ Found(s, k) = m
<1>1. \A i \in Matches(s, k) : i = m
  BY DEF Matches, Good
<1>2. Matches(s, k) = {m}
  BY <1>1
<1>3. m \in Nat
  BY DEF Matches
<1>4. \A x : (x \in Matches(s, k) /\ \A j \in Matches(s, k) : x <= j) <=> x = m
  BY <1>2, <1>3
<1> QED
  BY <1>2, <1>4 DEF Found

\* The walk depends on the folded key only.
LEMMA SameFoldSameLookup ==
  ASSUME NEW s, NEW j \in Keys, NEW k \in Keys, FoldOf[j] = FoldOf[k]
  PROVE  Matches(s, j) = Matches(s, k) /\ Lookup(s, j) = Lookup(s, k)
<1>1. Matches(s, j) = Matches(s, k)
  BY DEF Matches
<1>2. Found(s, j) = Found(s, k)
  BY <1>1 DEF Found
<1> QED
  BY <1>1, <1>2 DEF Lookup

\* A lookup returns a list of data.
LEMMA LookupType ==
  ASSUME NEW b, NEW s \in Seq(Entry), Good(b, s), NEW k \in Keys
  PROVE  Lookup(s, k) \in Seq(Datas)
<1>1. CASE Matches(s, k) = {}
  BY <1>1 DEF Lookup
<1>2. CASE Matches(s, k) # {}
  <2>1. PICK m \in Matches(s, k) : TRUE
    BY <1>2
  <2>2. Found(s, k) = m
    BY <2>1, FoundIsTheMatch
  <2>3. s[m] \in Entry
    BY DEF Matches
  <2> QED
    BY <1>2, <2>2, <2>3 DEF Lookup, Entry
<1> QED
  BY <1>1, <1>2

\* An entry with one more data entry is an entry for the same key.
LEMMA WithDataIsEntry ==
  ASSUME NEW e \in Entry, NEW d \in Datas
  PROVE  /\ WithData(e, d) \in Entry
         /\ WithData(e, d).key = e.key
         /\ WithData(e, d).data = Append(e.data, d)
<1>1. e.key \in Keys /\ e.data \in Seq(Datas)
  BY DEF Entry
<1>2. Append(e.data, d) \in Seq(Datas) /\ Append(e.data, d) # <<>>
  BY <1>1
<1> QED
  BY <1>1, <1>2 DEF WithData, Entry

\* The list after an insertion is a list of entries and is good again.
LEMMA InsertedGood ==
  ASSUME NEW b, NEW s \in Seq(Entry), Good(b, s),
         NEW k \in Keys, HashOf[k] = b, NEW d \in Datas
  PROVE  Inserted(s, k, d) \in Seq(Entry) /\ Good(b, Inserted(s, k, d))
<1>1. CASE Matches(s, k) # {}
  <2>1. PICK m \in Matches(s, k) : TRUE
    BY <1>1
  <2>2. m \in DOMAIN s /\ s[m] \in Entry
    BY DEF Matches
  <2>3. Inserted(s, k, d) = [s EXCEPT ![m] = WithData(s[m], d)]
    BY <1>1, <2>1, FoundIsTheMatch DEF Inserted
  <2>4. WithData(s[m], d) \in Entry /\ WithData(s[m], d).key = s[m].key
    BY <2>2, WithDataIsEntry
  <2>5. Inserted(s, k, d) \in Seq(Entry)
    BY <2>2, <2>3, <2>4
  <2>6. /\ DOMAIN Inserted(s, k, d) = DOMAIN s
        /\ \A i \in DOMAIN s : Inserted(s, k, d)[i].key = s[i].key
    BY <2>3, <2>4
  <2> QED
    BY <2>5, <2>6 DEF Good
<1>2. CASE Matches(s, k) = {}
  <2> DEFINE e == [key |-> k, data |-> <<d>>]
             t == <<e>> \o s
  <2>1. Inserted(s, k, d) = t
    BY <1>2 DEF Inserted
  <2>2. e \in Entry /\ e.key = k
    BY DEF Entry
  <2> HIDE DEF e
  <2>3. /\ t \in Seq(Entry)
        /\ DOMAIN t = 1 .. Len(s) + 1
        /\ t[1] = e
        /\ \A i \in 2 .. Len(s) + 1 : i - 1 \in DOMAIN s /\ t[i] = s[i - 1]
    BY <2>2
  <2>4. \A i \in DOMAIN s : FoldOf[s[i].key] # FoldOf[k]
    BY <1>2 DEF Matches
  <2>5. \A i \in DOMAIN t : HashOf[t[i].key] = b
    BY <2>2, <2>3 DEF Good
  <2>6. ASSUME NEW i \in DOMAIN t, NEW j \in DOMAIN t,
               FoldOf[t[i].key] = FoldOf[t[j].key]
        PROVE  i = j
    <3>1. CASE i = 1 /\ j = 1
      BY <3>1
    <3>2. CASE i = 1 /\ j # 1
      BY <3>2, <2>2, <2>3, <2>4, <2>6
    <3>3. CASE i # 1 /\ j = 1
      BY <3>3, <2>2, <2>3, <2>4, <2>6
    <3>4. CASE i # 1 /\ j # 1
      <4>1. i - 1 \in DOMAIN s /\ j - 1 \in DOMAIN s
            /\ t[i] = s[i - 1] /\ t[j] = s[j - 1]
        BY <3>4, <2>3
      <4>2. i - 1 = j - 1
        BY <4>1, <2>6 DEF Good
      <4> QED
        BY <4>2, <2>3
    <3> QED
      BY <3>1, <3>2, <3>3, <3>4
  <2> QED
    BY <2>1, <2>3, <2>5, <2>6 DEF Good
<1> QED
  BY <1>1, <1>2

\* What an insertion does to the lookups of its bucket: it appends the data to
\* the lookup of every spelling of its key and leaves every other key alone.
LEMMA InsertedLookup ==
  ASSUME NEW b, NEW s \in Seq(Entry), Good(b, s),
         NEW k \in Keys, HashOf[k] = b, NEW d \in Datas, NEW j \in Keys
  PROVE  Lookup(Inserted(s, k, d), j)
           = IF FoldOf[j] = FoldOf[k] THEN Append(Lookup(s, j), d)
                                      ELSE Lookup(s, j)
<1> DEFINE t == Inserted(s, k, d)
<1>0. t \in Seq(Entry) /\ Good(b, t)
  BY InsertedGood
<1>1. CASE Matches(s, k) # {}
  <2>1. PICK m \in Matches(s, k) : TRUE
    BY <1>1
  <2>2. m \in DOMAIN s /\ s[m] \in Entry
    BY DEF Matches
  <2>3. t = [s EXCEPT ![m] = WithData(s[m], d)]
    BY <1>1, <2>1, FoundIsTheMatch DEF Inserted
  <2>4. /\ WithData(s[m], d).key = s[m].key
        /\ WithData(s[m], d).data = Append(s[m].data, d)
    BY <2>2, WithDataIsEntry
  <2>5. DOMAIN t = DOMAIN s /\ \A i \in DOMAIN s : t[i].key = s[i].key
    BY <2>3, <2>4
  <2> HIDE DEF t
  <2>6. Matches(t, j) = Matches(s, j)
    BY <2>5 DEF Matches
  <2>7. CASE Matches(s, j) = {}
    <3>1. FoldOf[j] # FoldOf[k]
      BY <2>1, <2>7, SameFoldSameLookup
    <3> QED
      BY <2>6, <2>7, <3>1 DEF Lookup, t
  <2>8. CASE Matches(s, j) # {}
    <3>1. PICK n \in Matches(s, j) : TRUE
      BY <2>8
    <3>2. Lookup(s, j) = s[n].data
      BY <2>8, <3>1, FoundIsTheMatch DEF Lookup
    <3>3. n \in Matches(t, j)
      BY <2>6, <3>1
    <3>4. Lookup(t, j) = t[n].data
      BY <1>0, <3>3, FoundIsTheMatch DEF Lookup
    <3>5. CASE FoldOf[j] = FoldOf[k]
      <4>1. n = m
        BY <2>1, <3>1, <3>5, SameFoldSameLookup, FoundIsTheMatch
      <4> QED
        BY <2>2, <2>3, <2>4, <3>2, <3>4, <3>5, <4>1 DEF t
    <3>6. CASE FoldOf[j] # FoldOf[k]
      <4>1. n # m /\ n \in DOMAIN s
        BY <2>1, <3>1, <3>6 DEF Matches
      <4>2. t[n] = s[n]
        BY <2>3, <4>1
      <4> QED
        BY <3>2, <3>4, <3>6, <4>2 DEF t
    <3> QED
      BY <3>5, <3>6
  <2> QED
    BY <2>7, <2>8
<1>2. CASE Matches(s, k) = {}
  <2> DEFINE e == [key |-> k, data |-> <<d>>]
  <2>1. t = <<e>> \o s
    BY <1>2 DEF Inserted
  <2>2. e \in Entry /\ e.key = k /\ e.data = <<d>>
    BY DEF Entry
  <2> HIDE DEF e, t
  <2>3. /\ DOMAIN t = 1 .. Len(s) + 1
        /\ t[1] = e
        /\ \A i \in DOMAIN s : i + 1 \in DOMAIN t /\ t[i + 1] = s[i]
        /\ \A i \in DOMAIN t : i # 1 => i - 1 \in DOMAIN s /\ t[i] = s[i - 1]
    BY <2>1, <2>2
  <2>4. CASE FoldOf[j] = FoldOf[k]
    <3>1. Lookup(s, j) = <<>>
      BY <1>2, <2>4, SameFoldSameLookup DEF Lookup
    <3>2. 1 \in Matches(t, j)
      BY <2>2, <2>3, <2>4 DEF Matches
    <3>3. Lookup(t, j) = <<d>>
      BY <1>0, <2>2, <2>3, <3>2, FoundIsTheMatch DEF Lookup
    <3> QED
      BY <2>4, <3>1, <3>3 DEF t
  <2>5. CASE FoldOf[j] # FoldOf[k]
    <3>1. 1 \notin Matches(t, j)
      BY <2>2, <2>3, <2>5 DEF Matches
    <3>2. CASE Matches(s, j) = {}
      <4>1. Matches(t, j) = {}
        <5>1. ASSUME NEW i \in Matches(t, j) PROVE FALSE
          <6>1. i \in DOMAIN t /\ FoldOf[t[i].key] = FoldOf[j] /\ i # 1
            BY <3>1 DEF Matches
          <6>2. i - 1 \in Matches(s, j)
            BY <2>3, <6>1 DEF Matches
          <6> QED
            BY <3>2, <6>2
        <5> QED
          BY <5>1
      <4> QED
        BY <2>5, <3>2, <4>1 DEF Lookup, t
    <3>3. CASE Matches(s, j) # {}
      <4>1. PICK n \in Matches(s, j) : TRUE
        BY <3>3
      <4>2. n + 1 \in Matches(t, j) /\ t[n + 1] = s[n]
        BY <2>3, <4>1 DEF Matches
      <4>3. Lookup(s, j) = s[n].data
        BY <3>3, <4>1, FoundIsTheMatch DEF Lookup
      <4>4. Lookup(t, j) = t[n + 1].data
        BY <1>0, <4>2, FoundIsTheMatch DEF Lookup
      <4> QED
        BY <2>5, <4>2, <4>3, <4>4 DEF t
    <3> QED
      BY <3>2, <3>3
  <2> QED
    BY <2>4, <2>5
<1> QED
  BY <1>1, <1>2

-----------------------------------------------------------------------------
(* The inductive invariant.                                                *)

\* Inv, bucket by bucket.
LEMMA InvByBucket ==
  Inv <=> /\ answer \in Seq(Datas)
          /\ \/ table = NoTable
             \/ /\ table \in [Buckets -> Seq(Entry)]
                /\ \A b \in Buckets : Good(b, table[b])
BY TableIsNotNull DEF Inv, TypeOK, OneEntryPerKey, Good

\* The invariant holds initially.
LEMMA InvInit == Init => Inv
BY EmptyAnswer DEF Init, Inv, TypeOK, OneEntryPerKey

\* A new table has no entry that could be misplaced.
LEMMA CreateKeepsInv == Inv /\ Create => Inv'
<1> SUFFICES ASSUME Inv, Create PROVE Inv'
  OBVIOUS
<1>1. table' \in [Buckets -> Seq(Entry)] /\ \A b \in Buckets : table'[b] = <<>>
  BY DEF Create
<1>2. answer' \in Seq(Datas)
  BY DEF Create, Inv, TypeOK
<1> QED
  BY <1>1, <1>2 DEF Inv, TypeOK, OneEntryPerKey

\* An insertion changes the bucket of its key only, and keeps it good.
LEMMA InsertKeepsInv ==
  ASSUME Inv, NEW k \in Keys, NEW d \in Datas, Insert(k, d)
  PROVE  Inv'
<1> DEFINE h == HashOf[k]
           new == Inserted(table[h], k, d)
<1>1. /\ table \in [Buckets -> Seq(Entry)]
      /\ \A b \in Buckets : Good(b, table[b])
  BY InvByBucket DEF Insert
<1>2. h \in Buckets
  BY HashAssumption
<1>3. new \in Seq(Entry) /\ Good(h, new)
  BY <1>1, <1>2, InsertedGood
<1>4. table' = [table EXCEPT ![h] = new] /\ answer' = answer
  BY DEF Insert
<1> HIDE DEF new, h
<1>5. table' \in [Buckets -> Seq(Entry)]
  BY <1>1, <1>2, <1>3, <1>4
<1>6. \A b \in Buckets : Good(b, table'[b])
  BY <1>1, <1>2, <1>3, <1>4
<1>7. answer' \in Seq(Datas)
  BY <1>4 DEF Inv, TypeOK
<1> QED
  BY <1>5, <1>6, <1>7 DEF Inv, TypeOK, OneEntryPerKey, Good

\* A query leaves the table alone and returns a list of data.
LEMMA QueryKeepsInv ==
  ASSUME Inv, NEW k \in Keys, Query(k)
  PROVE  Inv'
<1>1. /\ table \in [Buckets -> Seq(Entry)]
      /\ \A b \in Buckets : Good(b, table[b])
  BY InvByBucket DEF Query
<1>2. HashOf[k] \in Buckets
  BY HashAssumption
<1>3. Lookup(table[HashOf[k]], k) \in Seq(Datas)
  BY <1>1, <1>2, LookupType
<1> QED
  BY <1>3 DEF Query, Inv, TypeOK, OneEntryPerKey

\* Freeing leaves no table.
LEMMA FreeKeepsInv == Inv /\ Free => Inv'
BY EmptyAnswer DEF Free, Inv, TypeOK, OneEntryPerKey

\* Every step keeps the invariant.
LEMMA InvStep == Inv /\ [Next]_vars => Inv'
<1> SUFFICES ASSUME Inv, [Next]_vars PROVE Inv'
  OBVIOUS
<1>1. CASE Create
  BY <1>1, CreateKeepsInv
<1>2. ASSUME NEW k \in Keys, NEW d \in Datas, Insert(k, d) PROVE Inv'
  BY <1>2, InsertKeepsInv
<1>3. ASSUME NEW k \in Keys, Query(k) PROVE Inv'
  BY <1>3, QueryKeepsInv
<1>4. CASE Free
  BY <1>4, FreeKeepsInv
<1>5. CASE UNCHANGED vars
  BY <1>5 DEF vars, Inv, TypeOK, OneEntryPerKey
<1> QED
  BY <1>1, <1>2, <1>3, <1>4, <1>5 DEF Next

\* The invariant holds in every behaviour.
LEMMA InvHolds == Spec => []Inv
<1>1. Init => Inv
  BY InvInit
<1>2. Inv /\ [Next]_vars => Inv'
  BY InvStep
<1> QED
  BY <1>1, <1>2, PTL DEF Spec

\* The table is always NoTable or an array of lists of entries, and a query
\* has returned a list of data.
THEOREM TypeCorrect == Spec => []TypeOK
<1>1. Inv => TypeOK
  BY DEF Inv
<1> QED
  BY <1>1, InvHolds, PTL

\* No bucket ever holds two entries for one name and no entry is in a bucket
\* of another hash, so that the first match of a walk is the only one.
THEOREM EntriesAreUnique == Spec => []OneEntryPerKey
<1>1. Inv => OneEntryPerKey
  BY DEF Inv
<1> QED
  BY <1>1, InvHolds, PTL

-----------------------------------------------------------------------------
(* The refinement of SectionNames.                                         *)

\* The mapped state, name by name.
LEMMA NamedDataOf ==
  ASSUME Inv, NEW k \in Keys
  PROVE  NamedData[FoldOf[k]]
           = IF table = NoTable THEN <<>> ELSE Lookup(table[HashOf[k]], k)
<1> DEFINE j == CHOOSE x \in Keys : FoldOf[x] = FoldOf[k]
<1>1. j \in Keys /\ FoldOf[j] = FoldOf[k]
  OBVIOUS
<1>2. HashOf[j] = HashOf[k]
  BY <1>1, ConsistentHash
<1>3. NamedData[FoldOf[k]]
        = IF table = NoTable THEN <<>> ELSE Lookup(table[HashOf[j]], j)
  BY DEF NamedData
<1> HIDE DEF j
<1> QED
  BY <1>1, <1>2, <1>3, SameFoldSameLookup

\* The mapped state is a function of the folded names.
LEMMA NamedDataIsFunction ==
  /\ NamedData = [n \in Names!Names |-> NamedData[n]]
  /\ NamedData' = [n \in Names!Names |-> NamedData'[n]]
BY DEF NamedData, Names!Names

\* The initial state maps to the initial state of SectionNames.
LEMMA InitMaps == Init => Names!Init
BY DEF Init, Names!Init, NamedData, Names!Empty, Names!Names

\* Creating the table opens an index without data.
LEMMA CreateMaps == Inv /\ Create => Names!Create
<1> SUFFICES ASSUME Inv, Create PROVE Names!Create
  OBVIOUS
<1>1. table' # NoTable
  BY TableIsNotNull, EmptyBuckets DEF Create
<1>2. \A k \in Keys : Lookup(table'[HashOf[k]], k) = <<>>
  BY HashAssumption DEF Create, Lookup, Matches
<1>3. \A n \in Names!Names : NamedData[n] = <<>> /\ NamedData'[n] = <<>>
  BY <1>1, <1>2 DEF Create, NamedData, Names!Names
<1>4. NamedData' = NamedData
  BY <1>3, NamedDataIsFunction, SameEverywhere
<1> QED
  BY <1>1, <1>4 DEF Create, Names!Create

\* An insertion appends the data under the name and nowhere else.
LEMMA InsertMaps ==
  ASSUME Inv, NEW k \in Keys, NEW d \in Datas, Insert(k, d)
  PROVE  Names!Insert(k, d)
<1>1. /\ table \in [Buckets -> Seq(Entry)]
      /\ \A b \in Buckets : Good(b, table[b])
      /\ table # NoTable
  BY InvByBucket DEF Insert
<1>2. \A j \in Keys : HashOf[j] \in Buckets
  BY HashAssumption
<1>3. table' = [table EXCEPT ![HashOf[k]] = Inserted(table[HashOf[k]], k, d)]
  BY DEF Insert
<1>4. Inv' /\ table' # NoTable
  <2>1. Inv'
    BY InsertKeepsInv
  <2>2. table' \in [Buckets -> Seq(Entry)]
    BY <1>1, <1>2, <1>3, InsertedGood
  <2> QED
    BY <2>1, <2>2, TableIsNotNull
<1>5. ASSUME NEW j \in Keys
      PROVE  NamedData'[FoldOf[j]]
               = IF FoldOf[j] = FoldOf[k] THEN Append(NamedData[FoldOf[j]], d)
                                          ELSE NamedData[FoldOf[j]]
  <2>1. NamedData[FoldOf[j]] = Lookup(table[HashOf[j]], j)
    BY <1>1, NamedDataOf
  <2>2. NamedData'[FoldOf[j]] = Lookup(table'[HashOf[j]], j)
    <3> DEFINE i == CHOOSE x \in Keys : FoldOf[x] = FoldOf[j]
    <3>1. i \in Keys /\ FoldOf[i] = FoldOf[j]
      OBVIOUS
    <3>2. HashOf[i] = HashOf[j]
      BY <3>1, ConsistentHash
    <3>3. NamedData'[FoldOf[j]] = Lookup(table'[HashOf[i]], i)
      BY <1>4 DEF NamedData
    <3> HIDE DEF i
    <3> QED
      BY <3>1, <3>2, <3>3, SameFoldSameLookup
  <2>3. CASE HashOf[j] = HashOf[k]
    <3>1. table'[HashOf[j]] = Inserted(table[HashOf[j]], k, d)
      BY <1>1, <1>2, <1>3, <2>3
    <3>2. table[HashOf[j]] \in Seq(Entry) /\ Good(HashOf[j], table[HashOf[j]])
      BY <1>1, <1>2
    <3>3. Lookup(Inserted(table[HashOf[j]], k, d), j)
            = IF FoldOf[j] = FoldOf[k] THEN Append(Lookup(table[HashOf[j]], j), d)
                                       ELSE Lookup(table[HashOf[j]], j)
      BY <2>3, <3>2, InsertedLookup
    <3> QED
      BY <2>1, <2>2, <3>1, <3>3
  <2>4. CASE HashOf[j] # HashOf[k]
    <3>1. FoldOf[j] # FoldOf[k]
      BY <2>4, ConsistentHash
    <3>2. table'[HashOf[j]] = table[HashOf[j]]
      BY <1>1, <1>2, <1>3, <2>4
    <3> QED
      BY <2>1, <2>2, <3>1, <3>2
  <2> QED
    BY <2>3, <2>4
<1>6. /\ FoldOf[k] \in Names!Names
      /\ \A n \in Names!Names :
           NamedData'[n] = IF n = FoldOf[k] THEN Append(NamedData[FoldOf[k]], d)
                                            ELSE NamedData[n]
  BY <1>5 DEF Names!Names
<1>7. NamedData' = [NamedData EXCEPT ![FoldOf[k]] = Append(NamedData[FoldOf[k]], d)]
  BY <1>6, NamedDataIsFunction, ChangedAt
<1>8. UNCHANGED <<table # NoTable, answer>>
  BY <1>1, <1>4 DEF Insert
<1> QED
  BY <1>1, <1>7, <1>8 DEF Names!Insert

\* A query answers what the mapped index has under the name.
LEMMA QueryMaps ==
  ASSUME Inv, NEW k \in Keys, Query(k)
  PROVE  Names!Query(k)
<1>1. answer' = NamedData[FoldOf[k]]
  BY NamedDataOf DEF Query
<1>2. NamedData' = NamedData
  BY DEF Query, NamedData
<1> QED
  BY <1>1, <1>2 DEF Query, Names!Query

\* Freeing the table closes the index.
LEMMA FreeMaps == Inv /\ Free => Names!Free
BY DEF Free, Names!Free, NamedData, Names!Empty, Names!Names

\* Every step of the table is a step of the index or changes nothing of it.
LEMMA StepMaps == Inv /\ [Next]_vars => [Names!Next]_Names!vars
<1> SUFFICES ASSUME Inv, [Next]_vars PROVE [Names!Next]_Names!vars
  OBVIOUS
<1>1. CASE Create
  BY <1>1, CreateMaps DEF Names!Next
<1>2. ASSUME NEW k \in Keys, NEW d \in Datas, Insert(k, d)
      PROVE  Names!Next
  BY <1>2, InsertMaps DEF Names!Next
<1>3. ASSUME NEW k \in Keys, Query(k) PROVE Names!Next
  BY <1>3, QueryMaps DEF Names!Next
<1>4. CASE Free
  BY <1>4, FreeMaps DEF Names!Next
<1>5. CASE UNCHANGED vars
  BY <1>5 DEF vars, Names!vars, NamedData
<1> QED
  BY <1>1, <1>2, <1>3, <1>4, <1>5 DEF Next

\* The hash table implements the multimap of names: for every hash function
\* that agrees with the comparison, a query returns the data inserted under
\* the name, in any spelling, in the order of insertion.
THEOREM Refinement == Spec => ImplementsSectionNames
<1>1. Init => Names!Init
  BY InitMaps
<1>2. Inv /\ [Next]_vars => [Names!Next]_Names!vars
  BY StepMaps
<1> QED
  BY <1>1, <1>2, InvHolds, PTL DEF Spec, ImplementsSectionNames, Names!Spec

-----------------------------------------------------------------------------
(* The blocks of a table.                                                  *)

\* What the loop of ORLHashTableFree frees for one entry and its data.
Held(s) == [i \in DOMAIN s |-> 1 + Len(s[i].data)]
InBucket(s) == SumFunction(Held(s))

\* The list u has n blocks more than s.
Grows(s, u, n) == InBucket(u) = InBucket(s) + n

\* The blocks of a bucket are a number.
LEMMA InBucketIsNat == \A s \in Seq(Entry) : InBucket(s) \in Nat
<1> SUFFICES ASSUME NEW s \in Seq(Entry) PROVE InBucket(s) \in Nat
  OBVIOUS
<1>1. \A i \in DOMAIN s : s[i] \in Entry
  OBVIOUS
<1>2. \A i \in DOMAIN s : Held(s)[i] \in Nat
  BY <1>1 DEF Held, Entry
<1>3. IsFiniteSet(DOMAIN s) /\ DOMAIN Held(s) = DOMAIN s
  BY FS_Interval DEF Held
<1> HIDE DEF Held
<1> QED
  BY <1>2, <1>3, SumType DEF InBucket, SumFunction

\* An insertion adds one block to the blocks of its bucket, or two if the key
\* is new.
LEMMA InsertedHeld ==
  ASSUME NEW b, NEW s \in Seq(Entry), Good(b, s),
         NEW k \in Keys, HashOf[k] = b, NEW d \in Datas
  PROVE  InBucket(Inserted(s, k, d))
           = InBucket(s) + (IF Matches(s, k) # {} THEN 1 ELSE 2)
<1> DEFINE t == Inserted(s, k, d)
<1>0. t \in Seq(Entry)
  BY InsertedGood
<1>1. /\ \A i \in DOMAIN s : Len(s[i].data) \in Nat
      /\ \A i \in DOMAIN t : Len(t[i].data) \in Nat
  <2>1. \A e \in Entry : Len(e.data) \in Nat
    BY DEF Entry
  <2>2. \A u \in Seq(Entry) : \A i \in DOMAIN u : u[i] \in Entry
    OBVIOUS
  <2> HIDE DEF t
  <2> QED
    BY <1>0, <2>1, <2>2
<1>2. /\ \A i \in DOMAIN s : Held(s)[i] = 1 + Len(s[i].data) /\ Held(s)[i] \in Nat
      /\ \A i \in DOMAIN t : Held(t)[i] = 1 + Len(t[i].data) /\ Held(t)[i] \in Nat
      /\ DOMAIN Held(s) = DOMAIN s /\ DOMAIN Held(t) = DOMAIN t
  BY <1>1 DEF Held
<1>3. CASE Matches(s, k) # {}
  <2>1. PICK m \in Matches(s, k) : TRUE
    BY <1>3
  <2>2. m \in DOMAIN s /\ s[m] \in Entry
    BY DEF Matches
  <2>3. t = [s EXCEPT ![m] = WithData(s[m], d)]
    BY <1>3, <2>1, FoundIsTheMatch DEF Inserted
  <2>4. WithData(s[m], d).data = Append(s[m].data, d) /\ s[m].data \in Seq(Datas)
    BY <2>2, WithDataIsEntry DEF Entry
  <2>5. /\ DOMAIN t = DOMAIN s
        /\ t[m].data = Append(s[m].data, d)
        /\ \A i \in DOMAIN s \ {m} : t[i] = s[i]
    BY <2>2, <2>3, <2>4
  <2> HIDE DEF t
  <2>6. Held(t)[m] = Held(s)[m] + 1
    BY <1>2, <2>2, <2>4, <2>5
  <2>7. \A i \in DOMAIN s \ {m} : Held(s)[i] = Held(t)[i]
    BY <1>2, <2>5
  <2>8. IsFiniteSet(DOMAIN s)
    BY FS_Interval
  <2>9. SumFunctionOnSet(Held(t), DOMAIN s) = SumFunctionOnSet(Held(s), DOMAIN s) + 1
    <3>1. /\ \A i \in DOMAIN s : Held(s)[i] \in Nat
          /\ \A i \in DOMAIN s : Held(t)[i] \in Nat
      BY <1>2, <2>5
    <3> QED
      BY <2>2, <2>6, <2>7, <2>8, <3>1, SumGrowsAt
  <2> QED
    BY <1>2, <1>3, <2>5, <2>9 DEF InBucket, SumFunction, t
<1>4. CASE Matches(s, k) = {}
  <2> DEFINE e == [key |-> k, data |-> <<d>>]
  <2>1. t = <<e>> \o s
    BY <1>4 DEF Inserted
  <2>2. e \in Entry /\ Len(e.data) = 1
    BY DEF Entry
  <2> HIDE DEF e, t
  <2>3. /\ DOMAIN t = 1 .. Len(s) + 1 /\ DOMAIN s = 1 .. Len(s) /\ Len(s) \in Nat
        /\ t[1] = e
        /\ \A i \in DOMAIN s : t[i + 1] = s[i] /\ i + 1 \in DOMAIN t
    BY <2>1, <2>2
  <2>4. Held(t)[1] = 2
    <3>1. 1 \in DOMAIN t /\ Len(t[1].data) = 1
      BY <2>2, <2>3
    <3>2. Held(t)[1] = 1 + Len(t[1].data)
      BY <1>2, <3>1
    <3> QED
      BY <3>1, <3>2
  <2>5. \A i \in 1 .. Len(s) : Held(t)[i + 1] = Held(s)[i]
    BY <1>2, <2>3
  <2>6. /\ \A i \in 1 .. Len(s) : Held(s)[i] \in Nat
        /\ \A i \in 1 .. Len(s) + 1 : Held(t)[i] \in Nat
    BY <1>2, <2>3
  <2>7. SumFunctionOnSet(Held(t), 1 .. Len(s) + 1)
          = Held(t)[1] + SumFunctionOnSet(Held(s), 1 .. Len(s))
    BY <2>3, <2>5, <2>6, SumBehindFirst
  <2>8. InBucket(t) = 2 + InBucket(s)
    BY <1>2, <2>3, <2>4, <2>7 DEF InBucket, SumFunction
  <2>9. InBucket(s) \in Nat
    BY InBucketIsNat
  <2> QED
    BY <1>4, <2>8, <2>9 DEF t
<1> QED
  BY <1>3, <1>4

\* The blocks that ORLHashTableFree reaches, bucket by bucket.
LEMMA ReachedByBucket ==
  \A t : Reached(t) = SumFunctionOnSet([b \in Buckets |-> InBucket(t[b])], Buckets)
BY DEF Reached, InBucket, Held, SumFunction

\* There are finitely many buckets.
LEMMA BucketsFinite == IsFiniteSet(Buckets)
BY SizeAssumption, FS_Interval DEF Buckets

\* They are a number, and what one bucket gains the table gains.
LEMMA ReachedIsNat == \A t \in [Buckets -> Seq(Entry)] : Reached(t) \in Nat
<1> SUFFICES ASSUME NEW t \in [Buckets -> Seq(Entry)] PROVE Reached(t) \in Nat
  OBVIOUS
<1> DEFINE f == [b \in Buckets |-> InBucket(t[b])]
<1>1. \A b \in Buckets : f[b] \in Nat
  BY InBucketIsNat
<1> HIDE DEF f
<1>2. SumFunctionOnSet(f, Buckets) \in Nat
  BY <1>1, BucketsFinite, SumType
<1> QED
  BY <1>2, ReachedByBucket DEF f

\* A new table holds nothing.
LEMMA NothingReached == Reached([b \in Buckets |-> <<>>]) = 0
<1> DEFINE t == [b \in Buckets |-> <<>>]
           f == [b \in Buckets |-> InBucket(t[b])]
           F == {U \in SUBSET Buckets : SumFunctionOnSet(f, U) = 0}
<1>1. InBucket(<<>>) = 0
  <2>1. DOMAIN Held(<<>>) = {}
    BY DEF Held
  <2> QED
    BY <2>1, SumOfNothing DEF InBucket, SumFunction
<1>2. \A b \in Buckets : f[b] = 0
  BY <1>1
<1> HIDE DEF f
<1>3. SumFunctionOnSet(f, Buckets) = 0
  BY <1>2, BucketsFinite, SumOfZeros
<1> QED
  BY <1>3, ReachedByBucket DEF f

\* If one bucket has n blocks more, all buckets have.
LEMMA BucketsGrowAt ==
  ASSUME NEW f, NEW g, NEW h \in Buckets, NEW n \in Nat,
         \A b \in Buckets : f[b] \in Nat, \A b \in Buckets : g[b] \in Nat,
         \A b \in Buckets \ {h} : f[b] = g[b], g[h] = f[h] + n
  PROVE  SumFunctionOnSet(g, Buckets) = SumFunctionOnSet(f, Buckets) + n
BY BucketsFinite, SumGrowsAt

\* What one bucket gains the table gains.
LEMMA ReachedChangedAt ==
  ASSUME NEW t \in [Buckets -> Seq(Entry)], NEW h \in Buckets, NEW s \in Seq(Entry),
         NEW n \in Nat, Grows(t[h], s, n)
  PROVE  Reached([t EXCEPT ![h] = s]) = Reached(t) + n
<1> DEFINE u == [t EXCEPT ![h] = s]
           f == [b \in Buckets |-> InBucket(t[b])]
           g == [b \in Buckets |-> InBucket(u[b])]
<1>1. u[h] = s /\ \A b \in Buckets \ {h} : u[b] = t[b]
  OBVIOUS
<1>2. u \in [Buckets -> Seq(Entry)]
  OBVIOUS
<1> HIDE DEF u
<1>3. /\ \A b \in Buckets : f[b] \in Nat
      /\ \A b \in Buckets : g[b] \in Nat
  BY <1>2, InBucketIsNat
<1>4. \A b \in Buckets \ {h} : f[b] = g[b]
  BY <1>1
<1>5. g[h] = f[h] + n
  BY <1>1 DEF Grows
<1>6. Reached(t) = SumFunctionOnSet(f, Buckets) /\ Reached(u) = SumFunctionOnSet(g, Buckets)
  BY ReachedByBucket
<1> HIDE DEF f, g
<1>7. SumFunctionOnSet(g, Buckets) = SumFunctionOnSet(f, Buckets) + n
  BY <1>3, <1>4, <1>5, BucketsGrowAt
<1> QED
  BY <1>6, <1>7 DEF u

\* Every step keeps the count of the blocks: a new table has two, an insertion
\* adds what it allocates, freeing gives back what the loops reach.
LEMMA BlocksStep == Inv /\ EveryBlockReached /\ [Next]_vars => EveryBlockReached'
<1> SUFFICES ASSUME Inv, EveryBlockReached, [Next]_vars PROVE EveryBlockReached'
  OBVIOUS
<1>1. CASE Create
  <2>1. table' = [b \in Buckets |-> <<>>] /\ blocks' = blocks + 2 /\ table = NoTable
    BY <1>1 DEF Create
  <2>2. table' # NoTable
    BY <2>1, TableIsNotNull, EmptyBuckets
  <2>3. Reached(table') = 0
    BY <2>1, NothingReached
  <2>4. blocks = 0
    BY <2>1 DEF EveryBlockReached
  <2> QED
    BY <2>1, <2>2, <2>3, <2>4 DEF EveryBlockReached
<1>2. ASSUME NEW k \in Keys, NEW d \in Datas, Insert(k, d) PROVE EveryBlockReached'
  <2> DEFINE h == HashOf[k]
             s == Inserted(table[h], k, d)
             n == IF Matches(table[h], k) # {} THEN 1 ELSE 2
  <2>1. /\ table \in [Buckets -> Seq(Entry)] /\ table # NoTable
        /\ \A b \in Buckets : Good(b, table[b])
    BY <1>2, InvByBucket DEF Insert
  <2>2. h \in Buckets
    BY HashAssumption
  <2>3. s \in Seq(Entry) /\ Grows(table[h], s, n)
    BY <2>1, <2>2, InsertedGood, InsertedHeld DEF Grows
  <2>4. table' = [table EXCEPT ![h] = s] /\ blocks' = blocks + n
    BY <1>2 DEF Insert
  <2>5. n \in Nat
    OBVIOUS
  <2> HIDE DEF h, s, n
  <2>6. Reached(table') = Reached(table) + n
    BY <2>1, <2>2, <2>3, <2>4, <2>5, ReachedChangedAt
  <2>7. table' # NoTable
    BY <2>1, <2>2, <2>3, <2>4, TableIsNotNull
  <2>8. Reached(table) \in Nat /\ blocks = Reached(table) + 2
    BY <2>1, ReachedIsNat DEF EveryBlockReached
  <2>9. blocks' = Reached(table') + 2
    BY <2>4, <2>5, <2>6, <2>8
  <2> QED
    BY <2>7, <2>9 DEF EveryBlockReached
<1>3. ASSUME NEW k \in Keys, Query(k) PROVE EveryBlockReached'
  BY <1>3 DEF Query, EveryBlockReached
<1>4. CASE Free
  <2>1. table \in [Buckets -> Seq(Entry)] /\ table # NoTable
    BY <1>4, InvByBucket DEF Free
  <2>2. Reached(table) \in Nat /\ blocks = Reached(table) + 2
    BY <2>1, ReachedIsNat DEF EveryBlockReached
  <2>3. table' = NoTable /\ blocks' = blocks - (Reached(table) + 2)
    BY <1>4 DEF Free
  <2> QED
    BY <2>2, <2>3 DEF EveryBlockReached
<1>5. CASE UNCHANGED vars
  BY <1>5 DEF vars, EveryBlockReached
<1> QED
  BY <1>1, <1>2, <1>3, <1>4, <1>5 DEF Next

\* The blocks of the table are always exactly those that ORLHashTableFree
\* reaches: freeing gives every block back and none twice.
THEOREM NothingLeaks == Spec => []EveryBlockReached
<1>1. Init => EveryBlockReached
  BY DEF Init, EveryBlockReached
<1>2. Inv /\ EveryBlockReached /\ [Next]_vars => EveryBlockReached'
  BY BlocksStep
<1> QED
  BY <1>1, <1>2, InvHolds, PTL DEF Spec

=============================================================================
