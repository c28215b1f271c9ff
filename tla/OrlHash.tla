------------------------------ MODULE OrlHash ------------------------------
(***************************************************************************)
(* The hash table of src/src/orlhash.c.                                    *)
(*                                                                         *)
(* A table is an array of buckets; a bucket is a list of entries, one per  *)
(* key, the newest first; an entry holds the list of the data inserted     *)
(* under its key, the oldest first.  Lists are sequences here.  The key    *)
(* type the table was created with (ORL_HASH_STRING and so on) chooses the *)
(* pair hash_func, compare_func: HashOf is the first, and two keys compare *)
(* equal iff FoldOf is equal on them.  HashEncode checks that the pair the *)
(* section names use satisfies the assumption ConsistentHash.              *)
(*                                                                         *)
(* Allocation succeeds (the code does not check it): `blocks' counts what  *)
(* the table has taken from cli_alloc and not given back to cli_free.      *)
(***************************************************************************)
EXTENDS Naturals, Sequences, FiniteSets, Functions

CONSTANTS
  Keys, Datas,
  Size,        \* number of buckets (SEC_NAME_HASH_TABLE_SIZE and the like)
  HashOf,      \* hash_func( size, key )
  FoldOf,      \* compare_func( a, b ) is FoldOf[a] = FoldOf[b]
  NoTable,     \* the NULL table of a file whose names were never asked for
  MaxBlocks    \* bound of the model: no insertion beyond this many blocks

Buckets == 0 .. Size - 1

ASSUME SizeAssumption == Size \in Nat \ {0}

ASSUME HashAssumption == HashOf \in [Keys -> Buckets]

ASSUME FoldAssumption == DOMAIN FoldOf = Keys

\* Keys that compare equal are in the same bucket.
ASSUME ConsistentHash ==
  \A j, k \in Keys : FoldOf[j] = FoldOf[k] => HashOf[j] = HashOf[k]

Entry == [key : Keys, data : Seq(Datas) \ {<<>>}]

ASSUME NoTableAssumption == NoTable \notin [Buckets -> Seq(Entry)]

VARIABLES
  table,    \* hash_table->table, or NoTable
  blocks,   \* blocks allocated for the table and not freed
  answer    \* the data list the last ORLHashTableQuery returned (<<>>: NULL)

vars == <<table, blocks, answer>>

TypeOK ==
  /\ table \in [Buckets -> Seq(Entry)] \cup {NoTable}
  /\ answer \in Seq(Datas)

-----------------------------------------------------------------------------
(* The walk along a bucket, which stops at the first key that compares     *)
(* equal; Insert and Query share it.                                       *)

Matches(bucket, k) == {i \in DOMAIN bucket : FoldOf[bucket[i].key] = FoldOf[k]}

Found(bucket, k) ==
  CHOOSE i \in Matches(bucket, k) : \A j \in Matches(bucket, k) : i <= j

\* Faulty: the data goes to the front of the list of its key.
WithDataInFront(e, d) == [key |-> e.key, data |-> <<d>> \o e.data]

\* Faulty: the data takes the place of the list of its key.
WithDataOnly(e, d) == [key |-> e.key, data |-> <<d>>]

\* An entry with one more data entry, at the end of its list.
WithData(e, d) == [key |-> e.key, data |-> Append(e.data, d)]

\* Faulty: no walk, every insertion makes an entry.
InsertedUnsearched(bucket, k, d) == <<[key |-> k, data |-> <<d>>]>> \o bucket

\* Faulty: a new entry is linked without its data.
InsertedBare(bucket, k, d) ==
  IF Matches(bucket, k) # {}
  THEN [bucket EXCEPT ![Found(bucket, k)] = WithData(@, d)]
  ELSE <<[key |-> k, data |-> <<>>]>> \o bucket

\* The bucket after an insertion: the data goes to the end of the list of the
\* key it finds, or a new entry to the front of the bucket.
Inserted(bucket, k, d) ==
  IF Matches(bucket, k) # {}
  THEN [bucket EXCEPT ![Found(bucket, k)] = WithData(@, d)]
  ELSE <<[key |-> k, data |-> <<d>>]>> \o bucket

\* The data of a key, the empty list when the walk finds none.
Lookup(bucket, k) ==
  IF Matches(bucket, k) # {} THEN bucket[Found(bucket, k)].data ELSE <<>>

\* What the loops of ORLHashTableFree reach: every entry, every data entry.
Reached(t) ==
  LET InBucket(b) ==
        SumFunction([i \in DOMAIN t[b] |-> 1 + Len(t[b][i].data)])
  IN  SumFunction([b \in Buckets |-> InBucket(b)])

-----------------------------------------------------------------------------
Init ==
  /\ table = NoTable
  /\ blocks = 0
  /\ answer = <<>>

\* ORLHashTableCreate: the table and its array of buckets.
Create ==
  /\ table = NoTable
  /\ table' = [b \in Buckets |-> <<>>]
  /\ blocks' = blocks + 2
  /\ UNCHANGED answer

\* ORLHashTableInsert: one data entry, and a hash entry when the key is new.
Insert(k, d) ==
  /\ table # NoTable
  /\ blocks + 2 <= MaxBlocks
  /\ table' = [table EXCEPT ![HashOf[k]] = Inserted(@, k, d)]
  /\ blocks' = blocks + (IF Matches(table[HashOf[k]], k) # {} THEN 1 ELSE 2)
  /\ UNCHANGED answer

\* ORLHashTableQuery
Query(k) ==
  /\ table # NoTable
  /\ answer' = Lookup(table[HashOf[k]], k)
  /\ UNCHANGED <<table, blocks>>

\* ORLHashTableFree: what the loops reach, then the array and the table.  The
\* caller keeps no list of an earlier query.
Free ==
  /\ table # NoTable
  /\ table' = NoTable
  /\ blocks' = blocks - (Reached(table) + 2)
  /\ answer' = <<>>

Next ==
  \/ Create
  \/ \E k \in Keys, d \in Datas : Insert(k, d)
  \/ \E k \in Keys : Query(k)
  \/ Free

Spec == Init /\ [][Next]_vars

-----------------------------------------------------------------------------
(* Properties.                                                             *)

\* Every entry is in the bucket its key hashes to, and no bucket has two
\* entries whose keys compare equal: a walk that stops at the first match
\* (lines 98-107 and 120-124) misses no data of the key.
OneEntryPerKey ==
  table # NoTable =>
    \A b \in Buckets :
      /\ \A i \in DOMAIN table[b] : HashOf[table[b][i].key] = b
      /\ \A i, j \in DOMAIN table[b] :
           FoldOf[table[b][i].key] = FoldOf[table[b][j].key] => i = j

\* The blocks of the table are exactly those its lists reach, so that freeing
\* what ORLHashTableFree reaches gives everything back and nothing twice.
EveryBlockReached ==
  blocks = IF table = NoTable THEN 0 ELSE Reached(table) + 2

\* The table implements the multimap of SectionNames: whatever the buckets and
\* the spelling of the keys, a query returns the data inserted under every key
\* that compares equal, in the order of insertion (ORLHashTableInsert and
\* ORLHashTableQuery).
NamedData ==
  [n \in {FoldOf[k] : k \in Keys} |->
     IF table = NoTable THEN <<>>
     ELSE LET k == CHOOSE j \in Keys : FoldOf[j] = n
          IN  Lookup(table[HashOf[k]], k)]

Names == INSTANCE SectionNames WITH open <- table # NoTable, named <- NamedData

ImplementsSectionNames == Names!Spec

=============================================================================
