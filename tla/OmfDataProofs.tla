---------------------------- MODULE OmfDataProofs ----------------------------
(***************************************************************************)
(* Lemmas about the operations on the handle of an OMF module (OmfTables,  *)
(* OmfData): what they keep, and what they take from cli_alloc.            *)
(***************************************************************************)
EXTENDS OmfMeaning, DataLemmas, TLAPS

-----------------------------------------------------------------------------
(* Lists.                                                                  *)

LEMMA ListIs ==
  ASSUME NEW s, IsList(s)
  PROVE  Len(s) \in Nat /\ DOMAIN s = 1 .. Len(s) /\ s \in Seq(ToSet(s))
BY DEF IsList

LEMMA ListOf ==
  ASSUME NEW S, NEW s \in Seq(S)
  PROVE  IsList(s)
<1>1. \A i \in 1 .. Len(s) : s[i] \in ToSet(s)
  BY DEF ToSet
<1> QED
  BY <1>1 DEF IsList

LEMMA ListMade ==
  ASSUME NEW n \in Nat, NEW s, s = [i \in 1 .. n |-> s[i]]
  PROVE  IsList(s) /\ Len(s) = n /\ DOMAIN s = 1 .. n
<1>1. DOMAIN s = 1 .. n
  OBVIOUS
<1>2. \A i \in 1 .. n : s[i] \in ToSet(s)
  BY <1>1 DEF ToSet
<1>3. s \in Seq(ToSet(s))
  BY <1>1, <1>2
<1> QED
  BY <1>1, <1>3 DEF IsList

LEMMA NoList == IsList(<<>>) /\ Len(<<>>) = 0
BY DEF IsList

AppendedTo(t, s, e) ==
  /\ IsList(t) /\ Len(t) = Len(s) + 1 /\ DOMAIN t = 1 .. Len(s) + 1
  /\ t[Len(s) + 1] = e /\ \A i \in 1 .. Len(s) : t[i] = s[i]

LEMMA ListAppended ==
  ASSUME NEW s, IsList(s), NEW e
  PROVE  AppendedTo(Append(s, e), s, e)
<1> DEFINE S == ToSet(s) \cup {e}
<1>1. s \in Seq(S) /\ e \in S /\ Len(s) \in Nat
  <2>1. s \in Seq(ToSet(s)) /\ Len(s) \in Nat /\ DOMAIN s = 1 .. Len(s)
    BY ListIs
  <2> QED
    BY <2>1
<1> HIDE DEF S
<1>2. PICK t : t = Append(s, e)
  OBVIOUS
<1>3. t \in Seq(S) /\ Len(t) = Len(s) + 1 /\ \A i \in 1 .. Len(s) : t[i] = s[i]
  BY <1>1, <1>2
<1>4. t[Len(s) + 1] = e
  BY <1>1, <1>2
<1>5. IsList(t)
  BY <1>3, ListOf
<1>6. DOMAIN t = 1 .. Len(s) + 1
  BY <1>3, <1>5, ListIs
<1> QED
  BY <1>2, <1>3, <1>4, <1>5, <1>6 DEF AppendedTo

LEMMA ListChanged ==
  ASSUME NEW s, IsList(s), NEW k, NEW e, NEW t, t = [s EXCEPT ![k] = e]
  PROVE  /\ IsList(t) /\ Len(t) = Len(s) /\ DOMAIN t = DOMAIN s
         /\ k \in DOMAIN s => t[k] = e
         /\ \A i \in DOMAIN s : i # k => t[i] = s[i]
<1>1. Len(s) \in Nat /\ DOMAIN s = 1 .. Len(s)
  BY ListIs
<1>2. t = [i \in 1 .. Len(s) |-> t[i]]
  BY <1>1
<1>3. IsList(t) /\ Len(t) = Len(s) /\ DOMAIN t = DOMAIN s
  BY <1>1, <1>2, ListMade
<1> QED
  BY <1>3

-----------------------------------------------------------------------------
(* FoldLeft goes down from the set of all places to the empty one, taking  *)
(* the greatest place away: by way of 1 .. i, which gives the states in    *)
(* between.                                                                *)

LEMMA MaxOfPart ==
  ASSUME NEW n \in Nat, NEW t \in SUBSET (1 .. n + 1)
  PROVE  /\ n + 1 \in t => Max(t) = n + 1 /\ t \ {n + 1} \in SUBSET (1 .. n)
         /\ n + 1 \notin t => t \in SUBSET (1 .. n)
         /\ n + 1 \notin t /\ t # {} => Max(t) \in t /\ t \ {Max(t)} \in SUBSET (1 .. n)
<1>1. CASE n + 1 \in t
  <2>1. \A x \in t : n + 1 >= x
    OBVIOUS
  <2>2. Max(t) \in t /\ \A x \in t : Max(t) >= x
    BY <1>1, <2>1 DEF Max
  <2>3. \A x \in t : x \in Int /\ (x >= n + 1 /\ n + 1 >= x => x = n + 1)
    OBVIOUS
  <2>4. Max(t) = n + 1
    BY <1>1, <2>1, <2>2, <2>3
  <2>5. \A x \in t : x # n + 1 => x \in 1 .. n
    OBVIOUS
  <2> QED
    BY <1>1, <2>4, <2>5
<1>2. CASE n + 1 \notin t
  <2>1. t \in SUBSET (1 .. n)
    BY <1>2
  <2>2. ASSUME t # {} PROVE Max(t) \in t
    <3>1. t \subseteq Nat /\ t \subseteq 0 .. n
      BY <2>1
    <3>2. \E m \in t : \A x \in t : x <= m
      BY <2>2, <3>1, GreatestNumber
    <3>3. \E m \in t : \A x \in t : m >= x
      BY <3>1, <3>2
    <3> QED
      BY <3>3 DEF Max
  <2> QED
    BY <1>2, <2>1, <2>2
<1> QED
  BY <1>1, <1>2

LEMMA MaxOfFirst ==
  ASSUME NEW i \in Nat \ {0}
  PROVE  1 .. i # {} /\ Max(1 .. i) = i /\ (1 .. i) \ {i} = 1 .. i - 1
<1>1. i - 1 \in Nat /\ (i - 1) + 1 = i /\ i \in 1 .. i
  OBVIOUS
<1>2. 1 .. i \in SUBSET (1 .. (i - 1) + 1)
  BY <1>1
<1>3. Max(1 .. i) = i
  BY <1>1, <1>2, MaxOfPart
<1> QED
  BY <1>1, <1>3

\* The handles on the way to Joined(o, g, s).
JoinedBy(st, o, g, s) ==
  /\ st[0] = o
  /\ st[Len(s)] = Joined(o, g, s)
  /\ \A i \in 1 .. Len(s) : st[i] = Join(st[i - 1], g, s[i])

LEMMA JoinFold ==
  ASSUME NEW g, NEW o, NEW s, IsList(s)
  PROVE  \E st : JoinedBy(st, o, g, s)
<1> DEFINE IsFold(h, D) ==
      h = [t \in SUBSET D |-> IF t = {} THEN o ELSE Join(h[t \ {Max(t)}], g, s[Max(t)])]
<1>1. \E h : IsFold(h, 1 .. 0)
  <2>1. \A t \in SUBSET (1 .. 0) : t = {}
    OBVIOUS
  <2> QED
    BY <2>1, IsFold([t \in SUBSET (1 .. 0) |-> o], 1 .. 0)
<1>2. ASSUME NEW n \in Nat, NEW h, IsFold(h, 1 .. n) PROVE \E u : IsFold(u, 1 .. n + 1)
  <2>1. PICK u : u = [t \in SUBSET (1 .. n + 1) |->
                        IF n + 1 \in t THEN Join(h[t \ {n + 1}], g, s[n + 1]) ELSE h[t]]
    OBVIOUS
  <2>2. \A t \in SUBSET (1 .. n) : u[t] = h[t]
    <3>1. \A t \in SUBSET (1 .. n) : t \in SUBSET (1 .. n + 1) /\ n + 1 \notin t
      OBVIOUS
    <3> QED
      BY <2>1, <3>1
  <2>3. \A t \in SUBSET (1 .. n + 1) :
          u[t] = IF t = {} THEN o ELSE Join(u[t \ {Max(t)}], g, s[Max(t)])
    BY <1>2, <2>1, <2>2, MaxOfPart
  <2>4. IsFold(u, 1 .. n + 1)
    BY <2>1, <2>3
  <2> QED
    BY <2>4
<1> HIDE DEF IsFold
<1>3. \A n \in Nat : \E h : IsFold(h, 1 .. n)
  <2> DEFINE T == {n \in Nat : \E h : IsFold(h, 1 .. n)}
  <2>1. 0 \in T /\ \A n \in Nat : n \in T => n + 1 \in T
    BY <1>1, <1>2
  <2> HIDE DEF T
  <2>2. Nat \subseteq T
    BY <2>1, Induction
  <2> QED
    BY <2>2 DEF T
<1>4. Len(s) \in Nat /\ DOMAIN s = 1 .. Len(s)
  BY ListIs
<1>5. PICK h : IsFold(h, DOMAIN s) /\ h[DOMAIN s] = Joined(o, g, s)
  BY <1>3, <1>4 DEF IsFold, Joined, FoldLeft, MapThenFoldSet
<1>6. PICK st : st = [i \in 0 .. Len(s) |-> h[1 .. i]]
  OBVIOUS
<1>7. \A i \in 0 .. Len(s) : st[i] = h[1 .. i] /\ 1 .. i \in SUBSET DOMAIN s
  BY <1>4, <1>6
<1>8. st[0] = o /\ st[Len(s)] = h[DOMAIN s]
  <2>1. 0 \in 0 .. Len(s) /\ Len(s) \in 0 .. Len(s) /\ 1 .. 0 = {}
    BY <1>4
  <2>2. h[{}] = o
    BY <1>5 DEF IsFold
  <2> QED
    BY <1>4, <1>7, <2>1, <2>2
<1>9. ASSUME NEW i \in 1 .. Len(s) PROVE st[i] = Join(st[i - 1], g, s[i])
  <2>1. i \in Nat \ {0} /\ i \in 0 .. Len(s) /\ i - 1 \in 0 .. Len(s)
    BY <1>4
  <2>2. 1 .. i # {} /\ Max(1 .. i) = i /\ (1 .. i) \ {i} = 1 .. i - 1
    BY <2>1, MaxOfFirst
  <2>3. h[1 .. i] = Join(h[(1 .. i) \ {Max(1 .. i)}], g, s[Max(1 .. i)])
    BY <1>5, <1>7, <2>1, <2>2 DEF IsFold
  <2> QED
    BY <1>7, <2>1, <2>2, <2>3
<1> QED
  BY <1>5, <1>8, <1>9 DEF JoinedBy

LEMMA CloneFold ==
  ASSUME NEW o, NEW s, IsList(s)
  PROVE  \E st : /\ st[0] = o
                 /\ st[Len(s)] = AddClones(o, s)
                 /\ \A i \in 1 .. Len(s) : st[i] = AddClone(st[i - 1], s[i])
<1> DEFINE IsFold(h, D) ==
      h = [t \in SUBSET D |-> IF t = {} THEN o ELSE AddClone(h[t \ {Max(t)}], s[Max(t)])]
<1>1. \E h : IsFold(h, 1 .. 0)
  <2>1. \A t \in SUBSET (1 .. 0) : t = {}
    OBVIOUS
  <2> QED
    BY <2>1, IsFold([t \in SUBSET (1 .. 0) |-> o], 1 .. 0)
<1>2. ASSUME NEW n \in Nat, NEW h, IsFold(h, 1 .. n) PROVE \E u : IsFold(u, 1 .. n + 1)
  <2>1. PICK u : u = [t \in SUBSET (1 .. n + 1) |->
                        IF n + 1 \in t THEN AddClone(h[t \ {n + 1}], s[n + 1]) ELSE h[t]]
    OBVIOUS
  <2>2. \A t \in SUBSET (1 .. n) : u[t] = h[t]
    <3>1. \A t \in SUBSET (1 .. n) : t \in SUBSET (1 .. n + 1) /\ n + 1 \notin t
      OBVIOUS
    <3> QED
      BY <2>1, <3>1
  <2>3. \A t \in SUBSET (1 .. n + 1) :
          u[t] = IF t = {} THEN o ELSE AddClone(u[t \ {Max(t)}], s[Max(t)])
    BY <1>2, <2>1, <2>2, MaxOfPart
  <2>4. IsFold(u, 1 .. n + 1)
    BY <2>1, <2>3
  <2> QED
    BY <2>4
<1> HIDE DEF IsFold
<1>3. \A n \in Nat : \E h : IsFold(h, 1 .. n)
  <2> DEFINE T == {n \in Nat : \E h : IsFold(h, 1 .. n)}
  <2>1. 0 \in T /\ \A n \in Nat : n \in T => n + 1 \in T
    BY <1>1, <1>2
  <2> HIDE DEF T
  <2>2. Nat \subseteq T
    BY <2>1, Induction
  <2> QED
    BY <2>2 DEF T
<1>4. Len(s) \in Nat /\ DOMAIN s = 1 .. Len(s)
  BY ListIs
<1>5. PICK h : IsFold(h, DOMAIN s) /\ h[DOMAIN s] = AddClones(o, s)
  BY <1>3, <1>4 DEF IsFold, AddClones, FoldLeft, MapThenFoldSet
<1>6. PICK st : st = [i \in 0 .. Len(s) |-> h[1 .. i]]
  OBVIOUS
<1>7. \A i \in 0 .. Len(s) : st[i] = h[1 .. i] /\ 1 .. i \in SUBSET DOMAIN s
  BY <1>4, <1>6
<1>8. st[0] = o /\ st[Len(s)] = h[DOMAIN s]
  <2>1. 0 \in 0 .. Len(s) /\ Len(s) \in 0 .. Len(s) /\ 1 .. 0 = {}
    BY <1>4
  <2>2. h[{}] = o
    BY <1>5 DEF IsFold
  <2> QED
    BY <1>4, <1>7, <2>1, <2>2
<1>9. ASSUME NEW i \in 1 .. Len(s) PROVE st[i] = AddClone(st[i - 1], s[i])
  <2>1. i \in Nat \ {0} /\ i \in 0 .. Len(s) /\ i - 1 \in 0 .. Len(s)
    BY <1>4
  <2>2. 1 .. i # {} /\ Max(1 .. i) = i /\ (1 .. i) \ {i} = 1 .. i - 1
    BY <2>1, MaxOfFirst
  <2>3. h[1 .. i] = AddClone(h[(1 .. i) \ {Max(1 .. i)}], s[Max(1 .. i)])
    BY <1>5, <1>7, <2>1, <2>2 DEF IsFold
  <2> QED
    BY <1>7, <2>1, <2>2, <2>3
<1> QED
  BY <1>5, <1>8, <1>9

LEMMA BakpatFold ==
  ASSUME NEW o, NEW s, IsList(s)
  PROVE  \E st : /\ st[0] = o
                 /\ st[Len(s)] = ApplyAll(o, s)
                 /\ \A i \in 1 .. Len(s) : st[i] = ApplyBakpat(st[i - 1], s[i])
<1> DEFINE IsFold(h, D) ==
      h = [t \in SUBSET D |-> IF t = {} THEN o ELSE ApplyBakpat(h[t \ {Max(t)}], s[Max(t)])]
<1>1. \E h : IsFold(h, 1 .. 0)
  <2>1. \A t \in SUBSET (1 .. 0) : t = {}
    OBVIOUS
  <2> QED
    BY <2>1, IsFold([t \in SUBSET (1 .. 0) |-> o], 1 .. 0)
<1>2. ASSUME NEW n \in Nat, NEW h, IsFold(h, 1 .. n) PROVE \E u : IsFold(u, 1 .. n + 1)
  <2>1. PICK u : u = [t \in SUBSET (1 .. n + 1) |->
                        IF n + 1 \in t THEN ApplyBakpat(h[t \ {n + 1}], s[n + 1]) ELSE h[t]]
    OBVIOUS
  <2>2. \A t \in SUBSET (1 .. n) : u[t] = h[t]
    <3>1. \A t \in SUBSET (1 .. n) : t \in SUBSET (1 .. n + 1) /\ n + 1 \notin t
      OBVIOUS
    <3> QED
      BY <2>1, <3>1
  <2>3. \A t \in SUBSET (1 .. n + 1) :
          u[t] = IF t = {} THEN o ELSE ApplyBakpat(u[t \ {Max(t)}], s[Max(t)])
    BY <1>2, <2>1, <2>2, MaxOfPart
  <2>4. IsFold(u, 1 .. n + 1)
    BY <2>1, <2>3
  <2> QED
    BY <2>4
<1> HIDE DEF IsFold
<1>3. \A n \in Nat : \E h : IsFold(h, 1 .. n)
  <2> DEFINE T == {n \in Nat : \E h : IsFold(h, 1 .. n)}
  <2>1. 0 \in T /\ \A n \in Nat : n \in T => n + 1 \in T
    BY <1>1, <1>2
  <2> HIDE DEF T
  <2>2. Nat \subseteq T
    BY <2>1, Induction
  <2> QED
    BY <2>2 DEF T
<1>4. Len(s) \in Nat /\ DOMAIN s = 1 .. Len(s)
  BY ListIs
<1>5. PICK h : IsFold(h, DOMAIN s) /\ h[DOMAIN s] = ApplyAll(o, s)
  BY <1>3, <1>4 DEF IsFold, ApplyAll, FoldLeft, MapThenFoldSet
<1>6. PICK st : st = [i \in 0 .. Len(s) |-> h[1 .. i]]
  OBVIOUS
<1>7. \A i \in 0 .. Len(s) : st[i] = h[1 .. i] /\ 1 .. i \in SUBSET DOMAIN s
  BY <1>4, <1>6
<1>8. st[0] = o /\ st[Len(s)] = h[DOMAIN s]
  <2>1. 0 \in 0 .. Len(s) /\ Len(s) \in 0 .. Len(s) /\ 1 .. 0 = {}
    BY <1>4
  <2>2. h[{}] = o
    BY <1>5 DEF IsFold
  <2> QED
    BY <1>4, <1>7, <2>1, <2>2
<1>9. ASSUME NEW i \in 1 .. Len(s) PROVE st[i] = ApplyBakpat(st[i - 1], s[i])
  <2>1. i \in Nat \ {0} /\ i \in 0 .. Len(s) /\ i - 1 \in 0 .. Len(s)
    BY <1>4
  <2>2. 1 .. i # {} /\ Max(1 .. i) = i /\ (1 .. i) \ {i} = 1 .. i - 1
    BY <2>1, MaxOfFirst
  <2>3. h[1 .. i] = ApplyBakpat(h[(1 .. i) \ {Max(1 .. i)}], s[Max(1 .. i)])
    BY <1>5, <1>7, <2>1, <2>2 DEF IsFold
  <2> QED
    BY <1>7, <2>1, <2>2, <2>3
<1> QED
  BY <1>5, <1>8, <1>9

-----------------------------------------------------------------------------
(* Sums and concatenations.                                                *)

LEMMA TotalType ==
  ASSUME NEW n \in Nat, NEW f, DOMAIN f = 1 .. n, \A i \in 1 .. n : f[i] \in Nat
  PROVE  Total(f) \in Nat
<1>1. IsFiniteSet(1 .. n)
  BY FS_Interval
<1>2. SumFunctionOnSet(f, 1 .. n) \in Nat
  BY <1>1, SumType
<1> QED
  BY <1>2 DEF Total, SumFunction

LEMMA FlattenType ==
  ASSUME NEW S, NEW ss \in Seq(Seq(S))
  PROVE  FlattenSeq(ss) \in Seq(S)
<1> DEFINE IsFlat(h, n) == h = [i \in 1 .. n |-> IF i = 1 THEN ss[i] ELSE h[i - 1] \o ss[i]]
           T == {n \in Nat : \E h : IsFlat(h, n)}
<1>1. 0 \in T
  <2>1. IsFlat([i \in 1 .. 0 |-> ss], 0)
    OBVIOUS
  <2> QED
    BY <2>1
<1>2. ASSUME NEW n \in Nat, n \in T PROVE n + 1 \in T
  <2>1. PICK h : IsFlat(h, n)
    BY <1>2
  <2>2. PICK u : u = [i \in 1 .. n + 1 |->
                        IF i = n + 1 THEN IF i = 1 THEN ss[i] ELSE h[n] \o ss[i] ELSE h[i]]
    OBVIOUS
  <2>3. ASSUME NEW i \in 1 .. n + 1
        PROVE  u[i] = IF i = 1 THEN ss[i] ELSE u[i - 1] \o ss[i]
    <3>1. CASE i = n + 1
      <4>1. i # 1 => i - 1 = n /\ n \in 1 .. n + 1 /\ n # n + 1
        BY <3>1
      <4>2. i # 1 => u[i - 1] = h[n]
        BY <2>2, <4>1
      <4> QED
        BY <2>2, <3>1, <4>2
    <3>2. CASE i # n + 1
      <4>1. i \in 1 .. n /\ (i # 1 => i - 1 \in 1 .. n + 1 /\ i - 1 # n + 1)
        BY <3>2
      <4>2. u[i] = h[i] /\ (i # 1 => u[i - 1] = h[i - 1])
        BY <2>2, <3>2, <4>1
      <4> QED
        BY <2>1, <4>1, <4>2
    <3> QED
      BY <3>1, <3>2
  <2>4. u = [i \in 1 .. n + 1 |-> u[i]]
    BY <2>2
  <2>5. IsFlat(u, n + 1)
    BY <2>3, <2>4
  <2>6. n + 1 \in Nat
    OBVIOUS
  <2> QED
    BY <2>5, <2>6
<1>3. Len(ss) \in T /\ Len(ss) \in Nat
  <2>1. Len(ss) \in Nat
    OBVIOUS
  <2> HIDE DEF T
  <2> QED
    BY <1>1, <1>2, <2>1, Induction
<1>4. CASE Len(ss) = 0
  <2>1. ss = <<>>
    BY <1>4
  <2>2. FlattenSeq(ss) = <<>>
    BY <1>4, <2>1 DEF FlattenSeq
  <2> QED
    BY <2>2
<1>5. CASE Len(ss) # 0
  <2>1. PICK h : IsFlat(h, Len(ss)) /\ FlattenSeq(ss) = h[Len(ss)]
    BY <1>3, <1>5 DEF FlattenSeq
  <2> DEFINE U == {n \in Nat : n + 1 <= Len(ss) => h[n + 1] \in Seq(S)}
  <2>2. \A i \in 1 .. Len(ss) : ss[i] \in Seq(S)
    OBVIOUS
  <2>3. \A s, t \in Seq(S) : s \o t \in Seq(S)
    OBVIOUS
  <2>4. 0 \in U
    BY <1>3, <1>5, <2>1, <2>2
  <2>5. ASSUME NEW n \in Nat, n \in U PROVE n + 1 \in U
    <3>1. CASE n + 2 <= Len(ss)
      <4>1. h[n + 2] = h[n + 1] \o ss[n + 2] /\ n + 2 \in 1 .. Len(ss) /\ n + 1 <= Len(ss)
        <5>1. n + 2 \in 1 .. Len(ss) /\ n + 2 # 1 /\ (n + 2) - 1 = n + 1 /\ n + 1 <= Len(ss)
          BY <1>3, <3>1
        <5>2. h[n + 2] = h[(n + 2) - 1] \o ss[n + 2]
          BY <2>1, <5>1
        <5> QED
          BY <5>1, <5>2
      <4>2. h[n + 2] \in Seq(S)
        BY <2>2, <2>3, <2>5, <4>1
      <4>3. (n + 1) + 1 = n + 2
        OBVIOUS
      <4> QED
        BY <4>2, <4>3
    <3>2. CASE ~(n + 2 <= Len(ss))
      BY <1>3, <3>2
    <3> QED
      BY <3>1, <3>2
  <2> HIDE DEF U
  <2>6. Len(ss) - 1 \in Nat /\ (Len(ss) - 1) + 1 = Len(ss) /\ Len(ss) <= Len(ss)
    BY <1>3, <1>5
  <2>7. Len(ss) - 1 \in U
    BY <2>4, <2>5, <2>6, Induction
  <2>8. h[Len(ss)] \in Seq(S)
    BY <2>6, <2>7 DEF U
  <2> QED
    BY <2>1, <2>8
<1> QED
  BY <1>4, <1>5

LEMMA TimesType ==
  ASSUME NEW S, NEW s \in Seq(S), NEW n \in Nat
  PROVE  Times(s, n) \in Seq(S)
<1>1. [i \in 1 .. n |-> s] \in Seq(Seq(S))
  OBVIOUS
<1> QED
  BY <1>1, FlattenType DEF Times

-----------------------------------------------------------------------------
(* Numbers.                                                                *)

LEMMA Arithmetic ==
  \A m \in Nat, c \in Nat \ {0} :
    /\ (m * c) % c = 0
    /\ m \div c \in Nat /\ (m \div c) * c <= m
    /\ m % c \in Nat /\ m % c < c
    /\ m < c => m % c = m /\ m \div c = 0
    /\ c <= m /\ m < 2 * c => m % c = m - c
<1>1. \A m \in Nat, c \in Nat \ {0} : (m * c) % c = 0
  OBVIOUS
<1>2. \A m \in Nat, c \in Nat \ {0} : m \div c \in Nat /\ (m \div c) * c <= m
  OBVIOUS
<1>3. \A m \in Nat, c \in Nat \ {0} : m < c => m % c = m /\ m \div c = 0
  OBVIOUS
<1>4. \A m \in Nat, c \in Nat \ {0} : c <= m /\ m < 2 * c => m % c = m - c
  OBVIOUS
<1>5. \A m \in Nat, c \in Nat \ {0} : m % c \in Nat /\ m % c < c
  OBVIOUS
<1> QED
  BY <1>1, <1>2, <1>3, <1>4, <1>5

LEMMA OffsetsFit ==
  \A n \in Nat : n % OffsetRange \in Nat /\ n % OffsetRange \in 0 .. OffsetRange - 1
<1>1. OffsetRange \in Nat \ {0}
  BY SizeAssumption
<1> QED
  BY <1>1, Arithmetic

-----------------------------------------------------------------------------
(* Recursion over blocks, which ends where they have no blocks inside.     *)

\* What a block has when all blocks inside it have it, all blocks have.
LEMMA BlocksInduction ==
  ASSUME NEW T, \A b \in Blocks : (\A i \in DOMAIN b.blocks : b.blocks[i] \in T) => b \in T
  PROVE  Blocks \subseteq T
<1>1. PICK depth \in [Blocks -> 0 .. Cardinality(Blocks)] :
        \A b \in Blocks : \A i \in DOMAIN b.blocks : depth[b.blocks[i]] < depth[b]
  BY NestingAssumption
<1>2. \A b \in Blocks : depth[b] \in Nat /\ \A i \in DOMAIN b.blocks : b.blocks[i] \in Blocks
  <2>1. Cardinality(Blocks) \in Nat
    BY NestingAssumption, FS_CardinalityType
  <2>2. \A b \in Blocks : b.blocks \in Seq(Blocks)
    BY BlocksAssumption
  <2> QED
    BY <2>1, <2>2
<1> DEFINE U == {n \in Nat : \A b \in Blocks : depth[b] < n => b \in T}
<1>3. 0 \in U
  BY <1>2
<1>4. ASSUME NEW n \in Nat, n \in U PROVE n + 1 \in U
  <2>1. ASSUME NEW b \in Blocks, depth[b] < n + 1 PROVE b \in T
    <3>1. \A i \in DOMAIN b.blocks : b.blocks[i] \in Blocks /\ depth[b.blocks[i]] < n
      BY <1>1, <1>2, <2>1
    <3> QED
      BY <1>4, <3>1
  <2> QED
    BY <2>1
<1> HIDE DEF U
<1>5. Nat \subseteq U
  BY <1>3, <1>4, Induction
<1>6. \A b \in Blocks : depth[b] + 1 \in U /\ depth[b] < depth[b] + 1
  BY <1>2, <1>5
<1> QED
  BY <1>6 DEF U

\* What the blocks inside a block have.
Inner(f, b) == [i \in DOMAIN b.blocks |-> f[b.blocks[i]]]

LEMMA InnerType ==
  ASSUME NEW T, NEW f, NEW b \in Blocks, \A i \in DOMAIN b.blocks : f[b.blocks[i]] \in T
  PROVE  Inner(f, b) \in Seq(T)
<1>1. b.blocks \in Seq(Blocks)
  BY BlocksAssumption
<1> QED
  BY <1>1 DEF Inner

\* G makes a value for a block of those of the blocks inside it.
Makes(G, T) == T # {} /\ \A b \in Blocks : \A in \in Seq(T) : G[b][in] \in T
MadeBy(f, G, T) ==
  /\ f \in [Blocks -> T]
  /\ \A b \in Blocks : Inner(f, b) \in Seq(T) /\ f[b] = G[b][Inner(f, b)]

LEMMA BlocksRecursion ==
  ASSUME NEW T, NEW G, Makes(G, T)
  PROVE  \E f : MadeBy(f, G, T)
<1>0. PICK none \in T : \A b \in Blocks : \A in \in Seq(T) : G[b][in] \in T
  BY DEF Makes
<1>1. PICK depth \in [Blocks -> 0 .. Cardinality(Blocks)] :
        \A b \in Blocks : \A i \in DOMAIN b.blocks : depth[b.blocks[i]] < depth[b]
  BY NestingAssumption
<1>2. Cardinality(Blocks) \in Nat
  BY NestingAssumption, FS_CardinalityType
<1>3. \A b \in Blocks : b.blocks \in Seq(Blocks) /\ \A i \in DOMAIN b.blocks : b.blocks[i] \in Blocks
  <2>1. \A b \in Blocks : b.blocks \in Seq(Blocks)
    BY BlocksAssumption
  <2> QED
    BY <2>1
<1>4. \A b \in Blocks : depth[b] \in Nat /\ depth[b] < Cardinality(Blocks) + 1
  BY <1>2
<1> DEFINE Computes(f, n) == \A b \in Blocks : depth[b] < n => f[b] = G[b][Inner(f, b)]
           U == {n \in Nat : \E f \in [Blocks -> T] : Computes(f, n)}
<1>5. 0 \in U
  <2>1. Computes([b \in Blocks |-> none], 0)
    BY <1>4
  <2> QED
    BY <1>0, <2>1
<1>6. ASSUME NEW n \in Nat, n \in U PROVE n + 1 \in U
  <2>1. PICK f \in [Blocks -> T] : Computes(f, n)
    BY <1>6
  <2>2. \A b \in Blocks : G[b][Inner(f, b)] \in T
    BY <1>0, <1>3, InnerType
  <2>3. PICK h : h = [b \in Blocks |-> G[b][Inner(f, b)]]
    OBVIOUS
  <2>4. h \in [Blocks -> T] /\ \A b \in Blocks : h[b] = G[b][Inner(f, b)]
    BY <2>2, <2>3
  <2>5. ASSUME NEW b \in Blocks, depth[b] < n + 1 PROVE h[b] = G[b][Inner(h, b)]
    <3>1. \A i \in DOMAIN b.blocks : h[b.blocks[i]] = f[b.blocks[i]]
      <4>1. \A i \in DOMAIN b.blocks : b.blocks[i] \in Blocks /\ depth[b.blocks[i]] < n
        BY <1>1, <1>3, <1>4, <2>5
      <4> QED
        BY <2>1, <2>4, <4>1
    <3>2. Inner(h, b) = Inner(f, b)
      BY <3>1 DEF Inner
    <3> QED
      BY <2>4, <3>2
  <2>6. Computes(h, n + 1) /\ n + 1 \in Nat
    BY <2>5
  <2> QED
    BY <2>4, <2>6
<1> HIDE DEF U
<1>7. Cardinality(Blocks) + 1 \in U
  BY <1>2, <1>5, <1>6, Induction
<1>8. PICK f \in [Blocks -> T] : \A b \in Blocks : f[b] = G[b][Inner(f, b)]
  BY <1>4, <1>7 DEF U
<1>9. \A b \in Blocks : Inner(f, b) \in Seq(T)
  BY <1>3, InnerType
<1> QED
  BY <1>8, <1>9 DEF MadeBy

LEMMA InsideBlocks ==
  ASSUME NEW b \in Blocks
  PROVE  /\ b.repeat \in Nat /\ Len(b.data) \in Nat /\ b.data \in Seq(Byte) /\ b.blocks \in Seq(Blocks)
         /\ Len(b.blocks) \in Nat /\ DOMAIN b.blocks = 1 .. Len(b.blocks)
         /\ \A i \in 1 .. Len(b.blocks) : b.blocks[i] \in Blocks
         /\ b.blocks = <<>> => Len(b.data) \in Byte
<1>1. b.repeat \in Nat /\ b.data \in Seq(Byte) /\ b.blocks \in Seq(Blocks)
  BY BlocksAssumption
<1>2. b.blocks = <<>> => Len(b.data) < Radix
  BY BlocksAssumption
<1>3. Len(b.data) \in Nat
  BY <1>1
<1>4. b.blocks = <<>> => Len(b.data) \in Byte
  BY <1>2, <1>3, RadixAssumption DEF Byte
<1> QED
  BY <1>1, <1>3, <1>4

LEMMA TwoType == \A n \in Nat : Two(n) \in Seq(Byte)
<1> TAKE n \in Nat
<1>1. \A m \in Nat : m % Radix \in Byte /\ m \div Radix \in Nat
  BY RadixAssumption, Arithmetic DEF Byte
<1>2. n % Radix \in Byte /\ (n \div Radix) % Radix \in Byte
  BY <1>1
<1> QED
  BY <1>2 DEF Two

\* What a block is in its record, where those inside it are `inside'.
Stands(hdr, b, inside) ==
  Two(b.repeat) \o (IF hdr = 6 THEN Two(b.repeat \div (Radix * Radix)) ELSE <<>>)
    \o Two(Len(b.blocks))
    \o IF b.blocks = <<>> THEN <<Len(b.data)>> \o b.data ELSE FlattenSeq(inside)

LEMMA StandsType ==
  ASSUME NEW hdr, NEW b \in Blocks, NEW inside \in Seq(Seq(Byte))
  PROVE  Stands(hdr, b, inside) \in Seq(Byte)
<1>1. PICK s1 \in Seq(Byte) : s1 = Two(b.repeat)
  BY InsideBlocks, TwoType
<1>2. PICK s2 \in Seq(Byte) : s2 = IF hdr = 6 THEN Two(b.repeat \div (Radix * Radix)) ELSE <<>>
  <2>1. PICK c \in Nat \ {0} : c = Radix * Radix
    BY RadixAssumption
  <2>2. b.repeat \div c \in Nat
    BY InsideBlocks, Arithmetic
  <2>3. Two(b.repeat \div (Radix * Radix)) \in Seq(Byte)
    BY <2>1, <2>2, TwoType
  <2>4. <<>> \in Seq(Byte)
    OBVIOUS
  <2> QED
    BY <2>3, <2>4
<1>3. PICK s3 \in Seq(Byte) : s3 = Two(Len(b.blocks))
  BY InsideBlocks, TwoType
<1>4. PICK s4 \in Seq(Byte) : s4 = IF b.blocks = <<>> THEN <<Len(b.data)>> \o b.data ELSE FlattenSeq(inside)
  <2>1. FlattenSeq(inside) \in Seq(Byte)
    BY FlattenType
  <2>2. CASE b.blocks = <<>>
    <3>1. PICK n \in Byte : n = Len(b.data)
      BY <2>2, InsideBlocks
    <3>2. PICK data \in Seq(Byte) : data = b.data
      BY InsideBlocks
    <3>3. <<n>> \o data \in Seq(Byte)
      BY <3>2
    <3> QED
      BY <2>2, <3>1, <3>2, <3>3
  <2> QED
    BY <2>1, <2>2
<1>5. Stands(hdr, b, inside) = s1 \o s2 \o s3 \o s4
  BY <1>1, <1>2, <1>3, <1>4 DEF Stands
<1>6. \A s, t \in Seq(Byte) : s \o t \in Seq(Byte)
  OBVIOUS
<1> QED
  BY <1>5, <1>6

\* Blocks are bytes in their record.
LEMMA EncodedType ==
  ASSUME NEW hdr, NEW blocks \in Seq(Blocks)
  PROVE  Encoded(hdr, blocks) \in Seq(Byte)
<1> DEFINE IsOf(f) ==
      f = [b \in Blocks |-> Stands(hdr, b, [i \in DOMAIN b.blocks |-> f[b.blocks[i]]])]
<1>1. \E f : IsOf(f)
  <2> DEFINE G == [b \in Blocks |-> [in \in Seq(Seq(Byte)) |-> Stands(hdr, b, in)]]
  <2>1. \A b \in Blocks, in \in Seq(Seq(Byte)) : G[b][in] = Stands(hdr, b, in)
    OBVIOUS
  <2> HIDE DEF G
  <2>2. Makes(G, Seq(Byte))
    <3>1. <<>> \in Seq(Byte)
      OBVIOUS
    <3> QED
      BY <2>1, <3>1, StandsType DEF Makes
  <2>3. PICK f : MadeBy(f, G, Seq(Byte))
    BY <2>2, BlocksRecursion
  <2>4. \A b \in Blocks : f[b] = Stands(hdr, b, [i \in DOMAIN b.blocks |-> f[b.blocks[i]]])
    BY <2>1, <2>3 DEF MadeBy, Inner
  <2>5. f = [b \in Blocks |-> f[b]]
    BY <2>3 DEF MadeBy
  <2>6. IsOf(f)
    BY <2>4, <2>5
  <2> QED
    BY <2>6
<1> DEFINE of == CHOOSE f : IsOf(f)
<1>2. IsOf(of)
  BY <1>1
<1>3. Encoded(hdr, blocks) = FlattenSeq([i \in DOMAIN blocks |-> of[blocks[i]]])
  BY DEF Encoded, Stands
<1> HIDE DEF of
<1> DEFINE T == {b \in Blocks : of[b] \in Seq(Byte)}
<1>4. ASSUME NEW b \in Blocks, \A i \in DOMAIN b.blocks : b.blocks[i] \in T PROVE b \in T
  <2>1. Inner(of, b) \in Seq(Seq(Byte))
    BY <1>4, InnerType
  <2>2. of[b] = Stands(hdr, b, Inner(of, b))
    BY <1>2 DEF Inner
  <2> QED
    BY <2>1, <2>2, StandsType
<1> HIDE DEF T
<1>5. Blocks \subseteq T
  BY <1>4, BlocksInduction
<1>6. \A b \in Blocks : of[b] \in Seq(Byte)
  BY <1>5 DEF T
<1>7. [i \in DOMAIN blocks |-> of[blocks[i]]] \in Seq(Seq(Byte))
  BY <1>6
<1> QED
  BY <1>3, <1>7, FlattenType

LEMMA LengthsType == \A b \in Blocks : Lengths[b] \in Nat
<1> DEFINE Sum(b, in) ==
      (b.repeat * IF b.blocks = <<>> THEN Len(b.data)
                  ELSE IF \E i \in DOMAIN in : in[i] = 0 THEN 0 ELSE Total(in)) % OffsetRange
           IsLength(f) == f = [b \in Blocks |-> Sum(b, [i \in DOMAIN b.blocks |-> f[b.blocks[i]]])]
<1>1. ASSUME NEW b \in Blocks, NEW in \in Seq(Nat) PROVE Sum(b, in) \in Nat
  <2>1. Len(in) \in Nat /\ DOMAIN in = 1 .. Len(in) /\ \A i \in 1 .. Len(in) : in[i] \in Nat
    OBVIOUS
  <2>2. Total(in) \in Nat /\ b.repeat \in Nat /\ Len(b.data) \in Nat
    BY <2>1, TotalType, InsideBlocks
  <2>3. \A x, y \in Nat : x * y \in Nat
    OBVIOUS
  <2>4. PICK n \in Nat : n = IF b.blocks = <<>> THEN Len(b.data)
                             ELSE IF \E i \in DOMAIN in : in[i] = 0 THEN 0 ELSE Total(in)
    BY <2>2
  <2>5. PICK m \in Nat : m = b.repeat * n
    BY <2>2, <2>3
  <2>6. m % OffsetRange \in Nat
    BY OffsetsFit
  <2> QED
    BY <2>4, <2>5, <2>6
<1> HIDE DEF Sum
<1>2. \E f : IsLength(f)
  <2> DEFINE G == [b \in Blocks |-> [in \in Seq(Nat) |-> Sum(b, in)]]
  <2>1. \A b \in Blocks, in \in Seq(Nat) : G[b][in] = Sum(b, in)
    OBVIOUS
  <2> HIDE DEF G
  <2>2. Makes(G, Nat)
    BY <1>1, <2>1 DEF Makes
  <2>3. PICK f : MadeBy(f, G, Nat)
    BY <2>2, BlocksRecursion
  <2>4. \A b \in Blocks : f[b] = Sum(b, [i \in DOMAIN b.blocks |-> f[b.blocks[i]]])
    BY <2>1, <2>3 DEF MadeBy, Inner
  <2>5. f = [b \in Blocks |-> f[b]]
    BY <2>3 DEF MadeBy
  <2>6. IsLength(f)
    BY <2>4, <2>5
  <2> QED
    BY <2>6
<1>3. IsLength(Lengths)
  BY <1>2 DEF Lengths, Sum
<1> DEFINE T == {b \in Blocks : Lengths[b] \in Nat}
<1>4. ASSUME NEW b \in Blocks, \A i \in DOMAIN b.blocks : b.blocks[i] \in T PROVE b \in T
  <2>1. Inner(Lengths, b) \in Seq(Nat)
    BY <1>4, InnerType
  <2>2. Lengths[b] = Sum(b, Inner(Lengths, b))
    BY <1>3 DEF Inner
  <2> QED
    BY <1>1, <2>1, <2>2
<1> HIDE DEF T
<1>5. Blocks \subseteq T
  BY <1>4, BlocksInduction
<1> QED
  BY <1>5 DEF T

-----------------------------------------------------------------------------
(* What is read of a record of iterated data: when so many bytes are left,  *)
(* no more are left behind it.                                             *)

Piece(bytes, p, n) == [at |-> p, data |-> SubSeq(bytes, p + 1, p + n)]
Visit(bytes) == {Piece(bytes, q[1], q[2]) : q \in Nat \X Nat}
Until(bytes, n) ==
  [ret : {"OKAY", "ERROR", "wild", "hang"}, left : 0 .. n, visits : Seq(Visit(bytes))]

LEMMA NothingVisited ==
  ASSUME NEW bytes, NEW n \in Nat, NEW ret \in {"OKAY", "ERROR", "wild", "hang"}
  PROVE  Result(ret, n, <<>>) \in Until(bytes, n)
BY DEF Result, Until

LEMMA UntilMore ==
  ASSUME NEW bytes, NEW n \in Nat, NEW m \in 0 .. n, NEW r \in Until(bytes, m)
  PROVE  r \in Until(bytes, n)
<1>1. r.left \in 0 .. n
  BY DEF Until
<1> QED
  BY <1>1 DEF Until

LEMMA OnwardType ==
  ASSUME NEW bytes, NEW n \in Nat, NEW first \in Until(bytes, n), NEW rest \in Until(bytes, n)
  PROVE  Onward(first, rest) \in Until(bytes, n)
<1>1. PICK s \in Seq(Visit(bytes)) : s = first.visits
  BY DEF Until
<1>2. PICK t \in Seq(Visit(bytes)) : t = rest.visits
  BY DEF Until
<1>3. s \o t \in Seq(Visit(bytes))
  OBVIOUS
<1>4. Onward(first, rest) = [rest EXCEPT !.visits = s \o t]
  BY <1>1, <1>2 DEF Onward, Until
<1> QED
  BY <1>3, <1>4 DEF Until

Words == 0 .. Radix * Radix - 1

LEMMA TwoAtType ==
  ASSUME NEW bytes \in Seq(Byte), NEW p \in Nat, p + 2 <= Len(bytes)
  PROVE  TwoAt(bytes, p) \in Words
<1>1. PICK a \in Byte : a = bytes[p + 1]
  OBVIOUS
<1>2. PICK b \in Byte : b = bytes[p + 2]
  OBVIOUS
<1>3. PICK r \in Nat \ {0} : r = Radix
  BY RadixAssumption
<1>4. a \in 0 .. r - 1 /\ b \in 0 .. r - 1
  BY <1>3 DEF Byte
<1>5. a + r * b \in 0 .. r * r - 1
  <2>1. r * b <= r * (r - 1)
    BY <1>4
  <2>2. r * (r - 1) = r * r - r /\ r * b \in Nat
    BY <1>4
  <2> QED
    BY <1>4, <2>1, <2>2
<1> QED
  BY <1>1, <1>2, <1>3, <1>5 DEF TwoAt, Words

\* The numbers of the header, when it is all there.
LEMMA HeaderType ==
  ASSUME NEW bytes \in Seq(Byte), NEW hdr \in {4, 6}, NEW left \in hdr .. Len(bytes)
  PROVE  /\ Len(bytes) - left \in Nat
         /\ TwoAt(bytes, Len(bytes) - left + hdr - 2) \in Words
         /\ TwoAt(bytes, Len(bytes) - left)
              + (IF hdr = 6 THEN Radix * Radix * TwoAt(bytes, Len(bytes) - left + 2) ELSE 0) \in Nat
         /\ left # hdr => bytes[Len(bytes) - left + hdr + 1] \in Byte
<1>1. PICK p \in Nat : p = Len(bytes) - left /\ p + hdr <= Len(bytes)
  OBVIOUS
<1>2. \A q \in Nat : q + 2 <= Len(bytes) => TwoAt(bytes, q) \in Nat /\ TwoAt(bytes, q) \in Words
  BY TwoAtType DEF Words
<1>3. p + hdr - 2 \in Nat /\ (p + hdr - 2) + 2 <= Len(bytes) /\ p + 2 <= Len(bytes)
  BY <1>1
<1>4. hdr = 6 => (p + 2) + 2 <= Len(bytes) /\ p + 2 \in Nat
  BY <1>1
<1>5. PICK c \in Nat : c = Radix * Radix
  BY RadixAssumption
<1>6. \A x, y \in Nat : x * y \in Nat /\ x + y \in Nat
  OBVIOUS
<1>7. PICK m \in Nat : m = IF hdr = 6 THEN Radix * Radix * TwoAt(bytes, p + 2) ELSE 0
  <2>1. CASE hdr = 6
    <3>1. TwoAt(bytes, p + 2) \in Nat
      BY <1>2, <1>4, <2>1
    <3>2. c * TwoAt(bytes, p + 2) \in Nat
      BY <1>6, <3>1
    <3> QED
      BY <1>5, <2>1, <3>2
  <2> QED
    BY <2>1
<1>8. TwoAt(bytes, p) + m \in Nat
  BY <1>2, <1>3, <1>6
<1>9. left # hdr => p + hdr + 1 \in 1 .. Len(bytes)
  BY <1>1
<1>10. TwoAt(bytes, p + hdr - 2) \in Words
  BY <1>2, <1>3
<1>11. left # hdr => bytes[p + hdr + 1] \in Byte
  BY <1>9
<1> QED
  BY <1>1, <1>7, <1>8, <1>10, <1>11

\* A block comes by something of the record, if the blocks inside it do.
LEMMA BlockType ==
  ASSUME NEW bytes \in Seq(Byte), NEW hdr \in {4, 6}, NEW fixups, NEW left \in 0 .. Len(bytes), NEW inside,
         \A k \in Words, m \in 0 .. Len(bytes) : m < left => inside[<<k, m>>] \in Until(bytes, m)
  PROVE  WriteBlock(hdr, bytes, fixups, left, inside) \in Until(bytes, left)
<1> DEFINE p      == Len(bytes) - left
           Fixed  == \E j \in DOMAIN fixups : fixups[j].off \in p .. p + hdr
           repeat == TwoAt(bytes, p) + IF hdr = 6 THEN Radix * Radix * TwoAt(bytes, p + 2) ELSE 0
           blocks == TwoAt(bytes, p + hdr - 2)
           len    == bytes[p + hdr + 1]
           data   == [at |-> p + hdr + 1, data |-> SubSeq(bytes, p + hdr + 2, p + hdr + 1 + len)]
           all    == WriteBlock(hdr, bytes, fixups, left, inside)
<1>1. all = IF left < hdr \/ Fixed THEN Result("ERROR", left, <<>>)
            ELSE IF blocks # 0 /\ repeat = 0 THEN Result("OKAY", left, <<>>)
            ELSE IF blocks # 0
                 THEN [inside[<<blocks, left - hdr>>] EXCEPT !.visits = Times(@, repeat)]
            ELSE IF left = hdr \/ (repeat # 0 /\ left <= hdr + len) THEN Result("wild", left, <<>>)
            ELSE Result("OKAY", Max({0, left - hdr - 1 - len}), Times(<<data>>, repeat))
  BY DEF WriteBlock
<1>2. ~(left < hdr) =>
        /\ p \in Nat /\ blocks \in Words /\ repeat \in Nat /\ (left # hdr => len \in Byte)
  BY HeaderType
<1>3. data = [at |-> p + hdr + 1, data |-> SubSeq(bytes, p + hdr + 2, p + hdr + 1 + len)]
  OBVIOUS
<1> HIDE DEF Fixed, repeat, blocks, len, data, all, p
<1>4. Result("ERROR", left, <<>>) \in Until(bytes, left) /\ Result("OKAY", left, <<>>) \in Until(bytes, left)
      /\ Result("wild", left, <<>>) \in Until(bytes, left)
  BY NothingVisited
<1>5. CASE ~(left < hdr) /\ ~Fixed /\ blocks # 0 /\ repeat # 0
  <2>1. PICK m \in 0 .. left : m = left - hdr /\ m < left
    BY <1>5
  <2>2. PICK r \in Until(bytes, m) : r = inside[<<blocks, left - hdr>>]
    BY <1>2, <1>5, <2>1
  <2>3. PICK n \in Nat : n = repeat
    BY <1>2, <1>5
  <2>4. PICK s \in Seq(Visit(bytes)) : s = r.visits
    BY DEF Until
  <2>5. Times(s, n) \in Seq(Visit(bytes))
    BY TimesType
  <2>6. all = [r EXCEPT !.visits = Times(s, n)]
    BY <1>1, <1>5, <2>2, <2>3, <2>4 DEF Until
  <2>7. all \in Until(bytes, m)
    BY <2>5, <2>6 DEF Until
  <2> QED
    BY <2>1, <2>7, UntilMore DEF all
<1>6. CASE ~(left < hdr) /\ left # hdr /\ blocks = 0
  <2>1. PICK n \in Nat : n = len
    BY <1>2, <1>6, RadixAssumption DEF Byte
  <2>2. PICK m \in 0 .. left : m = Max({0, left - hdr - 1 - len})
    <3>1. PICK x \in Int : x = left - hdr - 1 - n
      OBVIOUS
    <3>2. Max({0, x}) \in {0, x} /\ Max({0, x}) >= 0
      <4>1. \E y \in {0, x} : \A z \in {0, x} : y >= z
        OBVIOUS
      <4> QED
        BY <4>1 DEF Max
    <3>3. x <= left
      BY <3>1
    <3> QED
      BY <2>1, <3>1, <3>2, <3>3
  <2>3. PICK q \in Nat : q = p + hdr + 1
    BY <1>2, <1>6
  <2>4. p + hdr + 2 = q + 1 /\ p + hdr + 1 + len = q + n
    BY <1>2, <1>6, <2>1, <2>3
  <2>5. data \in Visit(bytes)
    <3>1. data = Piece(bytes, q, n)
      BY ONLY <1>3, <2>3, <2>4 DEF Piece
    <3>2. PICK z \in Nat \X Nat : z[1] = q /\ z[2] = n
      <4>1. <<q, n>> \in Nat \X Nat
        OBVIOUS
      <4> QED
        BY ONLY <4>1
    <3> QED
      BY ONLY <3>1, <3>2 DEF Visit
  <2>6. Times(<<data>>, repeat) \in Seq(Visit(bytes))
    <3>1. <<data>> \in Seq(Visit(bytes))
      BY <2>5
    <3> QED
      BY <1>2, <1>6, <3>1, TimesType
  <2>7. Result("OKAY", m, Times(<<data>>, repeat)) \in Until(bytes, left)
    BY <2>6 DEF Result, Until
  <2>8. all = Result("ERROR", left, <<>>) \/ all = Result("wild", left, <<>>)
          \/ all = Result("OKAY", m, Times(<<data>>, repeat))
    BY <1>1, <1>6, <2>2
  <2> QED
    BY <1>4, <2>7, <2>8 DEF all
<1>7. CASE left < hdr \/ Fixed \/ (blocks # 0 /\ repeat = 0) \/ (blocks = 0 /\ left = hdr)
  <2>1. all = Result("ERROR", left, <<>>) \/ all = Result("wild", left, <<>>)
          \/ all = Result("OKAY", left, <<>>)
    BY <1>1, <1>7
  <2> QED
    BY <1>4, <2>1 DEF all
<1> QED
  BY <1>5, <1>6, <1>7

\* Nothing else of what is inside matters for it.
LEMMA BlockSame ==
  ASSUME NEW bytes \in Seq(Byte), NEW hdr \in {4, 6}, NEW fixups, NEW left \in 0 .. Len(bytes), NEW f, NEW h,
         \A k \in Words, m \in 0 .. Len(bytes) : m < left => f[<<k, m>>] = h[<<k, m>>]
  PROVE  WriteBlock(hdr, bytes, fixups, left, f) = WriteBlock(hdr, bytes, fixups, left, h)
<1> DEFINE blocks == TwoAt(bytes, Len(bytes) - left + hdr - 2)
<1>1. CASE left < hdr
  BY <1>1 DEF WriteBlock
<1>2. CASE ~(left < hdr)
  <2>1. blocks \in Words
    BY <1>2, HeaderType
  <2>2. left - hdr \in 0 .. Len(bytes) /\ left - hdr < left
    BY <1>2
  <2>3. f[<<blocks, left - hdr>>] = h[<<blocks, left - hdr>>]
    BY <2>1, <2>2
  <2> QED
    BY <2>3 DEF WriteBlock
<1> QED
  BY <1>1, <1>2

-----------------------------------------------------------------------------
(* The recursion over the blocks of a record, and over what is left of it.  *)

Chained(bytes) == Words \X (0 .. Len(bytes))

\* The recursion goes from x to y.
Deeper(y, x) == y[2] < x[2] \/ (y[2] = x[2] /\ y[1] < x[1])

Link(hdr, bytes, fixups, f, x) ==
  LET first == WriteBlock(hdr, bytes, fixups, x[2], f)
  IN  IF x[1] = 0 THEN Result("OKAY", x[2], <<>>)
      ELSE IF first.ret # "OKAY" THEN first
      ELSE Onward(first, f[<<x[1] - 1, first.left>>])

LEMMA ChainedIs ==
  ASSUME NEW bytes \in Seq(Byte), NEW x \in Chained(bytes)
  PROVE  /\ x[1] \in Words /\ x[1] \in Nat /\ x[2] \in 0 .. Len(bytes) /\ x[2] \in Nat /\ Len(bytes) \in Nat
         /\ x[1] # 0 => x[1] - 1 \in Words /\ x[1] - 1 < x[1]
         /\ \A k \in Words, m \in 0 .. Len(bytes) :
              <<k, m>> \in Chained(bytes) /\ (m < x[2] => Deeper(<<k, m>>, x))
<1>1. Radix * Radix \in Nat
  BY RadixAssumption
<1>2. x[1] \in Words /\ x[2] \in 0 .. Len(bytes)
  BY DEF Chained
<1>3. x[1] \in Nat /\ (x[1] # 0 => x[1] - 1 \in Words /\ x[1] - 1 < x[1])
  BY <1>1, <1>2 DEF Words
<1>4. x[2] \in Nat /\ Len(bytes) \in Nat
  BY <1>2
<1>5. \A k \in Words, m \in 0 .. Len(bytes) :
        <<k, m>> \in Chained(bytes) /\ (m < x[2] => Deeper(<<k, m>>, x))
  BY DEF Chained, Deeper
<1> QED
  BY <1>2, <1>3, <1>4, <1>5

LEMMA LinkType ==
  ASSUME NEW bytes \in Seq(Byte), NEW hdr \in {4, 6}, NEW fixups, NEW x \in Chained(bytes), NEW f,
         \A y \in Chained(bytes) : Deeper(y, x) => f[y] \in Until(bytes, y[2])
  PROVE  Link(hdr, bytes, fixups, f, x) \in Until(bytes, x[2])
<1>1. PICK first : first = WriteBlock(hdr, bytes, fixups, x[2], f)
  OBVIOUS
<1>2. PICK left \in 0 .. Len(bytes) : left = x[2] /\ left \in Nat
  BY ChainedIs
<1>3. \A k \in Words, m \in 0 .. Len(bytes) : m < left => f[<<k, m>>] \in Until(bytes, m)
  <2>1. ASSUME NEW k \in Words, NEW m \in 0 .. Len(bytes), m < left PROVE f[<<k, m>>] \in Until(bytes, m)
    <3>1. PICK y \in Chained(bytes) : y = <<k, m>> /\ Deeper(y, x)
      BY <1>2, <2>1, ChainedIs
    <3>2. f[y] \in Until(bytes, y[2])
      BY <3>1
    <3> QED
      BY <3>1, <3>2
  <2> QED
    BY <2>1
<1>4. first \in Until(bytes, left)
  BY <1>1, <1>2, <1>3, BlockType
<1>5. Link(hdr, bytes, fixups, f, x) =
        IF x[1] = 0 THEN Result("OKAY", left, <<>>)
        ELSE IF first.ret # "OKAY" THEN first
        ELSE Onward(first, f[<<x[1] - 1, first.left>>])
  BY <1>1, <1>2 DEF Link
<1>6. Result("OKAY", left, <<>>) \in Until(bytes, left)
  BY <1>2, NothingVisited
<1>7. x[1] # 0 => Onward(first, f[<<x[1] - 1, first.left>>]) \in Until(bytes, left)
  <2> SUFFICES ASSUME x[1] # 0 PROVE Onward(first, f[<<x[1] - 1, first.left>>]) \in Until(bytes, left)
    OBVIOUS
  <2>1. PICK m \in 0 .. left : m = first.left
    BY <1>4 DEF Until
  <2>2. PICK k \in Words : k = x[1] - 1 /\ k < x[1]
    BY ChainedIs
  <2>3. PICK y \in Chained(bytes) : y = <<k, m>>
    <3>1. m \in 0 .. Len(bytes)
      BY <1>2
    <3> QED
      BY <3>1, ChainedIs
  <2>4. Deeper(y, x)
    BY <1>2, <2>1, <2>2, <2>3 DEF Deeper
  <2>5. f[y] \in Until(bytes, m)
    BY <2>3, <2>4
  <2>6. f[y] \in Until(bytes, left)
    BY <1>2, <2>1, <2>5, UntilMore
  <2> QED
    BY <1>2, <1>4, <2>1, <2>2, <2>3, <2>6, OnwardType
<1> QED
  BY <1>2, <1>4, <1>5, <1>6, <1>7

LEMMA LinkSame ==
  ASSUME NEW bytes \in Seq(Byte), NEW hdr \in {4, 6}, NEW fixups, NEW x \in Chained(bytes), NEW f, NEW h,
         \A y \in Chained(bytes) : Deeper(y, x) => f[y] \in Until(bytes, y[2]) /\ f[y] = h[y]
  PROVE  Link(hdr, bytes, fixups, f, x) = Link(hdr, bytes, fixups, h, x)
<1>1. PICK first : first = WriteBlock(hdr, bytes, fixups, x[2], f)
  OBVIOUS
<1>2. PICK left \in 0 .. Len(bytes) : left = x[2] /\ left \in Nat
  BY ChainedIs
<1>3. ASSUME NEW k \in Words, NEW m \in 0 .. Len(bytes), m < left
      PROVE  f[<<k, m>>] \in Until(bytes, m) /\ f[<<k, m>>] = h[<<k, m>>]
  <2>1. PICK y \in Chained(bytes) : y = <<k, m>> /\ Deeper(y, x)
    BY <1>2, <1>3, ChainedIs
  <2>2. f[y] \in Until(bytes, y[2]) /\ f[y] = h[y]
    BY <2>1
  <2> QED
    BY <2>1, <2>2
<1>4. first \in Until(bytes, left)
  BY <1>1, <1>2, <1>3, BlockType
<1>5. first = WriteBlock(hdr, bytes, fixups, x[2], h)
  <2>1. \A k \in Words, m \in 0 .. Len(bytes) : m < left => f[<<k, m>>] = h[<<k, m>>]
    BY <1>3
  <2>2. WriteBlock(hdr, bytes, fixups, left, f) = WriteBlock(hdr, bytes, fixups, left, h)
    BY <2>1, BlockSame
  <2> QED
    BY <1>1, <1>2, <2>2
<1>6. x[1] # 0 => f[<<x[1] - 1, first.left>>] = h[<<x[1] - 1, first.left>>]
  <2> SUFFICES ASSUME x[1] # 0 PROVE f[<<x[1] - 1, first.left>>] = h[<<x[1] - 1, first.left>>]
    OBVIOUS
  <2>1. PICK m \in 0 .. left : m = first.left
    BY <1>4 DEF Until
  <2>2. PICK k \in Words : k = x[1] - 1 /\ k < x[1]
    BY ChainedIs
  <2>3. PICK y \in Chained(bytes) : y = <<k, m>>
    <3>1. m \in 0 .. Len(bytes)
      BY <1>2
    <3> QED
      BY <3>1, ChainedIs
  <2>4. Deeper(y, x)
    BY <1>2, <2>1, <2>2, <2>3 DEF Deeper
  <2> QED
    BY <2>1, <2>2, <2>3, <2>4
<1>7. Link(hdr, bytes, fixups, f, x) =
        IF x[1] = 0 THEN Result("OKAY", x[2], <<>>)
        ELSE IF first.ret # "OKAY" THEN first
        ELSE Onward(first, f[<<x[1] - 1, first.left>>])
  BY <1>1 DEF Link
<1>8. Link(hdr, bytes, fixups, h, x) =
        IF x[1] = 0 THEN Result("OKAY", x[2], <<>>)
        ELSE IF first.ret # "OKAY" THEN first
        ELSE Onward(first, h[<<x[1] - 1, first.left>>])
  BY <1>5 DEF Link
<1> QED
  BY <1>6, <1>7, <1>8

\* The order in which the recursion ends.
Measure(bytes) == [x \in Chained(bytes) |-> x[2] * (Radix * Radix) + x[1]]

LEMMA RankIs ==
  ASSUME NEW bytes \in Seq(Byte)
  PROVE  /\ Measure(bytes) \in [Chained(bytes) -> Nat]
         /\ \E n \in Nat : \A x \in Chained(bytes) : Measure(bytes)[x] < n
         /\ \A x, y \in Chained(bytes) : Deeper(y, x) => Measure(bytes)[y] < Measure(bytes)[x]
<1>1. PICK c \in Nat \ {0} : c = Radix * Radix
  BY RadixAssumption
<1>2. ASSUME NEW x \in Chained(bytes)
      PROVE  x[1] \in Nat /\ x[1] < c /\ x[2] \in Nat /\ x[2] <= Len(bytes)
  BY <1>1, ChainedIs DEF Words
<1>3. \A m, n \in Nat : m * c \in Nat /\ (m < n => (m + 1) * c <= n * c) /\ (m + 1) * c = m * c + c
  <2>1. ASSUME NEW m \in Nat, NEW n \in Nat, m < n PROVE (m + 1) * c <= n * c
    <3>1. PICK d \in Nat : n = (m + 1) + d
      <4>1. n - (m + 1) \in Nat /\ n = (m + 1) + (n - (m + 1))
        BY <2>1
      <4> QED
        BY <4>1
    <3>2. n * c = (m + 1) * c + d * c /\ d * c \in Nat /\ (m + 1) * c \in Nat
      BY <3>1
    <3> QED
      BY <3>2
  <2>2. \A m \in Nat : m * c \in Nat /\ (m + 1) * c = m * c + c
    OBVIOUS
  <2> QED
    BY <2>1, <2>2
<1>4. \A x \in Chained(bytes) : Measure(bytes)[x] = x[2] * c + x[1]
  BY <1>1 DEF Measure
<1>5. \A x \in Chained(bytes) : Measure(bytes)[x] \in Nat
  BY <1>2, <1>3, <1>4
<1>6. Measure(bytes) \in [Chained(bytes) -> Nat]
  BY <1>5 DEF Measure
<1>7. ASSUME NEW x \in Chained(bytes), NEW n \in Nat, x[2] < n PROVE Measure(bytes)[x] < n * c
  <2>1. (x[2] + 1) * c <= n * c /\ (x[2] + 1) * c = x[2] * c + c /\ x[2] * c \in Nat /\ n * c \in Nat
    BY <1>2, <1>3, <1>7
  <2>2. PICK u \in Nat : u = x[2] * c
    BY <2>1
  <2>3. PICK v \in Nat : v = n * c
    BY <2>1
  <2>4. PICK k \in Nat : k = x[1] /\ k < c
    BY <1>2
  <2>5. Measure(bytes)[x] = u + k /\ u + c <= v
    BY <1>4, <2>1, <2>2, <2>3, <2>4
  <2> QED
    BY ONLY <2>3, <2>4, <2>5, c \in Nat, u \in Nat, v \in Nat, k \in Nat
<1>8. \E n \in Nat : \A x \in Chained(bytes) : Measure(bytes)[x] < n
  <2>1. PICK n \in Nat : n = Len(bytes) + 1
    OBVIOUS
  <2>2. \A x \in Chained(bytes) : x[2] < n
    BY <1>2, <2>1
  <2>3. n * c \in Nat
    BY <1>3
  <2> QED
    BY <1>7, <2>2, <2>3
<1>9. ASSUME NEW x \in Chained(bytes), NEW y \in Chained(bytes), Deeper(y, x)
      PROVE  Measure(bytes)[y] < Measure(bytes)[x]
  <2>1. CASE y[2] < x[2]
    <3>1. Measure(bytes)[y] < x[2] * c
      BY <1>2, <1>7, <2>1
    <3>2. Measure(bytes)[y] \in Nat /\ x[2] * c \in Nat /\ Measure(bytes)[x] = x[2] * c + x[1] /\ x[1] \in Nat
      BY <1>2, <1>3, <1>4, <1>5
    <3> QED
      BY <3>1, <3>2
  <2>2. CASE y[2] = x[2] /\ y[1] < x[1]
    <3>1. x[2] * c \in Nat /\ x[1] \in Nat /\ y[1] \in Nat
      BY <1>2, <1>3
    <3> QED
      BY <1>4, <2>2, <3>1
  <2> QED
    BY <1>9, <2>1, <2>2 DEF Deeper
<1> QED
  BY <1>6, <1>8, <1>9

\* What is true of an element when it is of those the recursion goes to, is of all.
LEMMA ChainInduction ==
  ASSUME NEW bytes \in Seq(Byte), NEW T,
         \A x \in Chained(bytes) : (\A y \in Chained(bytes) : Deeper(y, x) => y \in T) => x \in T
  PROVE  Chained(bytes) \subseteq T
<1> DEFINE U == {n \in Nat : \A x \in Chained(bytes) : Measure(bytes)[x] < n => x \in T}
<1>1. 0 \in U
  BY RankIs
<1>2. ASSUME NEW n \in Nat, n \in U PROVE n + 1 \in U
  <2>1. ASSUME NEW x \in Chained(bytes), Measure(bytes)[x] < n + 1 PROVE x \in T
    <3>1. ASSUME NEW y \in Chained(bytes), Deeper(y, x) PROVE y \in T
      <4>1. Measure(bytes)[y] < Measure(bytes)[x] /\ Measure(bytes)[y] \in Nat /\ Measure(bytes)[x] \in Nat
        BY <3>1, RankIs
      <4>2. Measure(bytes)[y] < n
        BY <2>1, <4>1
      <4> QED
        BY <1>2, <4>2
    <3> QED
      BY <3>1
  <2> QED
    BY <2>1
<1> HIDE DEF U
<1>3. PICK n \in Nat : \A x \in Chained(bytes) : Measure(bytes)[x] < n
  BY RankIs
<1>4. n \in U
  BY <1>1, <1>2, Induction
<1> QED
  BY <1>3, <1>4 DEF U

\* What is inside a record comes by something of it.
LEMMA ChainType ==
  ASSUME NEW bytes \in Seq(Byte), NEW hdr \in {4, 6}, NEW fixups
  PROVE  \A x \in Chained(bytes) : WriteBlocks(hdr, bytes, fixups)[x] \in Until(bytes, x[2])
<1> DEFINE D == Chained(bytes)
           IsChain(f) == f = [x \in D |-> Link(hdr, bytes, fixups, f, x)]
           F == {f \in [D -> Until(bytes, Len(bytes))] : \A x \in D : f[x] \in Until(bytes, x[2])}
           chain == CHOOSE f : IsChain(f)
<1>1. WriteBlocks(hdr, bytes, fixups) = chain
  BY DEF WriteBlocks, Link, Chained, Words
<1>2. \E f : IsChain(f)
  <2> DEFINE G == [f \in F |-> [x \in D |-> Link(hdr, bytes, fixups, f, x)]]
             rank == Measure(bytes)
  <2>1. \E n \in Nat : \A x \in D : rank[x] < n
    BY RankIs
  <2>2. rank \in [D -> Nat]
    BY RankIs
  <2>3. F # {}
    <3>1. \A x \in D : Result("OKAY", 0, <<>>) \in Until(bytes, x[2])
                       /\ Result("OKAY", 0, <<>>) \in Until(bytes, Len(bytes))
      <4>1. Result("OKAY", 0, <<>>) \in Until(bytes, 0)
        BY NothingVisited
      <4>2. \A m \in Nat : 0 \in 0 .. m
        OBVIOUS
      <4> QED
        BY <4>1, <4>2, ChainedIs, UntilMore
    <3>2. [x \in D |-> Result("OKAY", 0, <<>>)] \in F
      BY <3>1
    <3> QED
      BY <3>2
  <2>4. ASSUME NEW f \in F PROVE G[f] \in F
    <3>1. \A x \in D : Link(hdr, bytes, fixups, f, x) \in Until(bytes, x[2])
      BY LinkType
    <3>2. \A x \in D : Link(hdr, bytes, fixups, f, x) \in Until(bytes, Len(bytes))
      BY <3>1, ChainedIs, UntilMore
    <3>3. G[f] = [x \in D |-> Link(hdr, bytes, fixups, f, x)]
      OBVIOUS
    <3> HIDE DEF D, G
    <3> QED
      BY <3>1, <3>2, <3>3
  <2>5. G \in [F -> F]
    <3> HIDE DEF D, F
    <3> QED
      BY <2>4
  <2>6. ASSUME NEW f \in F, NEW h \in F, NEW x \in D, \A y \in D : rank[y] < rank[x] => f[y] = h[y]
        PROVE  G[f][x] = G[h][x]
    <3>1. \A y \in D : Deeper(y, x) => f[y] \in Until(bytes, y[2]) /\ f[y] = h[y]
      BY <2>6, RankIs
    <3>2. Link(hdr, bytes, fixups, f, x) = Link(hdr, bytes, fixups, h, x)
      BY <3>1, LinkSame
    <3>3. G[f][x] = Link(hdr, bytes, fixups, f, x) /\ G[h][x] = Link(hdr, bytes, fixups, h, x)
      BY <2>6
    <3> QED
      BY <3>2, <3>3
  <2>7. \A f \in F : f = [x \in D |-> f[x]]
    OBVIOUS
  <2>8. \A f \in F : G[f] = [x \in D |-> Link(hdr, bytes, fixups, f, x)]
    OBVIOUS
  <2> HIDE DEF D, F, G, rank
  <2>9. \A f, h \in F, x \in D :
          (\A y \in D : rank[y] < rank[x] => f[y] = h[y]) => G[f][x] = G[h][x]
    BY ONLY <2>6
  <2>10. Recurs(D, rank, F, G)
    BY ONLY <2>1, <2>2, <2>3, <2>5, <2>7, <2>9 DEF Recurs
  <2>11. PICK f \in F : f = G[f]
    BY ONLY <2>10, FixedPoint
  <2>12. f = [x \in D |-> Link(hdr, bytes, fixups, f, x)]
    BY ONLY <2>8, <2>11, f \in F
  <2>13. IsChain(f)
    BY <2>12
  <2> QED
    BY <2>13
<1>3. IsChain(chain)
  BY <1>2
<1>4. \A x \in D : chain[x] = Link(hdr, bytes, fixups, chain, x)
  BY <1>3
<1> HIDE DEF chain
<1> DEFINE T == {x \in D : chain[x] \in Until(bytes, x[2])}
<1>5. ASSUME NEW x \in D, \A y \in D : Deeper(y, x) => y \in T PROVE x \in T
  <2>1. \A y \in D : Deeper(y, x) => chain[y] \in Until(bytes, y[2])
    BY <1>5
  <2>2. Link(hdr, bytes, fixups, chain, x) \in Until(bytes, x[2])
    BY <2>1, LinkType
  <2> QED
    BY <1>4, <2>2
<1>6. D \subseteq T
  <2> HIDE DEF T
  <2> QED
    BY <1>5, ChainInduction
<1> QED
  BY <1>1, <1>6

\* One round of the loop of expandPrevLIData, and those after it.
Round(hdr, bytes, fixups, f, left) ==
  LET first == WriteBlock(hdr, bytes, fixups, left, WriteBlocks(hdr, bytes, fixups))
  IN  IF left = 0 THEN Result("OKAY", 0, <<>>)
      ELSE IF first.ret # "OKAY" THEN first
      ELSE IF first.left = left THEN Result("hang", left, <<>>)
      ELSE Onward(first, f[first.left])

LEMMA RoundType ==
  ASSUME NEW bytes \in Seq(Byte), NEW hdr \in {4, 6}, NEW fixups, NEW left \in 0 .. Len(bytes), NEW f, NEW h,
         \A m \in 0 .. Len(bytes) : m < left => f[m] \in Until(bytes, m) /\ f[m] = h[m]
  PROVE  /\ Round(hdr, bytes, fixups, f, left) \in Until(bytes, left)
         /\ Round(hdr, bytes, fixups, f, left) = Round(hdr, bytes, fixups, h, left)
<1>1. PICK first : first = WriteBlock(hdr, bytes, fixups, left, WriteBlocks(hdr, bytes, fixups))
  OBVIOUS
<1>2. first \in Until(bytes, left)
  <2>1. PICK inside : inside = WriteBlocks(hdr, bytes, fixups)
    OBVIOUS
  <2>2. \A k \in Words, m \in 0 .. Len(bytes) : inside[<<k, m>>] \in Until(bytes, m)
    <3>1. \A k \in Words, m \in 0 .. Len(bytes) : <<k, m>> \in Chained(bytes) /\ <<k, m>>[2] = m
      BY DEF Chained
    <3>2. \A x \in Chained(bytes) : inside[x] \in Until(bytes, x[2])
      BY <2>1, ChainType
    <3> QED
      BY <3>1, <3>2
  <2> QED
    BY <1>1, <2>1, <2>2, BlockType
<1>3. \A k : Round(hdr, bytes, fixups, k, left) =
        IF left = 0 THEN Result("OKAY", 0, <<>>)
        ELSE IF first.ret # "OKAY" THEN first
        ELSE IF first.left = left THEN Result("hang", left, <<>>)
        ELSE Onward(first, k[first.left])
  BY <1>1 DEF Round
<1>4. PICK m \in 0 .. left : m = first.left
  BY <1>2 DEF Until
<1>5. m # left => /\ f[m] = h[m] /\ f[m] \in Until(bytes, left)
  <2> SUFFICES ASSUME m # left PROVE f[m] = h[m] /\ f[m] \in Until(bytes, left)
    OBVIOUS
  <2>1. m \in 0 .. Len(bytes) /\ m < left
    OBVIOUS
  <2>2. f[m] = h[m] /\ f[m] \in Until(bytes, m)
    BY <2>1
  <2> QED
    BY <2>2, UntilMore
<1>6. m # left => Onward(first, f[m]) \in Until(bytes, left)
  BY <1>2, <1>5, OnwardType
<1>7. Result("hang", left, <<>>) \in Until(bytes, left) /\ (left = 0 => Result("OKAY", 0, <<>>) \in Until(bytes, left))
  BY NothingVisited
<1>8. Round(hdr, bytes, fixups, f, left) \in Until(bytes, left)
  BY <1>2, <1>3, <1>4, <1>6, <1>7
<1>9. Round(hdr, bytes, fixups, f, left) = Round(hdr, bytes, fixups, h, left)
  BY <1>3, <1>4, <1>5
<1> QED
  BY <1>8, <1>9

\* Something of the record is what it comes by.
LEMMA VisitsType ==
  ASSUME NEW bytes \in Seq(Byte), NEW hdr \in {4, 6}, NEW fixups
  PROVE  IsList(WriteAndFixupLIData(hdr, bytes, fixups).visits)
<1> DEFINE D == 0 .. Len(bytes)
           IsAll(f) == f = [left \in D |-> Round(hdr, bytes, fixups, f, left)]
           F == {f \in [D -> Until(bytes, Len(bytes))] : \A m \in D : f[m] \in Until(bytes, m)}
           all == CHOOSE f : IsAll(f)
<1>0. Len(bytes) \in Nat
  OBVIOUS
<1>1. WriteAndFixupLIData(hdr, bytes, fixups) = all[Len(bytes)]
  BY DEF WriteAndFixupLIData, Round
<1>2. \E f : IsAll(f)
  <2> DEFINE G == [f \in F |-> [left \in D |-> Round(hdr, bytes, fixups, f, left)]]
             rank == [m \in D |-> m]
  <2>1. \A m \in D : rank[m] < Len(bytes) + 1
    OBVIOUS
  <2>2. rank \in [D -> Nat] /\ \A m \in D : rank[m] = m
    OBVIOUS
  <2>3. F # {}
    <3>1. \A m \in D : Result("OKAY", 0, <<>>) \in Until(bytes, m)
      <4>1. Result("OKAY", 0, <<>>) \in Until(bytes, 0)
        BY NothingVisited
      <4>2. \A m \in D : m \in Nat /\ 0 \in 0 .. m
        OBVIOUS
      <4> QED
        BY <4>1, <4>2, UntilMore
    <3>2. [m \in D |-> Result("OKAY", 0, <<>>)] \in F
      BY <1>0, <3>1
    <3> QED
      BY <3>2
  <2>4. ASSUME NEW f \in F PROVE G[f] \in F
    <3>1. \A m \in D : Round(hdr, bytes, fixups, f, m) \in Until(bytes, m)
      BY RoundType
    <3>2. \A m \in D : m \in 0 .. Len(bytes)
      OBVIOUS
    <3>3. \A m \in D : Round(hdr, bytes, fixups, f, m) \in Until(bytes, Len(bytes))
      BY <1>0, <3>1, <3>2, UntilMore
    <3>4. G[f] = [m \in D |-> Round(hdr, bytes, fixups, f, m)]
      OBVIOUS
    <3> HIDE DEF D, G
    <3> QED
      BY <3>1, <3>3, <3>4
  <2>5. G \in [F -> F]
    <3> HIDE DEF D, F
    <3> QED
      BY <2>4
  <2>6. ASSUME NEW f \in F, NEW h \in F, NEW x \in D, \A y \in D : rank[y] < rank[x] => f[y] = h[y]
        PROVE  G[f][x] = G[h][x]
    <3>1. \A y \in 0 .. Len(bytes) : y < x => f[y] \in Until(bytes, y) /\ f[y] = h[y]
      BY <2>2, <2>6
    <3>2. Round(hdr, bytes, fixups, f, x) = Round(hdr, bytes, fixups, h, x)
      BY <3>1, RoundType
    <3>3. G[f][x] = Round(hdr, bytes, fixups, f, x) /\ G[h][x] = Round(hdr, bytes, fixups, h, x)
      BY <2>6
    <3> QED
      BY <3>2, <3>3
  <2>7. \A f \in F : f = [x \in D |-> f[x]]
    OBVIOUS
  <2>8. \A f \in F : G[f] = [x \in D |-> Round(hdr, bytes, fixups, f, x)]
    OBVIOUS
  <2>9. Len(bytes) + 1 \in Nat
    BY <1>0
  <2> HIDE DEF D, F, G, rank
  <2>10. \A f, h \in F, x \in D :
          (\A y \in D : rank[y] < rank[x] => f[y] = h[y]) => G[f][x] = G[h][x]
    BY ONLY <2>6
  <2>11. Recurs(D, rank, F, G)
    <3>1. \E n \in Nat : \A x \in D : rank[x] < n
      BY <2>1, <2>9
    <3> QED
      BY ONLY <2>2, <2>3, <2>5, <2>7, <2>10, <3>1 DEF Recurs
  <2>12. PICK f \in F : f = G[f]
    BY ONLY <2>11, FixedPoint
  <2>13. f = [left \in D |-> Round(hdr, bytes, fixups, f, left)]
    BY ONLY <2>8, <2>12, f \in F
  <2>14. IsAll(f)
    BY <2>13
  <2> QED
    BY <2>14
<1>3. IsAll(all)
  BY <1>2
<1>4. \A m \in D : all[m] = Round(hdr, bytes, fixups, all, m)
  BY <1>3
<1> HIDE DEF all
<1> DEFINE T == {n \in Nat : \A m \in D : m < n => all[m] \in Until(bytes, m)}
<1>5. 0 \in T
  OBVIOUS
<1>6. ASSUME NEW n \in Nat, n \in T PROVE n + 1 \in T
  <2>1. ASSUME NEW m \in D, m < n + 1 PROVE all[m] \in Until(bytes, m)
    <3>1. \A y \in D : y < m => all[y] \in Until(bytes, y)
      <4>1. \A y \in D : y < m => y < n
        BY <2>1
      <4> QED
        BY <1>6, <4>1
    <3>2. Round(hdr, bytes, fixups, all, m) \in Until(bytes, m)
      BY <3>1, RoundType
    <3> QED
      BY <1>4, <3>2
  <2> QED
    BY <2>1
<1>7. Len(bytes) + 1 \in T
  <2> HIDE DEF T
  <2> QED
    BY <1>0, <1>5, <1>6, Induction
<1>8. all[Len(bytes)] \in Until(bytes, Len(bytes))
  BY <1>0, <1>7
<1>9. all[Len(bytes)].visits \in Seq(Visit(bytes))
  BY <1>8 DEF Until
<1> QED
  BY <1>1, <1>9, ListOf

\* Clones are a list, of nothing when nothing is cloned.
LEMMA ClonesType ==
  ASSUME NEW fixups, IsList(fixups), NEW visits, IsList(visits)
  PROVE  IsList(Clones(fixups, visits)) /\ (fixups = <<>> => Clones(fixups, visits) = <<>>)
<1> DEFINE Pos(i) == Total([j \in 1 .. i - 1 |-> Len(visits[j].data)])
           Of(i) == [j \in DOMAIN FixupsIn(fixups, visits[i]) |->
                       [FixupsIn(fixups, visits[i])[j] EXCEPT !.off = Pos(i) + @ - visits[i].at]]
           S == UNION {ToSet(Of(i)) : i \in DOMAIN visits}
           ss == [i \in DOMAIN visits |-> Of(i)]
<1>1. ASSUME NEW i \in DOMAIN visits
      PROVE  IsList(Of(i)) /\ (fixups = <<>> => Of(i) = <<>>)
  <2>1. /\ FixupsIn(fixups, visits[i]) \in Seq(ToSet(fixups))
        /\ fixups = <<>> => FixupsIn(fixups, visits[i]) = <<>>
    <3>1. fixups \in Seq(ToSet(fixups))
      BY ListIs
    <3>2. PICK T : FixupsIn(fixups, visits[i]) = Those(fixups, T)
      BY DEF FixupsIn
    <3>3. Those(fixups, T) \in Seq(ToSet(fixups) \cap T) /\ (fixups = <<>> => Those(fixups, T) = <<>>)
      BY <3>1, ThoseType
    <3>4. Seq(ToSet(fixups) \cap T) \subseteq Seq(ToSet(fixups))
      OBVIOUS
    <3> QED
      BY <3>2, <3>3, <3>4
  <2>2. PICK in : in = FixupsIn(fixups, visits[i])
    OBVIOUS
  <2>3. PICK n \in Nat : n = Len(in) /\ DOMAIN in = 1 .. n /\ (fixups = <<>> => n = 0)
    BY <2>1, <2>2
  <2>4. Of(i) = [j \in 1 .. n |-> Of(i)[j]]
    BY <2>2, <2>3
  <2> HIDE DEF Of
  <2>5. IsList(Of(i)) /\ Len(Of(i)) = n
    BY <2>4, ListMade
  <2>6. n = 0 => Of(i) = <<>>
    BY <2>4
  <2> QED
    BY <2>3, <2>5, <2>6
<1>2. Clones(fixups, visits) = FlattenSeq(ss)
  BY DEF Clones
<1> HIDE DEF Of
<1>3. Len(visits) \in Nat /\ DOMAIN visits = 1 .. Len(visits)
  BY ListIs
<1>4. ss \in Seq(Seq(S))
  <2>1. ASSUME NEW i \in DOMAIN visits PROVE Of(i) \in Seq(S)
    <3>1. Of(i) \in Seq(ToSet(Of(i)))
      BY <1>1, ListIs
    <3>2. ToSet(Of(i)) \subseteq S
      OBVIOUS
    <3> HIDE DEF S
    <3> QED
      BY <3>1, <3>2
  <2> HIDE DEF S
  <2> QED
    BY <1>3, <2>1
<1>5. ASSUME fixups = <<>> PROVE FlattenSeq(ss) = <<>>
  <2>1. <<>> \in Seq({})
    OBVIOUS
  <2>2. \A i \in DOMAIN visits : Of(i) \in Seq({})
    BY <1>1, <1>5, <2>1
  <2>3. ss \in Seq(Seq({}))
    BY <1>3, <2>2
  <2> HIDE DEF ss
  <2>4. FlattenSeq(ss) \in Seq({})
    BY <2>3, FlattenType
  <2>5. \A s \in Seq({}) : s = <<>>
    OBVIOUS
  <2> QED
    BY <2>4, <2>5
<1> HIDE DEF S, ss
<1>6. FlattenSeq(ss) \in Seq(S)
  BY <1>4, FlattenType
<1>7. IsList(FlattenSeq(ss))
  BY <1>6, ListOf
<1> QED
  BY <1>2, <1>5, <1>7

-----------------------------------------------------------------------------
(* A well-formed handle.                                                   *)

SectionFields ==
  {"kind", "index", "id", "name", "size", "nobits", "sym", "group", "lines", "cur", "bytes"}

HandleFields ==
  {"ret", "machine", "arch", "easy", "style", "lnames", "externs", "secs", "next", "segs",
   "comdats", "groups", "syms", "relocs", "notes", "frames", "targets", "work", "lidata",
   "bakpat", "blocks"}

SectionOK(s) ==
  /\ DOMAIN s = SectionFields
  /\ s.size \in 0 .. OffsetRange - 1
  /\ s.lines \in Nat
  /\ IsList(s.bytes) /\ Len(s.bytes) % CodeSize = 0

SectionsOK(secs) == IsList(secs) /\ \A k \in DOMAIN secs : SectionOK(secs[k])

\* Every table has its own index, and all other sections have one of their own.
Indexed(secs, next) ==
  /\ next \in Nat
  /\ \A k \in DOMAIN secs :
       /\ secs[k].index \in Nat /\ secs[k].index < next
       /\ secs[k].kind \in DOMAIN TableIndex => secs[k].index = TableIndex[secs[k].kind]
       /\ secs[k].kind \notin DOMAIN TableIndex => secs[k].index >= DataCodeStart
  /\ \A k, l \in DOMAIN secs : secs[k].index = secs[l].index => k = l

\* The table of the segments, or of the COMDATs.
Numbered(secs, table, kind) ==
  /\ IsList(table)
  /\ \A i \in DOMAIN table : /\ table[i] \in DOMAIN secs
                             /\ secs[table[i]].kind = kind /\ secs[table[i]].id = i

\* There are n symbols.
Symboled(secs, n) == \A k \in DOMAIN secs : secs[k].sym \in 0 .. n

ListsOK(o) ==
  /\ IsList(o.lnames) /\ IsList(o.externs) /\ IsList(o.groups)
  /\ IsList(o.syms) /\ IsList(o.relocs) /\ IsList(o.notes)

IteratedOK(l) ==
  /\ DOMAIN l = {"made", "on", "is32", "bytes", "fixups"}
  /\ l.made \in BOOLEAN /\ l.on \in BOOLEAN /\ (l.on => l.made)
  /\ l.bytes \in Seq(Byte)
  /\ IsList(l.fixups) /\ (~l.made => l.fixups = <<>>)

BakpatsOK(b) ==
  /\ DOMAIN b = {"on", "fixes"} /\ b.on \in BOOLEAN
  /\ IsList(b.fixes) /\ (~b.on => b.fixes = <<>>)

Rets == {"OKAY", "ERROR"} \cup Broken

\* All but that the symbols of sections are there.
HandleOK(o) ==
  /\ DOMAIN o = HandleFields
  /\ o.ret \in Rets
  /\ o.blocks \in Int
  /\ SectionsOK(o.secs)
  /\ Indexed(o.secs, o.next)
  /\ Numbered(o.secs, o.segs, "seg")
  /\ Numbered(o.secs, o.comdats, "comdat")
  /\ ListsOK(o)
  /\ o.work \in {0} \cup DOMAIN o.secs
  /\ IteratedOK(o.lidata)
  /\ o.lidata.on => o.work # 0
  /\ BakpatsOK(o.bakpat)

\* What has been taken from cli_alloc and is not to be given back.
Surplus(o) == o.blocks - Reached(o) - Waiting(o)

Same(o, q, fields) == DOMAIN q = DOMAIN o /\ \A f \in DOMAIN o \ fields : q[f] = o[f]

\* What hangs on a section, and on all.
Hangs(s) == (IF Len(s.bytes) = 0 THEN 0 ELSE 1) + (IF s.lines = 0 THEN 0 ELSE 1)
HangAll(secs) == Total([k \in DOMAIN secs |-> Hangs(secs[k])])

\* The blocks of a table of n entries that are blocks, and of an array.
Table(n) == IF n = 0 THEN 0 ELSE 1 + n
Array(n) == IF n = 0 THEN 0 ELSE 1

LEMMA ReachedIs ==
  ASSUME NEW o
  PROVE  Reached(o) = 1 + Len(o.secs) + HangAll(o.secs)
           + Table(Len(o.lnames)) + Table(Len(o.externs)) + Table(Len(o.relocs))
           + Table(Len(o.notes)) + Table(Len(o.syms)) + Array(Len(o.syms))
           + Array(Len(o.segs)) + Array(Len(o.comdats))
           + Array(Len(o.groups)) + 2 * Len(o.groups)
           + IF o.lidata.made THEN 1 + Len(o.lidata.fixups) ELSE 0
BY DEF Reached, HangAll, Hangs, Table, Array

LEMMA HangsType ==
  ASSUME NEW s, SectionOK(s)
  PROVE  Hangs(s) \in Nat
<1>1. Len(s.bytes) \in Nat
  BY ListIs DEF SectionOK
<1> QED
  BY <1>1 DEF Hangs, SectionOK

LEMMA HangAllType ==
  ASSUME NEW secs, SectionsOK(secs)
  PROVE  HangAll(secs) \in Nat
<1> DEFINE f == [k \in DOMAIN secs |-> Hangs(secs[k])]
<1>1. Len(secs) \in Nat /\ DOMAIN secs = 1 .. Len(secs)
  BY ListIs DEF SectionsOK
<1>2. DOMAIN f = 1 .. Len(secs) /\ \A k \in 1 .. Len(secs) : f[k] \in Nat
  BY <1>1, HangsType DEF SectionsOK
<1> HIDE DEF f
<1>3. Total(f) \in Nat
  BY <1>1, <1>2, TotalType
<1> QED
  BY <1>3 DEF HangAll, f

LEMMA HangAppended ==
  ASSUME NEW secs, SectionsOK(secs), NEW s, SectionOK(s), NEW more, more = Append(secs, s)
  PROVE  SectionsOK(more) /\ HangAll(more) = HangAll(secs) + Hangs(s)
<1>1. PICK n \in Nat : n = Len(secs) /\ DOMAIN secs = 1 .. n
  BY ListIs DEF SectionsOK
<1>2. /\ IsList(more) /\ DOMAIN more = 1 .. n + 1
      /\ more[n + 1] = s /\ \A k \in 1 .. n : more[k] = secs[k]
  <2>1. IsList(secs)
    BY DEF SectionsOK
  <2>2. /\ IsList(more) /\ DOMAIN more = 1 .. Len(secs) + 1
        /\ more[Len(secs) + 1] = s /\ \A k \in 1 .. Len(secs) : more[k] = secs[k]
    BY <2>1, ListAppended DEF AppendedTo
  <2> QED
    BY <1>1, <2>2
<1>3. SectionsOK(more)
  <2>1. \A k \in 1 .. n + 1 : k = n + 1 \/ k \in 1 .. n
    OBVIOUS
  <2> QED
    BY <1>1, <1>2, <2>1 DEF SectionsOK
<1>4. PICK f : f = [k \in DOMAIN secs |-> Hangs(secs[k])]
  OBVIOUS
<1>5. PICK g : g = [k \in DOMAIN more |-> Hangs(more[k])]
  OBVIOUS
<1>6. \A k \in 1 .. n + 1 : g[k] \in Nat
  BY <1>2, <1>3, <1>5, HangsType DEF SectionsOK
<1>7. \A k \in 1 .. n : f[k] \in Nat /\ f[k] = g[k]
  BY <1>1, <1>2, <1>4, <1>5, HangsType DEF SectionsOK
<1>8. SumFunctionOnSet(f, 1 .. n) = SumFunctionOnSet(g, 1 .. n)
  <2>1. IsFiniteSet(1 .. n)
    BY FS_Interval
  <2>2. (\A k \in 1 .. n : f[k] \in Nat) /\ (\A k \in 1 .. n : f[k] = g[k])
    BY <1>7
  <2> QED
    BY ONLY <2>1, <2>2, SumAgrees
<1>9. SumFunctionOnSet(g, 1 .. n) \in Nat
      /\ SumFunctionOnSet(g, 1 .. n + 1) = g[n + 1] + SumFunctionOnSet(g, 1 .. n)
  BY <1>6, SumOfLast
<1>10. g[n + 1] = Hangs(s) /\ Hangs(s) \in Nat
  BY <1>2, <1>5, HangsType
<1>11. DOMAIN f = 1 .. n /\ DOMAIN g = 1 .. n + 1
  BY <1>1, <1>2, <1>4, <1>5
<1>12. HangAll(secs) = SumFunctionOnSet(f, 1 .. n) /\ HangAll(more) = SumFunctionOnSet(g, 1 .. n + 1)
  BY <1>4, <1>5, <1>11 DEF HangAll, Total, SumFunction
<1> QED
  BY <1>3, <1>8, <1>9, <1>10, <1>12

LEMMA HangChanged ==
  ASSUME NEW secs, SectionsOK(secs), NEW k \in DOMAIN secs, NEW s, SectionOK(s),
         NEW new, new = [secs EXCEPT ![k] = s]
  PROVE  SectionsOK(new) /\ HangAll(new) = HangAll(secs) - Hangs(secs[k]) + Hangs(s)
<1>1. PICK n \in Nat : n = Len(secs) /\ DOMAIN secs = 1 .. n
  BY ListIs DEF SectionsOK
<1>2. /\ IsList(new) /\ DOMAIN new = 1 .. n
      /\ new[k] = s /\ \A i \in 1 .. n : i # k => new[i] = secs[i]
  BY <1>1, ListChanged DEF SectionsOK
<1>3. SectionsOK(new)
  BY <1>1, <1>2 DEF SectionsOK
<1>4. PICK f : f = [i \in DOMAIN secs |-> Hangs(secs[i])]
  OBVIOUS
<1>5. PICK g : g = [i \in DOMAIN new |-> Hangs(new[i])]
  OBVIOUS
<1>6. \A i \in 1 .. n : f[i] \in Nat /\ g[i] \in Nat
  BY <1>1, <1>2, <1>3, <1>4, <1>5, HangsType DEF SectionsOK
<1>7. k \in 1 .. n /\ \A i \in 1 .. n \ {k} : f[i] = g[i]
  BY <1>1, <1>2, <1>4, <1>5
<1>8. /\ SumFunctionOnSet(f, 1 .. n \ {k}) \in Nat
      /\ SumFunctionOnSet(f, 1 .. n) = f[k] + SumFunctionOnSet(f, 1 .. n \ {k})
      /\ SumFunctionOnSet(g, 1 .. n) = g[k] + SumFunctionOnSet(f, 1 .. n \ {k})
  <2>1. IsFiniteSet(1 .. n)
    BY FS_Interval
  <2>2. PICK S : S = 1 .. n
    OBVIOUS
  <2>3. /\ IsFiniteSet(S) /\ (\A i \in S : f[i] \in Nat) /\ (\A i \in S : g[i] \in Nat)
        /\ k \in S /\ (\A i \in S \ {k} : f[i] = g[i])
    BY <1>6, <1>7, <2>1, <2>2
  <2>4. /\ SumFunctionOnSet(f, S \ {k}) \in Nat
        /\ SumFunctionOnSet(f, S) = f[k] + SumFunctionOnSet(f, S \ {k})
        /\ SumFunctionOnSet(g, S) = g[k] + SumFunctionOnSet(f, S \ {k})
    BY ONLY <2>3, SumChangedAt
  <2> QED
    BY <2>2, <2>4
<1>9. g[k] = Hangs(s) /\ f[k] = Hangs(secs[k]) /\ g[k] \in Nat /\ f[k] \in Nat
  BY <1>1, <1>2, <1>4, <1>5, <1>6
<1>10. DOMAIN f = 1 .. n /\ DOMAIN g = 1 .. n
  BY <1>1, <1>2, <1>4, <1>5
<1>11. HangAll(secs) = SumFunctionOnSet(f, 1 .. n) /\ HangAll(new) = SumFunctionOnSet(g, 1 .. n)
  BY <1>4, <1>5, <1>10 DEF HangAll, Total, SumFunction
<1> QED
  BY <1>3, <1>8, <1>9, <1>11

OfSections(secs)  == Len(secs) + HangAll(secs)
OfNames(o)        == Table(Len(o.lnames)) + Table(Len(o.externs))
OfLists(o)        == Table(Len(o.relocs)) + Table(Len(o.notes))
OfSymbols(syms)   == Table(Len(syms)) + Array(Len(syms))
OfNumbers(o)      == Array(Len(o.segs)) + Array(Len(o.comdats))
OfGroups(groups)  == Array(Len(groups)) + 2 * Len(groups)
OfIterated(l)     == IF l.made THEN 1 + Len(l.fixups) ELSE 0

LEMMA TableType ==
  \A n \in Nat : /\ Table(n) \in Nat /\ Array(n) \in Nat
                 /\ Table(n + 1) = Table(n) + Array(n + 1) - Array(n) + 1
                 /\ Array(n + 1) = 1 /\ Array(0) = 0
BY DEF Table, Array

LEMMA ReachedParts ==
  ASSUME NEW o, HandleOK(o)
  PROVE  /\ Reached(o) = 1 + OfSections(o.secs) + OfNames(o) + OfLists(o) + OfSymbols(o.syms)
                           + OfNumbers(o) + OfGroups(o.groups) + OfIterated(o.lidata)
         /\ OfSections(o.secs) \in Nat /\ OfNames(o) \in Nat /\ OfLists(o) \in Nat
         /\ OfSymbols(o.syms) \in Nat /\ OfNumbers(o) \in Nat /\ OfGroups(o.groups) \in Nat
         /\ OfIterated(o.lidata) \in Nat
<1>1. /\ HangAll(o.secs) \in Nat /\ Len(o.secs) \in Nat
      /\ Len(o.lnames) \in Nat /\ Len(o.externs) \in Nat /\ Len(o.relocs) \in Nat
      /\ Len(o.notes) \in Nat /\ Len(o.syms) \in Nat
      /\ Len(o.segs) \in Nat /\ Len(o.comdats) \in Nat /\ Len(o.groups) \in Nat
      /\ Len(o.lidata.fixups) \in Nat
  BY HangAllType, ListIs DEF HandleOK, SectionsOK, ListsOK, Numbered, IteratedOK
<1>2. PICK a \in Nat : a = Table(Len(o.lnames))
  BY <1>1, TableType
<1>3. PICK b \in Nat : b = Table(Len(o.externs))
  BY <1>1, TableType
<1>4. PICK c \in Nat : c = Table(Len(o.relocs))
  BY <1>1, TableType
<1>5. PICK d \in Nat : d = Table(Len(o.notes))
  BY <1>1, TableType
<1>6. PICK e \in Nat : e = Table(Len(o.syms))
  BY <1>1, TableType
<1>7. PICK f \in Nat : f = Array(Len(o.syms))
  BY <1>1, TableType
<1>8. PICK g \in Nat : g = Array(Len(o.segs))
  BY <1>1, TableType
<1>9. PICK h \in Nat : h = Array(Len(o.comdats))
  BY <1>1, TableType
<1>10. PICK i \in Nat : i = Array(Len(o.groups))
  BY <1>1, TableType
<1>11. PICK j \in Nat : j = Len(o.groups)
  BY <1>1
<1>12. PICK k \in Nat : k = IF o.lidata.made THEN 1 + Len(o.lidata.fixups) ELSE 0
  BY <1>1
<1>13. PICK l \in Nat : l = Len(o.secs)
  BY <1>1
<1>14. PICK m \in Nat : m = HangAll(o.secs)
  BY <1>1
<1>15. Reached(o) = 1 + l + m + a + b + c + d + e + f + g + h + i + 2 * j + k
  BY <1>2, <1>3, <1>4, <1>5, <1>6, <1>7, <1>8, <1>9, <1>10, <1>11, <1>12, <1>13, <1>14, ReachedIs
<1>16. 1 + l + m + a + b + c + d + e + f + g + h + i + 2 * j + k
         = 1 + (l + m) + (a + b) + (c + d) + (e + f) + (g + h) + (i + 2 * j) + k
  OBVIOUS
<1>17. l + m \in Nat /\ a + b \in Nat /\ c + d \in Nat /\ e + f \in Nat /\ g + h \in Nat
       /\ i + 2 * j \in Nat
  OBVIOUS
<1>18. /\ l + m = OfSections(o.secs) /\ a + b = OfNames(o) /\ c + d = OfLists(o)
       /\ e + f = OfSymbols(o.syms) /\ g + h = OfNumbers(o) /\ i + 2 * j = OfGroups(o.groups)
       /\ k = OfIterated(o.lidata)
  BY <1>2, <1>3, <1>4, <1>5, <1>6, <1>7, <1>8, <1>9, <1>10, <1>11, <1>12, <1>13, <1>14
     DEF OfSections, OfNames, OfLists, OfSymbols, OfNumbers, OfGroups, OfIterated
<1> QED
  BY ONLY <1>12, <1>15, <1>16, <1>17, <1>18

LEMMA ReachedType ==
  ASSUME NEW o, HandleOK(o)
  PROVE  Reached(o) \in Nat /\ Waiting(o) \in Nat /\ Surplus(o) \in Int
<1>1. Reached(o) \in Nat
  BY ReachedParts
<1>2. Waiting(o) \in Nat
  <2>1. Len(o.bakpat.fixes) \in Nat
    BY ListIs DEF HandleOK, BakpatsOK
  <2> QED
    BY <2>1 DEF Waiting
<1>3. o.blocks \in Int
  BY DEF HandleOK
<1> QED
  BY <1>1, <1>2, <1>3 DEF Surplus

\* What takes blocks but changes nothing that they hang on.
Loose == {"ret", "blocks", "machine", "arch", "easy", "style", "frames", "targets"}

LEMMA LooseChange ==
  ASSUME NEW o, HandleOK(o), NEW q, Same(o, q, Loose), q.ret \in Rets,
         NEW n \in Int, q.blocks = o.blocks + n
  PROVE  HandleOK(q) /\ Surplus(q) = Surplus(o) + n
<1>1. /\ DOMAIN q = HandleFields /\ q.secs = o.secs /\ q.next = o.next /\ q.segs = o.segs
      /\ q.comdats = o.comdats /\ q.lnames = o.lnames /\ q.externs = o.externs
      /\ q.groups = o.groups /\ q.syms = o.syms /\ q.relocs = o.relocs /\ q.notes = o.notes
      /\ q.work = o.work /\ q.lidata = o.lidata /\ q.bakpat = o.bakpat
  BY DEF Same, HandleOK, HandleFields, Loose
<1>2. o.blocks \in Int
  BY DEF HandleOK
<1>3. HandleOK(q)
  BY <1>1, <1>2 DEF HandleOK, ListsOK
<1>4. Reached(q) = Reached(o) /\ Waiting(q) = Waiting(o)
  BY <1>1, ReachedIs DEF Waiting
<1>5. Reached(o) \in Nat /\ Waiting(o) \in Nat
  BY ReachedType
<1> QED
  BY <1>2, <1>3, <1>4, <1>5 DEF Surplus

LEMMA TableIndexIs ==
  /\ DOMAIN TableIndex = {"lnames", "externs", "relocs", "syms", "notes"}
  /\ \A kind \in DOMAIN TableIndex : TableIndex[kind] \in Nat /\ TableIndex[kind] < DataCodeStart
  /\ \A kind, other \in DOMAIN TableIndex : TableIndex[kind] = TableIndex[other] => kind = other
BY DEF TableIndex, DataCodeStart

LEMMA MaxOfTwo ==
  ASSUME NEW a \in Nat, NEW b \in Nat
  PROVE  Max({a, b}) \in Nat /\ Max({a, b}) >= a /\ Max({a, b}) >= b
<1>1. CASE a >= b
  <2>1. a \in {a, b} /\ \A y \in {a, b} : a >= y
    BY <1>1
  <2>2. Max({a, b}) \in {a, b} /\ \A y \in {a, b} : Max({a, b}) >= y
    BY <2>1 DEF Max
  <2> QED
    BY <2>2
<1>2. CASE b >= a
  <2>1. b \in {a, b} /\ \A y \in {a, b} : b >= y
    BY <1>2
  <2>2. Max({a, b}) \in {a, b} /\ \A y \in {a, b} : Max({a, b}) >= y
    BY <2>1 DEF Max
  <2> QED
    BY <2>2
<1> QED
  BY <1>1, <1>2

\* The index of a new section.
NewIndex(o, kind) ==
  IF kind \in DOMAIN TableIndex THEN TableIndex[kind] ELSE Max({o.next, DataCodeStart})

LEMMA NewIndexIs ==
  ASSUME NEW o, o.next \in Nat, NEW kind
  PROVE  /\ NewIndex(o, kind) \in Nat
         /\ kind \in DOMAIN TableIndex => NewIndex(o, kind) = TableIndex[kind]
         /\ kind \notin DOMAIN TableIndex =>
              NewIndex(o, kind) >= o.next /\ NewIndex(o, kind) >= DataCodeStart
<1>1. DataCodeStart \in Nat
  BY DEF DataCodeStart
<1>2. Max({o.next, DataCodeStart}) \in Nat /\ Max({o.next, DataCodeStart}) >= o.next
      /\ Max({o.next, DataCodeStart}) >= DataCodeStart
  BY <1>1, MaxOfTwo
<1> QED
  BY <1>2, TableIndexIs DEF NewIndex

LEMMA IndexedAppended ==
  ASSUME NEW o, HandleOK(o), NEW kind,
         kind \in DOMAIN TableIndex => \A k \in DOMAIN o.secs : o.secs[k].kind # kind,
         NEW next, next \in Nat /\ next > NewIndex(o, kind) /\ next >= o.next
  PROVE  Indexed(Append(o.secs, Section(kind, NewIndex(o, kind))), next)
<1>1. PICK index : index = NewIndex(o, kind)
  OBVIOUS
<1>2. PICK s : s = Section(kind, index)
  OBVIOUS
<1>12. s.kind = kind /\ s.index = index
  BY <1>2 DEF Section
<1>3. PICK n \in Nat : n = Len(o.secs) /\ DOMAIN o.secs = 1 .. n
  BY ListIs DEF HandleOK, SectionsOK
<1>4. PICK more : more = Append(o.secs, s)
  OBVIOUS
<1>5. DOMAIN more = 1 .. n + 1 /\ more[n + 1] = s /\ \A k \in 1 .. n : more[k] = o.secs[k]
  <2>1. AppendedTo(more, o.secs, s)
    BY <1>4, ListAppended DEF HandleOK, SectionsOK
  <2> QED
    BY <1>3, <2>1 DEF AppendedTo
<1>6. o.next \in Nat /\ Indexed(o.secs, o.next)
  BY DEF HandleOK, Indexed
<1>7. /\ index \in Nat /\ next \in Nat /\ index < next
      /\ kind \in DOMAIN TableIndex => index = TableIndex[kind]
      /\ kind \notin DOMAIN TableIndex => index >= o.next /\ index >= DataCodeStart
  BY <1>1, <1>6, NewIndexIs
<1>8. ASSUME NEW k \in 1 .. n
      PROVE  /\ more[k].index \in Nat /\ more[k].index < next /\ more[k].index # index
             /\ more[k].kind \in DOMAIN TableIndex => more[k].index = TableIndex[more[k].kind]
             /\ more[k].kind \notin DOMAIN TableIndex => more[k].index >= DataCodeStart
  <2>1. /\ more[k].index \in Nat /\ more[k].index < o.next
        /\ more[k].kind \in DOMAIN TableIndex => more[k].index = TableIndex[more[k].kind]
        /\ more[k].kind \notin DOMAIN TableIndex => more[k].index >= DataCodeStart
    BY <1>3, <1>5, <1>6 DEF Indexed
  <2>2. more[k].index # index
    <3>1. CASE kind \in DOMAIN TableIndex
      <4>1. more[k].kind # kind
        BY <1>3, <1>5, <3>1
      <4>2. DataCodeStart \in Nat
        BY DEF DataCodeStart
      <4> QED
        BY <1>7, <2>1, <3>1, <4>1, <4>2, TableIndexIs
    <3>2. CASE kind \notin DOMAIN TableIndex
      BY <1>6, <1>7, <2>1, <3>2
    <3> QED
      BY <3>1, <3>2
  <2> QED
    BY <1>6, <1>7, <2>1, <2>2
<1>9. \A k \in 1 .. n + 1 : k = n + 1 \/ k \in 1 .. n
  BY <1>3
<1>10. \A k, l \in 1 .. n : more[k].index = more[l].index => k = l
  BY <1>3, <1>5, <1>6 DEF Indexed
<1>11. Indexed(more, next)
  BY <1>12, <1>5, <1>7, <1>8, <1>9, <1>10 DEF Indexed
<1> QED
  BY <1>1, <1>2, <1>4, <1>11

-----------------------------------------------------------------------------
(* What the operations do to a handle, and what they leave as surplus.     *)

\* The handle is well-formed, and the symbols of sections are there.
Sound(o) == HandleOK(o) /\ Symboled(o.secs, Len(o.syms))

\* q has n blocks more than o that are not to be given back, and the same work
\* that waits.
Costs(o, q, n) ==
  /\ HandleOK(q) /\ Surplus(q) = Surplus(o) + n
  /\ q.lidata = o.lidata /\ q.bakpat = o.bakpat

LEMMA CostsInTurn ==
  ASSUME NEW o, HandleOK(o), NEW m \in Int, NEW n \in Int, NEW p, Costs(o, p, m),
         NEW q, Costs(p, q, n)
  PROVE  Costs(o, q, m + n)
<1>1. Surplus(o) \in Int
  BY ReachedType
<1> QED
  BY <1>1 DEF Costs

LEMMA CostsNothing ==
  ASSUME NEW o, HandleOK(o)
  PROVE  Costs(o, o, 0)
<1>1. Surplus(o) \in Int
  BY ReachedType
<1> QED
  BY <1>1 DEF Costs

LEMMA SurplusMoves ==
  ASSUME NEW o, HandleOK(o), NEW q, HandleOK(q), Waiting(q) = Waiting(o)
  PROVE  Surplus(q) = Surplus(o) + (q.blocks - o.blocks)
           - (OfSections(q.secs) - OfSections(o.secs)) - (OfNames(q) - OfNames(o))
           - (OfLists(q) - OfLists(o)) - (OfSymbols(q.syms) - OfSymbols(o.syms))
           - (OfNumbers(q) - OfNumbers(o)) - (OfGroups(q.groups) - OfGroups(o.groups))
           - (OfIterated(q.lidata) - OfIterated(o.lidata))
<1>1. PICK w \in Nat : w = Waiting(o) /\ w = Waiting(q)
  BY ReachedType
<1>2. PICK b, c \in Int : b = o.blocks /\ c = q.blocks
  BY DEF HandleOK
<1>3. PICK a1 \in Nat : a1 = OfSections(o.secs)
  BY ReachedParts
<1>4. PICK a2 \in Nat : a2 = OfNames(o)
  BY ReachedParts
<1>5. PICK a3 \in Nat : a3 = OfLists(o)
  BY ReachedParts
<1>6. PICK a4 \in Nat : a4 = OfSymbols(o.syms)
  BY ReachedParts
<1>7. PICK a5 \in Nat : a5 = OfNumbers(o)
  BY ReachedParts
<1>8. PICK a6 \in Nat : a6 = OfGroups(o.groups)
  BY ReachedParts
<1>9. PICK a7 \in Nat : a7 = OfIterated(o.lidata)
  BY ReachedParts
<1>10. Reached(o) = 1 + a1 + a2 + a3 + a4 + a5 + a6 + a7
  BY <1>3, <1>4, <1>5, <1>6, <1>7, <1>8, <1>9, ReachedParts
<1>11. PICK d1 \in Nat : d1 = OfSections(q.secs)
  BY ReachedParts
<1>12. PICK d2 \in Nat : d2 = OfNames(q)
  BY ReachedParts
<1>13. PICK d3 \in Nat : d3 = OfLists(q)
  BY ReachedParts
<1>14. PICK d4 \in Nat : d4 = OfSymbols(q.syms)
  BY ReachedParts
<1>15. PICK d5 \in Nat : d5 = OfNumbers(q)
  BY ReachedParts
<1>16. PICK d6 \in Nat : d6 = OfGroups(q.groups)
  BY ReachedParts
<1>17. PICK d7 \in Nat : d7 = OfIterated(q.lidata)
  BY ReachedParts
<1>18. Reached(q) = 1 + d1 + d2 + d3 + d4 + d5 + d6 + d7
  BY <1>11, <1>12, <1>13, <1>14, <1>15, <1>16, <1>17, ReachedParts
<1>19. /\ Surplus(o) = b - (1 + a1 + a2 + a3 + a4 + a5 + a6 + a7) - w
      /\ Surplus(q) = c - (1 + d1 + d2 + d3 + d4 + d5 + d6 + d7) - w
  BY <1>1, <1>2, <1>10, <1>18 DEF Surplus
<1>20. c - (1 + d1 + d2 + d3 + d4 + d5 + d6 + d7) - w
        = (b - (1 + a1 + a2 + a3 + a4 + a5 + a6 + a7) - w) + (c - b)
            - (d1 - a1) - (d2 - a2) - (d3 - a3) - (d4 - a4) - (d5 - a5) - (d6 - a6) - (d7 - a7)
  OBVIOUS
<1> QED
  BY <1>2, <1>3, <1>4, <1>5, <1>6, <1>7, <1>8, <1>9, <1>10, <1>11, <1>12, <1>13, <1>14, <1>15, <1>16, <1>17, <1>18, <1>19, <1>20

\* Nothing but the sections has changed.
LEMMA SectionsMove ==
  ASSUME NEW o, HandleOK(o), NEW q, HandleOK(q), Same(o, q, {"secs", "next", "work", "blocks"}),
         NEW n \in Int, q.blocks = o.blocks + n,
         NEW d \in Int, OfSections(q.secs) = OfSections(o.secs) + d
  PROVE  Costs(o, q, n - d)
<1>1. /\ DOMAIN o = HandleFields /\ q.segs = o.segs
      /\ q.comdats = o.comdats /\ q.lnames = o.lnames /\ q.externs = o.externs
      /\ q.groups = o.groups /\ q.syms = o.syms /\ q.relocs = o.relocs /\ q.notes = o.notes
      /\ q.lidata = o.lidata /\ q.bakpat = o.bakpat
  BY DEF Same, HandleOK, HandleFields
<1>2. OfNames(q) = OfNames(o) /\ OfLists(q) = OfLists(o) /\ OfNumbers(q) = OfNumbers(o)
      /\ Waiting(q) = Waiting(o)
  BY <1>1 DEF OfNames, OfLists, OfNumbers, Waiting
<1>3. Surplus(q) = Surplus(o) + (q.blocks - o.blocks)
           - (OfSections(q.secs) - OfSections(o.secs)) - (OfNames(o) - OfNames(o))
           - (OfLists(o) - OfLists(o)) - (OfSymbols(o.syms) - OfSymbols(o.syms))
           - (OfNumbers(o) - OfNumbers(o)) - (OfGroups(o.groups) - OfGroups(o.groups))
           - (OfIterated(o.lidata) - OfIterated(o.lidata))
  BY <1>1, <1>2, SurplusMoves
<1>4. /\ OfSections(o.secs) \in Nat /\ OfNames(o) \in Nat /\ OfLists(o) \in Nat
      /\ OfSymbols(o.syms) \in Nat /\ OfNumbers(o) \in Nat /\ OfGroups(o.groups) \in Nat
      /\ OfIterated(o.lidata) \in Nat
  BY ReachedParts
<1>5. Surplus(o) \in Int /\ o.blocks \in Int
  BY ReachedType DEF HandleOK
<1>6. Surplus(q) = Surplus(o) + (n - d)
  BY <1>3, <1>4, <1>5
<1> QED
  BY <1>1, <1>6 DEF Costs

\* The block that the first entry of a table brings.
NewArray(n) == IF n = 0 THEN 1 ELSE 0

LEMMA TableGrows ==
  \A n \in Nat : /\ NewArray(n) \in Nat
                 /\ Table(n + 1) = Table(n) + 1 + NewArray(n)
                 /\ Array(n + 1) = Array(n) + NewArray(n)
BY DEF Table, Array, NewArray

ListFields == {"lnames", "externs", "relocs", "notes", "syms", "groups"}

LEMMA ListGrown ==
  ASSUME NEW o, HandleOK(o), NEW f \in ListFields, NEW x,
         NEW q, Same(o, q, {f, "blocks"}), q[f] = Append(o[f], x),
         NEW n \in Int, q.blocks = o.blocks + n
  PROVE  HandleOK(q) /\ Len(o[f]) \in Nat /\ Len(q[f]) = Len(o[f]) + 1
<1>1. DOMAIN o = HandleFields /\ IsList(o[f])
  BY DEF HandleOK, ListsOK, ListFields
<1>2. IsList(q[f]) /\ Len(q[f]) = Len(o[f]) + 1
  <2>1. AppendedTo(q[f], o[f], x)
    BY <1>1, ListAppended
  <2> QED
    BY <2>1 DEF AppendedTo
<1>3. /\ DOMAIN q = HandleFields /\ q.ret = o.ret /\ q.secs = o.secs /\ q.next = o.next
      /\ q.segs = o.segs /\ q.comdats = o.comdats /\ q.work = o.work /\ q.lidata = o.lidata
      /\ q.bakpat = o.bakpat
  BY <1>1 DEF Same, HandleFields, ListFields
<1>4. \A g \in ListFields : g = f \/ q[g] = o[g]
  BY <1>1 DEF Same, HandleFields, ListFields
<1>5. \A g \in ListFields : IsList(o[g])
  BY DEF HandleOK, ListsOK, ListFields
<1>6. \A g \in ListFields : IsList(q[g])
  BY <1>2, <1>4, <1>5
<1>7. ListsOK(q)
  BY <1>6 DEF ListsOK, ListFields
<1>8. q.blocks \in Int
  BY DEF HandleOK
<1>9. HandleOK(q)
  BY <1>3, <1>7, <1>8 DEF HandleOK
<1>10. Len(o[f]) \in Nat
  BY <1>1, ListIs
<1> QED
  BY <1>2, <1>9, <1>10

LEMMA NamesGrown ==
  ASSUME NEW o, HandleOK(o), NEW f \in {"lnames", "externs"}, NEW x,
         NEW q, Same(o, q, {f, "blocks"}), q[f] = Append(o[f], x),
         NEW n \in Int, q.blocks = o.blocks + n
  PROVE  Costs(o, q, n - (1 + NewArray(Len(o[f]))))
<1>1. HandleOK(q) /\ Len(o[f]) \in Nat /\ Len(q[f]) = Len(o[f]) + 1
  <2>1. f \in ListFields
    BY DEF ListFields
  <2> QED
    BY <2>1, ListGrown
<1>2. /\ DOMAIN o = HandleFields /\ q.segs = o.segs /\ q.secs = o.secs
      /\ q.comdats = o.comdats /\ q.groups = o.groups /\ q.syms = o.syms /\ q.relocs = o.relocs
      /\ q.notes = o.notes /\ q.lidata = o.lidata /\ q.bakpat = o.bakpat
      /\ \A g \in {"lnames", "externs"} : g = f \/ q[g] = o[g]
  BY DEF Same, HandleOK, HandleFields
<1>3. OfLists(q) = OfLists(o) /\ OfNumbers(q) = OfNumbers(o) /\ Waiting(q) = Waiting(o)
  BY <1>2 DEF OfLists, OfNumbers, Waiting
<1>4. PICK m \in Nat : m = Len(o[f])
  BY <1>1
<1>5. /\ NewArray(m) \in Nat /\ Table(m + 1) = Table(m) + 1 + NewArray(m)
       /\ Table(m) \in Nat
  BY TableGrows, TableType
<1>6. PICK d \in Nat : d = 1 + NewArray(m)
  BY <1>5
<1>7. OfNames(q) = OfNames(o) + d
  <2>1. Table(Len(q[f])) = Table(Len(o[f])) + d /\ Table(Len(o[f])) \in Nat
    BY <1>1, <1>6, <1>4, <1>5
  <2>2. Table(Len(o.lnames)) \in Nat /\ Table(Len(o.externs)) \in Nat
    <3>1. Len(o.lnames) \in Nat /\ Len(o.externs) \in Nat
      BY ListIs DEF HandleOK, ListsOK
    <3> QED
      BY <3>1, TableType
  <2>3. CASE f = "lnames"
    <3>1. q.externs = o.externs
      BY <1>2, <2>3
    <3> QED
      BY <2>1, <2>2, <2>3, <3>1 DEF OfNames
  <2>4. CASE f = "externs"
    <3>1. q.lnames = o.lnames
      BY <1>2, <2>4
    <3> QED
      BY <2>1, <2>2, <2>4, <3>1, SMTT(30) DEF OfNames
  <2> QED
    BY <2>3, <2>4
<1>8. Surplus(q) = Surplus(o) + (q.blocks - o.blocks)
           - (OfSections(o.secs) - OfSections(o.secs)) - (OfNames(q) - OfNames(o))
           - (OfLists(o) - OfLists(o)) - (OfSymbols(o.syms) - OfSymbols(o.syms))
           - (OfNumbers(o) - OfNumbers(o)) - (OfGroups(o.groups) - OfGroups(o.groups))
           - (OfIterated(o.lidata) - OfIterated(o.lidata))
  BY <1>1, <1>2, <1>3, SurplusMoves
<1>9. /\ OfSections(o.secs) \in Nat /\ OfNames(o) \in Nat /\ OfLists(o) \in Nat
      /\ OfSymbols(o.syms) \in Nat /\ OfNumbers(o) \in Nat /\ OfGroups(o.groups) \in Nat
      /\ OfIterated(o.lidata) \in Nat
  BY ReachedParts
<1>10. Surplus(o) \in Int /\ o.blocks \in Int
  BY ReachedType DEF HandleOK
<1>11. Surplus(q) = Surplus(o) + (n - d)
  BY <1>7, <1>8, <1>9, <1>10, SMTT(30)
<1> QED
  BY <1>1, <1>2, <1>6, <1>11, <1>4 DEF Costs

LEMMA ListsGrown ==
  ASSUME NEW o, HandleOK(o), NEW f \in {"relocs", "notes"}, NEW x,
         NEW q, Same(o, q, {f, "blocks"}), q[f] = Append(o[f], x),
         NEW n \in Int, q.blocks = o.blocks + n
  PROVE  Costs(o, q, n - (1 + NewArray(Len(o[f]))))
<1>1. HandleOK(q) /\ Len(o[f]) \in Nat /\ Len(q[f]) = Len(o[f]) + 1
  <2>1. f \in ListFields
    BY DEF ListFields
  <2> QED
    BY <2>1, ListGrown
<1>2. /\ DOMAIN o = HandleFields /\ q.segs = o.segs /\ q.secs = o.secs
      /\ q.comdats = o.comdats /\ q.groups = o.groups /\ q.syms = o.syms /\ q.lnames = o.lnames
      /\ q.externs = o.externs /\ q.lidata = o.lidata /\ q.bakpat = o.bakpat
      /\ \A g \in {"relocs", "notes"} : g = f \/ q[g] = o[g]
  BY DEF Same, HandleOK, HandleFields
<1>3. OfNames(q) = OfNames(o) /\ OfNumbers(q) = OfNumbers(o) /\ Waiting(q) = Waiting(o)
  BY <1>2 DEF OfNames, OfNumbers, Waiting
<1>4. PICK m \in Nat : m = Len(o[f])
  BY <1>1
<1>5. /\ NewArray(m) \in Nat /\ Table(m + 1) = Table(m) + 1 + NewArray(m)
       /\ Table(m) \in Nat
  BY TableGrows, TableType
<1>6. PICK d \in Nat : d = 1 + NewArray(m)
  BY <1>5
<1>7. OfLists(q) = OfLists(o) + d
  <2>1. Table(Len(q[f])) = Table(Len(o[f])) + d /\ Table(Len(o[f])) \in Nat
    BY <1>1, <1>6, <1>4, <1>5
  <2>2. Table(Len(o.relocs)) \in Nat /\ Table(Len(o.notes)) \in Nat
    <3>1. Len(o.relocs) \in Nat /\ Len(o.notes) \in Nat
      BY ListIs DEF HandleOK, ListsOK
    <3> QED
      BY <3>1, TableType
  <2>3. CASE f = "relocs"
    <3>1. q.notes = o.notes
      BY <1>2, <2>3
    <3> QED
      BY <2>1, <2>2, <2>3, <3>1 DEF OfLists
  <2>4. CASE f = "notes"
    <3>1. q.relocs = o.relocs
      BY <1>2, <2>4
    <3> QED
      BY <2>1, <2>2, <2>4, <3>1, SMTT(30) DEF OfLists
  <2> QED
    BY <2>3, <2>4
<1>8. Surplus(q) = Surplus(o) + (q.blocks - o.blocks)
           - (OfSections(o.secs) - OfSections(o.secs)) - (OfNames(o) - OfNames(o))
           - (OfLists(q) - OfLists(o)) - (OfSymbols(o.syms) - OfSymbols(o.syms))
           - (OfNumbers(o) - OfNumbers(o)) - (OfGroups(o.groups) - OfGroups(o.groups))
           - (OfIterated(o.lidata) - OfIterated(o.lidata))
  BY <1>1, <1>2, <1>3, SurplusMoves
<1>9. /\ OfSections(o.secs) \in Nat /\ OfNames(o) \in Nat /\ OfLists(o) \in Nat
      /\ OfSymbols(o.syms) \in Nat /\ OfNumbers(o) \in Nat /\ OfGroups(o.groups) \in Nat
      /\ OfIterated(o.lidata) \in Nat
  BY ReachedParts
<1>10. Surplus(o) \in Int /\ o.blocks \in Int
  BY ReachedType DEF HandleOK
<1>11. Surplus(q) = Surplus(o) + (n - d)
  BY <1>7, <1>8, <1>9, <1>10, SMTT(30)
<1> QED
  BY <1>1, <1>2, <1>6, <1>11, <1>4 DEF Costs

LEMMA SymbolsGrown ==
  ASSUME NEW o, HandleOK(o), NEW x,
         NEW q, Same(o, q, {"syms", "blocks"}), q.syms = Append(o.syms, x),
         NEW n \in Int, q.blocks = o.blocks + n
  PROVE  Costs(o, q, n - (1 + 2 * NewArray(Len(o.syms)))) /\ Len(q.syms) = Len(o.syms) + 1
<1>1. HandleOK(q) /\ Len(o.syms) \in Nat /\ Len(q.syms) = Len(o.syms) + 1
  <2>1. "syms" \in ListFields
    BY DEF ListFields
  <2> QED
    BY <2>1, ListGrown
<1>2. /\ DOMAIN o = HandleFields /\ q.segs = o.segs /\ q.secs = o.secs
      /\ q.comdats = o.comdats /\ q.groups = o.groups /\ q.relocs = o.relocs
      /\ q.notes = o.notes /\ q.lidata = o.lidata /\ q.bakpat = o.bakpat
      /\ q.lnames = o.lnames /\ q.externs = o.externs
  BY DEF Same, HandleOK, HandleFields
<1>3. /\ OfLists(q) = OfLists(o) /\ OfNumbers(q) = OfNumbers(o) /\ OfNames(q) = OfNames(o)
      /\ Waiting(q) = Waiting(o)
  BY <1>2 DEF OfLists, OfNumbers, OfNames, Waiting
<1>4. PICK m \in Nat : m = Len(o.syms)
  BY <1>1
<1>5. /\ NewArray(m) \in Nat /\ Table(m + 1) = Table(m) + 1 + NewArray(m)
      /\ Array(m + 1) = Array(m) + NewArray(m) /\ Table(m) \in Nat /\ Array(m) \in Nat
  BY TableGrows, TableType
<1>6. PICK d \in Nat : d = 1 + 2 * NewArray(m)
  BY <1>5
<1>7. OfSymbols(q.syms) = OfSymbols(o.syms) + d
  BY <1>1, <1>4, <1>5, <1>6 DEF OfSymbols
<1>8. Surplus(q) = Surplus(o) + (q.blocks - o.blocks)
           - (OfSections(o.secs) - OfSections(o.secs)) - (OfNames(o) - OfNames(o))
           - (OfLists(o) - OfLists(o)) - (OfSymbols(q.syms) - OfSymbols(o.syms))
           - (OfNumbers(o) - OfNumbers(o)) - (OfGroups(o.groups) - OfGroups(o.groups))
           - (OfIterated(o.lidata) - OfIterated(o.lidata))
  BY <1>1, <1>2, <1>3, SurplusMoves
<1>9. /\ OfSections(o.secs) \in Nat /\ OfNames(o) \in Nat /\ OfLists(o) \in Nat
      /\ OfSymbols(o.syms) \in Nat /\ OfNumbers(o) \in Nat /\ OfGroups(o.groups) \in Nat
      /\ OfIterated(o.lidata) \in Nat
  BY ReachedParts
<1>10. Surplus(o) \in Int /\ o.blocks \in Int
  BY ReachedType DEF HandleOK
<1>11. Surplus(q) = Surplus(o) + (n - d)
  BY <1>7, <1>8, <1>9, <1>10, SMTT(30)
<1> QED
  BY <1>1, <1>2, <1>4, <1>6, <1>11 DEF Costs

LEMMA GroupsGrown ==
  ASSUME NEW o, HandleOK(o), NEW x,
         NEW q, Same(o, q, {"groups", "blocks"}), q.groups = Append(o.groups, x),
         NEW n \in Int, q.blocks = o.blocks + n
  PROVE  Costs(o, q, n - (2 + NewArray(Len(o.groups))))
<1>1. HandleOK(q) /\ Len(o.groups) \in Nat /\ Len(q.groups) = Len(o.groups) + 1
  <2>1. "groups" \in ListFields
    BY DEF ListFields
  <2> QED
    BY <2>1, ListGrown
<1>2. /\ DOMAIN o = HandleFields /\ q.segs = o.segs /\ q.secs = o.secs
      /\ q.comdats = o.comdats /\ q.syms = o.syms /\ q.relocs = o.relocs
      /\ q.notes = o.notes /\ q.lidata = o.lidata /\ q.bakpat = o.bakpat
      /\ q.lnames = o.lnames /\ q.externs = o.externs
  BY DEF Same, HandleOK, HandleFields
<1>3. /\ OfLists(q) = OfLists(o) /\ OfNumbers(q) = OfNumbers(o) /\ OfNames(q) = OfNames(o)
      /\ Waiting(q) = Waiting(o)
  BY <1>2 DEF OfLists, OfNumbers, OfNames, Waiting
<1>4. PICK m \in Nat : m = Len(o.groups)
  BY <1>1
<1>5. /\ NewArray(m) \in Nat /\ Array(m + 1) = Array(m) + NewArray(m) /\ Array(m) \in Nat
  BY TableGrows, TableType
<1>6. PICK d \in Nat : d = 2 + NewArray(m)
  BY <1>5
<1>7. OfGroups(q.groups) = OfGroups(o.groups) + d
  <2>1. OfGroups(o.groups) = Array(m) + 2 * m
    BY <1>4 DEF OfGroups
  <2>2. OfGroups(q.groups) = Array(m + 1) + 2 * (m + 1)
    BY <1>1, <1>4 DEF OfGroups
  <2>3. PICK a, b \in Nat : a = Array(m) /\ b = NewArray(m)
    BY <1>5
  <2>4. OfGroups(q.groups) = (a + b) + 2 * (m + 1) /\ OfGroups(o.groups) = a + 2 * m /\ d = 2 + b
    BY <1>5, <1>6, <2>1, <2>2, <2>3
  <2>5. (a + b) + 2 * (m + 1) = (a + 2 * m) + (2 + b)
    OBVIOUS
  <2> QED
    BY <2>4, <2>5
<1>8. Surplus(q) = Surplus(o) + (q.blocks - o.blocks)
           - (OfSections(o.secs) - OfSections(o.secs)) - (OfNames(o) - OfNames(o))
           - (OfLists(o) - OfLists(o)) - (OfSymbols(o.syms) - OfSymbols(o.syms))
           - (OfNumbers(o) - OfNumbers(o)) - (OfGroups(q.groups) - OfGroups(o.groups))
           - (OfIterated(o.lidata) - OfIterated(o.lidata))
  BY <1>1, <1>2, <1>3, SurplusMoves
<1>9. /\ OfSections(o.secs) \in Nat /\ OfNames(o) \in Nat /\ OfLists(o) \in Nat
      /\ OfSymbols(o.syms) \in Nat /\ OfNumbers(o) \in Nat /\ OfGroups(o.groups) \in Nat
      /\ OfIterated(o.lidata) \in Nat
  BY ReachedParts
<1>10. Surplus(o) \in Int /\ o.blocks \in Int
  BY ReachedType DEF HandleOK
<1>11. Surplus(q) = Surplus(o) + (n - d)
  BY <1>7, <1>8, <1>9, <1>10, SMTT(30)
<1> QED
  BY <1>1, <1>2, <1>4, <1>6, <1>11 DEF Costs

\* Section k is the next in the table of its kind.
LEMMA NumbersGrown ==
  ASSUME NEW o, HandleOK(o), NEW f \in {"segs", "comdats"}, NEW kind,
         kind = (IF f = "segs" THEN "seg" ELSE "comdat"),
         NEW k \in DOMAIN o.secs, o.secs[k].kind = kind, o.secs[k].id = Len(o[f]) + 1,
         NEW q, Same(o, q, {f, "blocks"}), q[f] = Append(o[f], k),
         NEW n \in Int, q.blocks = o.blocks + n
  PROVE  Costs(o, q, n - NewArray(Len(o[f])))
<1>1. /\ DOMAIN o = HandleFields /\ q.secs = o.secs
      /\ q.syms = o.syms /\ q.relocs = o.relocs /\ q.groups = o.groups
      /\ q.notes = o.notes /\ q.lidata = o.lidata /\ q.bakpat = o.bakpat
      /\ q.lnames = o.lnames /\ q.externs = o.externs /\ q.ret = o.ret /\ q.next = o.next
      /\ q.work = o.work /\ DOMAIN q = HandleFields
  BY DEF Same, HandleOK, HandleFields
<1>2. (f = "segs" => q.comdats = o.comdats) /\ (f = "comdats" => q.segs = o.segs)
  BY <1>1 DEF Same, HandleFields
<1>3. Numbered(o.secs, o[f], kind)
  BY DEF HandleOK
<1>4. PICK m \in Nat : m = Len(o[f]) /\ DOMAIN o[f] = 1 .. m
  BY <1>3, ListIs DEF Numbered
<1>5. IsList(q[f]) /\ Len(q[f]) = m + 1
      /\ DOMAIN q[f] = 1 .. m + 1 /\ q[f][m + 1] = k /\ \A i \in 1 .. m : q[f][i] = o[f][i]
  <2>1. AppendedTo(q[f], o[f], k)
    BY <1>3, ListAppended DEF Numbered
  <2> QED
    BY <1>4, <2>1 DEF AppendedTo
<1>6. Numbered(q.secs, q[f], kind)
  <2>1. ASSUME NEW i \in 1 .. m + 1
        PROVE  /\ q[f][i] \in DOMAIN o.secs
               /\ o.secs[q[f][i]].kind = kind /\ o.secs[q[f][i]].id = i
    <3>1. CASE i = m + 1
      BY <1>4, <1>5, <3>1
    <3>2. CASE i # m + 1
      <4>1. i \in 1 .. m
        BY <3>2
      <4> QED
        BY <1>3, <1>4, <1>5, <4>1 DEF Numbered
    <3> QED
      BY <3>1, <3>2
  <2> QED
    BY <1>1, <1>5, <2>1 DEF Numbered
<1>7. HandleOK(q)
  <2>1. q.blocks \in Int
    BY DEF HandleOK
  <2>2. ListsOK(q)
    BY <1>1 DEF ListsOK, HandleOK
  <2>3. Numbered(q.secs, q.segs, "seg") /\ Numbered(q.secs, q.comdats, "comdat")
    BY <1>1, <1>2, <1>6 DEF HandleOK
  <2> QED
    BY <1>1, <2>1, <2>2, <2>3 DEF HandleOK
<1>8. /\ NewArray(m) \in Nat /\ Array(m + 1) = Array(m) + NewArray(m) /\ Array(m) \in Nat
  BY TableGrows, TableType
<1>9. PICK d \in Nat : d = NewArray(m)
  BY <1>8
<1>10. OfNumbers(q) = OfNumbers(o) + d
  <2>1. Array(Len(q[f])) = Array(Len(o[f])) + d /\ Array(Len(o[f])) \in Nat
    BY <1>4, <1>5, <1>8, <1>9
  <2>2. Array(Len(o.segs)) \in Nat /\ Array(Len(o.comdats)) \in Nat
    <3>1. Len(o.segs) \in Nat /\ Len(o.comdats) \in Nat
      BY ListIs DEF HandleOK, Numbered
    <3> QED
      BY <3>1, TableType
  <2>3. CASE f = "segs"
    <3>1. q.comdats = o.comdats
      BY <1>2, <2>3
    <3> QED
      BY <2>1, <2>2, <2>3, <3>1, SMTT(30) DEF OfNumbers
  <2>4. CASE f = "comdats"
    <3>1. q.segs = o.segs
      BY <1>2, <2>4
    <3> QED
      BY <2>1, <2>2, <2>4, <3>1, SMTT(30) DEF OfNumbers
  <2> QED
    BY <2>3, <2>4
<1>11. OfLists(q) = OfLists(o) /\ OfNames(q) = OfNames(o) /\ Waiting(q) = Waiting(o)
  BY <1>1 DEF OfLists, OfNames, Waiting
<1>12. Surplus(q) = Surplus(o) + (q.blocks - o.blocks)
           - (OfSections(o.secs) - OfSections(o.secs)) - (OfNames(o) - OfNames(o))
           - (OfLists(o) - OfLists(o)) - (OfSymbols(o.syms) - OfSymbols(o.syms))
           - (OfNumbers(q) - OfNumbers(o)) - (OfGroups(o.groups) - OfGroups(o.groups))
           - (OfIterated(o.lidata) - OfIterated(o.lidata))
  BY <1>1, <1>7, <1>11, SurplusMoves
<1>13. /\ OfSections(o.secs) \in Nat /\ OfNames(o) \in Nat /\ OfLists(o) \in Nat
      /\ OfSymbols(o.syms) \in Nat /\ OfNumbers(o) \in Nat /\ OfGroups(o.groups) \in Nat
      /\ OfIterated(o.lidata) \in Nat
  BY ReachedParts
<1>14. Surplus(o) \in Int /\ o.blocks \in Int
  BY ReachedType DEF HandleOK
<1>15. Surplus(q) = Surplus(o) + (n - d)
  BY <1>10, <1>12, <1>13, <1>14, SMTT(30)
<1> QED
  BY <1>1, <1>4, <1>7, <1>9, <1>15 DEF Costs

\* The sections of o are there still, and one more.
SectionAdded(o, q, kind) ==
  /\ Len(q.secs) = Len(o.secs) + 1 /\ DOMAIN q.secs = 1 .. Len(o.secs) + 1
  /\ q.secs[Len(o.secs) + 1] = Section(kind, NewIndex(o, kind))
  /\ \A k \in 1 .. Len(o.secs) : q.secs[k] = o.secs[k]

LEMMA SectionIs ==
  ASSUME NEW kind, NEW index
  PROVE  SectionOK(Section(kind, index)) /\ Hangs(Section(kind, index)) = 0
<1>1. PICK s : s = Section(kind, index)
  OBVIOUS
<1>2. DOMAIN s = SectionFields
  BY <1>1 DEF Section, SectionFields
<1>3. s.size = 0 /\ s.lines = 0 /\ s.bytes = <<>>
  BY <1>1 DEF Section
<1>4. 0 \in 0 .. OffsetRange - 1 /\ 0 % CodeSize = 0
  BY SizeAssumption
<1> QED
  BY <1>1, <1>2, <1>3, <1>4, NoList DEF SectionOK, Hangs

LEMMA NewSectionMade ==
  ASSUME NEW o, HandleOK(o), NEW kind,
         kind \in DOMAIN TableIndex => \A k \in DOMAIN o.secs : o.secs[k].kind # kind,
         NEW q, q = NewSection(o, kind)
  PROVE  /\ Costs(o, q, 0) /\ Same(o, q, {"secs", "next", "blocks"}) /\ SectionAdded(o, q, kind)
         /\ Len(o.secs) \in Nat /\ DOMAIN o.secs = 1 .. Len(o.secs)
<1>1. PICK s : s = Section(kind, NewIndex(o, kind))
  OBVIOUS
<1>2. DOMAIN o = HandleFields /\ o.blocks \in Int /\ SectionsOK(o.secs) /\ o.next \in Nat
  BY DEF HandleOK, Indexed
<1>3. /\ q = [o EXCEPT !.secs = Append(o.secs, s), !.blocks = o.blocks + 1, !.next = q.next]
      /\ q.next = IF kind \in DOMAIN TableIndex /\ NewIndex(o, kind) < o.next THEN o.next
                  ELSE NewIndex(o, kind) + 1
  BY <1>1, <1>2 DEF NewSection, NewIndex, HandleFields
<1>4. Same(o, q, {"secs", "next", "blocks"})
  BY <1>2, <1>3 DEF Same, HandleFields
<1>5. q.secs = Append(o.secs, s) /\ q.blocks = o.blocks + 1
  BY <1>2, <1>3 DEF HandleFields
<1>6. q.next \in Nat /\ q.next > NewIndex(o, kind) /\ q.next >= o.next
  BY <1>2, <1>3, NewIndexIs
<1>7. Indexed(q.secs, q.next)
  BY <1>1, <1>5, <1>6, IndexedAppended
<1>8. SectionOK(s) /\ Hangs(s) = 0
  BY <1>1, SectionIs
<1>9. SectionsOK(q.secs) /\ HangAll(q.secs) = HangAll(o.secs) + Hangs(s)
  BY <1>2, <1>5, <1>8, HangAppended
<1>10. PICK n \in Nat : n = Len(o.secs) /\ DOMAIN o.secs = 1 .. n
  BY <1>2, ListIs DEF SectionsOK
<1>11. Len(q.secs) = n + 1 /\ DOMAIN q.secs = 1 .. n + 1 /\ q.secs[n + 1] = s
       /\ \A k \in 1 .. n : q.secs[k] = o.secs[k]
  <2>1. AppendedTo(q.secs, o.secs, s)
    BY <1>2, <1>5, ListAppended DEF SectionsOK
  <2> QED
    BY <1>10, <2>1 DEF AppendedTo
<1>12. SectionAdded(o, q, kind)
  BY <1>1, <1>10, <1>11 DEF SectionAdded
<1>13. /\ DOMAIN q = HandleFields /\ q.segs = o.segs
       /\ q.comdats = o.comdats /\ q.lnames = o.lnames /\ q.externs = o.externs
       /\ q.groups = o.groups /\ q.syms = o.syms /\ q.relocs = o.relocs /\ q.notes = o.notes
       /\ q.work = o.work /\ q.lidata = o.lidata /\ q.bakpat = o.bakpat /\ q.ret = o.ret
  BY <1>2, <1>4 DEF Same, HandleFields
<1>14. HandleOK(q)
  <2>1. \A table, what : Numbered(o.secs, table, what) => Numbered(q.secs, table, what)
    <3>1. \A k \in DOMAIN o.secs : k \in DOMAIN q.secs /\ q.secs[k] = o.secs[k]
      BY <1>10, <1>11
    <3> QED
      BY <3>1 DEF Numbered
  <2>2. q.work \in {0} \cup DOMAIN q.secs
    <3>1. \A k \in DOMAIN o.secs : k \in DOMAIN q.secs
      BY <1>10, <1>11
    <3>2. o.work \in {0} \cup DOMAIN o.secs
      BY DEF HandleOK
    <3> QED
      BY <1>13, <3>1, <3>2
  <2>3. q.blocks \in Int
    BY <1>2, <1>5
  <2>4. ListsOK(q)
    BY <1>13 DEF HandleOK, ListsOK
  <2>5. Numbered(q.secs, q.segs, "seg") /\ Numbered(q.secs, q.comdats, "comdat")
    BY <1>13, <2>1 DEF HandleOK
  <2> QED
    BY <1>7, <1>9, <1>13, <2>2, <2>3, <2>4, <2>5 DEF HandleOK
<1>15. OfSections(q.secs) = OfSections(o.secs) + 1
  <2>1. HangAll(o.secs) \in Nat
    BY <1>2, HangAllType
  <2> QED
    BY <1>8, <1>9, <1>10, <1>11, <2>1 DEF OfSections
<1>16. Costs(o, q, 1 - 1)
  <2>1. Same(o, q, {"secs", "next", "work", "blocks"})
    BY <1>4 DEF Same
  <2>2. 1 \in Int
    OBVIOUS
  <2> QED
    BY <1>5, <1>14, <1>15, <2>1, <2>2, SectionsMove
<1>17. 1 - 1 = 0
  OBVIOUS
<1> QED
  BY <1>4, <1>10, <1>12, <1>16, <1>17

\* The number of symbols that the sections know of.
LEMMA SymboledAdded ==
  ASSUME NEW o, NEW q, NEW kind, SectionAdded(o, q, kind), DOMAIN o.secs = 1 .. Len(o.secs),
         Len(o.secs) \in Nat, NEW n \in Nat, Symboled(o.secs, n)
  PROVE  Symboled(q.secs, n)
<1>1. Section(kind, NewIndex(o, kind)).sym = 0 /\ 0 \in 0 .. n
  BY DEF Section
<1>2. \A k \in 1 .. Len(o.secs) + 1 : k = Len(o.secs) + 1 \/ k \in 1 .. Len(o.secs)
  OBVIOUS
<1> QED
  BY <1>1, <1>2 DEF SectionAdded, Symboled

\* The section of a table is there.
LEMMA WithTableHas ==
  ASSUME NEW o, HandleOK(o), NEW kind \in DOMAIN TableIndex, NEW q, q = WithTable(o, kind)
  PROVE  /\ Costs(o, q, 0) /\ Same(o, q, {"secs", "next", "blocks"})
         /\ \A n \in Nat : Symboled(o.secs, n) => Symboled(q.secs, n)
         /\ Len(o.secs) <= Len(q.secs) /\ \A k \in DOMAIN o.secs : q.secs[k] = o.secs[k]
<1>1. CASE \E k \in DOMAIN o.secs : o.secs[k].kind = kind
  <2>1. q = o
    BY <1>1 DEF WithTable
  <2>2. Len(o.secs) \in Nat
    BY ListIs DEF HandleOK, SectionsOK
  <2> QED
    BY <2>1, <2>2, CostsNothing DEF Same
<1>2. CASE ~ \E k \in DOMAIN o.secs : o.secs[k].kind = kind
  <2>1. q = NewSection(o, kind)
    BY <1>2 DEF WithTable
  <2>2. /\ Costs(o, q, 0) /\ Same(o, q, {"secs", "next", "blocks"}) /\ SectionAdded(o, q, kind)
        /\ Len(o.secs) \in Nat /\ DOMAIN o.secs = 1 .. Len(o.secs)
    BY <1>2, <2>1, NewSectionMade
  <2>3. \A n \in Nat : Symboled(o.secs, n) => Symboled(q.secs, n)
    BY <2>2, SymboledAdded
  <2> QED
    BY <2>2, <2>3 DEF SectionAdded
<1> QED
  BY <1>1, <1>2

\* A handle that differs from a changed one in the section of a table only.
LEMMA SameInTurn ==
  ASSUME NEW o, NEW p, NEW q, NEW F, NEW G, Same(o, p, F), Same(p, q, G)
  PROVE  Same(o, q, F \cup G)
BY DEF Same

LEMMA AddStringKeeps ==
  ASSUME NEW o, HandleOK(o), NEW f \in {"lnames", "externs"}, NEW name,
         NEW q, q = AddString(o, f, name)
  PROVE  /\ Costs(o, q, 0) /\ Same(o, q, {"secs", "next", "blocks", f})
         /\ \A n \in Nat : Symboled(o.secs, n) => Symboled(q.secs, n)
<1>1. PICK t : t = WithTable(o, f)
  OBVIOUS
<1>2. /\ Costs(o, t, 0) /\ Same(o, t, {"secs", "next", "blocks"})
      /\ \A n \in Nat : Symboled(o.secs, n) => Symboled(t.secs, n)
  <2>1. f \in DOMAIN TableIndex
    BY TableIndexIs
  <2> QED
    BY <1>1, <2>1, WithTableHas
<1>3. HandleOK(t) /\ DOMAIN t = HandleFields /\ t.blocks \in Int /\ t[f] = o[f] /\ IsList(t[f])
  <2>1. HandleOK(t)
    BY <1>2 DEF Costs
  <2>2. DOMAIN t = HandleFields /\ t.blocks \in Int
    BY <2>1 DEF HandleOK
  <2>3. IsList(t[f])
    BY <2>1 DEF HandleOK, ListsOK
  <2>4. DOMAIN o = HandleFields
    BY DEF HandleOK
  <2>5. t[f] = o[f]
    BY <1>2, <2>4 DEF Same, HandleFields
  <2> QED
    BY <2>1, <2>2, <2>3, <2>5
<1>4. PICK m \in Nat : m = Len(t[f])
  BY <1>3, ListIs
<1>5. NewArray(m) \in Nat
  BY TableGrows
<1>6. PICK n \in Nat : n = NewArray(m)
  BY <1>5
<1>7. q[f] = Append(t[f], name) /\ q.blocks = (t.blocks + n) + 1 /\ Same(t, q, {f, "blocks"})
  <2>1. PICK g : g = Grown(t, Len(o[f]))
    OBVIOUS
  <2>2. g.blocks = t.blocks + n /\ Same(t, g, {"blocks"}) /\ g[f] = t[f]
    BY <1>3, <1>4, <1>6, <2>1 DEF Grown, NewArray, Same, HandleFields
  <2>3. q = [g EXCEPT ![f] = Append(@, name), !.blocks = @ + 1]
    BY <1>1, <2>1 DEF AddString
  <2>4. DOMAIN g = HandleFields
    BY <1>3, <2>2 DEF Same
  <2> QED
    BY <2>2, <2>3, <2>4, ZenonT(60) DEF Same, HandleFields
<1>8. q.blocks = t.blocks + (n + 1)
  <2>1. PICK b \in Int : b = t.blocks
    BY <1>3
  <2>2. (b + n) + 1 = b + (n + 1)
    OBVIOUS
  <2> QED
    BY <1>7, <2>1, <2>2
<1>9. n + 1 \in Int /\ (n + 1) - (1 + n) = 0
  OBVIOUS
<1>10. Costs(t, q, (n + 1) - (1 + NewArray(Len(t[f]))))
  BY <1>3, <1>7, <1>8, <1>9, NamesGrown
<1>11. Costs(t, q, 0)
  BY <1>4, <1>6, <1>9, <1>10
<1>12. Costs(o, q, 0 + 0)
  BY <1>2, <1>11, CostsInTurn
<1>13. q.secs = t.secs
  BY <1>3, <1>7 DEF Same, HandleFields
<1>14. Same(o, q, {"secs", "next", "blocks"} \cup {f, "blocks"})
  BY <1>2, <1>7, SameInTurn
<1>15. {"secs", "next", "blocks"} \cup {f, "blocks"} = {"secs", "next", "blocks", f}
  OBVIOUS
<1> QED
  BY <1>2, <1>12, <1>13, <1>14, <1>15

\* A symbol: sections may refer to it already.
LEMMA AddSymbolKeeps ==
  ASSUME NEW o, HandleOK(o), NEW kind, NEW name, NEW of, NEW q, q = AddSymbol(o, kind, name, of)
  PROVE  /\ Costs(o, q, 0) /\ Same(o, q, {"secs", "next", "blocks", "syms"})
         /\ Len(o.syms) \in Nat /\ Len(q.syms) = Len(o.syms) + 1
         /\ \A n \in Nat : Symboled(o.secs, n) => Symboled(q.secs, n)
<1>1. PICK t : t = WithTable(o, "syms")
  OBVIOUS
<1>2. /\ Costs(o, t, 0) /\ Same(o, t, {"secs", "next", "blocks"})
      /\ \A n \in Nat : Symboled(o.secs, n) => Symboled(t.secs, n)
  <2>1. "syms" \in DOMAIN TableIndex
    BY TableIndexIs
  <2> QED
    BY <1>1, <2>1, WithTableHas
<1>3. HandleOK(t) /\ DOMAIN t = HandleFields /\ t.blocks \in Int /\ t.syms = o.syms /\ IsList(t.syms)
  <2>1. HandleOK(t)
    BY <1>2 DEF Costs
  <2>2. DOMAIN t = HandleFields /\ t.blocks \in Int
    BY <2>1 DEF HandleOK
  <2>3. IsList(t.syms)
    BY <2>1 DEF HandleOK, ListsOK
  <2>4. DOMAIN o = HandleFields
    BY DEF HandleOK
  <2>5. t.syms = o.syms
    BY <1>2, <2>4 DEF Same, HandleFields
  <2> QED
    BY <2>1, <2>2, <2>3, <2>5
<1>4. PICK m \in Nat : m = Len(t.syms) /\ (t.syms = <<>> <=> m = 0)
  <2>1. t.syms \in Seq(ToSet(t.syms))
    BY <1>3, ListIs
  <2> QED
    BY <2>1
<1>5. NewArray(m) \in Nat
  BY TableGrows
<1>6. PICK n \in Nat : n = NewArray(m)
  BY <1>5
<1>7. PICK x : x = [kind |-> kind, name |-> name, of |-> of]
  OBVIOUS
<1>8. q.syms = Append(t.syms, x) /\ q.blocks = (t.blocks + n) + 1 + n /\ Same(t, q, {"syms", "blocks"})
  <2>1. PICK g : g = Grown(t, Len(o.syms))
    OBVIOUS
  <2>2. g.blocks = t.blocks + n /\ Same(t, g, {"blocks"}) /\ g.syms = t.syms
    BY <1>3, <1>4, <1>6, <2>1 DEF Grown, NewArray, Same, HandleFields
  <2>3. q = [g EXCEPT !.syms = Append(@, x), !.blocks = @ + 1 + n]
    BY <1>1, <1>3, <1>4, <1>6, <1>7, <2>1 DEF AddSymbol, NewArray
  <2>4. DOMAIN g = HandleFields
    BY <1>3, <2>2 DEF Same
  <2> QED
    BY <2>2, <2>3, <2>4 DEF Same, HandleFields
<1>9. q.blocks = t.blocks + (1 + 2 * n)
  BY <1>3, <1>8
<1>10. 1 + 2 * n \in Int /\ (1 + 2 * n) - (1 + 2 * n) = 0
  OBVIOUS
<1>11. Costs(t, q, (1 + 2 * n) - (1 + 2 * NewArray(Len(t.syms)))) /\ Len(q.syms) = Len(t.syms) + 1
  BY <1>3, <1>8, <1>9, <1>10, SymbolsGrown
<1>12. Costs(t, q, 0)
  BY <1>4, <1>6, <1>10, <1>11
<1>13. Costs(o, q, 0 + 0)
  BY <1>2, <1>12, CostsInTurn
<1>14. q.secs = t.secs
  BY <1>3, <1>8 DEF Same, HandleFields
<1>15. Same(o, q, {"secs", "next", "blocks"} \cup {"syms", "blocks"})
  BY <1>2, <1>8, SameInTurn
<1>16. {"secs", "next", "blocks"} \cup {"syms", "blocks"} = {"secs", "next", "blocks", "syms"}
  OBVIOUS
<1>17. Costs(o, q, 0) /\ Same(o, q, {"secs", "next", "blocks", "syms"})
  BY <1>13, <1>15, <1>16
<1>18. Len(o.syms) \in Nat /\ Len(q.syms) = Len(o.syms) + 1
  BY <1>3, <1>4, <1>11
<1>19. \A k \in Nat : Symboled(o.secs, k) => Symboled(q.secs, k)
  BY <1>2, <1>14
<1> QED
  BY <1>17, <1>18, <1>19

\* A comment, and a relocation, whose block was taken for the fixup.
LEMMA ListedKeeps ==
  ASSUME NEW o, HandleOK(o), NEW f \in {"relocs", "notes"}, NEW x,
         NEW t, t = Grown(WithTable(o, f), Len(o[f])), NEW extra \in Nat,
         NEW q, Same(t, q, {f, "blocks"}), q[f] = Append(t[f], x), q.blocks = t.blocks + extra
  PROVE  /\ Costs(o, q, extra - 1) /\ Same(o, q, {"secs", "next", "blocks", f})
         /\ \A n \in Nat : Symboled(o.secs, n) => Symboled(q.secs, n)
<1>1. PICK s : s = WithTable(o, f)
  OBVIOUS
<1>2. /\ Costs(o, s, 0) /\ Same(o, s, {"secs", "next", "blocks"})
      /\ \A n \in Nat : Symboled(o.secs, n) => Symboled(s.secs, n)
  <2>1. f \in DOMAIN TableIndex
    BY TableIndexIs
  <2> QED
    BY <1>1, <2>1, WithTableHas
<1>3. HandleOK(s) /\ DOMAIN s = HandleFields /\ s.blocks \in Int /\ s[f] = o[f] /\ IsList(s[f])
  <2>1. HandleOK(s)
    BY <1>2 DEF Costs
  <2>2. DOMAIN s = HandleFields /\ s.blocks \in Int
    BY <2>1 DEF HandleOK
  <2>3. IsList(s[f])
    BY <2>1 DEF HandleOK, ListsOK
  <2>4. DOMAIN o = HandleFields
    BY DEF HandleOK
  <2>5. s[f] = o[f]
    BY <1>2, <2>4 DEF Same, HandleFields
  <2> QED
    BY <2>1, <2>2, <2>3, <2>5
<1>4. PICK m \in Nat : m = Len(s[f])
  BY <1>3, ListIs
<1>5. NewArray(m) \in Nat
  BY TableGrows
<1>6. PICK n \in Nat : n = NewArray(m)
  BY <1>5
<1>7. q[f] = Append(s[f], x) /\ q.blocks = (s.blocks + n) + extra /\ Same(s, q, {f, "blocks"})
  <2>1. t.blocks = s.blocks + n /\ Same(s, t, {"blocks"}) /\ t[f] = s[f]
    BY <1>1, <1>3, <1>4, <1>6 DEF Grown, NewArray, Same, HandleFields
  <2>2. DOMAIN t = HandleFields
    BY <1>3, <2>1 DEF Same
  <2> QED
    BY <2>1, <2>2 DEF Same, HandleFields
<1>8. q.blocks = s.blocks + (n + extra)
  <2>1. PICK b \in Int : b = s.blocks
    BY <1>3
  <2>2. \A e \in Nat : (b + n) + e = b + (n + e)
    BY ONLY <1>6, <2>1
  <2>3. extra \in Nat
    OBVIOUS
  <2> QED
    BY <1>7, <2>1, <2>2, <2>3
<1>9. n + extra \in Int /\ (n + extra) - (1 + n) = extra - 1 /\ extra - 1 \in Int
      /\ 0 + (extra - 1) = extra - 1
  <2>1. extra \in Nat
    OBVIOUS
  <2>2. \A e \in Nat : /\ n + e \in Int /\ (n + e) - (1 + n) = e - 1 /\ e - 1 \in Int
                        /\ 0 + (e - 1) = e - 1
    BY ONLY <1>6
  <2> QED
    BY <2>1, <2>2
<1>10. Costs(s, q, (n + extra) - (1 + NewArray(Len(s[f]))))
  BY <1>3, <1>7, <1>8, <1>9, ListsGrown
<1>11. Costs(s, q, extra - 1)
  BY <1>4, <1>6, <1>9, <1>10
<1>12. Costs(o, q, 0 + (extra - 1))
  <2>1. 0 \in Int /\ extra - 1 \in Int
    BY ONLY <1>9
  <2> QED
    BY <1>2, <1>11, <2>1, CostsInTurn
<1>13. q.secs = s.secs
  BY <1>3, <1>7 DEF Same, HandleFields
<1>14. Same(o, q, {"secs", "next", "blocks"} \cup {f, "blocks"})
  BY <1>2, <1>7, SameInTurn
<1>15. {"secs", "next", "blocks"} \cup {f, "blocks"} = {"secs", "next", "blocks", f}
  OBVIOUS
<1> QED
  BY <1>2, <1>9, <1>12, <1>13, <1>14, <1>15

\* Section k becomes another one of its kind; only one that has no number gets one.
SectionReplaced(o, q, k, s) ==
  /\ q.secs = [o.secs EXCEPT ![k] = s]
  /\ s.kind = o.secs[k].kind /\ s.index = o.secs[k].index
  /\ s.id = o.secs[k].id \/ o.secs[k].id = 0
  /\ q.work \in {0} \cup DOMAIN o.secs /\ (o.lidata.on => q.work # 0)

LEMMA SectionChanged ==
  ASSUME NEW o, HandleOK(o), NEW k \in DOMAIN o.secs, NEW s, SectionOK(s),
         NEW q, Same(o, q, {"secs", "work", "blocks"}), SectionReplaced(o, q, k, s),
         NEW n \in Int, q.blocks = o.blocks + n
  PROVE  /\ Costs(o, q, n - (Hangs(s) - Hangs(o.secs[k])))
         /\ DOMAIN q.secs = DOMAIN o.secs /\ q.secs[k] = s /\ Len(q.secs) = Len(o.secs)
         /\ \A i \in DOMAIN o.secs : i # k => q.secs[i] = o.secs[i]
         /\ \A m \in Nat : Symboled(o.secs, m) /\ s.sym \in 0 .. m => Symboled(q.secs, m)
<1>1. DOMAIN o = HandleFields /\ o.blocks \in Int /\ SectionsOK(o.secs)
  BY DEF HandleOK
<1>2. q.secs = [o.secs EXCEPT ![k] = s]
  BY DEF SectionReplaced
<1>3. SectionsOK(q.secs) /\ HangAll(q.secs) = HangAll(o.secs) - Hangs(o.secs[k]) + Hangs(s)
  BY <1>1, <1>2, HangChanged
<1>4. /\ DOMAIN q.secs = DOMAIN o.secs /\ q.secs[k] = s /\ Len(q.secs) = Len(o.secs)
      /\ \A i \in DOMAIN o.secs : i # k => q.secs[i] = o.secs[i]
  BY <1>1, <1>2, ListChanged DEF SectionsOK
<1>5. /\ DOMAIN q = HandleFields /\ q.segs = o.segs /\ q.next = o.next
      /\ q.comdats = o.comdats /\ q.lnames = o.lnames /\ q.externs = o.externs
      /\ q.groups = o.groups /\ q.syms = o.syms /\ q.relocs = o.relocs /\ q.notes = o.notes
      /\ q.lidata = o.lidata /\ q.bakpat = o.bakpat /\ q.ret = o.ret
  BY <1>1 DEF Same, HandleFields
<1>6. \A i \in DOMAIN o.secs : q.secs[i].kind = o.secs[i].kind /\ q.secs[i].index = o.secs[i].index
  BY <1>4 DEF SectionReplaced
<1>7. Indexed(q.secs, q.next)
  <2>1. Indexed(o.secs, o.next)
    BY DEF HandleOK
  <2> QED
    BY <1>4, <1>5, <1>6, <2>1 DEF Indexed
<1>8. ASSUME NEW table, NEW kind, Numbered(o.secs, table, kind)
      PROVE  Numbered(q.secs, table, kind)
  <2>1. ASSUME NEW i \in DOMAIN table PROVE q.secs[table[i]].id = i
    <3>1. table[i] \in DOMAIN o.secs /\ o.secs[table[i]].id = i
      BY <1>8 DEF Numbered
    <3>2. i # 0
      <4>1. DOMAIN table = 1 .. Len(table) /\ Len(table) \in Nat
        BY <1>8, ListIs DEF Numbered
      <4> QED
        BY <4>1
    <3>3. CASE table[i] = k
      BY <1>4, <3>1, <3>2, <3>3 DEF SectionReplaced
    <3>4. CASE table[i] # k
      BY <1>4, <3>1, <3>4
    <3> QED
      BY <3>3, <3>4
  <2> QED
    BY <1>4, <1>6, <1>8, <2>1 DEF Numbered
<1>9. HandleOK(q)
  <2>1. q.blocks \in Int
    BY <1>1
  <2>2. ListsOK(q)
    BY <1>5 DEF ListsOK, HandleOK
  <2>3. Numbered(q.secs, q.segs, "seg") /\ Numbered(q.secs, q.comdats, "comdat")
    BY <1>5, <1>8 DEF HandleOK
  <2>4. q.work \in {0} \cup DOMAIN q.secs /\ (q.lidata.on => q.work # 0)
    BY <1>4, <1>5 DEF SectionReplaced
  <2> QED
    BY <1>3, <1>5, <1>7, <2>1, <2>2, <2>3, <2>4 DEF HandleOK
<1>10. PICK d \in Int : d = Hangs(s) - Hangs(o.secs[k])
  <2>1. Hangs(s) \in Nat /\ Hangs(o.secs[k]) \in Nat
    BY <1>1, HangsType DEF SectionsOK
  <2> QED
    BY <2>1
<1>11. OfSections(q.secs) = OfSections(o.secs) + d
  <2>1. Hangs(s) \in Nat /\ Hangs(o.secs[k]) \in Nat /\ HangAll(o.secs) \in Nat /\ Len(o.secs) \in Nat
    BY <1>1, HangsType, HangAllType, ListIs DEF SectionsOK
  <2> QED
    BY <1>3, <1>4, <1>10, <2>1 DEF OfSections
<1>12. Costs(o, q, n - d)
  <2>1. Same(o, q, {"secs", "next", "work", "blocks"})
    BY DEF Same
  <2> QED
    BY <1>9, <1>11, <2>1, SectionsMove
<1>13. \A m \in Nat : Symboled(o.secs, m) /\ s.sym \in 0 .. m => Symboled(q.secs, m)
  BY <1>4 DEF Symboled
<1> QED
  BY <1>4, <1>10, <1>12, <1>13

\* What may change in a section without a block.
Tweaks == {"id", "name", "size", "nobits", "sym", "group", "cur"}

LEMMA SectionTweaked ==
  ASSUME NEW s, SectionOK(s), NEW u, Same(s, u, Tweaks), u.size \in 0 .. OffsetRange - 1
  PROVE  SectionOK(u) /\ Hangs(u) = Hangs(s) /\ u.kind = s.kind /\ u.index = s.index
<1>1. DOMAIN s = SectionFields
  BY DEF SectionOK
<1>2. DOMAIN u = SectionFields /\ u.kind = s.kind /\ u.index = s.index /\ u.lines = s.lines
      /\ u.bytes = s.bytes
  BY <1>1 DEF Same, SectionFields, Tweaks
<1> QED
  BY <1>2 DEF SectionOK, Hangs

LEMMA SectionAltered ==
  ASSUME NEW o, HandleOK(o), NEW k \in DOMAIN o.secs, NEW u, Same(o.secs[k], u, Tweaks),
         u.size \in 0 .. OffsetRange - 1, u.id = o.secs[k].id \/ o.secs[k].id = 0,
         NEW q, Same(o, q, {"secs", "work"}), q.secs = [o.secs EXCEPT ![k] = u],
         q.work \in {0} \cup DOMAIN o.secs, o.lidata.on => q.work # 0
  PROVE  /\ Costs(o, q, 0)
         /\ DOMAIN q.secs = DOMAIN o.secs /\ q.secs[k] = u /\ Len(q.secs) = Len(o.secs)
         /\ \A i \in DOMAIN o.secs : i # k => q.secs[i] = o.secs[i]
         /\ \A m \in Nat : Symboled(o.secs, m) /\ u.sym \in 0 .. m => Symboled(q.secs, m)
<1>1. SectionOK(o.secs[k])
  BY DEF HandleOK, SectionsOK
<1>2. SectionOK(u) /\ Hangs(u) = Hangs(o.secs[k]) /\ u.kind = o.secs[k].kind
      /\ u.index = o.secs[k].index /\ Hangs(u) \in Nat
  BY <1>1, SectionTweaked, HangsType
<1>3. SectionReplaced(o, q, k, u)
  BY <1>2 DEF SectionReplaced
<1>4. Same(o, q, {"secs", "work", "blocks"})
  BY DEF Same
<1>5. q.blocks = o.blocks + 0 /\ 0 \in Int
  <2>1. DOMAIN o = HandleFields /\ o.blocks \in Int
    BY DEF HandleOK
  <2>2. q.blocks = o.blocks
    BY <2>1 DEF Same, HandleFields
  <2> QED
    BY <2>1, <2>2
<1>6. /\ Costs(o, q, 0 - (Hangs(u) - Hangs(o.secs[k])))
      /\ DOMAIN q.secs = DOMAIN o.secs /\ q.secs[k] = u /\ Len(q.secs) = Len(o.secs)
      /\ \A i \in DOMAIN o.secs : i # k => q.secs[i] = o.secs[i]
      /\ \A m \in Nat : Symboled(o.secs, m) /\ u.sym \in 0 .. m => Symboled(q.secs, m)
  BY <1>2, <1>3, <1>4, <1>5, SectionChanged
<1>7. \A x \in Nat : 0 - (x - x) = 0
  OBVIOUS
<1>8. Costs(o, q, 0)
  BY <1>2, <1>6, <1>7
<1> QED
  BY <1>6, <1>8

LEMMA FailKeeps ==
  ASSUME NEW o, HandleOK(o), NEW how \in Rets, NEW q, q = Fail(o, how)
  PROVE  Costs(o, q, 0) /\ Same(o, q, {"ret"}) /\ q.ret = how
<1>1. DOMAIN o = HandleFields /\ o.blocks \in Int
  BY DEF HandleOK
<1>2. Same(o, q, {"ret"}) /\ q.ret = how /\ q.blocks = o.blocks
      /\ q.lidata = o.lidata /\ q.bakpat = o.bakpat
  BY <1>1 DEF Fail, Same, HandleFields
<1>3. Same(o, q, Loose)
  BY <1>2 DEF Same, Loose
<1>4. q.blocks = o.blocks + 0 /\ 0 \in Int
  BY <1>1, <1>2
<1>5. HandleOK(q) /\ Surplus(q) = Surplus(o) + 0
  BY <1>2, <1>3, <1>4, LooseChange
<1> QED
  BY <1>2, <1>5 DEF Costs

\* An array with room for one more.
LEMMA GrownCosts ==
  ASSUME NEW o, HandleOK(o), NEW m \in Nat, NEW q, q = Grown(o, m)
  PROVE  Costs(o, q, NewArray(m)) /\ Same(o, q, {"blocks"})
<1>1. DOMAIN o = HandleFields /\ o.blocks \in Int /\ o.ret \in Rets
  BY DEF HandleOK
<1>2. NewArray(m) \in Nat
  BY TableGrows
<1>3. PICK n \in Int : n = NewArray(m)
  BY <1>2
<1>4. Same(o, q, {"blocks"}) /\ q.blocks = o.blocks + n /\ q.ret = o.ret
      /\ q.lidata = o.lidata /\ q.bakpat = o.bakpat
  BY <1>1, <1>3 DEF Grown, NewArray, Same, HandleFields
<1>5. Same(o, q, Loose)
  BY <1>4 DEF Same, Loose
<1>6. HandleOK(q) /\ Surplus(q) = Surplus(o) + n
  BY <1>1, <1>4, <1>5, LooseChange
<1> QED
  BY <1>3, <1>4, <1>6 DEF Costs

LEMMA NewNumberedMade ==
  ASSUME NEW o, HandleOK(o), NEW f \in {"segs", "comdats"}, NEW kind,
         kind = (IF f = "segs" THEN "seg" ELSE "comdat"),
         NEW q, q = NewNumbered(o, kind, f)
  PROVE  /\ Costs(o, q, 0) /\ Same(o, q, {"secs", "next", "blocks", f})
         /\ \A n \in Nat : Symboled(o.secs, n) => Symboled(q.secs, n)
         /\ Len(q.secs) \in DOMAIN q.secs /\ Len(q.secs) = Len(o.secs) + 1 /\ Len(o.secs) \in Nat
         /\ q.secs[Len(q.secs)].size \in 0 .. OffsetRange - 1
         /\ q[f] = Append(o[f], Len(q.secs))
<1>1. DOMAIN o = HandleFields /\ Numbered(o.secs, o[f], kind)
  BY DEF HandleOK
<1>2. PICK m \in Nat : m = Len(o[f])
  BY <1>1, ListIs DEF Numbered
<1>3. PICK g : g = Grown(o, m)
  OBVIOUS
<1>4. Costs(o, g, NewArray(m)) /\ Same(o, g, {"blocks"}) /\ HandleOK(g)
  BY <1>2, <1>3, GrownCosts DEF Costs
<1>5. kind \notin DOMAIN TableIndex
  BY TableIndexIs
<1>6. PICK t : t = NewSection(g, kind)
  OBVIOUS
<1>7. /\ Costs(g, t, 0) /\ Same(g, t, {"secs", "next", "blocks"}) /\ SectionAdded(g, t, kind)
      /\ Len(g.secs) \in Nat /\ DOMAIN g.secs = 1 .. Len(g.secs) /\ HandleOK(t)
  BY <1>4, <1>5, <1>6, NewSectionMade DEF Costs
<1>8. PICK k : k = Len(g.secs) + 1
  OBVIOUS
<1>9. k \in DOMAIN t.secs /\ k = Len(t.secs) /\ t.secs[k] = Section(kind, NewIndex(g, kind)) /\ k \in Nat
  BY <1>7, <1>8 DEF SectionAdded
<1>10. PICK s : s = [t.secs[k] EXCEPT !.id = m + 1]
  OBVIOUS
<1>11. /\ DOMAIN t.secs[k] = SectionFields /\ t.secs[k].size = 0 /\ t.secs[k].id = 0
       /\ t.secs[k].kind = kind /\ t.secs[k].sym = 0
  BY <1>9 DEF Section, SectionFields
<1>12. /\ Same(t.secs[k], s, Tweaks) /\ s.id = m + 1 /\ s.size = 0 /\ s.kind = kind /\ s.sym = 0
  BY <1>10, <1>11 DEF Same, Tweaks, SectionFields
<1>13. DOMAIN g = HandleFields /\ DOMAIN t = HandleFields
  BY <1>4, <1>7 DEF HandleOK
<1>14. t[f] = o[f] /\ g.secs = o.secs
  BY <1>1, <1>4, <1>7, <1>13 DEF Same, HandleFields
<1>15. PICK u : u = [t EXCEPT !.secs[k] = s]
  OBVIOUS
<1>16. Same(t, u, {"secs"}) /\ u.secs = [t.secs EXCEPT ![k] = s] /\ u[f] = t[f] /\ u.work = t.work
       /\ DOMAIN u = HandleFields
  BY <1>13, <1>15 DEF Same, HandleFields
<1>17. q = [u EXCEPT ![f] = Append(@, k)]
  <2>1. q = [t EXCEPT ![f] = Append(@, k), !.secs[k].id = m + 1]
    BY <1>2, <1>3, <1>6, <1>9 DEF NewNumbered
  <2>2. [t EXCEPT ![f] = Append(@, k), !.secs[k].id = m + 1] = [[t EXCEPT !.secs[k] = s] EXCEPT ![f] = Append(@, k)]
    BY <1>10, <1>13 DEF HandleFields
  <2> QED
    BY <1>15, <2>1, <2>2
<1>18. Same(u, q, {f, "blocks"}) /\ q[f] = Append(u[f], k) /\ q.blocks = u.blocks /\ q.secs = u.secs
  BY <1>16, <1>17 DEF Same, HandleFields
<1>19. /\ Costs(t, u, 0)
       /\ DOMAIN u.secs = DOMAIN t.secs /\ u.secs[k] = s /\ Len(u.secs) = Len(t.secs)
       /\ \A n \in Nat : Symboled(t.secs, n) /\ s.sym \in 0 .. n => Symboled(u.secs, n)
  <2>1. s.size \in 0 .. OffsetRange - 1
    BY <1>12, SizeAssumption
  <2>2. Same(t, u, {"secs", "work"})
    BY <1>16 DEF Same
  <2>3. t.work \in {0} \cup DOMAIN t.secs /\ (t.lidata.on => t.work # 0)
    BY <1>7 DEF HandleOK
  <2> QED
    BY <1>7, <1>9, <1>11, <1>12, <1>16, <2>1, <2>2, <2>3, SectionAltered
<1>20. HandleOK(u)
  BY <1>19 DEF Costs
<1>21. Costs(u, q, 0 - NewArray(Len(u[f])))
  <2>1. q.blocks = u.blocks + 0 /\ 0 \in Int
    BY <1>18, <1>20 DEF HandleOK
  <2>2. k \in DOMAIN u.secs /\ u.secs[k].kind = kind /\ u.secs[k].id = Len(u[f]) + 1
    BY <1>2, <1>9, <1>12, <1>14, <1>16, <1>19
  <2> QED
    BY <1>18, <1>20, <2>1, <2>2, NumbersGrown
<1>22. PICK n \in Int : n = NewArray(m) /\ n = NewArray(Len(u[f])) /\ 0 - n \in Int
  BY <1>2, <1>14, <1>16, TableGrows
<1>23. Costs(o, q, 0)
  <2>1. Costs(o, t, n + 0)
    BY <1>4, <1>7, <1>22, CostsInTurn
  <2>2. Costs(o, u, (n + 0) + 0)
    BY <1>19, <1>22, <2>1, CostsInTurn
  <2>3. (n + 0) + 0 = n /\ n + (0 - n) = 0
    BY <1>22
  <2>4. Costs(o, u, n)
    BY <2>2, <2>3
  <2>5. Costs(u, q, 0 - n)
    BY <1>21, <1>22
  <2>6. Costs(o, q, n + (0 - n))
    BY <1>22, <2>4, <2>5, CostsInTurn
  <2> QED
    BY <2>3, <2>6
<1>24. Same(o, q, {"secs", "next", "blocks", f})
  <2>1. Same(o, t, {"blocks"} \cup {"secs", "next", "blocks"})
    BY <1>4, <1>7, SameInTurn
  <2>2. Same(o, u, ({"blocks"} \cup {"secs", "next", "blocks"}) \cup {"secs"})
    BY <1>16, <2>1, SameInTurn
  <2>3. Same(o, q, (({"blocks"} \cup {"secs", "next", "blocks"}) \cup {"secs"}) \cup {f, "blocks"})
    BY <1>18, <2>2, SameInTurn
  <2>4. (({"blocks"} \cup {"secs", "next", "blocks"}) \cup {"secs"}) \cup {f, "blocks"}
          = {"secs", "next", "blocks", f}
    OBVIOUS
  <2> QED
    BY <2>3, <2>4
<1>25. ASSUME NEW i \in Nat, Symboled(o.secs, i) PROVE Symboled(q.secs, i)
  <2>1. Symboled(t.secs, i)
    BY <1>7, <1>14, <1>25, SymboledAdded
  <2>2. s.sym \in 0 .. i
    BY <1>12
  <2> QED
    BY <1>18, <1>19, <2>1, <2>2
<1>26. Len(q.secs) \in DOMAIN q.secs /\ Len(q.secs) = Len(o.secs) + 1 /\ Len(o.secs) \in Nat
  BY <1>7, <1>8, <1>9, <1>14, <1>18, <1>19
<1>27. q.secs[Len(q.secs)].size \in 0 .. OffsetRange - 1
  BY <1>9, <1>12, <1>18, <1>19, SizeAssumption
<1>28. q[f] = Append(o[f], Len(q.secs))
  BY <1>9, <1>14, <1>16, <1>18, <1>19
<1> QED
  BY <1>23, <1>24, <1>25, <1>26, <1>27, <1>28

\* q is as well-formed as o and has the same surplus.
Keeps(o, q) == Costs(o, q, 0) /\ Symboled(q.secs, Len(q.syms))

LEMMA SymboledMore ==
  ASSUME NEW secs, NEW n \in Nat, Symboled(secs, n)
  PROVE  Symboled(secs, n + 1)
<1>1. \A x \in 0 .. n : x \in 0 .. n + 1
  OBVIOUS
<1> QED
  BY <1>1 DEF Symboled

LEMMA KeepsItself ==
  ASSUME NEW o, Sound(o)
  PROVE  Keeps(o, o)
BY CostsNothing DEF Sound, Keeps

LEMMA KeepsSound ==
  ASSUME NEW o, NEW q, Keeps(o, q)
  PROVE  Sound(q)
BY DEF Keeps, Costs, Sound

LEMMA KeepsInTurn ==
  ASSUME NEW o, HandleOK(o), NEW p, Costs(o, p, 0), NEW q, Keeps(p, q)
  PROVE  Keeps(o, q)
<1>1. Costs(o, q, 0 + 0)
  BY CostsInTurn DEF Keeps
<1> QED
  BY <1>1 DEF Keeps

LEMMA FailsKeeping ==
  ASSUME NEW o, Sound(o), NEW how \in Rets, NEW q, q = Fail(o, how)
  PROVE  Keeps(o, q) /\ q.ret = how
<1>1. Costs(o, q, 0) /\ Same(o, q, {"ret"}) /\ q.ret = how
  BY FailKeeps DEF Sound
<1>2. q.secs = o.secs /\ q.syms = o.syms
  BY <1>1 DEF Same, Sound, HandleOK, HandleFields
<1> QED
  BY <1>1, <1>2 DEF Keeps, Sound

LEMMA RetsAre == {"OKAY", "ERROR", "assert", "null", "wild", "hang"} = Rets /\ Broken \subseteq Rets
BY DEF Rets, Broken

LEMMA AddsSymbol ==
  ASSUME NEW o, HandleOK(o), Symboled(o.secs, Len(o.syms)) \/ Symboled(o.secs, Len(o.syms) + 1),
         NEW kind, NEW name, NEW of, NEW q, q = AddSymbol(o, kind, name, of)
  PROVE  Keeps(o, q)
<1>1. /\ Costs(o, q, 0) /\ Len(o.syms) \in Nat /\ Len(q.syms) = Len(o.syms) + 1
      /\ \A n \in Nat : Symboled(o.secs, n) => Symboled(q.secs, n)
  BY AddSymbolKeeps
<1>2. Symboled(o.secs, Len(o.syms) + 1)
  BY <1>1, SymboledMore
<1> QED
  BY <1>1, <1>2 DEF Keeps

LEMMA AddsString ==
  ASSUME NEW o, Sound(o), NEW f \in {"lnames", "externs"}, NEW name, NEW q, q = AddString(o, f, name)
  PROVE  Keeps(o, q)
<1>1. /\ Costs(o, q, 0) /\ Same(o, q, {"secs", "next", "blocks", f})
      /\ \A n \in Nat : Symboled(o.secs, n) => Symboled(q.secs, n)
  BY AddStringKeeps DEF Sound
<1>2. DOMAIN o = HandleFields /\ IsList(o.syms)
  BY DEF Sound, HandleOK, ListsOK
<1>3. q.syms = o.syms
  BY <1>1, <1>2 DEF Same, HandleFields
<1>4. Len(o.syms) \in Nat
  BY <1>2, ListIs
<1> QED
  BY <1>1, <1>3, <1>4 DEF Keeps, Sound

LEMMA AddsExtern ==
  ASSUME NEW o, Sound(o), NEW name, NEW kind, NEW q, q = AddExtern(o, name, kind)
  PROVE  Keeps(o, q)
<1>1. CASE name = NULL
  BY <1>1, KeepsItself DEF AddExtern
<1>2. CASE name # NULL
  <2>1. PICK p : p = AddString(o, "externs", name)
    OBVIOUS
  <2>2. Keeps(o, p)
    BY <2>1, AddsString
  <2>3. q = AddSymbol(p, kind, name, 0)
    BY <1>2, <2>1 DEF AddExtern
  <2>4. Keeps(p, q)
    BY <2>2, <2>3, AddsSymbol DEF Keeps, Costs
  <2> QED
    BY <2>2, <2>4, KeepsInTurn DEF Keeps, Sound
<1> QED
  BY <1>1, <1>2

LEMMA AddsComdatExtern ==
  ASSUME NEW o, Sound(o), NEW i, NEW q, q = AddComdatExtern(o, i)
  PROVE  Keeps(o, q)
<1>1. \/ \E how \in Rets : q = Fail(o, how)
      \/ q = AddSymbol(o, "undefined", LName(o, i), 0)
  BY RetsAre DEF AddComdatExtern
<1> QED
  BY <1>1, FailsKeeping, AddsSymbol DEF Sound

LEMMA AddsPubDef ==
  ASSUME NEW o, Sound(o), NEW r, NEW name, NEW q, q = AddPubDef(o, r, name)
  PROVE  Keeps(o, q)
<1>1. \/ \E how \in Rets : q = Fail(o, how)
      \/ \E kind, of : q = AddSymbol(o, kind, name, of)
  BY RetsAre DEF AddPubDef
<1> QED
  BY <1>1, FailsKeeping, AddsSymbol DEF Sound

\* A change in section k that takes no block.
Tweaked(o, q, k, s) ==
  /\ Same(o, q, {"secs", "work"}) /\ q.secs = [o.secs EXCEPT ![k] = s]
  /\ Same(o.secs[k], s, Tweaks) /\ s.size \in 0 .. OffsetRange - 1 /\ s.id = o.secs[k].id
  /\ q.work \in {0} \cup DOMAIN o.secs /\ (o.lidata.on => q.work # 0)

LEMMA TweakKeeps ==
  ASSUME NEW o, Sound(o), NEW k \in DOMAIN o.secs, NEW s, NEW q, Tweaked(o, q, k, s),
         s.sym = o.secs[k].sym
  PROVE  /\ Keeps(o, q) /\ DOMAIN q.secs = DOMAIN o.secs /\ q.secs[k] = s
         /\ Len(q.secs) = Len(o.secs)
<1>1. /\ Costs(o, q, 0) /\ DOMAIN q.secs = DOMAIN o.secs /\ q.secs[k] = s
      /\ Len(q.secs) = Len(o.secs)
      /\ \A m \in Nat : Symboled(o.secs, m) /\ s.sym \in 0 .. m => Symboled(q.secs, m)
  BY SectionAltered DEF Tweaked, Sound
<1>2. Len(o.syms) \in Nat /\ q.syms = o.syms
  BY ListIs DEF Sound, HandleOK, ListsOK, Tweaked, Same, HandleFields
<1>3. s.sym \in 0 .. Len(o.syms)
  BY DEF Sound, Symboled
<1> QED
  BY <1>1, <1>2, <1>3 DEF Keeps, Sound

\* The symbol that is made next is that of section k.
LEMMA SignKeeps ==
  ASSUME NEW o, Sound(o), NEW k \in DOMAIN o.secs, NEW s, NEW q, Tweaked(o, q, k, s),
         s.sym = Len(o.syms) + 1,
         NEW kind, NEW name, NEW of, NEW t, t = AddSymbol(q, kind, name, of)
  PROVE  Keeps(o, t)
<1>1. /\ Costs(o, q, 0)
      /\ \A m \in Nat : Symboled(o.secs, m) /\ s.sym \in 0 .. m => Symboled(q.secs, m)
  BY SectionAltered DEF Tweaked, Sound
<1>2. PICK n \in Nat : n = Len(o.syms) /\ q.syms = o.syms
  BY ListIs DEF Sound, HandleOK, ListsOK, Tweaked, Same, HandleFields
<1>3. Symboled(q.secs, n + 1)
  <2>1. Symboled(o.secs, n + 1)
    BY <1>2, SymboledMore DEF Sound
  <2>2. n + 1 \in Nat /\ s.sym \in 0 .. n + 1
    BY <1>2
  <2> QED
    BY <1>1, <2>1, <2>2
<1>4. Keeps(q, t)
  BY <1>1, <1>2, <1>3, AddsSymbol DEF Costs
<1> QED
  BY <1>1, <1>4, KeepsInTurn DEF Sound

\* A new section of a kind with numbers, and with its name.
LEMMA NumberedKeeps ==
  ASSUME NEW o, Sound(o), NEW f \in {"segs", "comdats"}, NEW kind,
         kind = (IF f = "segs" THEN "seg" ELSE "comdat"),
         NEW q, q = NewNumbered(o, kind, f)
  PROVE  /\ Keeps(o, q) /\ q.syms = o.syms /\ Len(q.secs) \in DOMAIN q.secs
         /\ Len(q.secs) = Len(o.secs) + 1 /\ Len(o.secs) \in Nat
         /\ q.secs[Len(q.secs)].size \in 0 .. OffsetRange - 1
         /\ q[f] = Append(o[f], Len(q.secs))
<1>1. /\ Costs(o, q, 0) /\ Same(o, q, {"secs", "next", "blocks", f})
      /\ \A n \in Nat : Symboled(o.secs, n) => Symboled(q.secs, n)
      /\ Len(q.secs) \in DOMAIN q.secs /\ Len(q.secs) = Len(o.secs) + 1 /\ Len(o.secs) \in Nat
      /\ q.secs[Len(q.secs)].size \in 0 .. OffsetRange - 1
      /\ q[f] = Append(o[f], Len(q.secs))
  BY NewNumberedMade DEF Sound
<1>2. Len(o.syms) \in Nat /\ DOMAIN o = HandleFields
  BY ListIs DEF Sound, HandleOK, ListsOK
<1>3. q.syms = o.syms
  BY <1>1, <1>2 DEF Same, HandleFields
<1> QED
  BY <1>1, <1>2, <1>3 DEF Keeps, Sound, Costs

LEMMA AddsSegDef ==
  ASSUME NEW o, Sound(o), NEW r, r.size \in 0 .. OffsetRange - 1, NEW q, q = AddSegDef(o, r)
  PROVE  Keeps(o, q)
<1>1. PICK t : t = NewNumbered(o, "seg", "segs")
  OBVIOUS
<1>2. PICK k : k = Len(t.secs)
  OBVIOUS
<1>3. Keeps(o, t) /\ t.syms = o.syms /\ k \in DOMAIN t.secs
  BY <1>1, <1>2, NumberedKeeps
<1>4. Sound(t) /\ DOMAIN t = HandleFields /\ SectionOK(t.secs[k]) /\ HandleOK(o)
  BY <1>3, KeepsSound DEF Sound, HandleOK, SectionsOK
<1>5. PICK zero : zero = (LName(o, r.class) # NULL /\ ClassOf[LName(o, r.class)] = "zero")
  OBVIOUS
<1>6. PICK made : made = [t EXCEPT !.secs[k].name = r.name, !.secs[k].size = r.size,
                                   !.secs[k].nobits = zero]
  OBVIOUS
<1>7. PICK signed : signed = [made EXCEPT !.secs[k].sym = Len(o.syms) + 1]
  OBVIOUS
<1>8. \/ \E how \in Rets : q = Fail(o, how) \/ q = Fail(made, how)
      \/ \E name : q = AddSymbol(signed, "section", name, k)
  BY <1>1, <1>2, <1>5, <1>6, <1>7, RetsAre DEF AddSegDef
<1>9. DOMAIN t.secs[k] = SectionFields
  BY <1>4 DEF SectionOK
<1>10. PICK s : s = [t.secs[k] EXCEPT !.name = r.name, !.size = r.size, !.nobits = zero]
  OBVIOUS
<1>11. Same(t.secs[k], s, Tweaks) /\ s.size = r.size /\ s.id = t.secs[k].id
       /\ s.sym = t.secs[k].sym /\ DOMAIN s = SectionFields
  BY <1>9, <1>10 DEF Same, Tweaks, SectionFields
<1>12. /\ Same(t, made, {"secs", "work"}) /\ made.secs = [t.secs EXCEPT ![k] = s]
       /\ made.work = t.work /\ made.syms = t.syms /\ DOMAIN made = HandleFields
  BY <1>4, <1>6, <1>10 DEF Same, HandleFields
<1>13. t.work \in {0} \cup DOMAIN t.secs /\ (t.lidata.on => t.work # 0)
  BY <1>4 DEF Sound, HandleOK
<1>14. Tweaked(t, made, k, s)
  BY <1>11, <1>12, <1>13 DEF Tweaked
<1>15. Keeps(t, made) /\ DOMAIN made.secs = DOMAIN t.secs /\ made.secs[k] = s
  BY <1>3, <1>4, <1>11, <1>14, TweakKeeps
<1>16. Keeps(o, made) /\ Sound(made)
  BY <1>3, <1>4, <1>15, KeepsInTurn, KeepsSound DEF Keeps
<1>17. PICK u : u = [s EXCEPT !.sym = Len(o.syms) + 1]
  OBVIOUS
<1>18. Same(s, u, Tweaks) /\ u.size = s.size /\ u.id = s.id /\ u.sym = Len(o.syms) + 1
  BY <1>11, <1>17 DEF Same, Tweaks, SectionFields
<1>19. /\ Same(made, signed, {"secs", "work"}) /\ signed.secs = [made.secs EXCEPT ![k] = u]
       /\ signed.work = made.work
  BY <1>7, <1>12, <1>15, <1>17 DEF Same, HandleFields
<1>20. made.work \in {0} \cup DOMAIN made.secs /\ (made.lidata.on => made.work # 0)
  BY <1>16 DEF Sound, HandleOK
<1>21. Tweaked(made, signed, k, u)
  BY <1>11, <1>15, <1>18, <1>19, <1>20 DEF Tweaked
<1>22. ASSUME NEW name, q = AddSymbol(signed, "section", name, k) PROVE Keeps(o, q)
  <2>1. u.sym = Len(made.syms) + 1 /\ k \in DOMAIN made.secs
    BY <1>3, <1>12, <1>15, <1>18
  <2>2. Keeps(made, q)
    BY <1>16, <1>21, <1>22, <2>1, SignKeeps
  <2> QED
    BY <1>4, <1>16, <2>2, KeepsInTurn DEF Keeps
<1>23. ASSUME NEW how \in Rets, q = Fail(made, how) PROVE Keeps(o, q)
  <2>1. Keeps(made, q)
    BY <1>16, <1>23, FailsKeeping
  <2> QED
    BY <1>4, <1>16, <2>1, KeepsInTurn DEF Keeps
<1>24. ASSUME NEW how \in Rets, q = Fail(o, how) PROVE Keeps(o, q)
  BY <1>24, FailsKeeping
<1> QED
  BY <1>8, <1>22, <1>23, <1>24

LEMMA TabledGrown ==
  ASSUME NEW o, Sound(o), NEW f \in {"relocs", "notes"}, NEW t, t = Grown(WithTable(o, f), Len(o[f]))
  PROVE  t.blocks \in Int /\ DOMAIN t = HandleFields /\ HandleOK(o)
<1>1. HandleOK(WithTable(o, f))
  <2>1. f \in DOMAIN TableIndex
    BY TableIndexIs
  <2> QED
    BY <2>1, WithTableHas DEF Costs, Sound
<1>2. Len(o[f]) \in Nat
  BY ListIs DEF Sound, HandleOK, ListsOK
<1>3. HandleOK(t)
  BY <1>1, <1>2, GrownCosts DEF Costs
<1> QED
  BY <1>3 DEF HandleOK, Sound

LEMMA AddsComment ==
  ASSUME NEW o, Sound(o), NEW r, NEW q, q = AddComment(o, r)
  PROVE  Keeps(o, q)
<1>1. PICK x : x = [class |-> r.class, seg |-> r.seg, name |-> r.name]
  OBVIOUS
<1>2. PICK t : t = Grown(WithTable(o, "notes"), Len(o.notes))
  OBVIOUS
<1>3. t.blocks \in Int /\ DOMAIN t = HandleFields /\ HandleOK(o)
  BY <1>2, TabledGrown
<1>4. Same(t, q, {"notes", "blocks"}) /\ q.notes = Append(t.notes, x) /\ q.blocks = t.blocks + 1
  BY <1>1, <1>2, <1>3 DEF AddComment, Same, HandleFields
<1>5. /\ Costs(o, q, 1 - 1) /\ Same(o, q, {"secs", "next", "blocks", "notes"})
      /\ \A n \in Nat : Symboled(o.secs, n) => Symboled(q.secs, n)
  <2>1. 1 \in Nat
    OBVIOUS
  <2> QED
    BY <1>2, <1>3, <1>4, <2>1, ListedKeeps
<1>6. 1 - 1 = 0
  OBVIOUS
<1>7. q.syms = o.syms /\ Len(o.syms) \in Nat
  BY <1>5, ListIs DEF Same, Sound, HandleOK, HandleFields, ListsOK
<1> QED
  BY <1>5, <1>6, <1>7 DEF Keeps, Sound

\* The block of a relocation is that of its fixup.
LEMMA AddsReloc ==
  ASSUME NEW o, Sound(o), NEW x, NEW q, q = AddReloc(o, x)
  PROVE  Costs(o, q, 0 - 1) /\ Sound(q) /\ q.ret = o.ret
<1>1. PICK t : t = Grown(WithTable(o, "relocs"), Len(o.relocs))
  OBVIOUS
<1>2. t.blocks \in Int /\ DOMAIN t = HandleFields /\ HandleOK(o)
  BY <1>1, TabledGrown
<1>3. Same(t, q, {"relocs", "blocks"}) /\ q.relocs = Append(t.relocs, x) /\ q.blocks = t.blocks
  BY <1>1, <1>2 DEF AddReloc, Same, HandleFields
<1>4. /\ Costs(o, q, 0 - 1) /\ Same(o, q, {"secs", "next", "blocks", "relocs"})
      /\ \A n \in Nat : Symboled(o.secs, n) => Symboled(q.secs, n)
  <2>1. 0 \in Nat /\ q.blocks = t.blocks + 0
    BY <1>2, <1>3
  <2> QED
    BY <1>1, <1>2, <1>3, <2>1, ListedKeeps
<1>5. DOMAIN o = HandleFields /\ Len(o.syms) \in Nat
  BY ListIs DEF Sound, HandleOK, ListsOK
<1>6. q.syms = o.syms /\ q.ret = o.ret
  BY <1>4, <1>5 DEF Same, HandleFields
<1> QED
  BY <1>4, <1>5, <1>6 DEF Sound, Costs

LEMMA AddsLines ==
  ASSUME NEW o, Sound(o), NEW k \in DOMAIN o.secs, NEW n \in Nat, NEW q, q = AddLines(o, k, n)
  PROVE  Keeps(o, q)
<1>1. CASE n = 0
  BY <1>1, KeepsItself DEF AddLines
<1>2. CASE n # 0
  <2>1. PICK s : s = o.secs[k]
    OBVIOUS
  <2>2. SectionOK(s) /\ DOMAIN o = HandleFields /\ o.blocks \in Int
    BY <2>1 DEF Sound, HandleOK, SectionsOK
  <2>3. PICK lines \in Nat : lines = s.lines
    BY <2>2 DEF SectionOK
  <2>4. PICK more \in Nat : more = lines + n /\ more # 0
    BY <1>2
  <2>5. PICK u : u = [s EXCEPT !.lines = more]
    OBVIOUS
  <2>6. PICK b \in Nat : b = NewArray(lines)
    BY <2>3, TableGrows
  <2>7. /\ Same(o, q, {"secs", "blocks"}) /\ q.secs = [o.secs EXCEPT ![k] = u]
        /\ q.blocks = o.blocks + b
    <3>1. q = [Grown(o, lines) EXCEPT !.secs[k].lines = @ + n]
      BY <1>2, <2>1, <2>3 DEF AddLines
    <3>2. PICK g : g = Grown(o, lines)
      OBVIOUS
    <3>3. g.secs = o.secs /\ g.blocks = o.blocks + b /\ Same(o, g, {"blocks"}) /\ DOMAIN g = HandleFields
      BY <2>2, <2>6, <3>2 DEF Grown, NewArray, Same, HandleFields
    <3>4. DOMAIN s = SectionFields
      BY <2>2 DEF SectionOK
    <3>5. q = [g EXCEPT !.secs[k].lines = more]
      BY <2>1, <2>3, <2>4, <3>1, <3>2, <3>3
    <3>6. q.secs = [o.secs EXCEPT ![k] = u]
      BY <2>1, <2>5, <3>3, <3>5 DEF HandleFields
    <3>7. Same(g, q, {"secs"}) /\ q.blocks = g.blocks
      BY <3>3, <3>5 DEF Same, HandleFields
    <3> QED
      BY <3>3, <3>6, <3>7 DEF Same
  <2>8. /\ DOMAIN u = SectionFields /\ u.kind = s.kind /\ u.index = s.index /\ u.id = s.id
        /\ u.sym = s.sym /\ u.size = s.size /\ u.bytes = s.bytes /\ u.lines = more
    BY <2>2, <2>5 DEF SectionOK, SectionFields
  <2>9. SectionOK(u)
    BY <2>2, <2>4, <2>8 DEF SectionOK
  <2>10. q.work = o.work /\ q.syms = o.syms
    BY <2>2, <2>7 DEF Same, HandleFields
  <2>11. o.work \in {0} \cup DOMAIN o.secs /\ (o.lidata.on => o.work # 0) /\ IsList(o.syms)
    BY DEF Sound, HandleOK, ListsOK
  <2>12. SectionReplaced(o, q, k, u)
    BY <2>1, <2>7, <2>8, <2>10, <2>11 DEF SectionReplaced
  <2>13. Same(o, q, {"secs", "work", "blocks"})
    BY <2>7 DEF Same
  <2>14. /\ Costs(o, q, b - (Hangs(u) - Hangs(s)))
         /\ \A m \in Nat : Symboled(o.secs, m) /\ u.sym \in 0 .. m => Symboled(q.secs, m)
    <3>1. b \in Int
      BY <2>6
    <3> QED
      BY <2>1, <2>7, <2>9, <2>12, <2>13, <3>1, SectionChanged DEF Sound
  <2>15. b - (Hangs(u) - Hangs(s)) = 0
    BY <2>3, <2>4, <2>6, <2>8 DEF Hangs, NewArray
  <2>16. Symboled(q.secs, Len(q.syms))
    <3>1. Len(o.syms) \in Nat
      BY <2>11, ListIs
    <3>2. u.sym \in 0 .. Len(o.syms)
      BY <2>1, <2>8 DEF Sound, Symboled
    <3> QED
      BY <2>10, <2>14, <3>1, <3>2 DEF Sound
  <2> QED
    BY <2>14, <2>15, <2>16 DEF Keeps
<1> QED
  BY <1>1, <1>2

LEMMA AddsComDat ==
  ASSUME NEW o, Sound(o), NEW r, NEW q, q = NewComDat(o, r)
  PROVE  Keeps(o, q) /\ Len(o.secs) + 1 \in DOMAIN q.secs
<1>1. PICK t : t = NewNumbered(o, "comdat", "comdats")
  OBVIOUS
<1>2. PICK k : k = Len(t.secs)
  OBVIOUS
<1>3. /\ Keeps(o, t) /\ t.syms = o.syms /\ k \in DOMAIN t.secs /\ k = Len(o.secs) + 1
      /\ t.comdats = Append(o.comdats, k)
  BY <1>1, <1>2, NumberedKeeps
<1>4. /\ Sound(t) /\ DOMAIN t = HandleFields /\ SectionOK(t.secs[k]) /\ HandleOK(o)
      /\ IsList(o.comdats)
  <2>1. Sound(t)
    BY <1>3, KeepsSound
  <2>2. HandleOK(t) /\ HandleOK(o)
    BY <2>1 DEF Sound
  <2>3. DOMAIN t = HandleFields /\ SectionsOK(t.secs) /\ Numbered(o.secs, o.comdats, "comdat")
    BY <2>2 DEF HandleOK
  <2> QED
    BY <1>3, <2>1, <2>2, <2>3 DEF SectionsOK, Numbered
<1>5. PICK made : made = [t EXCEPT !.secs[k].name = r.name]
  OBVIOUS
<1>6. PICK group : group = (IF r.explicit /\ r.group \in DOMAIN o.groups THEN r.group ELSE 0)
  OBVIOUS
<1>7. PICK signed : signed = [made EXCEPT !.secs[k].sym = Len(o.syms) + 1, !.secs[k].group = group]
  OBVIOUS
<1>8. \/ \E how \in Rets : q = Fail(made, how)
      \/ \E name : q = AddSymbol(signed, "comdat", name, k)
  BY <1>1, <1>2, <1>5, <1>6, <1>7, RetsAre DEF NewComDat
<1>9. DOMAIN t.secs[k] = SectionFields
  BY <1>4 DEF SectionOK
<1>10. PICK s : s = [t.secs[k] EXCEPT !.name = r.name]
  OBVIOUS
<1>11. Same(t.secs[k], s, Tweaks) /\ s.size = t.secs[k].size /\ s.id = t.secs[k].id
       /\ s.sym = t.secs[k].sym /\ DOMAIN s = SectionFields
  BY <1>9, <1>10 DEF Same, Tweaks, SectionFields
<1>12. /\ Same(t, made, {"secs", "work"}) /\ made.secs = [t.secs EXCEPT ![k] = s]
       /\ made.work = t.work /\ made.syms = t.syms /\ DOMAIN made = HandleFields
       /\ made.comdats = t.comdats
  BY <1>4, <1>5, <1>10 DEF Same, HandleFields
<1>13. t.work \in {0} \cup DOMAIN t.secs /\ (t.lidata.on => t.work # 0)
  BY <1>4 DEF Sound, HandleOK
<1>14. Tweaked(t, made, k, s) /\ s.size \in 0 .. OffsetRange - 1
  BY <1>4, <1>11, <1>12, <1>13 DEF Tweaked, SectionOK
<1>15. Keeps(t, made) /\ DOMAIN made.secs = DOMAIN t.secs /\ made.secs[k] = s
  BY <1>3, <1>4, <1>11, <1>14, TweakKeeps
<1>16. Keeps(o, made) /\ Sound(made)
  BY <1>3, <1>4, <1>15, KeepsInTurn, KeepsSound DEF Keeps
<1>17. PICK u : u = [s EXCEPT !.sym = Len(o.syms) + 1, !.group = group]
  OBVIOUS
<1>18. Same(s, u, Tweaks) /\ u.size = s.size /\ u.id = s.id /\ u.sym = Len(o.syms) + 1
  BY <1>11, <1>17 DEF Same, Tweaks, SectionFields
<1>19. /\ Same(made, signed, {"secs", "work"}) /\ signed.secs = [made.secs EXCEPT ![k] = u]
       /\ signed.work = made.work /\ signed.comdats = made.comdats
  BY <1>7, <1>12, <1>15, <1>17, ZenonT(60) DEF Same, HandleFields
<1>20. made.work \in {0} \cup DOMAIN made.secs /\ (made.lidata.on => made.work # 0)
  BY <1>16 DEF Sound, HandleOK
<1>21. Tweaked(made, signed, k, u)
  BY <1>14, <1>15, <1>18, <1>19, <1>20 DEF Tweaked
<1>22. ASSUME NEW name, q = AddSymbol(signed, "comdat", name, k)
       PROVE  Keeps(o, q) /\ q.comdats = t.comdats
  <2>1. u.sym = Len(made.syms) + 1 /\ k \in DOMAIN made.secs
    BY <1>3, <1>12, <1>15, <1>18
  <2>2. Keeps(made, q)
    BY <1>16, <1>21, <1>22, <2>1, SignKeeps
  <2>3. Keeps(o, q)
    BY <1>4, <1>16, <2>2, KeepsInTurn DEF Keeps
  <2>4. HandleOK(signed)
    BY <1>16, <1>21, <2>1, SectionAltered DEF Tweaked, Sound, Costs
  <2>5. Same(signed, q, {"secs", "next", "blocks", "syms"}) /\ DOMAIN signed = HandleFields
    BY <1>22, <2>4, AddSymbolKeeps DEF HandleOK
  <2>6. q.comdats = signed.comdats
    BY <2>5 DEF Same, HandleFields
  <2> QED
    BY <1>12, <1>19, <2>3, <2>6
<1>23. ASSUME NEW how \in Rets, q = Fail(made, how)
       PROVE  Keeps(o, q) /\ q.comdats = t.comdats
  <2>1. Keeps(made, q)
    BY <1>16, <1>23, FailsKeeping
  <2>2. Keeps(o, q)
    BY <1>4, <1>16, <2>1, KeepsInTurn DEF Keeps
  <2>3. q.comdats = made.comdats
    BY <1>12, <1>23 DEF Fail, HandleFields
  <2> QED
    BY <1>12, <2>2, <2>3
<1>24. Keeps(o, q) /\ q.comdats = t.comdats
  BY <1>8, <1>22, <1>23
<1>25. k \in DOMAIN q.secs
  <2>1. Numbered(q.secs, q.comdats, "comdat")
    BY <1>24 DEF Keeps, Costs, HandleOK
  <2>2. q.comdats = Append(o.comdats, k)
    BY <1>3, <1>24
  <2>3. PICK n \in Nat : n = Len(o.comdats)
    BY <1>4, ListIs
  <2>4. DOMAIN q.comdats = 1 .. n + 1 /\ q.comdats[n + 1] = k
    BY <1>4, <2>2, <2>3, ListAppended DEF AppendedTo
  <2>5. n + 1 \in DOMAIN q.comdats
    BY <2>3, <2>4
  <2> QED
    BY <2>1, <2>4, <2>5 DEF Numbered
<1> QED
  BY <1>3, <1>24, <1>25

\* A segment gets into a group.
LEMMA Joins ==
  ASSUME NEW o, Sound(o), NEW g, NEW seg, NEW q, q = Join(o, g, seg)
  PROVE  Keeps(o, q) /\ q.groups = o.groups /\ q.lnames = o.lnames /\ q.syms = o.syms
<1>1. /\ HandleOK(o) /\ DOMAIN o = HandleFields /\ SectionsOK(o.secs)
      /\ Numbered(o.secs, o.segs, "seg")
  BY DEF Sound, HandleOK
<1>2. PICK k : k = Find(o.segs, seg)
  OBVIOUS
<1>3. k = 0 \/ k \in DOMAIN o.secs
  BY <1>1, <1>2 DEF Find, Numbered
<1>4. CASE o.ret # "OKAY"
  BY <1>4, KeepsItself DEF Join
<1>5. CASE o.ret = "OKAY" /\ k = 0
  <2>1. q = Fail(o, "ERROR") /\ "ERROR" \in Rets
    BY <1>2, <1>5, RetsAre DEF Join
  <2>2. Keeps(o, q)
    BY <2>1, FailsKeeping
  <2> QED
    BY <1>1, <2>1, <2>2 DEF Fail, HandleFields
<1>6. CASE o.ret = "OKAY" /\ k # 0
  <2>1. q = [o EXCEPT !.secs[k].group = g] /\ k \in DOMAIN o.secs
    BY <1>2, <1>3, <1>6 DEF Join
  <2>2. DOMAIN o.secs[k] = SectionFields /\ o.secs[k].size \in 0 .. OffsetRange - 1
    BY <1>1, <2>1 DEF SectionsOK, SectionOK
  <2>3. PICK s : s = [o.secs[k] EXCEPT !.group = g]
    OBVIOUS
  <2>4. Same(o.secs[k], s, Tweaks) /\ s.size = o.secs[k].size /\ s.id = o.secs[k].id
        /\ s.sym = o.secs[k].sym
    BY <2>2, <2>3 DEF Same, Tweaks, SectionFields
  <2>5. /\ Same(o, q, {"secs", "work"}) /\ q.secs = [o.secs EXCEPT ![k] = s]
        /\ q.work = o.work /\ q.groups = o.groups /\ q.lnames = o.lnames /\ q.syms = o.syms
    BY <1>1, <2>1, <2>3 DEF Same, HandleFields
  <2>6. o.work \in {0} \cup DOMAIN o.secs /\ (o.lidata.on => o.work # 0)
    BY DEF Sound, HandleOK
  <2>7. Tweaked(o, q, k, s)
    BY <2>2, <2>4, <2>5, <2>6 DEF Tweaked
  <2>8. Keeps(o, q)
    BY <2>1, <2>4, <2>7, TweakKeeps
  <2> QED
    BY <2>5, <2>8
<1> QED
  BY <1>4, <1>5, <1>6

\* A change in the last group.
LEMMA GroupChanged ==
  ASSUME NEW o, Sound(o), NEW g, NEW x, NEW q, Same(o, q, {"groups"}),
         q.groups = [o.groups EXCEPT ![g] = x]
  PROVE  Costs(o, q, 0) /\ Sound(q)
<1>1. HandleOK(o) /\ DOMAIN o = HandleFields /\ IsList(o.groups) /\ o.blocks \in Int
  BY DEF Sound, HandleOK, ListsOK
<1>2. /\ DOMAIN q = HandleFields /\ q.ret = o.ret /\ q.blocks = o.blocks /\ q.secs = o.secs
      /\ q.next = o.next /\ q.segs = o.segs /\ q.comdats = o.comdats /\ q.lnames = o.lnames
      /\ q.externs = o.externs /\ q.syms = o.syms /\ q.relocs = o.relocs /\ q.notes = o.notes
      /\ q.lidata = o.lidata /\ q.bakpat = o.bakpat /\ q.work = o.work
  BY <1>1 DEF Same, HandleFields
<1>3. IsList(q.groups) /\ Len(q.groups) = Len(o.groups)
  BY <1>1, ListChanged, SMTT(30)
<1>4. ListsOK(q)
  BY <1>1, <1>2, <1>3 DEF ListsOK, HandleOK
<1>5. HandleOK(q)
  BY <1>1, <1>2, <1>4 DEF HandleOK
<1>6. Reached(q) = Reached(o)
  BY <1>1, <1>2, <1>3, <1>5, ReachedParts DEF OfNames, OfLists, OfNumbers, OfGroups
<1>7. Surplus(q) = Surplus(o) /\ Surplus(o) \in Int
  BY <1>1, <1>2, <1>6, ReachedType DEF Surplus, Waiting
<1> QED
  BY <1>2, <1>5, <1>7 DEF Costs, Sound

\* A list of segments that does not become that of a group is lost.
LEMMA AddsGrpDef ==
  ASSUME NEW o, Sound(o), NEW r, IsList(r.segs), NEW q, q = AddGrpDef(o, r)
  PROVE  Keeps(o, q) \/ (Costs(o, q, 1) /\ Sound(q) /\ q.ret # "OKAY")
<1>1. PICK list : list = [o EXCEPT !.blocks = @ + 1]
  OBVIOUS
<1>2. HandleOK(o) /\ DOMAIN o = HandleFields /\ o.blocks \in Int /\ IsList(o.groups) /\ o.ret \in Rets
  BY DEF Sound, HandleOK, ListsOK
<1>3. CASE r.name = 0
  <2>1. q = Fail(list, "ERROR")
    BY <1>1, <1>3 DEF AddGrpDef
  <2>2. /\ Same(o, q, Loose) /\ q.ret = "ERROR" /\ q.blocks = o.blocks + 1 /\ q.secs = o.secs
        /\ q.syms = o.syms /\ q.lidata = o.lidata /\ q.bakpat = o.bakpat
    BY <1>1, <1>2, <2>1 DEF Fail, Same, Loose, HandleFields
  <2>3. 1 \in Int /\ q.ret \in Rets
    BY <2>2, RetsAre
  <2>4. HandleOK(q) /\ Surplus(q) = Surplus(o) + 1
    BY <1>2, <2>2, <2>3, LooseChange
  <2> QED
    BY <2>2, <2>4 DEF Costs, Sound
<1>4. CASE r.name # 0
  <2>1. PICK n \in Nat : n = Len(o.groups)
    BY <1>2, ListIs
  <2>2. PICK g : g = n + 1
    OBVIOUS
  <2>3. PICK x : x = [segs |-> r.segs, sym |-> 0]
    OBVIOUS
  <2>4. PICK made : made = [Grown(list, n) EXCEPT !.groups = Append(@, x), !.blocks = @ + 1]
    OBVIOUS
  <2>5. PICK b \in Nat : b = NewArray(n)
    BY <2>1, TableGrows
  <2>6. PICK grown : grown = Grown(list, n)
    OBVIOUS
  <2>7. Same(o, grown, {"blocks"}) /\ grown.blocks = o.blocks + 1 + b
    BY <1>1, <1>2, <2>5, <2>6 DEF Grown, NewArray, Same, HandleFields
  <2>8. DOMAIN grown = HandleFields /\ grown.groups = o.groups
    BY <1>2, <2>7 DEF Same, HandleFields
  <2>9. /\ Same(grown, made, {"groups", "blocks"}) /\ made.groups = Append(o.groups, x)
        /\ made.blocks = grown.blocks + 1
    BY <2>4, <2>6, <2>8 DEF Same, HandleFields
  <2>10. Same(o, made, {"groups", "blocks"})
    BY <2>7, <2>9 DEF Same
  <2>11. made.blocks = o.blocks + (2 + b) /\ 2 + b \in Int /\ (2 + b) - (2 + b) = 0
    BY <1>2, <2>5, <2>7, <2>9
  <2>12. Costs(o, made, (2 + b) - (2 + NewArray(Len(o.groups))))
    BY <1>2, <2>9, <2>10, <2>11, GroupsGrown
  <2>13. Costs(o, made, 0)
    BY <2>1, <2>5, <2>11, <2>12
  <2>14. made.secs = o.secs /\ made.syms = o.syms
    BY <1>2, <2>10 DEF Same, HandleFields
  <2>15. Keeps(o, made)
    BY <2>13, <2>14 DEF Keeps, Sound
  <2>16. PICK rev : rev = Reverse(r.segs)
    OBVIOUS
  <2>17. IsList(rev)
    <3>1. Len(r.segs) \in Nat
      BY ListIs
    <3>2. rev = [i \in 1 .. Len(r.segs) |-> rev[i]]
      BY <2>16 DEF Reverse
    <3> QED
      BY <3>1, <3>2, ListMade
  <2>18. PICK st : /\ st[0] = made
                   /\ st[Len(rev)] = Joined(made, g, rev)
                   /\ \A i \in 1 .. Len(rev) : st[i] = Join(st[i - 1], g, rev[i])
    <3>1. PICK st : JoinedBy(st, made, g, rev)
      BY ONLY <2>17, JoinFold
    <3> QED
      BY ONLY <3>1 DEF JoinedBy
  <2> DEFINE Good == {i \in Nat : i <= Len(rev) => Keeps(o, st[i]) /\ st[i].syms = o.syms}
  <2>19. 0 \in Good
    BY <2>14, <2>15, <2>18
  <2>20. ASSUME NEW i \in Nat, i \in Good PROVE i + 1 \in Good
    <3>1. Len(rev) \in Nat
      BY <2>17, ListIs
    <3>2. CASE i + 1 <= Len(rev)
      <4>1. i <= Len(rev) /\ i + 1 \in 1 .. Len(rev) /\ (i + 1) - 1 = i
        BY <3>1, <3>2
      <4>2. Keeps(o, st[i]) /\ st[i].syms = o.syms
        BY <2>20, <4>1
      <4>3. st[i + 1] = Join(st[i], g, rev[i + 1])
        BY <2>18, <4>1
      <4>4. Sound(st[i])
        BY <4>2, KeepsSound
      <4>5. Keeps(st[i], st[i + 1]) /\ st[i + 1].syms = st[i].syms
        BY <4>3, <4>4, Joins
      <4>6. Keeps(o, st[i + 1])
        BY <1>2, <4>2, <4>5, KeepsInTurn DEF Keeps
      <4> QED
        BY <4>2, <4>5, <4>6
    <3>3. CASE ~(i + 1 <= Len(rev))
      BY <3>3
    <3> QED
      BY <3>2, <3>3
  <2> HIDE DEF Good
  <2>21. Nat \subseteq Good
    BY <2>19, <2>20, Induction
  <2>22. PICK c : c = st[Len(rev)]
    OBVIOUS
  <2>23. Keeps(o, c) /\ c.syms = o.syms /\ Sound(c)
    <3>1. Len(rev) \in Nat
      BY <2>17, ListIs
    <3> QED
      BY <2>21, <2>22, <3>1, KeepsSound DEF Good
  <2>24. PICK m : m = Len(o.syms) + 1
    OBVIOUS
  <2>25. PICK d : d = [c EXCEPT !.groups[g].sym = m]
    OBVIOUS
  <2>26. \/ q = c
         \/ \E how \in Rets : q = Fail(c, how)
         \/ \E name : q = AddSymbol(d, "group", name, g)
    <3>1. c = Joined(made, g, Reverse(r.segs))
      BY <2>16, <2>18, <2>22
    <3>2. q = IF c.ret = "OKAY"
              THEN IF o.lnames = <<>> THEN Fail(c, "assert")
                   ELSE IF LName(o, r.name) = NULL THEN Fail(c, "ERROR")
                   ELSE AddSymbol(d, "group", LName(o, r.name), g)
              ELSE c
      BY <1>1, <1>4, <2>1, <2>2, <2>3, <2>4, <2>24, <2>25, <3>1 DEF AddGrpDef, Then
    <3> QED
      BY <3>2, RetsAre
  <2>27. Costs(c, d, 0) /\ Sound(d) /\ d.syms = c.syms /\ d.secs = c.secs
    <3>1. DOMAIN c = HandleFields
      BY <2>23 DEF Sound, HandleOK
    <3>2. PICK y : y = [c.groups[g] EXCEPT !.sym = m]
      OBVIOUS
    <3>3. Same(c, d, {"groups"}) /\ d.groups = [c.groups EXCEPT ![g] = y]
          /\ d.syms = c.syms /\ d.secs = c.secs
      BY <2>25, <3>1, <3>2 DEF Same, HandleFields
    <3> QED
      BY <2>23, <3>3, GroupChanged
  <2>28. ASSUME NEW how \in Rets, q = Fail(c, how) PROVE Keeps(o, q)
    BY <1>2, <2>23, <2>28, FailsKeeping, KeepsInTurn DEF Keeps
  <2>29. ASSUME NEW name, q = AddSymbol(d, "group", name, g) PROVE Keeps(o, q)
    <3>1. Keeps(d, q)
      BY <2>27, <2>29, AddsSymbol DEF Sound
    <3>2. Keeps(c, q)
      BY <2>23, <2>27, <3>1, KeepsInTurn DEF Sound
    <3> QED
      BY <1>2, <2>23, <3>2, KeepsInTurn DEF Keeps
  <2> QED
    BY <2>23, <2>26, <2>28, <2>29
<1> QED
  BY <1>3, <1>4

\* What the contents grow to, unless the 32 bits do not hold it.
LEMMA Steps ==
  ASSUME NEW max \in Nat, max > 0, max < OffsetRange,
         NEW new, new = ((max \div CodeSize + 1) * CodeSize) % OffsetRange, ~(new < max)
  PROVE  new \in Nat /\ new > 0 /\ new % CodeSize = 0
<1>1. PICK c \in Nat \ {0} : c = CodeSize
  BY SizeAssumption
<1>2. PICK r \in Nat \ {0} : r = OffsetRange
  BY SizeAssumption
<1>3. c <= r
  BY <1>1, <1>2, SizeAssumption
<1>4. PICK d \in Nat : d = max \div c /\ d * c <= max /\ (max < c => d = 0)
  BY Arithmetic
<1>5. PICK m \in Nat : m = (d + 1) * c
  OBVIOUS
<1>6. m <= max + c
  BY <1>4, <1>5
<1>7. new = m % r /\ new \in Nat
  BY <1>1, <1>2, <1>4, <1>5, Arithmetic
<1>8. CASE m < r
  <2>1. new = m
    BY <1>7, <1>8, Arithmetic
  <2>2. m % c = 0
    BY <1>5, Arithmetic
  <2> QED
    BY <1>1, <1>7, <2>1, <2>2
<1>9. CASE r <= m
  <2>1. max < r
    BY <1>2
  <2>2. m < 2 * r
    BY <1>3, <1>6, <2>1
  <2>3. new = m - r
    BY <1>7, <1>9, <2>2, Arithmetic
  <2>4. CASE c < r
    BY <1>6, <2>3, <2>4
  <2>5. CASE c = r
    <3>1. d = 0
      BY <1>4, <2>1, <2>5
    <3>2. m = c
      BY <1>5, <3>1
    <3> QED
      BY <2>3, <2>5, <3>2
  <2> QED
    BY <1>3, <2>4, <2>5
<1> QED
  BY <1>8, <1>9

\* The contents of section k change, and those of no other section.
BytesChanged(o, q, k, bytes, n) ==
  /\ q = [o EXCEPT !.secs[k].bytes = bytes, !.blocks = @ + n]
  /\ n = Array(Len(bytes)) - Array(Len(o.secs[k].bytes))

LEMMA BytesKeep ==
  ASSUME NEW o, Sound(o), NEW k \in DOMAIN o.secs, NEW bytes, IsList(bytes),
         Len(bytes) % CodeSize = 0, NEW n \in Int, NEW q, BytesChanged(o, q, k, bytes, n)
  PROVE  /\ Keeps(o, q) /\ DOMAIN q.secs = DOMAIN o.secs
         /\ Same(o, q, {"secs", "blocks"})
<1>1. PICK s : s = o.secs[k]
  OBVIOUS
<1>2. SectionOK(s) /\ DOMAIN o = HandleFields /\ o.blocks \in Int
  BY <1>1 DEF Sound, HandleOK, SectionsOK
<1>3. PICK u : u = [s EXCEPT !.bytes = bytes]
  OBVIOUS
<1>4. /\ DOMAIN u = SectionFields /\ u.kind = s.kind /\ u.index = s.index /\ u.id = s.id
      /\ u.sym = s.sym /\ u.size = s.size /\ u.bytes = bytes /\ u.lines = s.lines
  BY <1>2, <1>3 DEF SectionOK, SectionFields
<1>5. SectionOK(u)
  BY <1>2, <1>4 DEF SectionOK
<1>6. /\ Same(o, q, {"secs", "blocks"}) /\ q.secs = [o.secs EXCEPT ![k] = u]
      /\ q.blocks = o.blocks + n /\ q.work = o.work /\ q.syms = o.syms
  BY <1>1, <1>2, <1>3 DEF Same, HandleFields, BytesChanged
<1>7. o.work \in {0} \cup DOMAIN o.secs /\ (o.lidata.on => o.work # 0) /\ IsList(o.syms)
  BY DEF Sound, HandleOK, ListsOK
<1>8. SectionReplaced(o, q, k, u)
  BY <1>1, <1>4, <1>6, <1>7 DEF SectionReplaced
<1>9. Same(o, q, {"secs", "work", "blocks"})
  BY <1>6 DEF Same
<1>10. /\ Costs(o, q, n - (Hangs(u) - Hangs(s))) /\ DOMAIN q.secs = DOMAIN o.secs
       /\ \A m \in Nat : Symboled(o.secs, m) /\ u.sym \in 0 .. m => Symboled(q.secs, m)
  <2>1. HandleOK(o) /\ q.blocks = o.blocks + n
    BY <1>6 DEF Sound
  <2>2. /\ Costs(o, q, n - (Hangs(u) - Hangs(o.secs[k]))) /\ DOMAIN q.secs = DOMAIN o.secs
        /\ \A m \in Nat : Symboled(o.secs, m) /\ u.sym \in 0 .. m => Symboled(q.secs, m)
    BY <1>5, <1>8, <1>9, <2>1, SectionChanged
  <2> QED
    BY <1>1, <2>2
<1>11. n - (Hangs(u) - Hangs(s)) = 0
  <2>1. PICK a \in Nat : a = Array(Len(bytes))
    BY ListIs DEF Array
  <2>2. PICK b \in Nat : b = Array(Len(s.bytes))
    BY DEF Array
  <2>3. PICK c \in Nat : c = IF s.lines = 0 THEN 0 ELSE 1
    OBVIOUS
  <2>4. Hangs(s) = b + c
    BY <2>2, <2>3 DEF Hangs, Array
  <2>5. Hangs(u) = a + c
    BY <1>4, <2>1, <2>3 DEF Hangs, Array
  <2>6. n = a - b
    BY <1>1, <2>1, <2>2 DEF BytesChanged
  <2> QED
    BY <2>4, <2>5, <2>6
<1>12. Symboled(q.secs, Len(q.syms))
  <2>1. Len(o.syms) \in Nat
    BY <1>7, ListIs
  <2>2. u.sym \in 0 .. Len(o.syms)
    BY <1>1, <1>4 DEF Sound, Symboled
  <2> QED
    BY <1>6, <1>10, <2>1, <2>2 DEF Sound
<1> QED
  BY <1>6, <1>10, <1>11, <1>12 DEF Keeps

LEMMA ChecksLength ==
  ASSUME NEW o, Sound(o), NEW k \in DOMAIN o.secs, NEW max \in Nat,
         NEW q, q = CheckSegmentLength(o, k, max)
  PROVE  /\ Keeps(o, q) /\ DOMAIN q.secs = DOMAIN o.secs
         /\ Same(o, q, {"secs", "blocks", "ret"})
<1>1. DOMAIN o = HandleFields /\ SectionOK(o.secs[k])
  BY DEF Sound, HandleOK, SectionsOK
<1>2. PICK old : old = o.secs[k].bytes
  OBVIOUS
<1>3. PICK new : new = ((max \div CodeSize + 1) * CodeSize) % OffsetRange
  OBVIOUS
<1>4. PICK bytes : bytes = [i \in 1 .. new |-> IF i <= Len(old) THEN old[i] ELSE 0]
  OBVIOUS
<1>5. PICK n : n = IF old = <<>> THEN 1 ELSE 0
  OBVIOUS
<1>6. IsList(old) /\ Len(old) \in Nat /\ (old = <<>> <=> Len(old) = 0)
  <2>1. IsList(old)
    BY <1>1, <1>2 DEF SectionOK
  <2>2. Len(old) = 0 => old = <<>>
    BY <2>1 DEF IsList
  <2> QED
    BY <2>1, <2>2, ListIs, NoList
<1>7. ASSUME NEW how \in Rets, q = Fail(o, how)
      PROVE  /\ Keeps(o, q) /\ DOMAIN q.secs = DOMAIN o.secs
             /\ Same(o, q, {"secs", "blocks", "ret"})
  BY <1>1, <1>7, FailsKeeping DEF Fail, Same, HandleFields
<1>8. CASE q = o
  BY <1>8, KeepsItself, SMTT(30) DEF Same
<1>9. \/ \E how \in Rets : q = Fail(o, how)
      \/ q = o
      \/ /\ ~(max > o.secs[k].size) /\ ~(max <= Len(old)) /\ ~(new < max)
         /\ q = [o EXCEPT !.secs[k].bytes = bytes, !.blocks = @ + n]
  BY <1>2, <1>3, <1>4, <1>5, RetsAre DEF CheckSegmentLength
<1>10. CASE /\ ~(max > o.secs[k].size) /\ ~(max <= Len(old)) /\ ~(new < max)
            /\ q = [o EXCEPT !.secs[k].bytes = bytes, !.blocks = @ + n]
  <2>1. max > 0
    BY <1>6, <1>10
  <2>2. max < OffsetRange
    <3>1. PICK size \in Nat : size = o.secs[k].size /\ size < OffsetRange
      BY <1>1, SizeAssumption DEF SectionOK
    <3> QED
      BY <1>10, <3>1, SizeAssumption
  <2>3. new \in Nat /\ new > 0 /\ new % CodeSize = 0
    BY <1>3, <1>10, <2>1, <2>2, Steps
  <2>4. bytes = [i \in 1 .. new |-> bytes[i]]
    BY <1>4
  <2>5. IsList(bytes) /\ Len(bytes) = new
    BY <2>3, <2>4, ListMade
  <2>6. n \in Int /\ n = Array(Len(bytes)) - Array(Len(old))
    BY <1>5, <1>6, <2>3, <2>5 DEF Array
  <2>7. /\ Keeps(o, q) /\ DOMAIN q.secs = DOMAIN o.secs /\ Same(o, q, {"secs", "blocks"})
    <3>1. BytesChanged(o, q, k, bytes, n)
      BY <1>2, <1>10, <2>6 DEF BytesChanged
    <3>2. Len(bytes) % CodeSize = 0
      BY <2>3, <2>5
    <3> QED
      BY <2>5, <2>6, <3>1, <3>2, BytesKeep
  <2> QED
    BY <2>7 DEF Same
<1> QED
  BY <1>7, <1>8, <1>9, <1>10

LEMMA PutKeeps ==
  ASSUME NEW o, Sound(o), NEW k \in DOMAIN o.secs, NEW at, NEW data, NEW q, q = Put(o, k, at, data)
  PROVE  /\ Keeps(o, q) /\ DOMAIN q.secs = DOMAIN o.secs
         /\ Same(o, q, {"secs", "blocks", "ret"})
<1>1. DOMAIN o = HandleFields /\ SectionOK(o.secs[k]) /\ o.blocks \in Int
  BY DEF Sound, HandleOK, SectionsOK
<1>2. PICK old : old = o.secs[k].bytes
  OBVIOUS
<1>3. PICK bytes : bytes = [i \in DOMAIN old |-> IF i \in at + 1 .. at + Len(data) THEN data[i - at] ELSE old[i]]
  OBVIOUS
<1>4. IsList(old) /\ Len(old) \in Nat /\ DOMAIN old = 1 .. Len(old)
  BY <1>1, <1>2, ListIs DEF SectionOK
<1>5. \/ q = Fail(o, "wild")
      \/ q = [o EXCEPT !.secs[k].bytes = bytes]
  BY <1>1, <1>2, <1>3 DEF Put, HandleFields, SectionOK, SectionFields
<1>6. CASE q = Fail(o, "wild")
  BY <1>1, <1>6, FailsKeeping, RetsAre DEF Fail, Same, HandleFields
<1>7. CASE q = [o EXCEPT !.secs[k].bytes = bytes]
  <2>1. bytes = [i \in 1 .. Len(old) |-> bytes[i]]
    BY <1>3, <1>4
  <2>2. IsList(bytes) /\ Len(bytes) = Len(old)
    BY <1>4, <2>1, ListMade
  <2>3. Len(bytes) % CodeSize = 0
    BY <1>1, <1>2, <2>2 DEF SectionOK
  <2>4. PICK n \in Int : n = 0
    OBVIOUS
  <2>5. Array(Len(old)) \in Nat
    BY DEF Array
  <2>6. n = Array(Len(bytes)) - Array(Len(old))
    BY <2>2, <2>4, <2>5
  <2>7. q = [o EXCEPT !.secs[k].bytes = bytes, !.blocks = @ + n]
    <3>1. o.blocks + n = o.blocks
      BY <1>1, <2>4
    <3>2. [o EXCEPT !.secs[k].bytes = bytes, !.blocks = @ + n] = [o EXCEPT !.secs[k].bytes = bytes, !.blocks = o.blocks]
      BY <1>1, <3>1 DEF HandleFields
    <3>3. [o EXCEPT !.secs[k].bytes = bytes, !.blocks = o.blocks] = [o EXCEPT !.secs[k].bytes = bytes]
      BY <1>1 DEF HandleFields
    <3> QED
      BY <1>7, <3>2, <3>3
  <2>8. /\ Keeps(o, q) /\ DOMAIN q.secs = DOMAIN o.secs /\ Same(o, q, {"secs", "blocks"})
    <3>1. BytesChanged(o, q, k, bytes, n)
      BY <1>2, <2>6, <2>7 DEF BytesChanged
    <3> QED
      BY <2>2, <2>3, <2>4, <3>1, BytesKeep
  <2> QED
    BY <2>8 DEF Same
<1> QED
  BY <1>5, <1>6, <1>7

\* What waits of iterated data changes, by n blocks of which d are to be given back.
Accounts(o, q, n, d) ==
  q.blocks = o.blocks + n /\ OfIterated(q.lidata) = OfIterated(o.lidata) + d

LEMMA IteratedChanged ==
  ASSUME NEW o, HandleOK(o), NEW q, Same(o, q, {"lidata", "blocks"}),
         IteratedOK(q.lidata), q.lidata.on => o.work # 0,
         NEW n \in Int, NEW d \in Int, Accounts(o, q, n, d)
  PROVE  /\ HandleOK(q) /\ Surplus(q) = Surplus(o) + (n - d) /\ q.bakpat = o.bakpat
         /\ q.secs = o.secs /\ q.syms = o.syms /\ q.ret = o.ret /\ q.work = o.work
<1>1. DOMAIN o = HandleFields /\ o.blocks \in Int
  BY DEF HandleOK
<1>2. /\ DOMAIN q = HandleFields /\ q.ret = o.ret /\ q.secs = o.secs /\ q.groups = o.groups
      /\ q.next = o.next /\ q.segs = o.segs /\ q.comdats = o.comdats /\ q.lnames = o.lnames
      /\ q.externs = o.externs /\ q.syms = o.syms /\ q.relocs = o.relocs /\ q.notes = o.notes
      /\ q.bakpat = o.bakpat /\ q.work = o.work
  BY <1>1 DEF Same, HandleFields
<1>3. ListsOK(q)
  BY <1>2 DEF ListsOK, HandleOK
<1>4. q.blocks \in Int /\ q.blocks = o.blocks + n
  BY <1>1 DEF Accounts
<1>5. HandleOK(q)
  BY <1>2, <1>3, <1>4 DEF HandleOK
<1>6. PICK m \in Int : m = Reached(o)
  BY ReachedType
<1>7. Reached(q) = m + d
  <2>1. PICK a \in Nat : a = OfIterated(o.lidata)
    BY ReachedParts
  <2>2. PICK rest \in Nat : rest = 1 + OfSections(o.secs) + OfNames(o) + OfLists(o)
                                   + OfSymbols(o.syms) + OfNumbers(o) + OfGroups(o.groups)
    BY ReachedParts
  <2>3. m = rest + a
    <3>1. Reached(o) = 1 + OfSections(o.secs) + OfNames(o) + OfLists(o) + OfSymbols(o.syms)
                         + OfNumbers(o) + OfGroups(o.groups) + OfIterated(o.lidata)
      BY ReachedParts
    <3> QED
      BY <1>6, <2>1, <2>2, <3>1
  <2>4. Reached(q) = rest + OfIterated(q.lidata)
    <3>1. Reached(q) = 1 + OfSections(q.secs) + OfNames(q) + OfLists(q) + OfSymbols(q.syms)
                         + OfNumbers(q) + OfGroups(q.groups) + OfIterated(q.lidata)
      BY <1>5, ReachedParts
    <3>2. OfNames(q) = OfNames(o) /\ OfLists(q) = OfLists(o) /\ OfNumbers(q) = OfNumbers(o)
      BY <1>2 DEF OfNames, OfLists, OfNumbers
    <3> QED
      BY <1>2, <2>2, <3>1, <3>2
  <2>5. OfIterated(q.lidata) = a + d
    BY <2>1 DEF Accounts
  <2> QED
    BY <2>1, <2>2, <2>3, <2>4, <2>5
<1>8. PICK w \in Int : w = Waiting(o) /\ w = Waiting(q)
  BY <1>2, ReachedType DEF Waiting
<1>9. PICK b \in Int : b = o.blocks
  BY <1>1
<1>10. Surplus(o) = b - m - w
  BY <1>6, <1>8, <1>9 DEF Surplus
<1>11. Surplus(q) = (b + n) - (m + d) - w
  BY <1>4, <1>7, <1>8, <1>9 DEF Surplus
<1>12. (b + n) - (m + d) - w = (b - m - w) + (n - d)
  OBVIOUS
<1> QED
  BY <1>2, <1>5, <1>10, <1>11, <1>12

\* A fixup behind iterated data waits; any other becomes a relocation, or is lost.
LEMMA AddsFixupp ==
  ASSUME NEW o, Sound(o), NEW f, NEW q, q = AddFixupp(o, f)
  PROVE  /\ o.lidata.on => /\ Sound(q) /\ Surplus(q) = Surplus(o) /\ q.lidata.on
                           /\ q.bakpat = o.bakpat
         /\ ~o.lidata.on => Sound(q) /\ (Costs(o, q, 0) \/ (Costs(o, q, 1) /\ q.ret = "ERROR"))
<1>1. HandleOK(o) /\ DOMAIN o = HandleFields /\ o.blocks \in Int /\ IteratedOK(o.lidata) /\ o.ret \in Rets
  BY DEF Sound, HandleOK
<1>2. PICK taken : taken = [o EXCEPT !.blocks = @ + 1]
  OBVIOUS
<1>3. CASE o.lidata.on
  <2>1. PICK x : x = Located(o, f)
    OBVIOUS
  <2>2. PICK l : l = [o.lidata EXCEPT !.fixups = Append(@, x)]
    OBVIOUS
  <2>3. q = [taken EXCEPT !.lidata.fixups = Append(@, x)]
    BY <1>2, <1>3, <2>1 DEF AddFixupp
  <2>4. Same(o, q, {"lidata", "blocks"}) /\ q.lidata = l /\ q.blocks = o.blocks + 1
    BY <1>1, <1>2, <2>2, <2>3 DEF Same, HandleFields
  <2>5. PICK fixups : fixups = o.lidata.fixups
    OBVIOUS
  <2>6. IsList(fixups) /\ o.lidata.made
    BY <1>1, <1>3, <2>5 DEF IteratedOK
  <2>7. PICK n \in Nat : n = Len(fixups)
    BY <2>6, ListIs
  <2>8. IsList(Append(fixups, x)) /\ Len(Append(fixups, x)) = n + 1
    BY <2>6, <2>7, ListAppended DEF AppendedTo
  <2>9. DOMAIN o.lidata = {"made", "on", "is32", "bytes", "fixups"}
    BY <1>1 DEF IteratedOK
  <2>10. /\ DOMAIN l = {"made", "on", "is32", "bytes", "fixups"} /\ l.fixups = Append(fixups, x)
         /\ l.made = o.lidata.made /\ l.on = o.lidata.on /\ l.is32 = o.lidata.is32
         /\ l.bytes = o.lidata.bytes
    BY <2>2, <2>5, <2>9
  <2>11. IteratedOK(l)
    BY <1>1, <2>6, <2>8, <2>10 DEF IteratedOK
  <2>12. OfIterated(l) = OfIterated(o.lidata) + 1
    BY <2>5, <2>6, <2>7, <2>8, <2>10 DEF OfIterated
  <2>13. 1 \in Int /\ 1 - 1 = 0
    OBVIOUS
  <2>14. o.work # 0
    BY <1>1, <1>3 DEF HandleOK
  <2>15. /\ HandleOK(q) /\ Surplus(q) = Surplus(o) + (1 - 1) /\ q.bakpat = o.bakpat
         /\ q.secs = o.secs /\ q.syms = o.syms
    <3>1. Accounts(o, q, 1, 1)
      BY <2>4, <2>12 DEF Accounts
    <3> QED
      BY <1>1, <2>4, <2>11, <2>13, <2>14, <3>1, IteratedChanged
  <2>16. Surplus(q) = Surplus(o)
    BY <1>1, <2>13, <2>15, ReachedType
  <2> QED
    BY <1>3, <2>4, <2>10, <2>15, <2>16 DEF Sound
<1>4. CASE ~o.lidata.on
  <2>1. /\ Same(o, taken, Loose) /\ taken.blocks = o.blocks + 1 /\ taken.ret = o.ret
        /\ taken.secs = o.secs /\ taken.syms = o.syms
        /\ taken.lidata = o.lidata /\ taken.bakpat = o.bakpat
    BY <1>1, <1>2 DEF Same, Loose, HandleFields
  <2>2. 1 \in Int /\ 1 + 0 = 1 /\ 1 + (0 - 1) = 0 /\ 0 - 1 \in Int /\ 0 \in Int
    OBVIOUS
  <2>3. HandleOK(taken) /\ Surplus(taken) = Surplus(o) + 1
    BY <1>1, <2>1, <2>2, LooseChange
  <2>4. Costs(o, taken, 1) /\ Sound(taken)
    BY <2>1, <2>3 DEF Costs, Sound
  <2>5. q = Fail(taken, "ERROR") \/ \E x : q = AddReloc(taken, x)
    BY <1>2, <1>4 DEF AddFixupp
  <2>6. CASE q = Fail(taken, "ERROR")
    <3>1. Keeps(taken, q) /\ q.ret = "ERROR"
      BY <2>4, <2>6, FailsKeeping, RetsAre
    <3>2. Costs(o, q, 1 + 0) /\ Sound(q)
      BY <1>1, <2>2, <2>4, <3>1, CostsInTurn, KeepsSound DEF Keeps
    <3> QED
      BY <1>4, <2>2, <3>1, <3>2
  <2>7. ASSUME NEW x, q = AddReloc(taken, x) PROVE Sound(q) /\ Costs(o, q, 0)
    <3>1. Costs(taken, q, 0 - 1) /\ Sound(q)
      BY <2>4, <2>7, AddsReloc
    <3>2. Costs(o, q, 1 + (0 - 1))
      BY <1>1, <2>2, <2>4, <3>1, CostsInTurn
    <3> QED
      BY <2>2, <3>1, <3>2
  <2> QED
    BY <1>4, <2>5, <2>6, <2>7
<1> QED
  BY <1>3, <1>4

\* A clone that becomes a relocation is one less, and the others are lost.
LEMMA AddsClone ==
  ASSUME NEW o, Sound(o), ~o.lidata.on, NEW f, NEW q, q = AddClone(o, f)
  PROVE  /\ Sound(q) /\ q.lidata = o.lidata /\ q.bakpat = o.bakpat
         /\ Surplus(q) >= Surplus(o) - 1 /\ (q.ret = "OKAY" => Surplus(q) = Surplus(o) - 1)
<1>1. PICK s \in Int : s = Surplus(o)
  BY ReachedType DEF Sound
<1>2. CASE o.ret # "OKAY"
  <2>1. q = o
    BY <1>2 DEF AddClone, Then
  <2> QED
    BY <1>1, <1>2, <2>1
<1>3. CASE o.ret = "OKAY"
  <2>1. PICK b : b = AddFixupp(o, f)
    OBVIOUS
  <2>2. Sound(b) /\ (Costs(o, b, 0) \/ (Costs(o, b, 1) /\ b.ret = "ERROR"))
    BY <2>1, AddsFixupp
  <2>3. b.lidata = o.lidata /\ b.bakpat = o.bakpat
    BY <2>2 DEF Costs
  <2>4. PICK m \in Int : m = Surplus(b)
    BY <2>2, ReachedType DEF Sound
  <2>5. CASE b.ret # "OKAY"
    <3>1. q = b
      BY <1>3, <2>1, <2>5 DEF AddClone, Then
    <3>2. m = s + 0 \/ m = s + 1
      BY <1>1, <2>2, <2>4 DEF Costs
    <3>3. m >= s - 1
      BY <3>2
    <3> QED
      BY <1>1, <2>2, <2>3, <2>4, <2>5, <3>1, <3>3
  <2>6. CASE b.ret = "OKAY"
    <3>1. q = [b EXCEPT !.blocks = @ - 1]
      BY <1>3, <2>1, <2>6 DEF AddClone, Then
    <3>2. HandleOK(b) /\ DOMAIN b = HandleFields /\ b.blocks \in Int /\ b.ret \in Rets
      BY <2>2 DEF Sound, HandleOK
    <3>3. /\ Same(b, q, Loose) /\ q.blocks = b.blocks - 1 /\ q.ret = b.ret
          /\ q.secs = b.secs /\ q.syms = b.syms /\ q.lidata = b.lidata /\ q.bakpat = b.bakpat
      BY <3>1, <3>2 DEF Same, Loose, HandleFields
    <3>4. q.blocks = b.blocks + (0 - 1) /\ 0 - 1 \in Int
      BY <3>2, <3>3
    <3>5. HandleOK(q) /\ Surplus(q) = Surplus(b) + (0 - 1)
      BY <3>2, <3>3, <3>4, LooseChange
    <3>6. "OKAY" # "ERROR"
      OBVIOUS
    <3>7. m = s + 0
      BY <1>1, <2>2, <2>4, <2>6, <3>6 DEF Costs
    <3>8. Surplus(q) = s - 1
      BY <2>4, <3>5, <3>7
    <3>9. Sound(q)
      BY <2>2, <3>3, <3>5 DEF Sound
    <3> QED
      BY <1>1, <2>3, <3>3, <3>8, <3>9
  <2> QED
    BY <2>5, <2>6
<1> QED
  BY <1>2, <1>3

\* All clones.
LEMMA AddsClones ==
  ASSUME NEW o, Sound(o), ~o.lidata.on, NEW s, IsList(s), NEW q, q = AddClones(o, s)
  PROVE  /\ Sound(q) /\ q.lidata = o.lidata /\ q.bakpat = o.bakpat
         /\ Surplus(q) >= Surplus(o) - Len(s)
         /\ q.ret = "OKAY" => Surplus(q) = Surplus(o) - Len(s)
<1>1. PICK st : /\ st[0] = o
                /\ st[Len(s)] = AddClones(o, s)
                /\ \A i \in 1 .. Len(s) : st[i] = AddClone(st[i - 1], s[i])
  BY CloneFold
<1>2. PICK n \in Nat : n = Len(s)
  BY ListIs
<1>3. PICK m \in Int : m = Surplus(o)
  BY ReachedType DEF Sound
<1> DEFINE Right(i) == /\ Sound(st[i]) /\ st[i].lidata = o.lidata /\ st[i].bakpat = o.bakpat
                       /\ Surplus(st[i]) >= m - i
                       /\ st[i].ret = "OKAY" => Surplus(st[i]) = m - i
           Good == {i \in Nat : i <= n => Right(i)}
<1>4. 0 \in Good
  BY <1>1, <1>3
<1>5. ASSUME NEW i \in Nat, i \in Good PROVE i + 1 \in Good
  <2>1. CASE i + 1 <= n
    <3>1. i <= n /\ i + 1 \in 1 .. n /\ (i + 1) - 1 = i
      BY <2>1
    <3>2. Right(i)
      BY <1>5, <3>1
    <3>3. st[i + 1] = AddClone(st[i], s[i + 1])
      BY <1>1, <1>2, <3>1
    <3>4. PICK p : p = st[i]
      OBVIOUS
    <3>5. PICK r : r = st[i + 1]
      OBVIOUS
    <3>6. Sound(p) /\ p.lidata = o.lidata /\ p.bakpat = o.bakpat /\ Surplus(p) >= m - i
          /\ (p.ret = "OKAY" => Surplus(p) = m - i)
      BY <3>2, <3>4
    <3>7. /\ Sound(r) /\ r.lidata = p.lidata /\ r.bakpat = p.bakpat
          /\ Surplus(r) >= Surplus(p) - 1 /\ (r.ret = "OKAY" => Surplus(r) = Surplus(p) - 1)
      BY <3>3, <3>4, <3>5, <3>6, AddsClone
    <3>8. PICK a \in Int : a = Surplus(p)
      BY <3>6, ReachedType DEF Sound
    <3>9. PICK b \in Int : b = Surplus(r)
      BY <3>7, ReachedType DEF Sound
    <3>10. b >= m - (i + 1)
      BY <3>6, <3>7, <3>8, <3>9
    <3>11. r.ret = "OKAY" => p.ret = "OKAY"
      BY <3>3, <3>4, <3>5 DEF AddClone, Then
    <3>12. r.ret = "OKAY" => b = m - (i + 1)
      BY <3>6, <3>7, <3>8, <3>9, <3>11
    <3> QED
      BY <3>5, <3>6, <3>7, <3>9, <3>10, <3>12
  <2>2. CASE ~(i + 1 <= n)
    BY <2>2
  <2> QED
    BY <2>1, <2>2
<1> HIDE DEF Good
<1>6. Nat \subseteq Good
  BY <1>4, <1>5, Induction
<1>7. Right(n)
  BY <1>6 DEF Good
<1> QED
  BY <1>1, <1>2, <1>3, <1>7

LEMMA BlocksMove ==
  ASSUME NEW o, Sound(o), NEW n \in Int, NEW q, q = [o EXCEPT !.blocks = @ + n]
  PROVE  /\ Sound(q) /\ Costs(o, q, n) /\ q.ret = o.ret /\ q.secs = o.secs /\ q.work = o.work
         /\ q.syms = o.syms /\ q.groups = o.groups /\ DOMAIN q = HandleFields
<1>1. HandleOK(o) /\ DOMAIN o = HandleFields /\ o.blocks \in Int /\ o.ret \in Rets
  BY DEF Sound, HandleOK
<1>2. /\ Same(o, q, Loose) /\ q.blocks = o.blocks + n /\ q.ret = o.ret /\ q.secs = o.secs
      /\ q.syms = o.syms /\ q.lidata = o.lidata /\ q.bakpat = o.bakpat /\ q.work = o.work
      /\ q.groups = o.groups /\ DOMAIN q = HandleFields
  BY <1>1 DEF Same, Loose, HandleFields
<1>3. HandleOK(q) /\ Surplus(q) = Surplus(o) + n
  BY <1>1, <1>2, LooseChange
<1> QED
  BY <1>2, <1>3 DEF Sound, Costs

\* The fixups of the iterated data have gone, and their blocks.
LEMMA FixupsFreed ==
  ASSUME NEW o, Sound(o), o.lidata.made,
         NEW q, q = [o EXCEPT !.lidata.fixups = <<>>, !.blocks = @ - Len(o.lidata.fixups)]
  PROVE  /\ Sound(q) /\ Surplus(q) = Surplus(o) /\ q.bakpat = o.bakpat /\ q.ret = o.ret
         /\ q.lidata.fixups = <<>> /\ q.lidata.on = o.lidata.on /\ q.lidata.made
<1>1. HandleOK(o) /\ DOMAIN o = HandleFields /\ o.blocks \in Int /\ IteratedOK(o.lidata)
  BY DEF Sound, HandleOK
<1>2. PICK l : l = o.lidata
  OBVIOUS
<1>3. DOMAIN l = {"made", "on", "is32", "bytes", "fixups"} /\ IsList(l.fixups) /\ l.made
  BY <1>1, <1>2 DEF IteratedOK
<1>4. PICK n \in Nat : n = Len(l.fixups)
  BY <1>3, ListIs
<1>5. PICK m : m = [l EXCEPT !.fixups = <<>>]
  OBVIOUS
<1>6. /\ DOMAIN m = {"made", "on", "is32", "bytes", "fixups"} /\ m.fixups = <<>>
      /\ m.made = l.made /\ m.on = l.on /\ m.is32 = l.is32 /\ m.bytes = l.bytes
  BY <1>3, <1>5
<1>7. IteratedOK(m)
  BY <1>1, <1>2, <1>6, NoList DEF IteratedOK
<1>8. Same(o, q, {"lidata", "blocks"}) /\ q.lidata = m /\ q.blocks = o.blocks - n
  BY <1>1, <1>2, <1>4, <1>5 DEF Same, HandleFields
<1>9. PICK d \in Int : d = 0 - n /\ d - d = 0
  BY <1>4
<1>10. q.blocks = o.blocks + d /\ OfIterated(m) = OfIterated(l) + d
  <2>1. q.blocks = o.blocks + d
    BY <1>1, <1>4, <1>8, <1>9
  <2>2. OfIterated(m) = OfIterated(l) + d
    BY <1>3, <1>4, <1>6, <1>9, NoList DEF OfIterated
  <2> QED
    BY <2>1, <2>2
<1>11. q.lidata.on => o.work # 0
  BY <1>1, <1>2, <1>6, <1>8 DEF HandleOK
<1>12. /\ HandleOK(q) /\ Surplus(q) = Surplus(o) + (d - d) /\ q.bakpat = o.bakpat
       /\ q.secs = o.secs /\ q.syms = o.syms /\ q.ret = o.ret
  <2>1. IteratedOK(q.lidata) /\ Accounts(o, q, d, d)
    BY <1>2, <1>7, <1>8, <1>10 DEF Accounts
  <2> QED
    <3>1. PICK e \in Int : e = d
      BY <1>9
    <3>2. Accounts(o, q, d, e)
      BY <2>1, <3>1
    <3>3. /\ HandleOK(q) /\ Surplus(q) = Surplus(o) + (d - e) /\ q.bakpat = o.bakpat
          /\ q.secs = o.secs /\ q.syms = o.syms /\ q.ret = o.ret
      <4>1. Same(o, q, {"lidata", "blocks"}) /\ HandleOK(o) /\ IteratedOK(q.lidata)
            /\ (q.lidata.on => o.work # 0)
        BY <1>1, <1>8, <1>11, <2>1
      <4> QED
        BY <3>2, <4>1, IteratedChanged
    <3> QED
      BY <3>1, <3>3
<1>13. Surplus(q) = Surplus(o)
  BY <1>1, <1>9, <1>12, ReachedType
<1> QED
  BY <1>2, <1>3, <1>6, <1>8, <1>12, <1>13 DEF Sound

\* The cursor of section k, which is worked on then.
CursorMoved(o, q, k, cur) == q = [o EXCEPT !.secs[k].cur = cur, !.work = k]

LEMMA CursorMoves ==
  ASSUME NEW o, Sound(o), NEW k \in DOMAIN o.secs, NEW cur, NEW q, CursorMoved(o, q, k, cur)
  PROVE  /\ Keeps(o, q) /\ DOMAIN q.secs = DOMAIN o.secs /\ q.work = k /\ q.ret = o.ret
<1>1. /\ HandleOK(o) /\ DOMAIN o = HandleFields /\ SectionOK(o.secs[k])
  BY DEF Sound, HandleOK, SectionsOK
<1>2. DOMAIN o.secs[k] = SectionFields /\ o.secs[k].size \in 0 .. OffsetRange - 1
  BY <1>1 DEF SectionOK
<1>3. PICK s : s = [o.secs[k] EXCEPT !.cur = cur]
  OBVIOUS
<1>4. Same(o.secs[k], s, Tweaks) /\ s.size = o.secs[k].size /\ s.id = o.secs[k].id
      /\ s.sym = o.secs[k].sym
  BY <1>2, <1>3 DEF Same, Tweaks, SectionFields
<1>5. /\ Same(o, q, {"secs", "work"}) /\ q.secs = [o.secs EXCEPT ![k] = s]
      /\ q.work = k /\ q.ret = o.ret
  BY <1>1, <1>3 DEF Same, HandleFields, CursorMoved
<1>6. k # 0
  <2>1. IsList(o.secs)
    BY <1>1 DEF HandleOK, SectionsOK
  <2> QED
    BY <2>1, ListIs
<1>7. Tweaked(o, q, k, s)
  BY <1>2, <1>4, <1>5, <1>6 DEF Tweaked
<1> QED
  BY <1>4, <1>5, <1>7, TweakKeeps

Expanded(o, q) ==
  /\ Sound(q) /\ ~q.lidata.on /\ q.bakpat = o.bakpat /\ Surplus(q) >= Surplus(o)
  /\ q.ret = "OKAY" => Surplus(q) = Surplus(o) /\ q.lidata.fixups = <<>>
  /\ o.lidata.fixups = <<>> => Surplus(q) = Surplus(o) /\ q.lidata.fixups = <<>>

\* Iterated data become what they stand for.
LEMMA Expands ==
  ASSUME NEW o, Sound(o), ~o.lidata.on, o.lidata.made, o.work \in DOMAIN o.secs, o.ret = "OKAY",
         NEW q, q = ExpandPrevLIData(o)
  PROVE  Expanded(o, q)
<1> DEFINE l == o.lidata
           hdr == HeaderSize(o, l.is32)
           all == WriteAndFixupLIData(hdr, l.bytes, l.fixups)
           visits == all.visits
           off == o.secs[o.work].cur
           bytes == Content(visits)
           clones == Clones(l.fixups, visits)
           put == Put(o, o.work, off, bytes)
           written == [put EXCEPT !.blocks = @ + Len(clones)]
           freed == [written EXCEPT !.lidata.fixups = <<>>, !.blocks = @ - Len(l.fixups)]
           cloned == AddClones(freed, clones)
           moved == [written EXCEPT !.secs[o.work].cur = off + Len(bytes)]
<1>0. q = IF all.ret \in Broken THEN Fail(o, all.ret)
           ELSE IF all.ret = "ERROR"
           THEN IF written.ret = "OKAY" THEN Fail(moved, "ERROR") ELSE written
           ELSE IF o.bakpat.on THEN Fail(o, "assert")
           ELSE IF cloned.ret = "OKAY"
                THEN IF LeadsToFreed(l.fixups, visits) THEN Fail(cloned, "wild") ELSE cloned
                ELSE cloned
  <2>1. q = PutVisited(o, all)
    BY DEF ExpandPrevLIData
  <2> HIDE DEF all
  <2> QED
    BY <2>1 DEF PutVisited, Then
<1>2. l = o.lidata
  OBVIOUS
<1>4. all = WriteAndFixupLIData(hdr, l.bytes, l.fixups)
  OBVIOUS
<1>5. hdr \in {4, 6}
  BY DEF HeaderSize
<1>6. visits = all.visits
  OBVIOUS
<1>8. off = o.secs[o.work].cur
  OBVIOUS
<1>9. bytes = Content(visits)
  OBVIOUS
<1>10. clones = Clones(l.fixups, visits)
  OBVIOUS
<1>13. put = Put(o, o.work, off, bytes)
  OBVIOUS
<1>16. written = [put EXCEPT !.blocks = @ + Len(clones)]
  OBVIOUS
<1>20. freed = [written EXCEPT !.lidata.fixups = <<>>, !.blocks = @ - Len(l.fixups)]
  OBVIOUS
<1>22. cloned = AddClones(freed, clones)
  OBVIOUS
<1>25. moved = [written EXCEPT !.secs[o.work].cur = off + Len(bytes)]
  OBVIOUS
<1> HIDE DEF l, hdr, all, visits, off, bytes, clones, put, written, freed, cloned, moved
<1>1. HandleOK(o) /\ DOMAIN o = HandleFields /\ IteratedOK(o.lidata)
  BY DEF Sound, HandleOK
<1>3. l.bytes \in Seq(Byte) /\ IsList(l.fixups) /\ ~l.on /\ l.made
  BY <1>1, <1>2 DEF IteratedOK
<1>7. IsList(visits)
  <2>1. PICK record \in Seq(Byte) : record = l.bytes
    BY <1>3
  <2>2. PICK fixups : fixups = l.fixups
    OBVIOUS
  <2>3. IsList(WriteAndFixupLIData(hdr, record, fixups).visits)
    BY <1>5, VisitsType
  <2> QED
    BY <1>4, <1>6, <2>1, <2>2, <2>3
<1>11. IsList(clones) /\ (l.fixups = <<>> => clones = <<>>)
  BY <1>3, <1>7, <1>10, ClonesType
<1>12. PICK n \in Nat : n = Len(clones) /\ (l.fixups = <<>> => n = 0)
  BY <1>11, ListIs, NoList
<1>14. Keeps(o, put) /\ DOMAIN put.secs = DOMAIN o.secs /\ Same(o, put, {"secs", "blocks", "ret"})
  BY <1>13, PutKeeps
<1>15. Sound(put) /\ put.work = o.work /\ Costs(o, put, 0)
  BY <1>1, <1>14, KeepsSound DEF Same, HandleFields, Keeps
<1>17. /\ Sound(written) /\ Costs(put, written, n) /\ written.work = o.work
       /\ DOMAIN written.secs = DOMAIN o.secs /\ DOMAIN written = HandleFields
  <2>1. written = [put EXCEPT !.blocks = @ + n]
    BY <1>12, <1>16
  <2> QED
    BY <1>12, <1>14, <1>15, <2>1, BlocksMove
<1>18. PICK s \in Int : s = Surplus(o)
  BY <1>1, ReachedType
<1>19. Surplus(written) = s + n /\ written.lidata = l /\ written.bakpat = o.bakpat
  BY <1>2, <1>15, <1>17, <1>18 DEF Costs
<1>21. /\ Sound(freed) /\ Surplus(freed) = s + n /\ freed.bakpat = o.bakpat
       /\ freed.lidata.fixups = <<>> /\ ~freed.lidata.on
  <2>1. freed = [written EXCEPT !.lidata.fixups = <<>>, !.blocks = @ - Len(written.lidata.fixups)]
    BY <1>19, <1>20
  <2>2. written.lidata.made
    BY <1>3, <1>19
  <2>3. /\ Sound(freed) /\ Surplus(freed) = Surplus(written) /\ freed.bakpat = written.bakpat
        /\ freed.lidata.fixups = <<>> /\ freed.lidata.on = written.lidata.on
    BY <1>17, <2>1, <2>2, FixupsFreed
  <2> QED
    BY <1>3, <1>19, <2>3
<1>23. /\ Sound(cloned) /\ cloned.lidata = freed.lidata /\ cloned.bakpat = o.bakpat
       /\ Surplus(cloned) >= s
       /\ cloned.ret = "OKAY" => Surplus(cloned) = s
  <2>1. /\ Sound(cloned) /\ cloned.lidata = freed.lidata /\ cloned.bakpat = freed.bakpat
        /\ Surplus(cloned) >= Surplus(freed) - Len(clones)
        /\ cloned.ret = "OKAY" => Surplus(cloned) = Surplus(freed) - Len(clones)
    BY <1>11, <1>21, <1>22, AddsClones
  <2>2. (s + n) - n = s
    OBVIOUS
  <2> QED
    BY <1>12, <1>21, <2>1, <2>2
<1>24. clones = <<>> => cloned = freed
  <2>1. PICK st : /\ st[0] = freed
                  /\ st[Len(clones)] = AddClones(freed, clones)
    BY <1>11, CloneFold
  <2> QED
    BY <1>22, <2>1, NoList
<1>26. CASE all.ret \in Broken
  <2>1. Keeps(o, q) /\ q.ret # "OKAY"
    <3>1. PICK how \in Rets : how = all.ret /\ how # "OKAY"
      BY <1>26, RetsAre DEF Broken
    <3>2. q = Fail(o, how)
      BY <1>0, <1>26, <3>1
    <3> QED
      BY <3>1, <3>2, FailsKeeping
  <2>2. Sound(q) /\ Surplus(q) = s + 0 /\ q.lidata = l /\ q.bakpat = o.bakpat
    BY <1>2, <1>18, <2>1, KeepsSound DEF Keeps, Costs
  <2>3. s + 0 = s /\ s >= s
    OBVIOUS
  <2> QED
    BY <1>2, <1>3, <1>18, <2>1, <2>2, <2>3 DEF Expanded
<1>27. CASE all.ret \notin Broken /\ all.ret = "ERROR"
  <2>1. l.fixups = <<>> => s + n = s
    BY <1>12
  <2>2. CASE written.ret # "OKAY"
    <3>1. q = written
      BY <1>0, <1>27, <2>2
    <3>2. s + n >= s
      BY <1>12
    <3> QED
      BY ONLY <1>2, <1>3, <1>17, <1>18, <1>19, <2>1, <2>2, <3>1, <3>2 DEF Expanded
  <2>3. CASE written.ret = "OKAY"
    <3>1. q = Fail(moved, "ERROR")
      BY <1>0, <1>27, <2>3
    <3>2. moved = [written EXCEPT !.secs[o.work].cur = off + Len(bytes), !.work = o.work]
      BY <1>17, <1>25 DEF HandleFields
    <3>3. Keeps(written, moved)
      <4>1. PICK k : k = o.work
        OBVIOUS
      <4>2. PICK cur : cur = off + Len(bytes)
        OBVIOUS
      <4>3. k \in DOMAIN written.secs
        BY <1>17, <4>1
      <4>4. CursorMoved(written, moved, k, cur)
        BY <3>2, <4>1, <4>2 DEF CursorMoved
      <4> QED
        BY <1>17, <4>3, <4>4, CursorMoves
    <3>4. Sound(moved)
      BY <3>3, KeepsSound
    <3>5. Keeps(moved, q) /\ q.ret = "ERROR"
      BY <3>1, <3>4, FailsKeeping, RetsAre
    <3>6. Keeps(written, q)
      BY <1>17, <3>3, <3>5, KeepsInTurn DEF Keeps, Sound
    <3>7. Sound(q) /\ Surplus(q) = (s + n) + 0 /\ q.lidata = l /\ q.bakpat = o.bakpat
      BY <1>19, <3>6, KeepsSound DEF Keeps, Costs
    <3>8. (s + n) + 0 >= s /\ (l.fixups = <<>> => (s + n) + 0 = s)
      BY <1>12
    <3> QED
      BY ONLY <1>2, <1>3, <1>18, <3>5, <3>7, <3>8 DEF Expanded
  <2> QED
    BY <2>2, <2>3
<1>28. CASE all.ret \notin Broken /\ all.ret # "ERROR" /\ o.bakpat.on
  <2>1. Keeps(o, q) /\ q.ret = "assert"
    BY <1>0, <1>28, FailsKeeping, RetsAre
  <2>2. Sound(q) /\ Surplus(q) = s + 0 /\ q.lidata = l /\ q.bakpat = o.bakpat
    BY <1>2, <1>18, <2>1, KeepsSound DEF Keeps, Costs
  <2>3. s + 0 = s /\ s >= s
    OBVIOUS
  <2> QED
    BY <1>2, <1>3, <1>18, <2>1, <2>2, <2>3 DEF Expanded
<1>29. CASE all.ret \notin Broken /\ all.ret # "ERROR" /\ ~o.bakpat.on
  <2>1. q = cloned \/ q = Fail(cloned, "wild")
    BY <1>0, <1>29
  <2>2. l.fixups = <<>> => Surplus(cloned) = s
    BY <1>11, <1>12, <1>21, <1>24
  <2>3. CASE q = cloned
    BY <1>2, <1>18, <1>21, <1>23, <2>2, <2>3 DEF Expanded
  <2>4. CASE q = Fail(cloned, "wild")
    <3>1. Keeps(cloned, q) /\ q.ret = "wild"
      BY <1>23, <2>4, FailsKeeping, RetsAre
    <3>2. PICK c \in Int : c = Surplus(cloned)
      BY <1>23, ReachedType DEF Sound
    <3>3. Sound(q) /\ Surplus(q) = c + 0 /\ q.lidata = cloned.lidata /\ q.bakpat = o.bakpat
      BY <1>23, <3>1, <3>2, KeepsSound DEF Keeps, Costs
    <3>4. Surplus(q) = c
      BY <3>3
    <3> QED
      BY <1>2, <1>18, <1>21, <1>23, <2>2, <3>1, <3>2, <3>3, <3>4 DEF Expanded
  <2> QED
    BY <2>1, <2>3, <2>4
<1> QED
  BY ONLY <1>26, <1>27, <1>28, <1>29

\* findComDatByName, and findSegment, find a section or nothing.
LEMMA Finds ==
  ASSUME NEW o, Sound(o), NEW i
  PROVE  /\ Find(o.segs, i) \in {0} \cup DOMAIN o.secs
         /\ ComDatByIndex(o, i) \in {0} \cup DOMAIN o.secs
         /\ \A name : SegOrComdat(o, i, name) \in {0} \cup DOMAIN o.secs
<1>1. Numbered(o.secs, o.segs, "seg") /\ Numbered(o.secs, o.comdats, "comdat")
  BY DEF Sound, HandleOK
<1>2. Find(o.segs, i) \in {0} \cup DOMAIN o.secs
  BY <1>1 DEF Find, Numbered
<1>3. ASSUME NEW ks \in SUBSET DOMAIN o.comdats, ks # {}
      PROVE  o.comdats[Min(ks)] \in DOMAIN o.secs
  <2>1. DOMAIN o.comdats = 1 .. Len(o.comdats) /\ Len(o.comdats) \in Nat
    BY <1>1, ListIs DEF Numbered
  <2>2. ks \subseteq Nat
    BY <2>1
  <2>3. Min(ks) \in ks
    BY <1>3, <2>2, LeastNumber DEF Min
  <2> QED
    BY <1>1, <2>3 DEF Numbered
<1>4. ComDatByIndex(o, i) \in {0} \cup DOMAIN o.secs
  <2>1. PICK ks : ks = {k \in DOMAIN o.comdats : o.secs[o.comdats[k]].name = i}
    OBVIOUS
  <2>2. ComDatByIndex(o, i) \in {0, o.comdats[Min(ks)]} /\ (ks = {} => ComDatByIndex(o, i) = 0)
    BY <2>1 DEF ComDatByIndex
  <2>3. ks \in SUBSET DOMAIN o.comdats
    BY <2>1
  <2> QED
    BY <1>3, <2>2, <2>3
<1>5. ASSUME NEW name PROVE SegOrComdat(o, i, name) \in {0} \cup DOMAIN o.secs
  <2> DEFINE Named(n) == \/ n = name
                         \/ /\ LName(o, name) # NULL
                            /\ SameName(LName(o, n), LName(o, name))
             ks == {k \in DOMAIN o.comdats : Named(o.secs[o.comdats[k]].name)}
  <2>1. SegOrComdat(o, i, name) = IF i # 0 THEN Find(o.segs, i) ELSE IF ks = {} THEN 0 ELSE o.comdats[Min(ks)]
    BY DEF SegOrComdat
  <2>2. ks \in SUBSET DOMAIN o.comdats
    OBVIOUS
  <2> HIDE DEF ks
  <2> QED
    BY <1>2, <1>3, <2>1, <2>2
<1> QED
  BY <1>2, <1>4, <1>5

\* A backpatch that is applied is one less, and the others are lost.
LEMMA AppliesBakpat ==
  ASSUME NEW o, Sound(o), NEW fix, NEW q, q = ApplyBakpat(o, fix)
  PROVE  /\ Sound(q) /\ q.lidata = o.lidata /\ q.bakpat = o.bakpat
         /\ Surplus(q) >= Surplus(o) - 1 /\ (q.ret = "OKAY" => Surplus(q) = Surplus(o) - 1)
         /\ q.ret = "OKAY" => o.ret = "OKAY"
<1>1. PICK s \in Int : s = Surplus(o)
  BY ReachedType DEF Sound
<1>2. PICK k : k = IF fix.seg # 0 THEN Find(o.segs, fix.seg) ELSE ComDatByIndex(o, fix.name)
  OBVIOUS
<1>3. k \in {0} \cup DOMAIN o.secs
  BY <1>2, Finds
<1>4. CASE o.ret # "OKAY"
  <2>1. q = o
    BY <1>4 DEF ApplyBakpat
  <2> QED
    BY <1>1, <1>4, <2>1
<1>5. ASSUME NEW how \in Rets \ {"OKAY"}, q = Fail(o, how)
      PROVE  /\ Sound(q) /\ q.lidata = o.lidata /\ q.bakpat = o.bakpat
             /\ Surplus(q) >= s - 1 /\ q.ret # "OKAY"
  <2>1. Keeps(o, q) /\ q.ret = how
    BY <1>5, FailsKeeping
  <2>2. Sound(q) /\ q.lidata = o.lidata /\ q.bakpat = o.bakpat /\ Surplus(q) = s + 0
    BY <1>1, <2>1, KeepsSound DEF Keeps, Costs
  <2>3. s + 0 >= s - 1
    OBVIOUS
  <2> QED
    BY <2>1, <2>2, <2>3
<1>6. PICK bytes : bytes = Patched(o.secs[k].bytes, fix)
  OBVIOUS
<1>7. PICK p : p = [o EXCEPT !.secs[k].bytes = bytes]
  OBVIOUS
<1>8. \/ o.ret # "OKAY"
      \/ \E how \in Rets \ {"OKAY"} : q = Fail(o, how)
      \/ /\ o.ret = "OKAY" /\ k # 0
         /\ q = [o EXCEPT !.secs[k].bytes = bytes, !.blocks = @ - 1]
  <2>1. {"assert", "ERROR", "wild"} \subseteq Rets \ {"OKAY"}
    BY DEF Rets, Broken
  <2>3. CASE fix.seg = 0 /\ o.comdats = <<>>
    BY <1>4, <2>1, <2>3 DEF ApplyBakpat
  <2>4. CASE ~(fix.seg = 0 /\ o.comdats = <<>>) /\ k = 0
    BY <1>2, <1>4, <2>1, <2>4 DEF ApplyBakpat
  <2>5. CASE /\ ~(fix.seg = 0 /\ o.comdats = <<>>) /\ k # 0
             /\ fix.off + fix.width > Len(o.secs[k].bytes)
    BY <1>2, <1>4, <2>1, <2>5 DEF ApplyBakpat
  <2>6. CASE /\ ~(fix.seg = 0 /\ o.comdats = <<>>) /\ k # 0
             /\ ~(fix.off + fix.width > Len(o.secs[k].bytes))
    <3>1. o.ret = "OKAY" => q = [o EXCEPT !.secs[k].bytes = Patched(@, fix), !.blocks = @ - 1]
      BY <1>2, <2>6 DEF ApplyBakpat
    <3>2. o.ret = "OKAY" => q = [o EXCEPT !.secs[k].bytes = bytes, !.blocks = @ - 1]
      BY <1>6, <3>1
    <3> QED
      BY <2>6, <3>2
  <2> QED
    BY <2>3, <2>4, <2>5, <2>6
<1>9. CASE /\ o.ret = "OKAY" /\ k # 0
           /\ q = [o EXCEPT !.secs[k].bytes = bytes, !.blocks = @ - 1]
  <2>1. /\ HandleOK(o) /\ DOMAIN o = HandleFields /\ SectionOK(o.secs[k]) /\ k \in DOMAIN o.secs
        /\ o.blocks \in Int
    BY <1>3, <1>9 DEF Sound, HandleOK, SectionsOK
  <2>2. PICK old : old = o.secs[k].bytes
    OBVIOUS
  <2>3. IsList(old) /\ Len(old) \in Nat /\ DOMAIN old = 1 .. Len(old) /\ Len(old) % CodeSize = 0
    BY <2>1, <2>2, ListIs DEF SectionOK
  <2>4. bytes = [i \in 1 .. Len(old) |-> bytes[i]]
    BY <1>6, <2>2, <2>3 DEF Patched
  <2>5. IsList(bytes) /\ Len(bytes) = Len(old)
    BY <2>3, <2>4, ListMade
  <2>6. PICK n \in Int : n = 0
    OBVIOUS
  <2>7. BytesChanged(o, p, k, bytes, n)
    <3>1. Array(Len(old)) \in Nat
      BY DEF Array
    <3>2. n = Array(Len(bytes)) - Array(Len(o.secs[k].bytes))
      BY <2>2, <2>5, <2>6, <3>1
    <3>3. o.blocks + n = o.blocks
      BY <2>1, <2>6
    <3>4. p = [o EXCEPT !.secs[k].bytes = bytes, !.blocks = @ + n]
      <4>1. [o EXCEPT !.secs[k].bytes = bytes, !.blocks = @ + n] = [o EXCEPT !.secs[k].bytes = bytes, !.blocks = o.blocks]
        BY <2>1, <3>3 DEF HandleFields
      <4>2. [o EXCEPT !.secs[k].bytes = bytes, !.blocks = o.blocks] = [o EXCEPT !.secs[k].bytes = bytes]
        BY <2>1 DEF HandleFields
      <4> QED
        BY <1>7, <4>1, <4>2
    <3> QED
      BY <3>2, <3>4 DEF BytesChanged
  <2>8. Keeps(o, p)
    BY <2>1, <2>3, <2>5, <2>7, BytesKeep
  <2>9. Sound(p) /\ Surplus(p) = s + 0 /\ p.lidata = o.lidata /\ p.bakpat = o.bakpat
    BY <1>1, <2>8, KeepsSound DEF Keeps, Costs
  <2>10. PICK m \in Int : m = 0 - 1
    OBVIOUS
  <2>11. q = [p EXCEPT !.blocks = @ + m]
    <3>1. p.blocks = o.blocks /\ o.blocks - 1 = o.blocks + m
      BY <1>7, <2>1, <2>10 DEF HandleFields
    <3>2. q = [[o EXCEPT !.secs[k].bytes = bytes] EXCEPT !.blocks = o.blocks - 1]
      BY <1>9, <2>1 DEF HandleFields
    <3> QED
      BY <1>7, <3>1, <3>2
  <2>12. Sound(q) /\ Costs(p, q, m)
    BY <2>9, <2>10, <2>11, BlocksMove
  <2>13. Surplus(q) = (s + 0) + m /\ q.lidata = o.lidata /\ q.bakpat = o.bakpat
    BY <2>9, <2>12 DEF Costs
  <2>14. (s + 0) + m = s - 1 /\ s - 1 >= s - 1
    BY <2>10
  <2> QED
    BY <1>1, <1>9, <2>12, <2>13, <2>14
<1> QED
  BY <1>1, <1>4, <1>5, <1>8, <1>9

\* All backpatches.
LEMMA AppliesAll ==
  ASSUME NEW o, Sound(o), NEW s, IsList(s), NEW q, q = ApplyAll(o, s)
  PROVE  /\ Sound(q) /\ q.lidata = o.lidata /\ q.bakpat = o.bakpat
         /\ Surplus(q) >= Surplus(o) - Len(s)
         /\ q.ret = "OKAY" => Surplus(q) = Surplus(o) - Len(s)
<1>1. PICK st : /\ st[0] = o
                /\ st[Len(s)] = ApplyAll(o, s)
                /\ \A i \in 1 .. Len(s) : st[i] = ApplyBakpat(st[i - 1], s[i])
  BY BakpatFold
<1>2. PICK n \in Nat : n = Len(s)
  BY ListIs
<1>3. PICK m \in Int : m = Surplus(o)
  BY ReachedType DEF Sound
<1> DEFINE Right(i) == /\ Sound(st[i]) /\ st[i].lidata = o.lidata /\ st[i].bakpat = o.bakpat
                       /\ Surplus(st[i]) >= m - i
                       /\ st[i].ret = "OKAY" => Surplus(st[i]) = m - i
           Good == {i \in Nat : i <= n => Right(i)}
<1>4. 0 \in Good
  BY <1>1, <1>3
<1>5. ASSUME NEW i \in Nat, i \in Good PROVE i + 1 \in Good
  <2>1. CASE i + 1 <= n
    <3>1. i <= n /\ i + 1 \in 1 .. n /\ (i + 1) - 1 = i
      BY <2>1
    <3>2. Right(i)
      BY <1>5, <3>1
    <3>3. st[i + 1] = ApplyBakpat(st[i], s[i + 1])
      BY <1>1, <1>2, <3>1
    <3>4. PICK p : p = st[i]
      OBVIOUS
    <3>5. PICK r : r = st[i + 1]
      OBVIOUS
    <3>6. Sound(p) /\ p.lidata = o.lidata /\ p.bakpat = o.bakpat /\ Surplus(p) >= m - i
          /\ (p.ret = "OKAY" => Surplus(p) = m - i)
      BY <3>2, <3>4
    <3>7. /\ Sound(r) /\ r.lidata = p.lidata /\ r.bakpat = p.bakpat
          /\ Surplus(r) >= Surplus(p) - 1 /\ (r.ret = "OKAY" => Surplus(r) = Surplus(p) - 1)
          /\ r.ret = "OKAY" => p.ret = "OKAY"
      BY <3>3, <3>4, <3>5, <3>6, AppliesBakpat
    <3>8. PICK a \in Int : a = Surplus(p)
      BY <3>6, ReachedType DEF Sound
    <3>9. PICK b \in Int : b = Surplus(r)
      BY <3>7, ReachedType DEF Sound
    <3>10. b >= m - (i + 1)
      BY <3>6, <3>7, <3>8, <3>9
    <3>11. r.ret = "OKAY" => b = m - (i + 1)
      BY <3>6, <3>7, <3>8, <3>9
    <3> QED
      BY <3>5, <3>6, <3>7, <3>9, <3>10, <3>11
  <2>2. CASE ~(i + 1 <= n)
    BY <2>2
  <2> QED
    BY <2>1, <2>2
<1> HIDE DEF Good
<1>6. Nat \subseteq Good
  BY <1>4, <1>5, Induction
<1>7. Right(n)
  BY <1>6 DEF Good
<1> QED
  BY <1>1, <1>2, <1>3, <1>7

\* The backpatches that wait change, by n blocks of which d wait.
Patches(o, q, n, d) == q.blocks = o.blocks + n /\ Waiting(q) = Waiting(o) + d

LEMMA BakpatsChanged ==
  ASSUME NEW o, Sound(o), NEW q, Same(o, q, {"bakpat", "blocks"}), BakpatsOK(q.bakpat),
         NEW n \in Int, NEW d \in Int, Patches(o, q, n, d)
  PROVE  /\ Sound(q) /\ Surplus(q) = Surplus(o) + (n - d) /\ q.lidata = o.lidata /\ q.ret = o.ret
<1>1. DOMAIN o = HandleFields /\ o.blocks \in Int /\ HandleOK(o)
  BY DEF Sound, HandleOK
<1>2. /\ DOMAIN q = HandleFields /\ q.ret = o.ret /\ q.secs = o.secs /\ q.groups = o.groups
      /\ q.next = o.next /\ q.segs = o.segs /\ q.comdats = o.comdats /\ q.lnames = o.lnames
      /\ q.externs = o.externs /\ q.syms = o.syms /\ q.relocs = o.relocs /\ q.notes = o.notes
      /\ q.lidata = o.lidata /\ q.work = o.work
  BY <1>1 DEF Same, HandleFields
<1>3. ListsOK(q)
  BY <1>1, <1>2 DEF ListsOK, HandleOK
<1>4. q.blocks = o.blocks + n /\ q.blocks \in Int
  BY <1>1 DEF Patches
<1>5. HandleOK(q)
  BY <1>1, <1>2, <1>3, <1>4 DEF HandleOK
<1>6. PICK m \in Int : m = Reached(o)
  BY <1>1, ReachedType
<1>7. Reached(q) = m
  BY <1>1, <1>2, <1>5, <1>6, ReachedParts DEF OfNames, OfLists, OfNumbers
<1>8. PICK w \in Int : w = Waiting(o)
  BY <1>1, ReachedType
<1>9. PICK b \in Int : b = o.blocks
  BY <1>1
<1>10. Surplus(o) = b - m - w
  BY <1>6, <1>8, <1>9 DEF Surplus
<1>11. Surplus(q) = (b + n) - m - (w + d)
  BY <1>4, <1>7, <1>8, <1>9 DEF Surplus, Patches
<1>12. (b + n) - m - (w + d) = (b - m - w) + (n - d)
  OBVIOUS
<1> QED
  BY <1>1, <1>2, <1>5, <1>10, <1>11, <1>12 DEF Sound

LEMMA AppliesBakpats ==
  ASSUME NEW o, Sound(o), o.bakpat.on, NEW q, q = ApplyBakpats(o)
  PROVE  /\ Sound(q) /\ q.lidata = o.lidata /\ ~q.bakpat.on /\ Surplus(q) >= Surplus(o)
         /\ q.ret = "OKAY" => Surplus(q) = Surplus(o)
<1>1. PICK fixes : fixes = o.bakpat.fixes
  OBVIOUS
<1>2. IsList(fixes) /\ o.bakpat.on = TRUE
  BY <1>1 DEF Sound, HandleOK, BakpatsOK
<1>3. PICK n \in Nat : n = Len(fixes)
  BY <1>2, ListIs
<1>4. PICK s \in Int : s = Surplus(o)
  BY ReachedType DEF Sound
<1>5. PICK all : all = ApplyAll(o, fixes)
  OBVIOUS
<1>6. /\ Sound(all) /\ all.lidata = o.lidata /\ all.bakpat = o.bakpat
      /\ Surplus(all) >= s - n /\ (all.ret = "OKAY" => Surplus(all) = s - n)
  BY <1>2, <1>3, <1>4, <1>5, AppliesAll
<1>7. PICK off : off = [on |-> FALSE, fixes |-> <<>>]
  OBVIOUS
<1>8. q = [all EXCEPT !.bakpat = off, !.blocks = @ - 1]
  BY <1>1, <1>5, <1>7 DEF ApplyBakpats
<1>9. DOMAIN all = HandleFields /\ all.blocks \in Int
  BY <1>6 DEF Sound, HandleOK
<1>10. Same(all, q, {"bakpat", "blocks"}) /\ q.bakpat = off /\ q.blocks = all.blocks - 1
  BY <1>8, <1>9 DEF Same, HandleFields
<1>11. BakpatsOK(off) /\ ~off.on
  BY <1>7, NoList DEF BakpatsOK
<1>12. Waiting(all) = 1 + n /\ Waiting(q) = 0
  BY <1>1, <1>3, <1>6, <1>10, <1>11 DEF Waiting
<1>13. PICK c \in Int : c = 0 - 1
  OBVIOUS
<1>14. PICK d \in Int : d = 0 - (1 + n)
  OBVIOUS
<1>15. Patches(all, q, c, d)
  BY <1>9, <1>10, <1>12, <1>13, <1>14 DEF Patches
<1>16. BakpatsOK(q.bakpat)
  BY <1>10, <1>11
<1>17. Sound(q) /\ Surplus(q) = Surplus(all) + (c - d) /\ q.lidata = all.lidata /\ q.ret = all.ret
  BY <1>6, <1>10, <1>15, <1>16, BakpatsChanged
<1>18. PICK t \in Int : t = Surplus(all)
  BY <1>6, ReachedType DEF Sound
<1>19. t >= s - n => t + (c - d) >= s
  BY <1>13, <1>14
<1>20. t = s - n => t + (c - d) = s
  BY <1>13, <1>14
<1> QED
  BY <1>4, <1>6, <1>10, <1>11, <1>17, <1>18, <1>19, <1>20

LEMMA AddsBakpat ==
  ASSUME NEW o, Sound(o), NEW fix, NEW q, q = AddBakpat(o, fix)
  PROVE  Sound(q) /\ Surplus(q) = Surplus(o) /\ q.lidata = o.lidata
<1>1. PICK t : t = IF o.bakpat.on THEN o ELSE [o EXCEPT !.bakpat.on = TRUE, !.blocks = @ + 1]
  OBVIOUS
<1>2. PICK s \in Int : s = Surplus(o)
  BY ReachedType DEF Sound
<1>3. DOMAIN o = HandleFields /\ o.blocks \in Int /\ BakpatsOK(o.bakpat)
  BY DEF Sound, HandleOK
<1>4. DOMAIN o.bakpat = {"on", "fixes"} /\ o.bakpat.on \in BOOLEAN
  BY <1>3 DEF BakpatsOK
<1>5. PICK one \in Int : one = 1
  OBVIOUS
<1>6. Sound(t) /\ Surplus(t) = s /\ t.lidata = o.lidata /\ t.bakpat.on
  <2>1. CASE o.bakpat.on
    BY <1>1, <1>2, <2>1
  <2>2. CASE ~o.bakpat.on
    <3>1. PICK b : b = [o.bakpat EXCEPT !.on = TRUE]
      OBVIOUS
    <3>2. DOMAIN b = {"on", "fixes"} /\ b.on = TRUE /\ b.fixes = o.bakpat.fixes
      BY <1>4, <3>1
    <3>3. o.bakpat.fixes = <<>>
      BY <1>3, <2>2 DEF BakpatsOK
    <3>4. BakpatsOK(b)
      BY <3>2, <3>3, NoList DEF BakpatsOK
    <3>5. Same(o, t, {"bakpat", "blocks"}) /\ t.bakpat = b /\ t.blocks = o.blocks + one
      BY <1>1, <1>3, <1>5, <2>2, <3>1 DEF Same, HandleFields
    <3>6. Waiting(o) = 0 /\ Waiting(t) = 1
      BY <2>2, <3>2, <3>3, <3>5, NoList DEF Waiting
    <3>7. PICK e \in Int : e = one
      OBVIOUS
    <3>8. Patches(o, t, one, e)
      BY <1>5, <3>5, <3>6, <3>7 DEF Patches
    <3>9. BakpatsOK(t.bakpat)
      BY <3>4, <3>5
    <3>10. Sound(t) /\ Surplus(t) = Surplus(o) + (one - e) /\ t.lidata = o.lidata
      BY <3>5, <3>8, <3>9, BakpatsChanged
    <3>11. s + (one - e) = s
      BY <3>7
    <3> QED
      BY <1>2, <3>2, <3>5, <3>10, <3>11
  <2> QED
    BY <2>1, <2>2
<1>7. \/ q = Fail(t, "ERROR")
      \/ q = [t EXCEPT !.bakpat.fixes = Append(@, fix), !.blocks = @ + 1]
  BY <1>1 DEF AddBakpat
<1>8. CASE q = Fail(t, "ERROR")
  <2>1. Keeps(t, q)
    BY <1>6, <1>8, FailsKeeping, RetsAre
  <2>2. Sound(q) /\ Surplus(q) = s + 0 /\ q.lidata = o.lidata
    BY <1>6, <2>1, KeepsSound DEF Keeps, Costs
  <2> QED
    BY <1>2, <2>2
<1>9. CASE q = [t EXCEPT !.bakpat.fixes = Append(@, fix), !.blocks = @ + 1]
  <2>1. DOMAIN t = HandleFields /\ t.blocks \in Int /\ BakpatsOK(t.bakpat)
    BY <1>6 DEF Sound, HandleOK
  <2>2. DOMAIN t.bakpat = {"on", "fixes"} /\ t.bakpat.on = TRUE /\ IsList(t.bakpat.fixes)
    BY <1>6, <2>1 DEF BakpatsOK
  <2>3. PICK fixes : fixes = t.bakpat.fixes
    OBVIOUS
  <2>4. PICK n \in Nat : n = Len(fixes)
    BY <2>2, <2>3, ListIs
  <2>5. IsList(Append(fixes, fix)) /\ Len(Append(fixes, fix)) = n + 1
    BY <2>2, <2>3, <2>4, ListAppended DEF AppendedTo
  <2>6. PICK b : b = [t.bakpat EXCEPT !.fixes = Append(fixes, fix)]
    OBVIOUS
  <2>7. DOMAIN b = {"on", "fixes"} /\ b.on = TRUE /\ b.fixes = Append(fixes, fix)
    BY <2>2, <2>6
  <2>8. BakpatsOK(b)
    BY <2>5, <2>7 DEF BakpatsOK
  <2>9. Same(t, q, {"bakpat", "blocks"}) /\ q.bakpat = b /\ q.blocks = t.blocks + one
    BY <1>5, <1>9, <2>1, <2>3, <2>6 DEF Same, HandleFields
  <2>10. Waiting(t) = 1 + n /\ Waiting(q) = 1 + (n + 1)
    BY <2>2, <2>3, <2>4, <2>5, <2>7, <2>9 DEF Waiting
  <2>11. PICK e \in Int : e = one
    OBVIOUS
  <2>12. Patches(t, q, one, e)
    BY <1>5, <2>9, <2>10, <2>11 DEF Patches
  <2>13. BakpatsOK(q.bakpat)
    BY <2>8, <2>9
  <2>14. Sound(q) /\ Surplus(q) = Surplus(t) + (one - e) /\ q.lidata = t.lidata
    BY <1>6, <2>9, <2>12, <2>13, BakpatsChanged
  <2>15. s + (one - e) = s
    BY <2>11
  <2> QED
    BY <1>2, <1>6, <2>14, <2>15
<1> QED
  BY <1>7, <1>8, <1>9

\* Fixups wait only behind iterated data that do.
Tidy(o) == o.lidata.fixups # <<>> => o.lidata.on

\* What a record of kind t makes of o: it never gives back what it has not taken; it
\* loses nothing, unless it fails, or forgets that an expansion has failed.
Tells(t, o, q) ==
  /\ Sound(q) /\ Surplus(q) >= Surplus(o)
  /\ t # "FIXUPP" /\ o.lidata.fixups = <<>> => q.lidata.fixups = <<>>
  /\ t # "BAKPAT" /\ ~o.bakpat.on => ~q.bakpat.on
  /\ /\ q.ret = "OKAY" /\ Tidy(o)
     /\ t \in {"FIXUPP", "BAKPAT"} \/ o.lidata.fixups = <<>> \/ ~o.bakpat.on
     => Surplus(q) = Surplus(o) /\ Tidy(q)
  /\ t \notin {"GRPDEF", "FIXUPP", "BAKPAT"} /\ o.lidata.fixups = <<>> /\ ~o.bakpat.on
     => Surplus(q) = Surplus(o)

LEMMA TellsSame ==
  ASSUME NEW o, Sound(o), NEW q, Sound(q), Surplus(q) = Surplus(o), q.lidata = o.lidata,
         q.bakpat = o.bakpat
  PROVE  \A t : Tells(t, o, q)
<1>1. PICK s \in Int : s = Surplus(o)
  BY ReachedType DEF Sound
<1>2. s >= s
  OBVIOUS
<1> QED
  BY <1>1, <1>2 DEF Tells, Tidy

LEMMA KeepsTells ==
  ASSUME NEW o, Sound(o), NEW q, Keeps(o, q)
  PROVE  \A t : Tells(t, o, q)
<1>1. PICK s \in Int : s = Surplus(o)
  BY ReachedType DEF Sound
<1>2. Surplus(q) = s + 0 /\ q.lidata = o.lidata /\ q.bakpat = o.bakpat /\ Sound(q)
  BY <1>1, KeepsSound DEF Keeps, Costs
<1>3. Surplus(q) = s
  BY <1>2
<1> QED
  BY <1>1, <1>2, <1>3, TellsSame

LEMMA TellsInTurn ==
  ASSUME NEW t, NEW o, Sound(o), NEW p, Tells(t, o, p), p.ret = "OKAY", NEW q, Tells(t, p, q)
  PROVE  Tells(t, o, q)
<1>1. PICK a \in Int : a = Surplus(o)
  BY ReachedType DEF Sound
<1>2. PICK b \in Int : b = Surplus(p)
  BY ReachedType DEF Sound, Tells
<1>3. PICK c \in Int : c = Surplus(q)
  BY ReachedType DEF Sound, Tells
<1>4. Sound(q) /\ Surplus(q) >= Surplus(o)
  <2>1. b >= a /\ c >= b
    BY <1>1, <1>2, <1>3 DEF Tells
  <2>2. c >= a
    BY <2>1
  <2> QED
    BY <1>1, <1>3, <2>2 DEF Tells
<1>5. t # "FIXUPP" /\ o.lidata.fixups = <<>> => q.lidata.fixups = <<>>
  BY DEF Tells
<1>6. t # "BAKPAT" /\ ~o.bakpat.on => ~q.bakpat.on
  BY DEF Tells
<1>7. ASSUME q.ret = "OKAY", Tidy(o), t \in {"FIXUPP", "BAKPAT"} \/ o.lidata.fixups = <<>> \/ ~o.bakpat.on
      PROVE  Surplus(q) = Surplus(o) /\ Tidy(q)
  <2>1. Surplus(p) = Surplus(o) /\ Tidy(p)
    BY <1>7 DEF Tells
  <2>2. t \in {"FIXUPP", "BAKPAT"} \/ p.lidata.fixups = <<>> \/ ~p.bakpat.on
    BY <1>7 DEF Tells
  <2> QED
    BY <1>7, <2>1, <2>2 DEF Tells
<1>8. ASSUME t \notin {"GRPDEF", "FIXUPP", "BAKPAT"}, o.lidata.fixups = <<>>, ~o.bakpat.on
      PROVE  Surplus(q) = Surplus(o)
  <2>1. p.lidata.fixups = <<>> /\ ~p.bakpat.on /\ Surplus(p) = Surplus(o)
    BY <1>8 DEF Tells
  <2> QED
    BY <1>8, <2>1 DEF Tells
<1> QED
  BY <1>4, <1>5, <1>6, <1>7, <1>8 DEF Tells

\* The ret of a handle, and what else no block hangs on.
LEMMA LooseSame ==
  ASSUME NEW o, Sound(o), NEW q, Same(o, q, Loose \ {"blocks"}), q.ret \in Rets
  PROVE  /\ Sound(q) /\ Surplus(q) = Surplus(o) /\ q.lidata = o.lidata /\ q.bakpat = o.bakpat
<1>1. DOMAIN o = HandleFields /\ o.blocks \in Int /\ HandleOK(o)
  BY DEF Sound, HandleOK
<1>2. q.blocks = o.blocks /\ q.secs = o.secs /\ q.syms = o.syms /\ q.lidata = o.lidata /\ q.bakpat = o.bakpat
  BY <1>1 DEF Same, Loose, HandleFields
<1>3. Same(o, q, Loose)
  BY DEF Same
<1>4. PICK n \in Int : n = 0
  OBVIOUS
<1>5. q.blocks = o.blocks + n
  BY <1>1, <1>2, <1>4
<1>6. HandleOK(q) /\ Surplus(q) = Surplus(o) + n
  BY <1>1, <1>3, <1>5, LooseChange
<1>7. PICK s \in Int : s = Surplus(o)
  BY <1>1, ReachedType
<1>8. Surplus(q) = s
  BY <1>4, <1>6, <1>7
<1> QED
  BY <1>2, <1>6, <1>7, <1>8 DEF Sound

\* finishPrevWork: when it succeeds nothing waits any more.
LEMMA Finishes ==
  ASSUME NEW o, Sound(o), o.ret = "OKAY", NEW q, q = FinishPrevWork(o)
  PROVE  /\ \A t : t \notin {"FIXUPP", "BAKPAT"} => Tells(t, o, q)
         /\ q.ret = "OKAY" => ~q.lidata.on /\ ~q.bakpat.on
<1>1. /\ HandleOK(o) /\ DOMAIN o = HandleFields /\ IteratedOK(o.lidata)
      /\ o.work \in {0} \cup DOMAIN o.secs /\ (o.lidata.on => o.work # 0) /\ o.blocks \in Int
  BY DEF Sound, HandleOK
<1>2. PICK l : l = [o EXCEPT !.lidata.on = FALSE]
  OBVIOUS
<1>3. PICK p : p = IF o.lidata.on THEN ExpandPrevLIData(l) ELSE o
  OBVIOUS
<1>4. q = PatchAfter(p)
  BY <1>2, <1>3 DEF FinishPrevWork
<1>5. PICK s \in Int : s = Surplus(o)
  BY <1>1, ReachedType
<1>6. /\ Sound(p) /\ ~p.lidata.on /\ p.bakpat = o.bakpat /\ Surplus(p) >= s
      /\ p.ret = "OKAY" /\ Tidy(o) => Surplus(p) = s /\ p.lidata.fixups = <<>>
      /\ o.lidata.fixups = <<>> => Surplus(p) = s /\ p.lidata.fixups = <<>>
  <2>1. CASE o.lidata.on
    <3>1. DOMAIN o.lidata = {"made", "on", "is32", "bytes", "fixups"} /\ o.lidata.made
      BY <1>1, <2>1 DEF IteratedOK
    <3>2. PICK m : m = [o.lidata EXCEPT !.on = FALSE]
      OBVIOUS
    <3>3. /\ DOMAIN m = {"made", "on", "is32", "bytes", "fixups"} /\ m.on = FALSE
          /\ m.made = o.lidata.made /\ m.is32 = o.lidata.is32 /\ m.bytes = o.lidata.bytes
          /\ m.fixups = o.lidata.fixups
      BY <3>1, <3>2
    <3>4. IteratedOK(m)
      BY <1>1, <3>3 DEF IteratedOK
    <3>5. Same(o, l, {"lidata", "blocks"}) /\ l.lidata = m /\ l.blocks = o.blocks
      BY <1>1, <1>2, <3>2 DEF Same, HandleFields
    <3>6. PICK n \in Int : n = 0
      OBVIOUS
    <3>7. PICK d \in Int : d = 0
      OBVIOUS
    <3>8. Accounts(o, l, n, d)
      <4>1. OfIterated(m) = OfIterated(o.lidata) /\ OfIterated(o.lidata) \in Nat
        BY <1>1, <3>3, ReachedParts DEF OfIterated
      <4>2. o.blocks = o.blocks + n
        BY <1>1, <3>6
      <4>3. OfIterated(m) = OfIterated(o.lidata) + d
        BY <3>7, <4>1
      <4> QED
        BY <3>5, <4>2, <4>3 DEF Accounts
    <3>9. IteratedOK(l.lidata) /\ ~l.lidata.on
      BY <3>3, <3>4, <3>5
    <3>10. /\ HandleOK(l) /\ Surplus(l) = Surplus(o) + (n - d) /\ l.bakpat = o.bakpat
           /\ l.secs = o.secs /\ l.syms = o.syms /\ l.ret = o.ret /\ l.work = o.work
      BY <1>1, <3>5, <3>8, <3>9, IteratedChanged
    <3>11. Sound(l) /\ Surplus(l) = s
      BY <1>5, <3>6, <3>7, <3>10 DEF Sound
    <3>12. l.work \in DOMAIN l.secs
      BY <1>1, <2>1, <3>10
    <3>13. p = ExpandPrevLIData(l) /\ l.lidata.made
      BY <1>3, <2>1, <3>1, <3>3, <3>5
    <3>14. Expanded(l, p)
      BY <3>9, <3>10, <3>11, <3>12, <3>13, Expands
    <3> QED
      BY <3>3, <3>5, <3>10, <3>11, <3>14 DEF Expanded
  <2>2. CASE ~o.lidata.on
    <3>1. p = o
      BY <1>3, <2>2
    <3>2. s >= s
      OBVIOUS
    <3> QED
      BY <1>5, <2>2, <3>1, <3>2 DEF Tidy
  <2> QED
    BY <2>1, <2>2
<1>7. CASE p.ret \in Broken \/ ~p.bakpat.on
  <2>1. q = p
    BY <1>4, <1>7 DEF PatchAfter
  <2>2. p.ret = "OKAY" => ~p.bakpat.on
    BY <1>7 DEF Broken
  <2>3. p.ret = "OKAY" /\ Tidy(o) => Tidy(p)
    BY <1>6 DEF Tidy
  <2> QED
    BY <1>5, <1>6, <2>1, <2>2, <2>3 DEF Tells
<1>8. CASE p.ret \notin Broken /\ p.bakpat.on
  <2>1. PICK r : r = [p EXCEPT !.ret = "OKAY"]
    OBVIOUS
  <2>2. q = ApplyBakpats(r)
    BY <1>4, <1>8, <2>1 DEF PatchAfter
  <2>3. DOMAIN p = HandleFields
    BY <1>6 DEF Sound, HandleOK
  <2>4. Same(p, r, Loose \ {"blocks"}) /\ r.ret = "OKAY"
    BY <2>1, <2>3 DEF Same, Loose, HandleFields
  <2>5. Sound(r) /\ Surplus(r) = Surplus(p) /\ r.lidata = p.lidata /\ r.bakpat = p.bakpat
    BY <1>6, <2>4, RetsAre, LooseSame
  <2>6. /\ Sound(q) /\ q.lidata = p.lidata /\ ~q.bakpat.on /\ Surplus(q) >= Surplus(p)
        /\ q.ret = "OKAY" => Surplus(q) = Surplus(p)
    BY <1>8, <2>2, <2>5, AppliesBakpats
  <2>7. PICK a \in Int : a = Surplus(p)
    BY <1>6, ReachedType DEF Sound
  <2>8. PICK b \in Int : b = Surplus(q)
    BY <2>6, ReachedType DEF Sound
  <2>9. b >= s
    BY <1>6, <2>6, <2>7, <2>8
  <2>10. o.bakpat.on
    BY <1>6, <1>8
  <2>11. o.lidata.fixups = <<>> => q.lidata.fixups = <<>> /\ Surplus(p) = s
    BY <1>6, <2>6
  <2>12. q.lidata.fixups = <<>> => Tidy(q)
    BY DEF Tidy
  <2> QED
    BY <1>5, <1>6, <2>6, <2>8, <2>9, <2>10, <2>11, <2>12 DEF Tells
<1> QED
  BY <1>7, <1>8

LEMMA PutsLEData ==
  ASSUME NEW o, Sound(o), NEW k \in {0} \cup DOMAIN o.secs, NEW off \in Nat, NEW data, Len(data) \in Nat,
         NEW q, q = PutLEData(o, k, off, data)
  PROVE  Keeps(o, q)
<1>1. CASE k = 0
  <2>1. q = Fail(o, "ERROR")
    BY <1>1 DEF PutLEData
  <2> QED
    BY <2>1, FailsKeeping, RetsAre
<1>2. CASE k # 0
  <2>1. PICK max \in Nat : max = (off + Len(data)) % OffsetRange
    <3>1. PICK n \in Nat : n = off + Len(data)
      OBVIOUS
    <3>2. n % OffsetRange \in Nat
      BY OffsetsFit
    <3> QED
      BY <3>1, <3>2, Zenon
  <2>2. k \in DOMAIN o.secs /\ HandleOK(o)
    BY <1>2 DEF Sound
  <2>3. PICK a : a = CheckSegmentLength(o, k, max)
    OBVIOUS
  <2>4. Keeps(o, a) /\ DOMAIN a.secs = DOMAIN o.secs /\ Sound(a)
    BY <2>2, <2>3, ChecksLength, KeepsSound
  <2>5. CASE a.ret # "OKAY"
    <3>1. q = a
      BY <1>2, <2>1, <2>3, <2>5 DEF PutLEData, Then
    <3> QED
      BY <2>4, <3>1
  <2>6. CASE a.ret = "OKAY"
    <3>1. PICK b : b = [a EXCEPT !.secs[k].cur = off, !.work = k]
      OBVIOUS
    <3>2. q = Put(b, k, off, data)
      BY <1>2, <2>1, <2>3, <2>6, <3>1 DEF PutLEData, Then
    <3>3. Keeps(a, b) /\ DOMAIN b.secs = DOMAIN a.secs /\ Sound(b)
      <4>0. CursorMoved(a, b, k, off)
        BY <3>1 DEF CursorMoved
      <4>1. k \in DOMAIN a.secs /\ Sound(a)
        BY <2>2, <2>4
      <4>2. Keeps(a, b) /\ DOMAIN b.secs = DOMAIN a.secs
        BY <4>0, <4>1, CursorMoves
      <4> QED
        BY <4>2, KeepsSound
    <3>4. Keeps(b, q)
      BY <2>2, <2>4, <3>2, <3>3, PutKeeps
    <3>5. Keeps(a, q)
      BY <2>4, <3>3, <3>4, KeepsInTurn DEF Keeps, Sound
    <3> QED
      BY <2>2, <2>4, <3>5, KeepsInTurn DEF Keeps
  <2> QED
    BY <2>5, <2>6
<1> QED
  BY <1>1, <1>2

\* Iterated data take the place of those before them, whose fixups are lost if they
\* still wait.
LEMMA PutsLIData ==
  ASSUME NEW o, Sound(o), ~o.lidata.on, NEW k \in {0} \cup DOMAIN o.secs, NEW off \in Nat,
         NEW blocks \in Seq(Blocks), NEW is32, NEW q, q = PutLIData(o, k, off, blocks, is32)
  PROVE  /\ \A t : Tells(t, o, q)
         /\ q.bakpat = o.bakpat
<1>1. CASE q = Fail(o, "ERROR")
  <2>1. Keeps(o, q)
    BY <1>1, FailsKeeping, RetsAre, SMTT(30)
  <2> QED
    BY <2>1, KeepsTells DEF Keeps, Costs
<1> DEFINE hdr == HeaderSize(o, is32)
           record == Encoded(hdr, blocks)
           lens == [i \in DOMAIN blocks |-> Lengths[blocks[i]]]
           max == (off + Total(lens)) % OffsetRange
           a == CheckSegmentLength(o, k, max)
           l == [made |-> TRUE, on |-> TRUE, is32 |-> is32, bytes |-> record, fixups |-> <<>>]
           more == IF a.lidata.made THEN 0 ELSE 1
           w == [a EXCEPT !.lidata = l, !.blocks = @ + more, !.secs[k].cur = off, !.work = k]
<1>2. \/ q = Fail(o, "ERROR")
      \/ k # 0 /\ q = IF a.ret = "OKAY" THEN Put(w, k, off, record) ELSE a
  BY DEF PutLIData, Then
<1>3. record \in Seq(Byte)
  BY EncodedType
<1>4. max \in Nat
  <2>1. DOMAIN blocks = 1 .. Len(blocks) /\ Len(blocks) \in Nat /\ \A i \in DOMAIN blocks : blocks[i] \in Blocks
    OBVIOUS
  <2>2. DOMAIN lens = 1 .. Len(blocks) /\ \A i \in 1 .. Len(blocks) : lens[i] \in Nat
    BY <2>1, LengthsType
  <2> HIDE DEF lens
  <2>3. Total(lens) \in Nat
    BY <2>1, <2>2, TotalType
  <2>4. PICK n \in Nat : n = off + Total(lens)
    BY <2>3
  <2>5. n % OffsetRange \in Nat
    BY OffsetsFit
  <2> QED
    BY <2>4, <2>5
<1>5. a = CheckSegmentLength(o, k, max)
  OBVIOUS
<1>6. /\ DOMAIN l = {"made", "on", "is32", "bytes", "fixups"} /\ l.made = TRUE /\ l.on = TRUE
      /\ l.bytes = record /\ l.fixups = <<>>
  OBVIOUS
<1>7. w = [a EXCEPT !.lidata = l, !.blocks = @ + more, !.secs[k].cur = off, !.work = k]
  OBVIOUS
<1>8. more = IF a.lidata.made THEN 0 ELSE 1
  OBVIOUS
<1> HIDE DEF hdr, record, lens, max, a, l, more, w
<1>9. CASE k # 0 /\ q = IF a.ret = "OKAY" THEN Put(w, k, off, record) ELSE a
  <2>1. k \in DOMAIN o.secs /\ HandleOK(o)
    BY <1>9 DEF Sound
  <2>2. Keeps(o, a) /\ DOMAIN a.secs = DOMAIN o.secs /\ Sound(a)
    BY <1>4, <1>5, <2>1, ChecksLength, KeepsSound
  <2>3. CASE a.ret # "OKAY"
    BY <1>9, <2>2, <2>3, KeepsTells DEF Keeps, Costs
  <2>4. CASE a.ret = "OKAY"
    <3>1. /\ a.lidata = o.lidata /\ a.bakpat = o.bakpat /\ DOMAIN a = HandleFields /\ a.blocks \in Int
          /\ HandleOK(a) /\ IteratedOK(a.lidata)
      BY <2>2 DEF Keeps, Costs, HandleOK
    <3>2. PICK s \in Int : s = Surplus(o)
      BY <2>1, ReachedType
    <3>3. Surplus(a) = s
      <4>1. Surplus(a) = s + 0
        BY <2>2, <3>2 DEF Keeps, Costs
      <4> QED
        BY <4>1
    <3>4. PICK b : b = [a EXCEPT !.secs[k].cur = off, !.work = k]
      OBVIOUS
    <3>5. Keeps(a, b) /\ DOMAIN b.secs = DOMAIN a.secs /\ Sound(b) /\ b.work = k /\ b.ret = "OKAY"
      <4>0. CursorMoved(a, b, k, off)
        BY <3>4 DEF CursorMoved
      <4>1. k \in DOMAIN a.secs /\ Sound(a)
        BY <2>1, <2>2
      <4>2. Keeps(a, b) /\ DOMAIN b.secs = DOMAIN a.secs /\ b.work = k /\ b.ret = a.ret
        BY <4>0, <4>1, CursorMoves
      <4> QED
        BY <2>4, <4>2, KeepsSound
    <3>6. /\ b.lidata = o.lidata /\ b.bakpat = o.bakpat /\ Surplus(b) = s /\ DOMAIN b = HandleFields
          /\ b.blocks = a.blocks
      <4>1. b.lidata = a.lidata /\ b.bakpat = a.bakpat /\ Surplus(b) = s + 0
        BY <3>3, <3>5 DEF Keeps, Costs
      <4>2. DOMAIN b = HandleFields /\ b.blocks = a.blocks
        BY <3>1, <3>4 DEF HandleFields
      <4> QED
        BY <3>1, <4>1, <4>2
    <3>7. PICK n \in Int : n = more
      BY <1>8
    <3>8. Same(b, w, {"lidata", "blocks"}) /\ w.lidata = l /\ w.blocks = b.blocks + n
      BY <1>7, <3>1, <3>4, <3>7 DEF Same, HandleFields
    <3>9. PICK u \in Nat : u = Len(o.lidata.fixups) /\ (o.lidata.fixups = <<>> => u = 0)
      BY <3>1, ListIs, NoList DEF IteratedOK
    <3>10. PICK d \in Int : d = n - u
      BY <3>7
    <3>11. OfIterated(l) = OfIterated(o.lidata) + d
      <4>1. OfIterated(l) = 1
        BY <1>6, NoList DEF OfIterated
      <4>2. CASE o.lidata.made
        <5>1. OfIterated(o.lidata) = 1 + u /\ n = 0
          BY <1>8, <3>1, <3>7, <3>9, <4>2 DEF OfIterated
        <5> QED
          BY <3>10, <4>1, <5>1
      <4>3. CASE ~o.lidata.made
        <5>1. OfIterated(o.lidata) = 0 /\ n = 1 /\ u = 0
          BY <1>8, <3>1, <3>7, <3>9, <4>3 DEF OfIterated, IteratedOK
        <5> QED
          BY <3>10, <4>1, <5>1
      <4> QED
        BY <4>2, <4>3
    <3>12. Accounts(b, w, n, d)
      BY <3>6, <3>8, <3>11 DEF Accounts
    <3>13. IteratedOK(w.lidata) /\ b.work # 0
      BY <1>3, <1>6, <1>9, <3>5, <3>8, NoList DEF IteratedOK
    <3>14. /\ HandleOK(w) /\ Surplus(w) = Surplus(b) + (n - d) /\ w.bakpat = b.bakpat
           /\ w.secs = b.secs /\ w.syms = b.syms
      BY <3>5, <3>8, <3>12, <3>13, IteratedChanged DEF Sound
    <3>15. Sound(w) /\ Surplus(w) = s + u /\ w.bakpat = o.bakpat
      <4>1. s + (n - d) = s + u
        BY <3>7, <3>10
      <4> QED
        BY <3>5, <3>6, <3>14, <4>1 DEF Sound
    <3>16. q = Put(w, k, off, record)
      BY <1>9, <2>4
    <3>17. k \in DOMAIN w.secs
      BY <2>1, <2>2, <3>5, <3>14
    <3>18. Keeps(w, q)
      BY <3>15, <3>16, <3>17, PutKeeps
    <3>19. Sound(q) /\ Surplus(q) = (s + u) + 0 /\ q.lidata = l /\ q.bakpat = o.bakpat
      BY <3>8, <3>15, <3>18, KeepsSound DEF Keeps, Costs
    <3>20. (s + u) + 0 >= s /\ (u = 0 => (s + u) + 0 = s)
      BY <3>9
    <3>21. q.lidata.fixups = <<>> /\ Tidy(q)
      BY <1>6, <3>19 DEF Tidy
    <3>22. Tidy(o) => o.lidata.fixups = <<>>
      BY DEF Tidy
    <3> QED
      BY <3>2, <3>9, <3>19, <3>20, <3>21, <3>22 DEF Tells
  <2> QED
    BY <2>3, <2>4
<1> QED
  BY <1>1, <1>2, <1>9

LEMMA AddsLEData ==
  ASSUME NEW o, Sound(o), o.ret = "OKAY", NEW seg, NEW off \in Nat, NEW data, Len(data) \in Nat,
         NEW q, q = AddLEData(o, seg, off, data)
  PROVE  Tells("LEDATA", o, q)
<1>1. PICK p : p = FinishPrevWork(o)
  OBVIOUS
<1>2. Tells("LEDATA", o, p)
  BY <1>1, Finishes
<1>3. CASE p.ret # "OKAY"
  BY <1>1, <1>2, <1>3 DEF AddLEData, Then
<1>4. CASE p.ret = "OKAY"
  <2>1. PICK k : k = Find(p.segs, seg)
    OBVIOUS
  <2>2. q = PutLEData(p, k, off, data)
    BY <1>1, <1>4, <2>1 DEF AddLEData, Then
  <2>3. Sound(p)
    BY <1>2 DEF Tells
  <2>4. Keeps(p, q)
    BY <2>1, <2>2, <2>3, Finds, PutsLEData
  <2> QED
    BY <1>2, <1>4, <2>3, <2>4, KeepsTells, TellsInTurn
<1> QED
  BY <1>3, <1>4

LEMMA AddsLIData ==
  ASSUME NEW o, Sound(o), o.ret = "OKAY", NEW seg, NEW off \in Nat, NEW blocks \in Seq(Blocks),
         NEW is32, NEW q, q = AddLIData(o, seg, off, blocks, is32)
  PROVE  Tells("LIDATA", o, q)
<1>1. PICK p : p = FinishPrevWork(o)
  OBVIOUS
<1>2. Tells("LIDATA", o, p) /\ (p.ret = "OKAY" => ~p.lidata.on)
  BY <1>1, Finishes
<1>3. CASE p.ret # "OKAY"
  BY <1>1, <1>2, <1>3 DEF AddLIData, Then
<1>4. CASE p.ret = "OKAY"
  <2>1. PICK k : k = Find(p.segs, seg)
    OBVIOUS
  <2>2. q = PutLIData(p, k, off, blocks, is32)
    BY <1>1, <1>4, <2>1 DEF AddLIData, Then
  <2>3. Sound(p)
    BY <1>2 DEF Tells
  <2>4. Tells("LIDATA", p, q)
    BY <1>2, <1>4, <2>1, <2>2, <2>3, Finds, PutsLIData
  <2> QED
    BY <1>2, <1>4, <2>4, TellsInTurn
<1> QED
  BY <1>3, <1>4

\* What keeps everything may come before.
LEMMA KeptTells ==
  ASSUME NEW t, NEW o, Sound(o), NEW p, Keeps(o, p), NEW q, Tells(t, p, q)
  PROVE  Tells(t, o, q)
<1>1. PICK s \in Int : s = Surplus(o)
  BY ReachedType DEF Sound
<1>2. Surplus(p) = s + 0 /\ p.lidata = o.lidata /\ p.bakpat = o.bakpat
  BY <1>1 DEF Keeps, Costs
<1>3. Surplus(p) = Surplus(o)
  BY <1>1, <1>2
<1> QED
  BY <1>2, <1>3 DEF Tells, Tidy

LEMMA SizesTo ==
  ASSUME NEW o, Sound(o), NEW k \in DOMAIN o.secs, NEW end \in 0 .. OffsetRange - 1,
         NEW q, q = SizedTo(o, k, end)
  PROVE  Keeps(o, q) /\ DOMAIN q.secs = DOMAIN o.secs
<1>1. /\ HandleOK(o) /\ DOMAIN o = HandleFields /\ SectionOK(o.secs[k]) /\ SectionsOK(o.secs)
      /\ o.work \in {0} \cup DOMAIN o.secs /\ (o.lidata.on => o.work # 0)
  BY DEF Sound, HandleOK, SectionsOK
<1>2. PICK old : old = o.secs[k].size
  OBVIOUS
<1>3. PICK new : new = Max({old, end})
  OBVIOUS
<1>4. OffsetRange \in Nat
  BY SizeAssumption
<1>5. DOMAIN o.secs[k] = SectionFields /\ old \in 0 .. OffsetRange - 1
  BY <1>1, <1>2 DEF SectionOK
<1>6. new \in {old, end}
  <2>1. old \in Int /\ end \in Int
    BY <1>4, <1>5
  <2>2. \E x \in {old, end} : \A y \in {old, end} : x >= y
    BY <2>1
  <2> QED
    BY <1>3, <2>2 DEF Max
<1>7. PICK s : s = [o.secs[k] EXCEPT !.size = new]
  OBVIOUS
<1>8. Same(o.secs[k], s, Tweaks) /\ s.size = new /\ s.id = o.secs[k].id /\ s.sym = o.secs[k].sym
  BY <1>5, <1>7 DEF Same, Tweaks, SectionFields
<1>9. Same(o, q, {"secs", "work"}) /\ q.secs = [o.secs EXCEPT ![k] = s] /\ q.work = o.work
  BY <1>1, <1>2, <1>3, <1>7 DEF SizedTo, Same, HandleFields
<1>10. Tweaked(o, q, k, s)
  BY <1>1, <1>5, <1>6, <1>8, <1>9 DEF Tweaked
<1> QED
  BY <1>8, <1>10, TweakKeeps

LEMMA PutsComDat ==
  ASSUME NEW o, Sound(o), ~o.lidata.on, NEW k \in DOMAIN o.secs, NEW r, r.off \in Nat,
         r.data \in Seq(Nat), r.blocks \in Seq(Blocks), NEW q, q = PutComDat(o, k, r)
  PROVE  Tells("COMDAT", o, q)
<1> DEFINE hdr == HeaderSize(o, r.is32)
           len == IF r.iter THEN Len(Encoded(hdr, r.blocks)) ELSE Len(r.data)
           end == (r.off + len) % OffsetRange
           sized == SizedTo(o, k, end)
<1>1. q = IF r.iter THEN PutLIData(sized, k, r.off, r.blocks, r.is32)
          ELSE PutLEData(sized, k, r.off, r.data)
  BY DEF PutComDat
<1>3. Len(r.data) \in Nat
  OBVIOUS
<1>4. sized = SizedTo(o, k, end)
  OBVIOUS
<1> HIDE DEF hdr, sized
<1>5. len \in Nat
  <2>1. Encoded(hdr, r.blocks) \in Seq(Byte)
    BY EncodedType
  <2> QED
    BY <1>3, <2>1
<1>6. end \in 0 .. OffsetRange - 1
  <2>1. PICK n \in Nat : n = r.off + len
    BY <1>5
  <2>2. n % OffsetRange \in 0 .. OffsetRange - 1
    BY OffsetsFit
  <2> QED
    BY <2>1, <2>2
<1> HIDE DEF len, end
<1>7. PICK a : a = sized
  OBVIOUS
<1>8. a = SizedTo(o, k, end)
  BY <1>4, <1>7
<1>9. Keeps(o, a) /\ DOMAIN a.secs = DOMAIN o.secs
  BY <1>6, <1>8, SizesTo
<1>10. Sound(a) /\ ~a.lidata.on /\ k \in {0} \cup DOMAIN a.secs
  BY <1>9, KeepsSound DEF Keeps, Costs
<1>11. Tells("COMDAT", a, q)
  <2>1. PICK off \in Nat : off = r.off
    OBVIOUS
  <2>2. CASE r.iter
    <3>1. PICK blocks \in Seq(Blocks) : blocks = r.blocks
      OBVIOUS
    <3>2. PICK is32 : is32 = r.is32
      OBVIOUS
    <3>3. q = PutLIData(a, k, off, blocks, is32)
      BY <1>1, <1>7, <2>1, <2>2, <3>1, <3>2
    <3> QED
      BY <1>10, <3>3, PutsLIData
  <2>3. CASE ~r.iter
    <3>1. PICK data : data = r.data
      OBVIOUS
    <3>2. q = PutLEData(a, k, off, data) /\ Len(data) \in Nat
      BY <1>1, <1>3, <1>7, <2>1, <2>3, <3>1
    <3>3. Keeps(a, q)
      BY <1>10, <3>2, PutsLEData
    <3> QED
      BY <1>10, <3>3, KeepsTells
  <2> QED
    BY <2>2, <2>3
<1>12. Tells("COMDAT", o, a)
  BY <1>9, KeepsTells
<1> QED
  BY <1>9, <1>11, <1>12, KeptTells

LEMMA PlacesComDat ==
  ASSUME NEW o, Sound(o), ~o.lidata.on, NEW r, r.off \in Nat, r.data \in Seq(Nat),
         r.blocks \in Seq(Blocks), NEW q, q = PlaceComDat(o, r)
  PROVE  Tells("COMDAT", o, q)
<1>1. PICK k : k = IF r.cont THEN ComDatToContinue(o, r.name) ELSE Len(o.secs) + 1
  OBVIOUS
<1>2. PICK a : a = IF r.cont THEN o ELSE NewComDat(o, r)
  OBVIOUS
<1>3. \/ \E how \in Rets : q = Fail(o, how)
      \/ (r.cont => k # 0) /\ q = IF a.ret = "OKAY" THEN PutComDat(a, k, r) ELSE a
  BY <1>1, <1>2, RetsAre DEF PlaceComDat, Then
<1>4. ASSUME NEW how \in Rets, q = Fail(o, how) PROVE Tells("COMDAT", o, q)
  BY <1>4, FailsKeeping, KeepsTells
<1>5. CASE (r.cont => k # 0) /\ q = IF a.ret = "OKAY" THEN PutComDat(a, k, r) ELSE a
  <2>1. Keeps(o, a) /\ k \in DOMAIN a.secs
    <3>1. CASE r.cont
      <4>1. k = ComDatByIndex(o, r.name)
        BY <1>1, <3>1 DEF ComDatToContinue
      <4>2. k \in DOMAIN o.secs
        BY <1>5, <3>1, <4>1, Finds
      <4> QED
        BY <1>2, <3>1, <4>2, KeepsItself
    <3>2. CASE ~r.cont
      <4>1. k = Len(o.secs) + 1 /\ a = NewComDat(o, r)
        BY <1>1, <1>2, <3>2
      <4> QED
        BY <4>1, AddsComDat
    <3> QED
      BY <3>1, <3>2
  <2>2. Sound(a) /\ ~a.lidata.on
    BY <2>1, KeepsSound DEF Keeps, Costs
  <2>3. CASE a.ret # "OKAY"
    BY <1>5, <2>1, <2>3, KeepsTells
  <2>4. CASE a.ret = "OKAY"
    <3>1. q = PutComDat(a, k, r)
      BY <1>5, <2>4
    <3>2. Tells("COMDAT", a, q)
      BY <2>1, <2>2, <3>1, PutsComDat
    <3> QED
      BY <2>1, <3>2, KeptTells
  <2> QED
    BY <2>3, <2>4
<1> QED
  BY <1>3, <1>4, <1>5

LEMMA AddsComDatRecord ==
  ASSUME NEW o, Sound(o), o.ret = "OKAY", NEW r, r.off \in Nat, r.data \in Seq(Nat),
         r.blocks \in Seq(Blocks), NEW q, q = AddComDat(o, r)
  PROVE  Tells("COMDAT", o, q)
<1>1. PICK p : p = FinishPrevWork(o)
  OBVIOUS
<1>2. Tells("COMDAT", o, p) /\ (p.ret = "OKAY" => ~p.lidata.on)
  BY <1>1, Finishes
<1>3. CASE p.ret # "OKAY"
  BY <1>1, <1>2, <1>3 DEF AddComDat, Then
<1>4. CASE p.ret = "OKAY"
  <2>1. q = PlaceComDat(p, r)
    BY <1>1, <1>4 DEF AddComDat, Then
  <2>2. Sound(p)
    BY <1>2 DEF Tells
  <2>3. Tells("COMDAT", p, q)
    BY <1>2, <1>4, <2>1, <2>2, PlacesComDat
  <2> QED
    BY <1>2, <1>4, <2>3, TellsInTurn
<1> QED
  BY <1>3, <1>4

-----------------------------------------------------------------------------
(* The records.                                                            *)

Parted == {"EXTDEF", "CEXTDEF", "PUBDEF", "LNAMES", "FIXUPP", "BAKPAT"}

LEMMA FixuppTells ==
  ASSUME NEW o, Sound(o), NEW f, NEW q, q = AddFixupp(o, f)
  PROVE  Tells("FIXUPP", o, q)
<1>1. PICK s \in Int : s = Surplus(o)
  BY ReachedType DEF Sound
<1>2. s >= s /\ s + 1 >= s /\ s + 0 = s
  OBVIOUS
<1>3. CASE o.lidata.on
  <2>1. Sound(q) /\ Surplus(q) = Surplus(o) /\ q.lidata.on /\ q.bakpat = o.bakpat
    BY <1>3, AddsFixupp
  <2> QED
    BY <1>1, <1>2, <2>1 DEF Tells, Tidy
<1>4. CASE ~o.lidata.on
  <2>1. Sound(q) /\ (Costs(o, q, 0) \/ (Costs(o, q, 1) /\ q.ret = "ERROR"))
    BY <1>4, AddsFixupp
  <2>2. CASE Costs(o, q, 0)
    <3>1. Surplus(q) = s + 0 /\ q.lidata = o.lidata /\ q.bakpat = o.bakpat
      BY <1>1, <2>2 DEF Costs
    <3> QED
      BY <1>1, <1>2, <2>1, <3>1, TellsSame
  <2>3. CASE Costs(o, q, 1) /\ q.ret = "ERROR"
    <3>1. Surplus(q) = s + 1 /\ q.lidata = o.lidata /\ q.bakpat = o.bakpat
      BY <1>1, <2>3 DEF Costs
    <3> QED
      BY <1>1, <1>2, <2>1, <2>3, <3>1 DEF Tells
  <2> QED
    BY <2>1, <2>2, <2>3
<1> QED
  BY <1>3, <1>4

LEMMA BakpatTells ==
  ASSUME NEW o, Sound(o), NEW fix, NEW q, q = AddBakpat(o, fix)
  PROVE  Tells("BAKPAT", o, q)
<1>1. PICK s \in Int : s = Surplus(o)
  BY ReachedType DEF Sound
<1>2. s >= s
  OBVIOUS
<1>3. Sound(q) /\ Surplus(q) = Surplus(o) /\ q.lidata = o.lidata
  BY AddsBakpat
<1> QED
  BY <1>1, <1>2, <1>3 DEF Tells, Tidy

LEMMA LooseTells ==
  ASSUME NEW o, Sound(o), NEW q, Same(o, q, Loose \ {"blocks"}), q.ret \in Rets
  PROVE  \A t : Tells(t, o, q)
BY LooseSame, TellsSame

LEMMA ThreadTells ==
  ASSUME NEW o, Sound(o), NEW x, NEW q, q = SetThread(o, x)
  PROVE  \A t : Tells(t, o, q)
<1>1. DOMAIN o = HandleFields /\ o.ret \in Rets
  BY DEF Sound, HandleOK
<1>2. Same(o, q, {"frames", "targets"})
  BY <1>1 DEF SetThread, Same, HandleFields
<1>3. Same(o, q, Loose \ {"blocks"}) /\ q.ret \in Rets
  BY <1>1, <1>2 DEF Same, Loose, HandleFields
<1> QED
  BY <1>3, LooseTells

LEMMA SymbolTells ==
  ASSUME NEW o, Sound(o), NEW kind, NEW name, NEW of, NEW q, q = AddSymbol(o, kind, name, of)
  PROVE  \A t : Tells(t, o, q)
<1>1. Keeps(o, q)
  BY AddsSymbol DEF Sound
<1> QED
  BY <1>1, KeepsTells

LEMMA FailTells ==
  ASSUME NEW o, Sound(o), NEW how \in Rets, NEW q, q = Fail(o, how)
  PROVE  \A t : Tells(t, o, q)
<1>1. Keeps(o, q)
  BY FailsKeeping
<1> QED
  BY <1>1, KeepsTells

LEMMA ItselfTells ==
  ASSUME NEW o, Sound(o)
  PROVE  \A t : Tells(t, o, o)
BY KeepsItself, KeepsTells

LEMMA PartTells ==
  ASSUME NEW o, Sound(o), NEW r, r.t \in Parted, NEW x, NEW q, q = Part(o, r, x)
  PROVE  Tells(r.t, o, q)
<1>1. CASE o.ret # "OKAY"
  <2>1. q = o
    BY <1>1 DEF Part
  <2> QED
    BY <2>1, ItselfTells
<1>2. CASE o.ret = "OKAY" /\ r.t = "EXTDEF"
  <2>1. q = AddExtern(o, x, r.kind)
    BY <1>2 DEF Part
  <2>2. Keeps(o, q)
    BY <2>1, AddsExtern
  <2> QED
    BY <2>2, KeepsTells
<1>3. CASE o.ret = "OKAY" /\ r.t = "CEXTDEF"
  <2>1. q = AddComdatExtern(o, x)
    BY <1>3 DEF Part
  <2>2. Keeps(o, q)
    BY <2>1, AddsComdatExtern
  <2> QED
    BY <2>2, KeepsTells
<1>4. CASE o.ret = "OKAY" /\ r.t = "PUBDEF"
  <2>1. q = AddPubDef(o, r, x)
    BY <1>4 DEF Part
  <2>2. Keeps(o, q)
    BY <2>1, AddsPubDef
  <2> QED
    BY <2>2, KeepsTells
<1>5. CASE o.ret = "OKAY" /\ r.t = "LNAMES"
  <2>1. q = AddLName(o, x)
    BY <1>5 DEF Part
  <2>2. Keeps(o, q)
    BY <2>1, AddsString DEF AddLName
  <2> QED
    BY <2>2, KeepsTells
<1>6. CASE o.ret = "OKAY" /\ r.t = "FIXUPP"
  <2>1. q = IF x.explicit THEN AddFixupp(o, Fixup(o, x)) ELSE SetThread(o, x)
    BY <1>6 DEF Part
  <2> QED
    BY <1>6, <2>1, FixuppTells, ThreadTells
<1>7. CASE o.ret = "OKAY" /\ r.t = "BAKPAT"
  <2>1. PICK fix : fix = [seg |-> r.seg, name |-> r.name, width |-> r.width,
                          off |-> x.off, disp |-> x.disp]
    OBVIOUS
  <2>2. q = AddBakpat(o, fix)
    BY <1>7, <2>1 DEF Part
  <2> QED
    BY <1>7, <2>2, BakpatTells
<1> QED
  BY <1>1, <1>2, <1>3, <1>4, <1>5, <1>6, <1>7 DEF Parted

LEMMA EachFold ==
  ASSUME NEW r, NEW o, NEW s, IsList(s)
  PROVE  \E st : /\ st[0] = o
                 /\ st[Len(s)] = Each(o, r, s)
                 /\ \A i \in 1 .. Len(s) : st[i] = Part(st[i - 1], r, s[i])
<1> DEFINE IsFold(h, D) ==
      h = [t \in SUBSET D |-> IF t = {} THEN o ELSE Part(h[t \ {Max(t)}], r, s[Max(t)])]
<1>1. \E h : IsFold(h, 1 .. 0)
  <2>1. \A t \in SUBSET (1 .. 0) : t = {}
    OBVIOUS
  <2> QED
    BY <2>1, IsFold([t \in SUBSET (1 .. 0) |-> o], 1 .. 0)
<1>2. ASSUME NEW n \in Nat, NEW h, IsFold(h, 1 .. n) PROVE \E u : IsFold(u, 1 .. n + 1)
  <2>1. PICK u : u = [t \in SUBSET (1 .. n + 1) |->
                        IF n + 1 \in t THEN Part(h[t \ {n + 1}], r, s[n + 1]) ELSE h[t]]
    OBVIOUS
  <2>2. \A t \in SUBSET (1 .. n) : u[t] = h[t]
    <3>1. \A t \in SUBSET (1 .. n) : t \in SUBSET (1 .. n + 1) /\ n + 1 \notin t
      OBVIOUS
    <3> QED
      BY <2>1, <3>1
  <2>3. \A t \in SUBSET (1 .. n + 1) :
          u[t] = IF t = {} THEN o ELSE Part(u[t \ {Max(t)}], r, s[Max(t)])
    BY <1>2, <2>1, <2>2, MaxOfPart
  <2>4. IsFold(u, 1 .. n + 1)
    BY <2>1, <2>3
  <2> QED
    BY <2>4
<1> HIDE DEF IsFold
<1>3. \A n \in Nat : \E h : IsFold(h, 1 .. n)
  <2> DEFINE T == {n \in Nat : \E h : IsFold(h, 1 .. n)}
  <2>1. 0 \in T /\ \A n \in Nat : n \in T => n + 1 \in T
    BY <1>1, <1>2
  <2> HIDE DEF T
  <2>2. Nat \subseteq T
    BY <2>1, Induction
  <2> QED
    BY <2>2 DEF T
<1>4. Len(s) \in Nat /\ DOMAIN s = 1 .. Len(s)
  BY ListIs
<1>5. PICK h : IsFold(h, DOMAIN s) /\ h[DOMAIN s] = Each(o, r, s)
  BY <1>3, <1>4 DEF IsFold, Each, FoldLeft, MapThenFoldSet
<1>6. PICK st : st = [i \in 0 .. Len(s) |-> h[1 .. i]]
  OBVIOUS
<1>7. \A i \in 0 .. Len(s) : st[i] = h[1 .. i] /\ 1 .. i \in SUBSET DOMAIN s
  BY <1>4, <1>6
<1>8. st[0] = o /\ st[Len(s)] = h[DOMAIN s]
  <2>1. 0 \in 0 .. Len(s) /\ Len(s) \in 0 .. Len(s) /\ 1 .. 0 = {}
    BY <1>4
  <2>2. h[{}] = o
    BY <1>5 DEF IsFold
  <2> QED
    BY <1>4, <1>7, <2>1, <2>2
<1>9. ASSUME NEW i \in 1 .. Len(s) PROVE st[i] = Part(st[i - 1], r, s[i])
  <2>1. i \in Nat \ {0} /\ i \in 0 .. Len(s) /\ i - 1 \in 0 .. Len(s)
    BY <1>4
  <2>2. 1 .. i # {} /\ Max(1 .. i) = i /\ (1 .. i) \ {i} = 1 .. i - 1
    BY <2>1, MaxOfFirst
  <2>3. h[1 .. i] = Part(h[(1 .. i) \ {Max(1 .. i)}], r, s[Max(1 .. i)])
    BY <1>5, <1>7, <2>1, <2>2 DEF IsFold
  <2> QED
    BY <1>7, <2>1, <2>2, <2>3
<1> QED
  BY <1>5, <1>8, <1>9

LEMMA EachTells ==
  ASSUME NEW o, Sound(o), NEW r, r.t \in Parted, NEW parts, IsList(parts),
         NEW q, q = Each(o, r, parts)
  PROVE  Tells(r.t, o, q)
<1>1. PICK n \in Nat : n = Len(parts)
  BY ListIs
<1>2. PICK st : /\ st[0] = o /\ st[n] = q
                /\ \A i \in 1 .. n : st[i] = Part(st[i - 1], r, parts[i])
  BY <1>1, EachFold
<1> DEFINE T == {i \in Nat : i <= n => Tells(r.t, o, st[i]) /\ Sound(st[i])}
<1>3. 0 \in T
  BY <1>2, ItselfTells DEF Tells
<1>4. ASSUME NEW i \in Nat, i \in T PROVE i + 1 \in T
  <2> SUFFICES ASSUME i + 1 <= n PROVE Tells(r.t, o, st[i + 1])
    BY DEF Tells
  <2>1. i + 1 \in 1 .. n /\ i <= n /\ (i + 1) - 1 = i
    BY <1>1
  <2>2. PICK p : p = st[i]
    OBVIOUS
  <2>3. PICK u : u = st[i + 1]
    OBVIOUS
  <2>4. Tells(r.t, o, p) /\ Sound(p) /\ u = Part(p, r, parts[i + 1])
    BY <1>2, <1>4, <2>1, <2>2, <2>3
  <2>5. CASE p.ret # "OKAY"
    BY <2>3, <2>4, <2>5 DEF Part
  <2>6. CASE p.ret = "OKAY"
    <3>1. Tells(r.t, p, u)
      BY <2>4, PartTells
    <3>2. Tells(r.t, o, u)
      BY <2>4, <2>6, <3>1, TellsInTurn
    <3> QED
      BY <2>3, <3>2
  <2> QED
    BY <2>5, <2>6
<1> HIDE DEF T
<1>5. Nat \subseteq T
  BY <1>3, <1>4, Induction
<1>6. n \in T /\ n <= n
  BY <1>1, <1>5
<1> QED
  BY <1>2, <1>6 DEF T

=============================================================================
