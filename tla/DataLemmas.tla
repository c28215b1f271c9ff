----------------------------- MODULE DataLemmas -----------------------------
(***************************************************************************)
(* Lemmas about numbers, finite sets, the sum over a set of numbers        *)
(* (SumFunctionOnSet of the community modules), for the proofs about the   *)
(* blocks that the program has allocated, and the elements of a list that  *)
(* are in a set (Those of Sublists), for those about its scans.            *)
(*                                                                         *)
(* Induction is by the least counterexample: the numbers are well-founded, *)
(* and WFMin gives every set of them a least element.  The property is a   *)
(* set here, so that a proof cites the lemma for the set of the numbers,   *)
(* or of the finite sets, that have the property.                          *)
(***************************************************************************)
EXTENDS Naturals, Sequences, FiniteSets, FiniteSetsExt, Functions, Sublists, TLAPS,
        WellFoundedInduction, FiniteSetTheorems, SequenceTheorems

-----------------------------------------------------------------------------
(* Induction.                                                              *)

\* The pairs of numbers in their order.
Below == {p \in Nat \X Nat : p[1] < p[2]}

\* Every set of numbers has an element with none of the set below it.
LEMMA BelowIsWellFounded == IsWellFoundedOn(Below, Nat)
BY NatLessThanWellFounded DEF OpToRel, Below

\* A set of numbers has a least one.
LEMMA LeastNumber ==
  ASSUME NEW T, T \subseteq Nat, T # {}
  PROVE  \E m \in T : \A n \in T : m <= n
<1>1. PICK m \in T : \A n \in T : <<n, m>> \notin Below
  BY BelowIsWellFounded, WFMin
<1>2. ASSUME NEW n \in T, n < m PROVE <<n, m>> \in Below
  BY <1>2 DEF Below
<1>3. \A n \in T : ~(n < m)
  BY <1>1, <1>2
<1>4. \A n \in T : m <= n
  BY <1>3
<1> QED
  BY <1>4

\* A set of numbers up to n has a greatest one.
LEMMA GreatestNumber ==
  ASSUME NEW n \in Nat, NEW T, T \subseteq 0 .. n, T # {}
  PROVE  \E m \in T : \A k \in T : k <= m
<1> DEFINE U == {k \in 0 .. n : n - k \in T}
<1>1. U \subseteq Nat /\ U # {}
  <2>1. PICK m \in T : TRUE
    OBVIOUS
  <2>2. n - m \in 0 .. n /\ n - (n - m) = m
    OBVIOUS
  <2> QED
    BY <2>1, <2>2
<1>2. PICK k \in U : \A j \in U : k <= j
  BY <1>1, LeastNumber
<1>3. ASSUME NEW m \in T PROVE m <= n - k
  <2>1. n - m \in U
    <3>1. n - m \in 0 .. n /\ n - (n - m) = m
      OBVIOUS
    <3> QED
      BY <3>1
  <2>2. k <= n - m
    BY <1>2, <2>1
  <2> QED
    BY <2>2
<1> QED
  BY <1>2, <1>3

\* A set with 0 and the successors of its elements has every number.
LEMMA Induction ==
  ASSUME NEW T, 0 \in T, \A n \in Nat : n \in T => n + 1 \in T
  PROVE  Nat \subseteq T
<1> SUFFICES ASSUME ~(Nat \subseteq T) PROVE FALSE
  OBVIOUS
<1>1. PICK m \in Nat \ T : \A n \in Nat \ T : m <= n
  BY LeastNumber
<1>2. m # 0
  OBVIOUS
<1>3. m - 1 \in Nat /\ ~(m <= m - 1)
  BY <1>2
<1>4. m - 1 \in T
  BY <1>1, <1>3
<1>5. (m - 1) + 1 \in T
  BY <1>3, <1>4
<1> QED
  BY <1>1, <1>5

\* G makes functions of F; what it makes of one for an element of D rests on the
\* elements of lower rank only.
Recurs(D, rank, F, G) ==
  /\ rank \in [D -> Nat] /\ \E n \in Nat : \A x \in D : rank[x] < n
  /\ F # {} /\ \A f \in F : f = [x \in D |-> f[x]]
  /\ G \in [F -> F]
  /\ \A f, h \in F, x \in D :
       (\A y \in D : rank[y] < rank[x] => f[y] = h[y]) => G[f][x] = G[h][x]

\* One of F is what G makes of it.
LEMMA FixedPoint ==
  ASSUME NEW D, NEW rank, NEW F, NEW G, Recurs(D, rank, F, G)
  PROVE  \E f \in F : f = G[f]
<1>0. /\ rank \in [D -> Nat] /\ F # {} /\ G \in [F -> F]
      /\ \A f \in F : f = [x \in D |-> f[x]]
      /\ \A f, h \in F, x \in D :
           (\A y \in D : rank[y] < rank[x] => f[y] = h[y]) => G[f][x] = G[h][x]
  BY DEF Recurs
<1> PICK N \in Nat : \A x \in D : rank[x] < N
  BY DEF Recurs
<1> DEFINE U == {n \in Nat : \E f \in F : \A x \in D : rank[x] < n => f[x] = G[f][x]}
<1>1. 0 \in U
  BY <1>0
<1>2. ASSUME NEW n \in Nat, n \in U PROVE n + 1 \in U
  <2>1. PICK f \in F : \A x \in D : rank[x] < n => f[x] = G[f][x]
    BY <1>2
  <2>2. PICK h \in F : h = G[f]
    BY <1>0
  <2>3. ASSUME NEW x \in D, rank[x] < n + 1 PROVE h[x] = G[h][x]
    <3>1. \A y \in D : rank[y] < rank[x] => rank[y] < n
      BY <1>0, <2>3
    <3>2. \A y \in D : rank[y] < rank[x] => f[y] = h[y]
      BY <2>1, <2>2, <3>1
    <3> QED
      BY <1>0, <2>2, <3>2
  <2> QED
    BY <2>3
<1> HIDE DEF U
<1>3. N \in U
  BY <1>1, <1>2, Induction
<1>4. PICK f \in F : \A x \in D : f[x] = G[f][x]
  BY <1>3 DEF U
<1>5. f = [x \in D |-> f[x]] /\ G[f] = [x \in D |-> G[f][x]]
  BY <1>0
<1> QED
  BY <1>4, <1>5

\* A family F that has a set whenever it has all those with one element less
\* has every subset of a finite set.
LEMMA FiniteInduction ==
  ASSUME NEW S, IsFiniteSet(S), NEW F,
         \A U \in SUBSET S : (\A x \in U : U \ {x} \in F) => U \in F
  PROVE  SUBSET S \subseteq F
<1> DEFINE T == {n \in Nat : \A U \in SUBSET S : Cardinality(U) = n => U \in F}
<1>0. \A U \in SUBSET S : IsFiniteSet(U) /\ Cardinality(U) \in Nat
  BY FS_Subset, FS_CardinalityType
<1>1. 0 \in T
  <2> SUFFICES ASSUME NEW U \in SUBSET S, Cardinality(U) = 0 PROVE U \in F
    OBVIOUS
  <2>1. U = {}
    BY <1>0, FS_EmptySet
  <2> QED
    BY <2>1
<1>2. ASSUME NEW n \in Nat, n \in T PROVE n + 1 \in T
  <2> SUFFICES ASSUME NEW U \in SUBSET S, Cardinality(U) = n + 1 PROVE U \in F
    OBVIOUS
  <2>1. ASSUME NEW x \in U PROVE U \ {x} \in F
    <3>1. Cardinality(U \ {x}) = n
      BY <1>0, FS_RemoveElement
    <3> QED
      BY <1>2, <3>1
  <2> QED
    BY <2>1
<1> HIDE DEF T
<1>3. Nat \subseteq T
  BY <1>1, <1>2, Induction
<1>4. \A U \in SUBSET S : Cardinality(U) \in T
  BY <1>0, <1>3
<1> QED
  BY <1>4 DEF T

-----------------------------------------------------------------------------
(* Sums.                                                                   *)

\* The recursion of SumFunctionOnSet( f, S ), in which g has the smaller sums.
Step(f, g, s) == IF s = {} THEN 0 ELSE f[CHOOSE y \in s : TRUE] + g[s \ {CHOOSE y \in s : TRUE}]
IsSum(f, S, g) == g = [s \in SUBSET S |-> Step(f, g, s)]

\* The recursion of the fold defines a function.
LEMMA SumExists ==
  ASSUME NEW f, NEW S, IsFiniteSet(S)
  PROVE  \E g : IsSum(f, S, g)
<1> DEFINE D(n) == {s \in SUBSET S : Cardinality(s) <= n}
           T == {n \in Nat : \E g : g = [s \in D(n) |-> Step(f, g, s)]}
<1>0. \A U \in SUBSET S : IsFiniteSet(U) /\ Cardinality(U) \in Nat
  BY FS_Subset, FS_CardinalityType
<1>1. 0 \in T
  <2> DEFINE g == [s \in D(0) |-> 0]
  <2>1. \A s \in D(0) : s = {}
    BY <1>0, FS_EmptySet
  <2>2. g = [s \in D(0) |-> Step(f, g, s)]
    BY <2>1 DEF Step
  <2> QED
    BY <2>2
<1>2. ASSUME NEW n \in Nat, n \in T PROVE n + 1 \in T
  <2>1. PICK g : g = [s \in D(n) |-> Step(f, g, s)]
    BY <1>2
  <2> DEFINE h == [s \in D(n + 1) |-> Step(f, g, s)]
  <2>2. ASSUME NEW s \in D(n + 1) PROVE Step(f, g, s) = Step(f, h, s)
    <3>1. CASE s = {}
      BY <3>1 DEF Step
    <3>2. CASE s # {}
      <4> DEFINE x == CHOOSE y \in s : TRUE
      <4>1. x \in s
        BY <3>2
      <4>2. Cardinality(s \ {x}) = Cardinality(s) - 1 /\ Cardinality(s) \in Nat
        BY <4>1, <1>0, FS_RemoveElement
      <4>3. s \ {x} \in D(n) /\ s \ {x} \in D(n + 1)
        BY <4>2
      <4>4. g[s \ {x}] = h[s \ {x}]
        BY <2>1, <4>3
      <4> QED
        BY <3>2, <4>4 DEF Step
    <3> QED
      BY <3>1, <3>2
  <2>3. h = [s \in D(n + 1) |-> Step(f, h, s)]
    BY <2>2
  <2> HIDE DEF D, h
  <2> QED
    BY <2>3
<1> HIDE DEF T
<1>3. Cardinality(S) \in T
  BY <1>0, <1>1, <1>2, Induction
<1>4. D(Cardinality(S)) = SUBSET S
  BY FS_Subset, FS_CardinalityType
<1> QED
  BY <1>3, <1>4 DEF T, IsSum

\* The sum is the value of that function.
LEMMA SumIs ==
  ASSUME NEW f, NEW S, IsFiniteSet(S)
  PROVE  \E g : IsSum(f, S, g) /\ SumFunctionOnSet(f, S) = g[S]
<1> DEFINE c == CHOOSE g : IsSum(f, S, g)
<1>1. IsSum(f, S, c)
  BY SumExists
<1>2. SumFunctionOnSet(f, S) = c[S]
  BY DEF SumFunctionOnSet, FoldFunctionOnSet, MapThenFoldSet, IsSum, Step
<1> QED
  BY <1>1, <1>2

\* The function for a smaller set agrees with it.
LEMMA SumUnique ==
  ASSUME NEW f, NEW S, IsFiniteSet(S), NEW g, IsSum(f, S, g),
         NEW R \in SUBSET S, NEW h, IsSum(f, R, h)
  PROVE  \A U \in SUBSET R : g[U] = h[U]
<1> DEFINE F == {U \in SUBSET R : g[U] = h[U]}
<1>1. IsFiniteSet(R)
  BY FS_Subset
<1>2. ASSUME NEW U \in SUBSET R, \A x \in U : U \ {x} \in F PROVE U \in F
  <2>1. g[U] = Step(f, g, U) /\ h[U] = Step(f, h, U)
    BY DEF IsSum
  <2>2. CASE U = {}
    BY <2>1, <2>2 DEF Step
  <2>3. CASE U # {}
    <3>1. (CHOOSE y \in U : TRUE) \in U
      BY <2>3
    <3> QED
      BY <1>2, <2>1, <2>3, <3>1 DEF Step
  <2> QED
    BY <2>2, <2>3
<1> HIDE DEF F
<1>3. SUBSET R \subseteq F
  BY <1>1, <1>2, FiniteInduction
<1> QED
  BY <1>3 DEF F

\* A sum is 0, or some summand and the sum of the others.
LEMMA SumUnfolds ==
  ASSUME NEW f, NEW S, IsFiniteSet(S)
  PROVE  \/ S = {} /\ SumFunctionOnSet(f, S) = 0
         \/ \E c \in S : SumFunctionOnSet(f, S) = f[c] + SumFunctionOnSet(f, S \ {c})
<1>1. PICK g : IsSum(f, S, g) /\ SumFunctionOnSet(f, S) = g[S]
  BY SumIs
<1>2. g[S] = Step(f, g, S)
  BY <1>1 DEF IsSum
<1>3. CASE S = {}
  BY <1>1, <1>2, <1>3 DEF Step
<1>4. CASE S # {}
  <2> DEFINE c == CHOOSE y \in S : TRUE
             R == S \ {c}
  <2>1. c \in S
    BY <1>4
  <2>2. g[S] = f[c] + g[R]
    BY <1>2, <1>4 DEF Step
  <2>3. IsFiniteSet(R)
    BY FS_Subset
  <2> HIDE DEF c
  <2>4. PICK h : IsSum(f, R, h) /\ SumFunctionOnSet(f, R) = h[R]
    BY <2>3, SumIs
  <2>5. g[R] = h[R]
    BY <1>1, <2>4, SumUnique
  <2> QED
    BY <1>1, <2>1, <2>2, <2>4, <2>5
<1> QED
  BY <1>3, <1>4

\* The sum of nothing is 0.
THEOREM SumOfNothing == \A f : SumFunctionOnSet(f, {}) = 0
BY SumUnfolds, FS_EmptySet

\* A sum of numbers is a number.
THEOREM SumType ==
  ASSUME NEW S, IsFiniteSet(S), NEW f, \A x \in S : f[x] \in Nat
  PROVE  SumFunctionOnSet(f, S) \in Nat
<1> DEFINE Sum(U) == SumFunctionOnSet(f, U)
           F == {U \in SUBSET S : Sum(U) \in Nat}
<1>1. ASSUME NEW U \in SUBSET S, \A x \in U : U \ {x} \in F PROVE U \in F
  <2>1. IsFiniteSet(U)
    BY FS_Subset
  <2>2. \/ Sum(U) = 0
        \/ \E c \in U : Sum(U) = f[c] + Sum(U \ {c})
    BY <2>1, SumUnfolds
  <2>3. \A c \in U : f[c] \in Nat /\ Sum(U \ {c}) \in Nat
    BY <1>1
  <2>4. CASE \E c \in U : Sum(U) = f[c] + Sum(U \ {c})
    <3>1. PICK c \in U : Sum(U) = f[c] + Sum(U \ {c})
      BY <2>4
    <3>2. f[c] \in Nat /\ Sum(U \ {c}) \in Nat
      BY <2>3
    <3> HIDE DEF Sum
    <3> QED
      BY <3>1, <3>2
  <2> QED
    BY <2>2, <2>4
<1> HIDE DEF F
<1>2. SUBSET S \subseteq F
  BY <1>1, FiniteInduction
<1> QED
  BY <1>2 DEF F

\* A sum is any of its summands and the sum of the others.
THEOREM SumOfPart ==
  ASSUME NEW S, IsFiniteSet(S), NEW f, \A x \in S : f[x] \in Nat, NEW x \in S
  PROVE  SumFunctionOnSet(f, S) = f[x] + SumFunctionOnSet(f, S \ {x})
<1> DEFINE Sum(U) == SumFunctionOnSet(f, U)
           F == {U \in SUBSET S : \A y \in U : Sum(U) = f[y] + Sum(U \ {y})}
<1>0. \A U \in SUBSET S : Sum(U) \in Nat
  BY FS_Subset, SumType
<1>1. ASSUME NEW U \in SUBSET S, \A z \in U : U \ {z} \in F PROVE U \in F
  <2> SUFFICES ASSUME NEW y \in U PROVE Sum(U) = f[y] + Sum(U \ {y})
    OBVIOUS
  <2>1. IsFiniteSet(U)
    BY FS_Subset
  <2>2. PICK c \in U : Sum(U) = f[c] + Sum(U \ {c})
    BY <2>1, SumUnfolds
  <2>3. CASE c = y
    BY <2>2, <2>3
  <2>4. CASE c # y
    <3>1. Sum(U \ {c}) = f[y] + Sum((U \ {c}) \ {y})
      BY <1>1, <2>4
    <3>2. Sum(U \ {y}) = f[c] + Sum((U \ {y}) \ {c})
      BY <1>1, <2>4
    <3>3. (U \ {c}) \ {y} = (U \ {y}) \ {c}
      OBVIOUS
    <3>4. Sum((U \ {c}) \ {y}) \in Nat /\ f[c] \in Nat /\ f[y] \in Nat
      BY <1>0
    <3> HIDE DEF Sum
    <3> QED
      BY <2>2, <3>1, <3>2, <3>3, <3>4
  <2> QED
    BY <2>3, <2>4
<1> HIDE DEF F
<1>2. SUBSET S \subseteq F
  BY <1>1, FiniteInduction
<1> QED
  BY <1>2 DEF F

\* A sum depends on the values at its set only.
THEOREM SumAgrees ==
  ASSUME NEW S, IsFiniteSet(S), NEW f, \A x \in S : f[x] \in Nat,
         NEW g, \A x \in S : f[x] = g[x]
  PROVE  SumFunctionOnSet(f, S) = SumFunctionOnSet(g, S)
<1> DEFINE SumF(U) == SumFunctionOnSet(f, U)
           SumG(U) == SumFunctionOnSet(g, U)
           F == {U \in SUBSET S : SumF(U) = SumG(U)}
<1>1. ASSUME NEW U \in SUBSET S, \A x \in U : U \ {x} \in F PROVE U \in F
  <2>1. IsFiniteSet(U)
    BY FS_Subset
  <2>2. CASE U = {}
    BY <2>2, SumOfNothing
  <2>3. CASE U # {}
    <3>1. PICK x \in U : TRUE
      BY <2>3
    <3>2. SumF(U) = f[x] + SumF(U \ {x})
      BY <2>1, SumOfPart
    <3>3. SumG(U) = g[x] + SumG(U \ {x})
      BY <2>1, SumOfPart
    <3>4. SumF(U \ {x}) = SumG(U \ {x})
      BY <1>1
    <3> QED
      BY <3>2, <3>3, <3>4
  <2> QED
    BY <2>2, <2>3
<1> HIDE DEF F
<1>2. SUBSET S \subseteq F
  BY <1>1, FiniteInduction
<1> QED
  BY <1>2 DEF F

\* A sum of zeros is zero.
THEOREM SumOfZeros ==
  ASSUME NEW S, IsFiniteSet(S), NEW f, \A x \in S : f[x] = 0
  PROVE  SumFunctionOnSet(f, S) = 0
<1> DEFINE Sum(U) == SumFunctionOnSet(f, U)
           F == {U \in SUBSET S : Sum(U) = 0}
<1>1. ASSUME NEW U \in SUBSET S, \A x \in U : U \ {x} \in F PROVE U \in F
  <2>1. IsFiniteSet(U)
    BY FS_Subset
  <2>2. \/ Sum(U) = 0
        \/ \E c \in U : Sum(U) = f[c] + Sum(U \ {c})
    BY <2>1, SumUnfolds
  <2>3. CASE \E c \in U : Sum(U) = f[c] + Sum(U \ {c})
    <3>1. PICK c \in U : Sum(U) = f[c] + Sum(U \ {c})
      BY <2>3
    <3>2. f[c] = 0 /\ Sum(U \ {c}) = 0
      BY <1>1
    <3> HIDE DEF Sum
    <3> QED
      BY <3>1, <3>2
  <2> QED
    BY <2>2, <2>3
<1> HIDE DEF F
<1>2. SUBSET S \subseteq F
  BY <1>1, FiniteInduction
<1> QED
  BY <1>2 DEF F

\* What a sum changes by when one summand does.
THEOREM SumChangedAt ==
  ASSUME NEW S, IsFiniteSet(S), NEW f, \A x \in S : f[x] \in Nat,
         NEW g, \A x \in S : g[x] \in Nat,
         NEW m \in S, \A x \in S \ {m} : f[x] = g[x]
  PROVE  /\ SumFunctionOnSet(f, S \ {m}) \in Nat
         /\ SumFunctionOnSet(f, S) = f[m] + SumFunctionOnSet(f, S \ {m})
         /\ SumFunctionOnSet(g, S) = g[m] + SumFunctionOnSet(f, S \ {m})
<1>1. IsFiniteSet(S \ {m})
  BY FS_Subset
<1>2. SumFunctionOnSet(f, S \ {m}) \in Nat
  BY <1>1, SumType
<1>3. SumFunctionOnSet(f, S) = f[m] + SumFunctionOnSet(f, S \ {m})
  BY SumOfPart
<1>4. SumFunctionOnSet(g, S) = g[m] + SumFunctionOnSet(g, S \ {m})
  BY SumOfPart
<1>5. SumFunctionOnSet(f, S \ {m}) = SumFunctionOnSet(g, S \ {m})
  BY <1>1, SumAgrees
<1> QED
  BY <1>2, <1>3, <1>4, <1>5

\* If one summand grows by n, so does the sum.
THEOREM SumGrowsAt ==
  ASSUME NEW S, IsFiniteSet(S), NEW f, \A x \in S : f[x] \in Nat,
         NEW g, \A x \in S : g[x] \in Nat,
         NEW m \in S, \A x \in S \ {m} : f[x] = g[x],
         NEW n \in Nat, g[m] = f[m] + n
  PROVE  SumFunctionOnSet(g, S) = SumFunctionOnSet(f, S) + n
<1>1. /\ SumFunctionOnSet(f, S \ {m}) \in Nat
      /\ SumFunctionOnSet(f, S) = f[m] + SumFunctionOnSet(f, S \ {m})
      /\ SumFunctionOnSet(g, S) = g[m] + SumFunctionOnSet(f, S \ {m})
  BY SumChangedAt
<1>2. f[m] \in Nat /\ g[m] \in Nat
  OBVIOUS
<1> QED
  BY <1>1, <1>2

\* The sum over the numbers up to n + 1 is the last summand and the sum of the
\* others, which is a number.
THEOREM SumOfLast ==
  ASSUME NEW n \in Nat, NEW f, \A i \in 1 .. n + 1 : f[i] \in Nat
  PROVE  /\ SumFunctionOnSet(f, 1 .. n) \in Nat
         /\ SumFunctionOnSet(f, 1 .. n + 1) = f[n + 1] + SumFunctionOnSet(f, 1 .. n)
<1>1. IsFiniteSet(1 .. n) /\ IsFiniteSet(1 .. n + 1)
  BY FS_Interval
<1>2. (1 .. n + 1) \ {n + 1} = 1 .. n /\ n + 1 \in 1 .. n + 1
  OBVIOUS
<1>3. SumFunctionOnSet(f, 1 .. n + 1)
        = f[n + 1] + SumFunctionOnSet(f, (1 .. n + 1) \ {n + 1})
  BY <1>1, <1>2, SumOfPart
<1>4. \A i \in 1 .. n : f[i] \in Nat
  OBVIOUS
<1>5. SumFunctionOnSet(f, 1 .. n) \in Nat
  BY <1>1, <1>4, SumType
<1> QED
  BY <1>2, <1>3, <1>5

\* The sum of a list with another entry in front.
THEOREM SumBehindFirst ==
  ASSUME NEW f, NEW g, NEW n \in Nat,
         \A i \in 1 .. n : f[i] \in Nat,
         \A i \in 1 .. n + 1 : g[i] \in Nat,
         \A i \in 1 .. n : g[i + 1] = f[i]
  PROVE  SumFunctionOnSet(g, 1 .. n + 1) = g[1] + SumFunctionOnSet(f, 1 .. n)
<1> DEFINE SumF(k) == SumFunctionOnSet(f, 1 .. k)
           SumG(k) == SumFunctionOnSet(g, 1 .. k)
           T == {k \in Nat : k <= n => SumG(k + 1) = g[1] + SumF(k)}
<1>1. 0 \in T
  <2>1. 1 .. 0 = {} /\ 0 + 1 = 1 /\ g[1] \in Nat
    OBVIOUS
  <2>2. SumF(0) = 0 /\ SumG(0) = 0
    BY <2>1, SumOfNothing
  <2>3. \A i \in 1 .. 0 + 1 : g[i] \in Nat
    OBVIOUS
  <2>4. SumG(0 + 1) = g[0 + 1] + SumG(0)
    BY <2>3, SumOfLast
  <2> HIDE DEF SumF, SumG
  <2> QED
    BY <2>1, <2>2, <2>4
<1>2. ASSUME NEW k \in Nat, k \in T PROVE k + 1 \in T
  <2> SUFFICES ASSUME k + 1 <= n PROVE SumG(k + 1 + 1) = g[1] + SumF(k + 1)
    OBVIOUS
  <2>1. SumG(k + 1) = g[1] + SumF(k)
    BY <1>2
  <2>2. (\A i \in 1 .. k + 1 : f[i] \in Nat) /\ k + 1 \in Nat
    OBVIOUS
  <2>3. \A i \in 1 .. k + 1 + 1 : g[i] \in Nat
    OBVIOUS
  <2>4. SumF(k) \in Nat /\ SumF(k + 1) = f[k + 1] + SumF(k)
    BY <2>2, SumOfLast
  <2>5. SumG(k + 1 + 1) = g[k + 1 + 1] + SumG(k + 1)
    BY <2>2, <2>3, SumOfLast
  <2>6. g[k + 1 + 1] = f[k + 1] /\ f[k + 1] \in Nat /\ g[1] \in Nat
    OBVIOUS
  <2> HIDE DEF SumF, SumG
  <2> QED
    BY <2>1, <2>4, <2>5, <2>6
<1> HIDE DEF T
<1>3. n \in T
  BY <1>1, <1>2, Induction
<1> QED
  BY <1>3 DEF T

-----------------------------------------------------------------------------
(* Ranks.                                                                  *)

\* A finite set of numbers has a greatest one.
LEMMA GreatestOfFinite ==
  ASSUME NEW S, IsFiniteSet(S), S \subseteq Nat, S # {}
  PROVE  \E m \in S : \A k \in S : k <= m
<1> DEFINE HasMax(U) == U # {} => \E m \in U : \A k \in U : k <= m
           F == {U \in SUBSET S : HasMax(U)}
<1>1. ASSUME NEW U \in SUBSET S, \A x \in U : U \ {x} \in F PROVE U \in F
  <2> SUFFICES ASSUME U # {} PROVE \E m \in U : \A k \in U : k <= m
    OBVIOUS
  <2>1. PICK x \in U : TRUE
    OBVIOUS
  <2>2. HasMax(U \ {x})
    BY <1>1
  <2>3. CASE U \ {x} = {}
    <3>1. \A k \in U : k = x
      BY <2>3
    <3>2. \A k \in U : k <= x
      BY <3>1
    <3> QED
      BY <3>2
  <2>4. CASE U \ {x} # {}
    <3>1. PICK m \in U \ {x} : \A k \in U \ {x} : k <= m
      BY <2>2, <2>4
    <3>2. m \in Nat /\ x \in Nat
      OBVIOUS
    <3>3. CASE x <= m
      <4>1. \A k \in U : k <= m
        BY <3>1, <3>3
      <4> QED
        BY <4>1
    <3>4. CASE m <= x
      <4>1. \A k \in U : k <= x
        BY <3>1, <3>2, <3>4
      <4> QED
        BY <4>1
    <3> QED
      BY <3>2, <3>3, <3>4
  <2> QED
    BY <2>3, <2>4
<1> HIDE DEF F
<1>2. S \in F
  BY <1>1, FiniteInduction
<1> QED
  BY <1>2 DEF F

\* How many elements of S are up to h.
Rank(S, h) == Cardinality({g \in S : g <= h})

\* The elements of a finite set of numbers have every rank up to their number.
LEMMA RanksCover ==
  ASSUME NEW S, IsFiniteSet(S), S \subseteq Nat, NEW n \in 1 .. Cardinality(S)
  PROVE  \E h \in S : Rank(S, h) = n
<1> DEFINE Covers(U) == \A k \in 1 .. Cardinality(U) : \E h \in U : Rank(U, h) = k
           F == {U \in SUBSET S : Covers(U)}
<1>1. ASSUME NEW U \in SUBSET S, \A x \in U : U \ {x} \in F PROVE U \in F
  <2> SUFFICES ASSUME NEW k \in 1 .. Cardinality(U) PROVE \E h \in U : Rank(U, h) = k
    OBVIOUS
  <2>1. IsFiniteSet(U) /\ U \subseteq Nat
    BY FS_Subset
  <2>2. U # {}
    BY FS_EmptySet
  <2>3. PICK m \in U : \A g \in U : g <= m
    BY <2>1, <2>2, GreatestOfFinite
  <2> DEFINE V == U \ {m}
  <2>4. /\ Cardinality(V) = Cardinality(U) - 1
        /\ Cardinality(U) \in Nat
    BY <2>1, FS_RemoveElement, FS_CardinalityType
  <2>5. CASE k = Cardinality(U)
    <3>1. {g \in U : g <= m} = U
      BY <2>3
    <3>2. Rank(U, m) = k
      BY <2>5, <3>1 DEF Rank
    <3> QED
      BY <3>2
  <2>6. CASE k # Cardinality(U)
    <3>1. Covers(V)
      BY <1>1
    <3>2. k \in 1 .. Cardinality(V)
      BY <2>4, <2>6
    <3>3. PICK h \in V : Rank(V, h) = k
      BY <3>1, <3>2
    <3>4. h <= m /\ h # m /\ h \in Nat /\ m \in Nat
      BY <2>1, <2>3
    <3>5. ~(m <= h)
      BY <3>4
    <3>6. {g \in V : g <= h} = {g \in U : g <= h}
      BY <3>5
    <3> QED
      BY <3>3, <3>6 DEF Rank
  <2> QED
    BY <2>5, <2>6
<1> HIDE DEF F
<1>2. S \in F
  BY <1>1, FiniteInduction
<1> QED
  BY <1>2 DEF F

-----------------------------------------------------------------------------
(* Sublists.                                                               *)

\* The recursion of Those( s, T ), up to the n-th element.
IsThose(s, T, n, u) ==
  u = [i \in 0 .. n |->
         IF i = 0 THEN <<>> ELSE IF s[i] \in T THEN Append(u[i - 1], s[i]) ELSE u[i - 1]]

\* It defines a function.
LEMMA ThoseExists == \A s, T : \A n \in Nat : \E u : IsThose(s, T, n, u)
<1> TAKE s, T
<1> DEFINE Good == {n \in Nat : \E u : IsThose(s, T, n, u)}
           W(v, i) == IF i = 0 THEN <<>> ELSE IF s[i] \in T THEN Append(v[i - 1], s[i]) ELSE v[i - 1]
<1>1. 0 \in Good
  <2> DEFINE u == [i \in 0 .. 0 |-> <<>>]
  <2>1. IsThose(s, T, 0, u)
    BY DEF IsThose
  <2> QED
    BY <2>1
<1>2. ASSUME NEW n \in Nat, n \in Good PROVE n + 1 \in Good
  <2>1. PICK u : IsThose(s, T, n, u)
    BY <1>2
  <2> DEFINE v == [i \in 0 .. n + 1 |-> W(u, i)]
  <2>2. ASSUME NEW i \in 0 .. n + 1 PROVE W(u, i) = W(v, i)
    <3>1. CASE i = 0
      BY <3>1
    <3>2. CASE i # 0
      <4>1. i - 1 \in 0 .. n /\ i - 1 \in 0 .. n + 1
        BY <3>2
      <4>2. u[i - 1] = W(u, i - 1) /\ v[i - 1] = W(u, i - 1)
        BY <2>1, <4>1 DEF IsThose
      <4>3. u[i - 1] = v[i - 1]
        BY <4>2
      <4> QED
        BY <3>2, <4>3
    <3> QED
      BY <3>1, <3>2
  <2>3. v = [i \in 0 .. n + 1 |-> W(v, i)]
    BY <2>2
  <2>4. IsThose(s, T, n + 1, v)
    BY <2>3 DEF IsThose
  <2>5. \E w : IsThose(s, T, n + 1, w)
    <3> HIDE DEF v
    <3> QED
      BY <2>4
  <2> QED
    BY <2>5
<1> HIDE DEF Good
<1>3. Nat \subseteq Good
  BY <1>1, <1>2, Induction
<1> QED
  BY <1>3 DEF Good

\* Those( s, T ) is what it ends with.
LEMMA ThoseIs ==
  ASSUME NEW S, NEW s \in Seq(S), NEW T
  PROVE  \E u : IsThose(s, T, Len(s), u) /\ Those(s, T) = u[Len(s)]
<1> DEFINE u == CHOOSE v : IsThose(s, T, Len(s), v)
<1>1. Len(s) \in Nat
  OBVIOUS
<1>2. IsThose(s, T, Len(s), u)
  BY <1>1, ThoseExists
<1>3. Those(s, T) = u[Len(s)]
  BY DEF Those, IsThose
<1> HIDE DEF u
<1> QED
  BY <1>2, <1>3

\* It begins with the empty list, and each of its values comes from the last.
Unfolds(s, T, n, u) ==
  /\ u[0] = <<>>
  /\ \A i \in 1 .. n : u[i] = IF s[i] \in T THEN Append(u[i - 1], s[i]) ELSE u[i - 1]

LEMMA ThoseUnfold ==
  ASSUME NEW s, NEW T, NEW n \in Nat, NEW u, IsThose(s, T, n, u)
  PROVE  Unfolds(s, T, n, u)
<1>1. u[0] = <<>>
  BY DEF IsThose
<1>2. ASSUME NEW i \in 1 .. n
      PROVE  u[i] = IF s[i] \in T THEN Append(u[i - 1], s[i]) ELSE u[i - 1]
  <2>1. i \in 0 .. n /\ i # 0
    OBVIOUS
  <2> QED
    BY <2>1 DEF IsThose
<1> QED
  BY <1>1, <1>2 DEF Unfolds

\* Its values are lists of the elements that are in T.
LEMMA ThoseTyped ==
  ASSUME NEW S, NEW s, NEW T, NEW n \in Nat, NEW u,
         \A i \in 1 .. n : s[i] \in S, Unfolds(s, T, n, u)
  PROVE  \A i \in 0 .. n : u[i] \in Seq(S \cap T)
<1>1. /\ u[0] = <<>>
      /\ \A i \in 1 .. n : u[i] = IF s[i] \in T THEN Append(u[i - 1], s[i]) ELSE u[i - 1]
  BY DEF Unfolds
<1> DEFINE Good == {i \in Nat : i <= n => u[i] \in Seq(S \cap T)}
<1>2. 0 \in Good
  <2>1. <<>> \in Seq(S \cap T)
    OBVIOUS
  <2> QED
    BY <1>1, <2>1
<1>3. ASSUME NEW i \in Nat, i \in Good PROVE i + 1 \in Good
  <2> SUFFICES ASSUME i + 1 <= n PROVE u[i + 1] \in Seq(S \cap T)
    OBVIOUS
  <2>1. u[i] \in Seq(S \cap T)
    BY <1>3
  <2>2. i + 1 \in 1 .. n /\ (i + 1) - 1 = i
    OBVIOUS
  <2>3. u[i + 1] = IF s[i + 1] \in T THEN Append(u[i], s[i + 1]) ELSE u[i]
    BY <1>1, <2>2
  <2>4. s[i + 1] \in S
    BY <2>2
  <2> QED
    BY <2>1, <2>3, <2>4
<1> HIDE DEF Good
<1>4. Nat \subseteq Good
  BY <1>2, <1>3, Induction
<1> QED
  BY <1>4 DEF Good

\* Nothing is left of the empty list, and what is left is in the set.
THEOREM ThoseType ==
  ASSUME NEW S, NEW s \in Seq(S), NEW T
  PROVE  /\ Those(s, T) \in Seq(S \cap T)
         /\ s = <<>> => Those(s, T) = <<>>
<1>1. PICK u : IsThose(s, T, Len(s), u) /\ Those(s, T) = u[Len(s)]
  BY ThoseIs
<1>2. /\ Len(s) \in Nat /\ Len(s) \in 0 .. Len(s) /\ (s = <<>> => Len(s) = 0)
      /\ \A i \in 1 .. Len(s) : s[i] \in S
  OBVIOUS
<1>3. u[0] = <<>> /\ \A i \in 0 .. Len(s) : u[i] \in Seq(S \cap T)
  <2>1. Unfolds(s, T, Len(s), u)
    BY <1>1, <1>2, ThoseUnfold
  <2> QED
    BY <1>2, <2>1, ThoseTyped DEF Unfolds
<1> QED
  BY <1>1, <1>2, <1>3

\* One more element at the end.
THEOREM ThoseAppended ==
  ASSUME NEW S, NEW s \in Seq(S), NEW x \in S, NEW T
  PROVE  Those(Append(s, x), T) = IF x \in T THEN Append(Those(s, T), x) ELSE Those(s, T)
<1> DEFINE t == Append(s, x)
           n == Len(s)
<1>1. PICK u : IsThose(s, T, n, u) /\ Those(s, T) = u[n]
  BY ThoseIs
<1>2. /\ t \in Seq(S) /\ n \in Nat /\ Len(t) = n + 1 /\ t[n + 1] = x
      /\ \A i \in 1 .. n : t[i] = s[i]
  OBVIOUS
<1> HIDE DEF t, n
<1>3. PICK v : IsThose(t, T, n + 1, v) /\ Those(t, T) = v[n + 1]
  <2>1. \E v : IsThose(t, T, Len(t), v) /\ Those(t, T) = v[Len(t)]
    BY <1>2, ThoseIs
  <2> QED
    BY <1>2, <2>1
<1>4. /\ u[0] = <<>>
      /\ \A i \in 1 .. n : u[i] = IF s[i] \in T THEN Append(u[i - 1], s[i]) ELSE u[i - 1]
  <2>1. Unfolds(s, T, n, u)
    BY <1>1, <1>2, ThoseUnfold
  <2> QED
    BY <2>1 DEF Unfolds
<1>5. /\ v[0] = <<>>
      /\ \A i \in 1 .. n + 1 : v[i] = IF t[i] \in T THEN Append(v[i - 1], t[i]) ELSE v[i - 1]
  <2>1. n + 1 \in Nat
    BY <1>2
  <2>2. Unfolds(t, T, n + 1, v)
    BY <1>3, <2>1, ThoseUnfold
  <2> QED
    BY <2>2 DEF Unfolds
<1> DEFINE Good == {i \in Nat : i <= n => v[i] = u[i]}
<1>6. 0 \in Good
  BY <1>4, <1>5
<1>7. ASSUME NEW i \in Nat, i \in Good PROVE i + 1 \in Good
  <2> SUFFICES ASSUME i + 1 <= n PROVE v[i + 1] = u[i + 1]
    OBVIOUS
  <2>1. i + 1 \in 1 .. n /\ i + 1 \in 1 .. n + 1 /\ (i + 1) - 1 = i /\ v[i] = u[i]
    BY <1>2, <1>7
  <2>2. u[i + 1] = IF s[i + 1] \in T THEN Append(u[i], s[i + 1]) ELSE u[i]
    BY <1>4, <2>1
  <2>3. v[i + 1] = IF t[i + 1] \in T THEN Append(v[i], t[i + 1]) ELSE v[i]
    BY <1>5, <2>1
  <2> QED
    BY <1>2, <2>1, <2>2, <2>3
<1> HIDE DEF Good
<1>8. v[n] = u[n]
  <2>1. n \in Good
    BY <1>2, <1>6, <1>7, Induction
  <2>2. n <= n
    BY <1>2
  <2> QED
    BY <2>1, <2>2 DEF Good
<1>9. n + 1 \in 1 .. n + 1 /\ (n + 1) - 1 = n
  BY <1>2
<1>10. v[n + 1] = IF t[n + 1] \in T THEN Append(v[n], t[n + 1]) ELSE v[n]
  BY <1>5, <1>9
<1> QED
  BY <1>1, <1>2, <1>3, <1>8, <1>10 DEF t

\* A list that begins with x, and one that goes on with y.
LEMMA AppendedBehind ==
  ASSUME NEW S, NEW s \in Seq(S), NEW x \in S, NEW y \in S
  PROVE  Append(<<x>> \o s, y) = <<x>> \o Append(s, y)
OBVIOUS

\* One more element in front.
THEOREM ThoseInFront ==
  ASSUME NEW S, NEW s \in Seq(S), NEW x \in S, NEW T
  PROVE  Those(<<x>> \o s, T) = IF x \in T THEN <<x>> \o Those(s, T) ELSE Those(s, T)
<1> DEFINE t == <<x>> \o s
           n == Len(s)
           With(a) == IF x \in T THEN <<x>> \o a ELSE a
<1>1. PICK u : IsThose(s, T, n, u) /\ Those(s, T) = u[n]
  BY ThoseIs
<1>2. /\ t \in Seq(S) /\ n \in Nat /\ Len(t) = n + 1 /\ t[1] = x
      /\ \A i \in 1 .. n : t[i + 1] = s[i] /\ s[i] \in S
  OBVIOUS
<1> HIDE DEF t, n
<1>3. PICK v : IsThose(t, T, n + 1, v) /\ Those(t, T) = v[n + 1]
  <2>1. \E v : IsThose(t, T, Len(t), v) /\ Those(t, T) = v[Len(t)]
    BY <1>2, ThoseIs
  <2> QED
    BY <1>2, <2>1
<1>4. /\ u[0] = <<>>
      /\ \A i \in 1 .. n : u[i] = IF s[i] \in T THEN Append(u[i - 1], s[i]) ELSE u[i - 1]
      /\ \A i \in 0 .. n : u[i] \in Seq(S \cap T)
  <2>1. Unfolds(s, T, n, u)
    BY <1>1, <1>2, ThoseUnfold
  <2>2. \A i \in 0 .. n : u[i] \in Seq(S \cap T)
    BY <1>2, <2>1, ThoseTyped
  <2> QED
    BY <2>1, <2>2 DEF Unfolds
<1>5. /\ v[0] = <<>>
      /\ \A i \in 1 .. n + 1 : v[i] = IF t[i] \in T THEN Append(v[i - 1], t[i]) ELSE v[i - 1]
  <2>1. n + 1 \in Nat
    BY <1>2
  <2>2. Unfolds(t, T, n + 1, v)
    BY <1>3, <2>1, ThoseUnfold
  <2> QED
    BY <2>2 DEF Unfolds
<1> DEFINE Good == {i \in Nat : i <= n => v[i + 1] = With(u[i])}
<1>6. 0 \in Good
  <2>1. 1 \in 1 .. n + 1 /\ 1 - 1 = 0 /\ 0 + 1 = 1
    BY <1>2
  <2>2. v[1] = IF x \in T THEN Append(<<>>, x) ELSE <<>>
    BY <1>2, <1>5, <2>1
  <2>3. Append(<<>>, x) = <<x>> /\ <<x>> \o <<>> = <<x>>
    OBVIOUS
  <2> QED
    BY <1>4, <2>1, <2>2, <2>3
<1>7. ASSUME NEW i \in Nat, i \in Good PROVE i + 1 \in Good
  <2> SUFFICES ASSUME i + 1 <= n PROVE v[(i + 1) + 1] = With(u[i + 1])
    OBVIOUS
  <2>1. /\ i + 1 \in 1 .. n /\ (i + 1) + 1 \in 1 .. n + 1
        /\ (i + 1) - 1 = i /\ ((i + 1) + 1) - 1 = i + 1 /\ i \in 0 .. n
    <3>1. n \in Nat
      BY <1>2
    <3> QED
      BY <3>1
  <2>2. v[i + 1] = With(u[i])
    BY <1>2, <1>7, <2>1
  <2>3. u[i + 1] = IF s[i + 1] \in T THEN Append(u[i], s[i + 1]) ELSE u[i]
    BY <1>4, <2>1
  <2>4. v[(i + 1) + 1] = IF t[(i + 1) + 1] \in T THEN Append(v[i + 1], t[(i + 1) + 1]) ELSE v[i + 1]
    BY <1>5, <2>1
  <2>5. t[(i + 1) + 1] = s[i + 1] /\ s[i + 1] \in S
    BY <1>2, <2>1
  <2>6. u[i] \in Seq(S)
    <3>1. u[i] \in Seq(S \cap T)
      BY <1>4, <2>1
    <3> QED
      BY <3>1
  <2>7. Append(<<x>> \o u[i], s[i + 1]) = <<x>> \o Append(u[i], s[i + 1])
    BY <2>5, <2>6, AppendedBehind
  <2> QED
    BY <2>2, <2>3, <2>4, <2>5, <2>7
<1> HIDE DEF Good
<1>8. v[n + 1] = With(u[n])
  <2>1. n \in Good
    BY <1>2, <1>6, <1>7, Induction
  <2>2. n <= n
    BY <1>2
  <2> QED
    BY <2>1, <2>2 DEF Good
<1> QED
  BY <1>1, <1>3, <1>8 DEF t

\* The list of the values of a function, with one more element in front.
Mapped(F, s) == [i \in DOMAIN s |-> F[s[i]]]

LEMMA MappedInFront ==
  ASSUME NEW S, NEW F, NEW s \in Seq(S), NEW x \in S
  PROVE  Mapped(F, <<x>> \o s) = <<F[x]>> \o Mapped(F, s)
<1> DEFINE t == <<x>> \o s
           a == [i \in DOMAIN t |-> F[t[i]]]
           m == [i \in DOMAIN s |-> F[s[i]]]
           b == <<F[x]>> \o m
<1>1. Len(s) \in Nat /\ DOMAIN s = 1 .. Len(s) /\ DOMAIN t = 1 .. Len(s) + 1
  OBVIOUS
<1>2. t[1] = x /\ \A i \in 2 .. Len(s) + 1 : t[i] = s[i - 1]
  OBVIOUS
<1> HIDE DEF t
<1>3. m \in Seq({F[s[i]] : i \in DOMAIN s}) /\ Len(m) = Len(s)
  BY <1>1
<1>4. /\ DOMAIN b = 1 .. Len(s) + 1
      /\ b[1] = F[x] /\ \A i \in 2 .. Len(s) + 1 : b[i] = m[i - 1]
      /\ b = [i \in 1 .. Len(s) + 1 |-> b[i]]
  <2>1. \A V : \A w \in Seq(V) : /\ DOMAIN (<<F[x]>> \o w) = 1 .. Len(w) + 1
                                 /\ (<<F[x]>> \o w)[1] = F[x]
                                 /\ \A i \in 2 .. Len(w) + 1 : (<<F[x]>> \o w)[i] = w[i - 1]
    OBVIOUS
  <2> HIDE DEF m
  <2> QED
    BY <1>1, <1>3, <2>1
<1>5. \A i \in 1 .. Len(s) + 1 : a[i] = b[i]
  <2> SUFFICES ASSUME NEW i \in 1 .. Len(s) + 1 PROVE a[i] = b[i]
    OBVIOUS
  <2>1. CASE i = 1
    BY <1>1, <1>2, <1>4, <2>1
  <2>2. CASE i # 1
    <3>1. i \in 2 .. Len(s) + 1 /\ i - 1 \in DOMAIN s
      BY <1>1, <2>2
    <3> HIDE DEF b
    <3> QED
      BY <1>1, <1>2, <1>4, <3>1
  <2> QED
    BY <2>1, <2>2
<1>6. a = [i \in 1 .. Len(s) + 1 |-> a[i]]
  BY <1>1
<1> HIDE DEF a, b
<1>7. a = b
  BY <1>4, <1>5, <1>6
<1> QED
  BY <1>7 DEF a, b, t, m, Mapped

\* The first i elements of a list.
FirstOf(s, i) == [j \in 1 .. i |-> s[j]]

LEMMA FirstGrow ==
  ASSUME NEW S, NEW s \in Seq(S)
  PROVE  /\ FirstOf(s, 0) = <<>> /\ FirstOf(s, Len(s)) = s
         /\ \A i \in 0 .. Len(s) : FirstOf(s, i) \in Seq(S)
         /\ \A i \in 0 .. Len(s) - 1 : FirstOf(s, i + 1) = Append(FirstOf(s, i), s[i + 1])
<1>1. FirstOf(s, 0) = <<>>
  BY DEF FirstOf
<1>2. FirstOf(s, Len(s)) = s
  BY DEF FirstOf
<1>3. ASSUME NEW i \in 0 .. Len(s) PROVE FirstOf(s, i) \in Seq(S)
  BY DEF FirstOf
<1>4. ASSUME NEW i \in 0 .. Len(s) - 1
      PROVE  FirstOf(s, i + 1) = Append(FirstOf(s, i), s[i + 1])
  BY DEF FirstOf
<1> QED
  BY <1>1, <1>2, <1>3, <1>4

\* A list whose elements are all in the set stays as it is.
THEOREM ThoseAll ==
  ASSUME NEW S, NEW s \in Seq(S), NEW T, S \subseteq T
  PROVE  Those(s, T) = s
<1> DEFINE Good == {i \in Nat : i <= Len(s) => Those(FirstOf(s, i), T) = FirstOf(s, i)}
<1>1. Len(s) \in Nat /\ <<>> \in Seq(S) /\ \A i \in 1 .. Len(s) : s[i] \in S
  OBVIOUS
<1>2. 0 \in Good
  BY <1>1, FirstGrow, ThoseType
<1>3. ASSUME NEW i \in Nat, i \in Good PROVE i + 1 \in Good
  <2> SUFFICES ASSUME i + 1 <= Len(s) PROVE Those(FirstOf(s, i + 1), T) = FirstOf(s, i + 1)
    OBVIOUS
  <2>1. i \in 0 .. Len(s) - 1 /\ i \in 0 .. Len(s) /\ i + 1 \in 1 .. Len(s)
    BY <1>1
  <2>2. FirstOf(s, i + 1) = Append(FirstOf(s, i), s[i + 1]) /\ FirstOf(s, i) \in Seq(S)
    BY <2>1, FirstGrow
  <2>3. Those(FirstOf(s, i), T) = FirstOf(s, i)
    BY <1>1, <1>3, <2>1
  <2>4. s[i + 1] \in S
    BY <1>1, <2>1
  <2>5. Those(Append(FirstOf(s, i), s[i + 1]), T) = Append(Those(FirstOf(s, i), T), s[i + 1])
    BY <2>2, <2>4, ThoseAppended
  <2> QED
    BY <2>2, <2>3, <2>5
<1> HIDE DEF Good
<1>4. Len(s) \in Good
  BY <1>1, <1>2, <1>3, Induction
<1>5. Those(FirstOf(s, Len(s)), T) = FirstOf(s, Len(s))
  BY <1>1, <1>4 DEF Good
<1> QED
  BY <1>5, FirstGrow

\* One more at the end of two lists.
LEMMA AppendedToBoth ==
  ASSUME NEW S, NEW s \in Seq(S), NEW t \in Seq(S), NEW x \in S
  PROVE  /\ s \o Append(t, x) = Append(s \o t, x)
         /\ s \o <<>> = s /\ s \o t \in Seq(S)
<1>1. s \o Append(t, x) = Append(s \o t, x)
  OBVIOUS
<1> QED
  BY <1>1

\* Those of two lists, one behind the other.
THEOREM ThoseConcat ==
  ASSUME NEW S, NEW s \in Seq(S), NEW t \in Seq(S), NEW T
  PROVE  Those(s \o t, T) = Those(s, T) \o Those(t, T)
<1> DEFINE a(i) == FirstOf(t, i)
           Good == {i \in Nat : i <= Len(t) => Those(s \o a(i), T) = Those(s, T) \o Those(a(i), T)}
<1>1. /\ Len(t) \in Nat /\ \A i \in 1 .. Len(t) : t[i] \in S
      /\ \A r \in Seq(S) : Those(r, T) \in Seq(S \cap T)
  BY ThoseType
<1>2. 0 \in Good
  <2>1. a(0) = <<>> /\ <<>> \in Seq(S) /\ s \o <<>> = s
    BY FirstGrow
  <2>2. Those(<<>>, T) = <<>>
    BY <2>1, ThoseType
  <2>3. Those(s, T) \o <<>> = Those(s, T)
    <3>1. Those(s, T) \in Seq(S \cap T)
      BY <1>1
    <3> QED
      BY <3>1
  <2> QED
    BY <2>1, <2>2, <2>3
<1>3. ASSUME NEW i \in Nat, i \in Good PROVE i + 1 \in Good
  <2> SUFFICES ASSUME i + 1 <= Len(t)
               PROVE  Those(s \o a(i + 1), T) = Those(s, T) \o Those(a(i + 1), T)
    OBVIOUS
  <2>1. PICK x \in S : x = t[i + 1]
    BY <1>1
  <2>2. PICK r \in Seq(S) : r = a(i)
    <3>1. i \in 0 .. Len(t)
      BY <1>1
    <3> QED
      BY <3>1, FirstGrow
  <2>3. a(i + 1) = Append(r, x)
    <3>1. i \in 0 .. Len(t) - 1
      BY <1>1
    <3> QED
      BY <2>1, <2>2, <3>1, FirstGrow
  <2>4. Those(s \o r, T) = Those(s, T) \o Those(r, T)
    <3>1. i <= Len(t)
      BY <1>1
    <3> QED
      BY <1>3, <2>2, <3>1
  <2>5. s \o Append(r, x) = Append(s \o r, x) /\ s \o r \in Seq(S)
    BY AppendedToBoth
  <2>6. /\ Those(Append(r, x), T) = IF x \in T THEN Append(Those(r, T), x) ELSE Those(r, T)
        /\ Those(Append(s \o r, x), T)
             = IF x \in T THEN Append(Those(s \o r, T), x) ELSE Those(s \o r, T)
    BY <2>5, ThoseAppended
  <2>7. Append(Those(s, T) \o Those(r, T), x) = Those(s, T) \o Append(Those(r, T), x)
    <3>1. PICK p \in Seq(S), q \in Seq(S) : p = Those(s, T) /\ q = Those(r, T)
      <4>1. Those(s, T) \in Seq(S \cap T) /\ Those(r, T) \in Seq(S \cap T)
        BY <1>1
      <4> QED
        BY <4>1
    <3>2. p \o Append(q, x) = Append(p \o q, x)
      BY AppendedToBoth
    <3> QED
      BY <3>1, <3>2
  <2> HIDE DEF a
  <2> QED
    BY <2>3, <2>4, <2>5, <2>6, <2>7
<1> HIDE DEF Good
<1>4. Len(t) \in Good
  BY <1>1, <1>2, <1>3, Induction
<1>5. Those(s \o a(Len(t)), T) = Those(s, T) \o Those(a(Len(t)), T)
  BY <1>1, <1>4 DEF Good
<1> QED
  BY <1>5, FirstGrow

\* A list is its first and what follows.
LEMMA Uppermost ==
  ASSUME NEW S, NEW s \in Seq(S), s # <<>>
  PROVE  s = <<s[1]>> \o Tail(s) /\ s[1] \in S /\ Tail(s) \in Seq(S)
OBVIOUS

\* The first of a list put in front, another in its place, and the list without.
LEMMA FrontOf ==
  ASSUME NEW S, NEW x \in S, NEW s \in Seq(S)
  PROVE  /\ <<x>> \o s # <<>> /\ (<<x>> \o s)[1] = x /\ Tail(<<x>> \o s) = s
         /\ \A y \in S : [<<x>> \o s EXCEPT ![1] = y] = <<y>> \o s
<1>1. <<x>> \o s # <<>> /\ (<<x>> \o s)[1] = x /\ Tail(<<x>> \o s) = s
  OBVIOUS
<1>2. ASSUME NEW y \in S PROVE [<<x>> \o s EXCEPT ![1] = y] = <<y>> \o s
  <2>1. PICK l, b, n : l = <<x>> \o s /\ b = <<y>> \o s /\ n = Len(s) + 1
    OBVIOUS
  <2>2. /\ l \in Seq(S) /\ b \in Seq(S) /\ Len(l) = n /\ Len(b) = n /\ n \in Nat
        /\ b[1] = y /\ \A i \in 2 .. n : l[i] = s[i - 1] /\ b[i] = s[i - 1]
    BY <2>1
  <2>3. PICK a : a = [l EXCEPT ![1] = y]
    OBVIOUS
  <2>4. /\ a \in Seq(S) /\ Len(a) = n
        /\ \A i \in 1 .. n : a[i] = IF i = 1 THEN y ELSE l[i]
    <3>1. 1 \in 1 .. Len(l) /\ Len(l) = n
      BY <2>1, <2>2
    <3> QED
      BY <2>2, <2>3, <3>1, ExceptSeq
  <2>5. ASSUME NEW i \in 1 .. n PROVE a[i] = b[i]
    <3>1. CASE i = 1
      BY <2>2, <2>4, <3>1
    <3>2. CASE i # 1
      <4>1. i \in 2 .. n
        BY <2>2, <3>2
      <4> QED
        BY <2>2, <2>4, <3>2, <4>1
    <3> QED
      BY <3>1, <3>2
  <2>6. a = b
    BY <2>2, <2>4, <2>5, SeqEqual
  <2> QED
    BY <2>1, <2>3, <2>6
<1> QED
  BY <1>1, <1>2

-----------------------------------------------------------------------------
(* The walk along a list.                                                  *)

\* The first of a list, if it has one.
LEMMA FirstStop ==
  ASSUME NEW r \in Seq(Nat), NEW n, n = IF DOMAIN r = {} THEN 0 ELSE Min(DOMAIN r)
  PROVE  /\ n \in Nat /\ (n # 0 => n \in DOMAIN r)
         /\ (IF n = 0 THEN <<>> ELSE SubSeq(r, n, Len(r))) = r
<1>1. PICK k, D : k \in Nat /\ k = Len(r) /\ D = DOMAIN r /\ D = 1 .. k
  OBVIOUS
<1>2. CASE D = {}
  BY <1>1, <1>2, SMTT(30)
<1>3. CASE D # {}
  <2>1. D \subseteq Nat /\ 1 \in D
    BY <1>1, <1>3
  <2>2. \E m \in D : \A j \in D : m <= j
    BY <2>1, LeastNumber
  <2>3. Min(D) \in D /\ \A j \in D : Min(D) <= j
    BY <2>2 DEF Min
  <2>4. Min(D) <= 1 /\ Min(D) \in 1 .. k
    BY <1>1, <2>1, <2>3
  <2>5. n = 1
    <3>1. Min(D) = 1
      BY <2>4
    <3> QED
      BY <1>1, <1>3, <3>1
  <2> QED
    BY <1>1, <2>1, <2>5
<1> QED
  BY <1>2, <1>3

\* A part of a list from one of its elements on.
LEMMA PartOf ==
  ASSUME NEW r \in Seq(Nat), NEW m \in Nat, m > 0, NEW k \in Nat, k = Len(r)
  PROVE  /\ SubSeq(r, m, k) \in Seq(Nat)
         /\ Len(SubSeq(r, m, k)) = IF m <= k THEN k - m + 1 ELSE 0
         /\ \A i \in 1 .. k - m + 1 : SubSeq(r, m, k)[i] = r[m + i - 1]
<1>1. m \in Int /\ k \in Int /\ \A i \in m .. k : r[i] \in Nat
  OBVIOUS
<1> QED
  BY <1>1, SubSeqProperties

\* Without its first it is the part from the next on.
LEMMA TailOfPart ==
  ASSUME NEW r \in Seq(Nat), NEW n \in 1 .. Len(r)
  PROVE  SubSeq(r, n + 1, Len(r)) = Tail(SubSeq(r, n, Len(r)))
<1>1. PICK k \in Nat : k = Len(r)
  OBVIOUS
<1>2. PICK m \in Nat : m = n + 1
  BY <1>1
<1>3. PICK a, b : a = SubSeq(r, m, k) /\ b = SubSeq(r, n, k)
  OBVIOUS
<1>4. n \in Nat /\ n > 0 /\ n <= k /\ m > 0
  BY <1>1, <1>2
<1>5. /\ a \in Seq(Nat) /\ Len(a) = IF m <= k THEN k - m + 1 ELSE 0
      /\ \A i \in 1 .. k - m + 1 : a[i] = r[m + i - 1]
  BY <1>1, <1>3, <1>4, PartOf, SMTT(30)
<1>6. /\ b \in Seq(Nat) /\ Len(b) = IF n <= k THEN k - n + 1 ELSE 0
      /\ \A i \in 1 .. k - n + 1 : b[i] = r[n + i - 1]
  BY <1>1, <1>3, <1>4, PartOf
<1>7. Len(a) = k - n /\ Len(b) = k - n + 1 /\ b # <<>>
  BY <1>2, <1>4, <1>5, <1>6
<1>8. PICK c : c = Tail(b)
  OBVIOUS
<1>9. c \in Seq(Nat) /\ Len(c) = k - n /\ \A i \in 1 .. Len(c) : c[i] = b[i + 1]
  BY <1>4, <1>6, <1>7, <1>8, HeadTailProperties
<1>10. ASSUME NEW i \in 1 .. Len(a) PROVE a[i] = c[i]
  <2>1. i \in 1 .. k - n /\ i \in 1 .. k - m + 1
    BY <1>2, <1>4, <1>7, <1>10
  <2>2. PICK j \in Nat : j = i + 1
    BY <2>1
  <2>3. j \in 1 .. k - n + 1 /\ n + j - 1 = m + i - 1
    BY <1>2, <1>4, <2>1, <2>2
  <2>4. a[i] = r[m + i - 1] /\ b[j] = r[n + j - 1]
    BY <1>5, <1>6, <2>1, <2>3
  <2>5. c[i] = b[j]
    BY <1>9, <2>1, <2>2
  <2> QED
    BY <2>3, <2>4, <2>5
<1>11. a = c
  BY <1>5, <1>7, <1>9, <1>10, SeqEqual
<1> QED
  BY <1>1, <1>2, <1>3, <1>8, <1>11

\* The next of a list, if it has one.
LEMMA NextStop ==
  ASSUME NEW r \in Seq(Nat), NEW n \in DOMAIN r, NEW L, L = {i \in DOMAIN r : i > n}
  PROVE  /\ SubSeq(r, n, Len(r)) \in Seq(Nat) /\ SubSeq(r, n, Len(r)) # <<>>
         /\ L # {} <=> Len(SubSeq(r, n, Len(r))) > 1
         /\ L # {} => /\ Min(L) \in DOMAIN r /\ Min(L) # 0
                      /\ SubSeq(r, Min(L), Len(r)) = Tail(SubSeq(r, n, Len(r)))
<1>1. PICK k \in Nat : k = Len(r) /\ DOMAIN r = 1 .. k
  OBVIOUS
<1>2. n \in 1 .. k
  BY <1>1
<1>3. PICK s : s = SubSeq(r, n, k)
  OBVIOUS
<1>4. s \in Seq(Nat) /\ Len(s) = k - n + 1 /\ s # <<>>
  BY <1>1, <1>2, <1>3
<1>5. CASE n = k
  <2>1. L = {}
    BY <1>1, <1>2, <1>5
  <2> QED
    BY <1>1, <1>2, <1>3, <1>4, <1>5, <2>1
<1>6. CASE n # k
  <2>1. n + 1 \in L /\ L \subseteq Nat /\ \A i \in L : n + 1 <= i
    BY <1>1, <1>2, <1>6
  <2>2. \E m \in L : \A i \in L : m <= i
    BY <2>1, LeastNumber
  <2>3. Min(L) \in L /\ \A i \in L : Min(L) <= i
    BY <2>2 DEF Min
  <2>4. Min(L) = n + 1
    BY <1>2, <2>1, <2>3
  <2>5. SubSeq(r, n + 1, k) = Tail(SubSeq(r, n, k))
    BY <1>1, <1>2, TailOfPart
  <2>6. n + 1 \in DOMAIN r /\ n + 1 # 0 /\ k - n + 1 > 1
    BY <1>1, <1>2, <1>6
  <2> QED
    BY <1>1, <1>3, <1>4, <2>1, <2>4, <2>5, <2>6
<1> QED
  BY <1>5, <1>6

-----------------------------------------------------------------------------
(* Lists of numbers and their sums.                                       *)

\* A list that goes on in another one.
LEMMA ListsConcat ==
  ASSUME NEW S, NEW s \in Seq(S), NEW t \in Seq(S)
  PROVE  /\ Len(s) \in Nat /\ Len(t) \in Nat /\ s \o t \in Seq(S) /\ Len(s \o t) = Len(s) + Len(t)
         /\ \A n \in 1 .. Len(s) : (s \o t)[n] = s[n]
         /\ \A n \in 1 .. Len(t) : (s \o t)[Len(s) + n] = t[n]
BY ConcatProperties

\* The members of a are those of s, mapped by f.
Maps(f, s, a) == Len(a) = Len(s) /\ \A n \in 1 .. Len(s) : a[n] = f[s[n]]

\* Two lists one behind the other are mapped one behind the other.
LEMMA MappedConcat ==
  ASSUME NEW S, NEW s \in Seq(S), NEW t \in Seq(S), NEW f,
         NEW T, NEW a \in Seq(T), NEW b \in Seq(T), NEW c \in Seq(T),
         Maps(f, s, a), Maps(f, t, b), Maps(f, s \o t, c)
  PROVE  c = a \o b
<1>1. PICK k, l, r : k = Len(s) /\ l = Len(t) /\ r = s \o t
  OBVIOUS
<1>2. /\ k \in Nat /\ l \in Nat /\ Len(r) = k + l
      /\ \A n \in 1 .. k : r[n] = s[n]
      /\ \A n \in 1 .. l : r[k + n] = t[n]
  BY <1>1, ListsConcat
<1>5. /\ Len(a) = k /\ Len(b) = l /\ Len(c) = k + l
      /\ \A n \in 1 .. k : a[n] = f[s[n]]
      /\ \A n \in 1 .. l : b[n] = f[t[n]]
      /\ \A n \in 1 .. k + l : c[n] = f[r[n]]
  BY <1>1, <1>2 DEF Maps
<1>3. /\ a \o b \in Seq(T) /\ Len(a \o b) = k + l
      /\ \A n \in 1 .. k : (a \o b)[n] = a[n]
      /\ \A n \in 1 .. l : (a \o b)[k + n] = b[n]
  <2>1. a \in Seq(T) /\ b \in Seq(T)
    OBVIOUS
  <2>2. /\ a \o b \in Seq(T) /\ Len(a \o b) = Len(a) + Len(b)
        /\ \A n \in 1 .. Len(a) : (a \o b)[n] = a[n]
        /\ \A n \in 1 .. Len(b) : (a \o b)[Len(a) + n] = b[n]
    BY ONLY <2>1, ListsConcat
  <2> QED
    BY <1>5, <2>2
<1>4. ASSUME NEW n \in 1 .. k + l PROVE c[n] = (a \o b)[n]
  <2>1. CASE n \in 1 .. k
    <3>1. c[n] = f[r[n]] /\ a[n] = f[s[n]] /\ r[n] = s[n] /\ (a \o b)[n] = a[n]
      BY <1>2, <1>3, <1>5, <2>1
    <3> QED
      BY <3>1
  <2>2. CASE n \notin 1 .. k
    <3>1. PICK d \in 1 .. l : n = k + d
      <4>1. n - k \in 1 .. l /\ n = k + (n - k)
        BY <1>2, <2>2
      <4> QED
        BY <4>1
    <3>2. c[n] = f[r[n]] /\ b[d] = f[t[d]] /\ r[n] = t[d] /\ (a \o b)[n] = b[d]
      BY <1>2, <1>3, <1>5, <3>1
    <3> QED
      BY <3>2
  <2> QED
    BY <2>1, <2>2
<1> QED
  BY <1>1, <1>3, <1>4, <1>5, SeqEqual

\* The sum of the first n of a list of numbers.
Upto(s, n) == SumFunction([m \in 1 .. n |-> s[m]])

\* It starts with 0 and grows by one number at a time.
LEMMA UptoGrow ==
  ASSUME NEW s \in Seq(Nat)
  PROVE  /\ Upto(s, 0) = 0
         /\ \A n \in 0 .. Len(s) : Upto(s, n) \in Nat
         /\ \A n \in 0 .. Len(s) - 1 : Upto(s, n + 1) = Upto(s, n) + s[n + 1]
<1>1. Len(s) \in Nat /\ \A m \in 1 .. Len(s) : s[m] \in Nat
  OBVIOUS
<1>2. \A n : Upto(s, n) = SumFunctionOnSet([m \in 1 .. n |-> s[m]], 1 .. n)
  BY DEF Upto, SumFunction
<1>3. Upto(s, 0) = 0
  <2>1. 1 .. 0 = {}
    OBVIOUS
  <2> QED
    BY <1>2, <2>1, SumOfNothing
<1>4. ASSUME NEW n \in 0 .. Len(s) PROVE Upto(s, n) = SumFunctionOnSet(s, 1 .. n) /\ Upto(s, n) \in Nat
  <2>1. PICK f : f = [m \in 1 .. n |-> s[m]]
    OBVIOUS
  <2>2. IsFiniteSet(1 .. n)
    BY <1>1, FS_Interval
  <2>3. /\ \A m \in 1 .. n : f[m] \in Nat
        /\ \A m \in 1 .. n : f[m] = s[m]
    BY <1>1, <2>1
  <2>4. SumFunctionOnSet(f, 1 .. n) = SumFunctionOnSet(s, 1 .. n) /\ SumFunctionOnSet(f, 1 .. n) \in Nat
    BY <2>2, <2>3, SumAgrees, SumType
  <2> QED
    BY <1>2, <2>1, <2>4
<1>5. ASSUME NEW n \in 0 .. Len(s) - 1 PROVE Upto(s, n + 1) = Upto(s, n) + s[n + 1]
  <2>1. n \in Nat /\ n \in 0 .. Len(s) /\ n + 1 \in 0 .. Len(s) /\ s[n + 1] \in Nat
    BY <1>1
  <2>2. \A i \in 1 .. n + 1 : s[i] \in Nat
    BY <1>1
  <2>3. SumFunctionOnSet(s, 1 .. n + 1) = s[n + 1] + SumFunctionOnSet(s, 1 .. n)
    BY <2>1, <2>2, SumOfLast
  <2>4. Upto(s, n) = SumFunctionOnSet(s, 1 .. n) /\ Upto(s, n) \in Nat
    BY <1>4, <2>1
  <2>5. Upto(s, n + 1) = SumFunctionOnSet(s, 1 .. n + 1)
    BY <1>4, <2>1
  <2> QED
    BY <2>1, <2>3, <2>4, <2>5
<1> QED
  BY <1>3, <1>4, <1>5

\* In a list that goes on in another one.
LEMMA UptoConcat ==
  ASSUME NEW s \in Seq(Nat), NEW t \in Seq(Nat)
  PROVE  /\ \A n \in 0 .. Len(s) : Upto(s \o t, n) = Upto(s, n)
         /\ \A n \in 0 .. Len(t) : Upto(s \o t, Len(s) + n) = Upto(s, Len(s)) + Upto(t, n)
<1>1. PICK k, l, r : k = Len(s) /\ l = Len(t) /\ r = s \o t
  OBVIOUS
<1>2. /\ k \in Nat /\ l \in Nat /\ r \in Seq(Nat) /\ Len(r) = k + l
      /\ \A n \in 1 .. k : r[n] = s[n]
      /\ \A n \in 1 .. l : r[k + n] = t[n]
  BY <1>1, ConcatProperties
<1> DEFINE P == {n \in Nat : n <= k => Upto(r, n) = Upto(s, n)}
           Q == {n \in Nat : n <= l => Upto(r, k + n) = Upto(s, k) + Upto(t, n)}
<1>3. 0 \in P
  BY <1>2, UptoGrow
<1>4. ASSUME NEW n \in Nat, n \in P PROVE n + 1 \in P
  <2> SUFFICES ASSUME n + 1 <= k PROVE Upto(r, n + 1) = Upto(s, n + 1)
    OBVIOUS
  <2>1. n \in 0 .. Len(r) - 1 /\ n \in 0 .. Len(s) - 1 /\ r[n + 1] = s[n + 1]
    BY <1>1, <1>2
  <2>2. Upto(r, n) = Upto(s, n)
    BY <1>2, <1>4
  <2>3. Upto(r, n + 1) = Upto(r, n) + r[n + 1] /\ Upto(s, n + 1) = Upto(s, n) + s[n + 1]
    BY <1>2, <2>1, UptoGrow
  <2> QED
    BY <2>1, <2>2, <2>3
<1>5. \A n \in Nat : n \in P
  <2> HIDE DEF P
  <2> QED
    BY <1>3, <1>4, Induction
<1>6. 0 \in Q
  <2>1. k \in P /\ Upto(t, 0) = 0 /\ Upto(s, k) \in Nat
    <3>1. k \in 0 .. Len(s)
      BY <1>1, <1>2
    <3> QED
      BY <1>2, <1>5, <3>1, UptoGrow
  <2>2. Upto(r, k) = Upto(s, k)
    BY <1>2, <2>1
  <2> QED
    BY <1>2, <2>1, <2>2
<1>7. ASSUME NEW n \in Nat, n \in Q PROVE n + 1 \in Q
  <2> SUFFICES ASSUME n + 1 <= l PROVE Upto(r, k + (n + 1)) = Upto(s, k) + Upto(t, n + 1)
    OBVIOUS
  <2>1. /\ k + n \in 0 .. Len(r) - 1 /\ n \in 0 .. Len(t) - 1 /\ n \in 0 .. Len(t) /\ k \in 0 .. Len(s)
        /\ r[k + (n + 1)] = t[n + 1] /\ t[n + 1] \in Nat /\ k + (n + 1) = (k + n) + 1
    BY <1>1, <1>2
  <2>2. Upto(r, k + n) = Upto(s, k) + Upto(t, n)
    BY <1>2, <1>7
  <2>3. Upto(r, (k + n) + 1) = Upto(r, k + n) + r[(k + n) + 1]
    BY <1>2, <2>1, UptoGrow
  <2>4. Upto(t, n + 1) = Upto(t, n) + t[n + 1] /\ Upto(t, n) \in Nat /\ Upto(s, k) \in Nat
    BY <2>1, UptoGrow
  <2> HIDE DEF Q
  <2> QED
    BY <2>1, <2>2, <2>3, <2>4
<1>8. \A n \in Nat : n \in Q
  <2> HIDE DEF Q
  <2> QED
    BY <1>6, <1>7, Induction
<1>9. \A n \in 0 .. k : Upto(r, n) = Upto(s, n)
  BY <1>2, <1>5
<1>10. \A n \in 0 .. l : Upto(r, k + n) = Upto(s, k) + Upto(t, n)
  BY <1>2, <1>8
<1> QED
  BY <1>1, <1>9, <1>10

=============================================================================
