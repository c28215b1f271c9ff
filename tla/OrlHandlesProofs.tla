-------------------------- MODULE OrlHandlesProofs --------------------------
(***************************************************************************)
(* Theorems about OrlHandles for every heap and every set of enabled       *)
(* formats: the handles are owned, nothing is left after a session, and    *)
(* the two lists implement one set of open files.                          *)
(***************************************************************************)
EXTENDS OrlHandles, TLAPS

-----------------------------------------------------------------------------
(* Lists that hold an address once.                                        *)

\* Pushing a new address on a list that holds every address once.
LEMMA ConsOnce ==
  ASSUME NEW S, NEW s \in Seq(S), IsInjective(s), NEW x \in S, x \notin Range(s)
  PROVE  /\ Cons(x, s) \in Seq(S)
         /\ IsInjective(Cons(x, s))
         /\ Range(Cons(x, s)) = Range(s) \cup {x}
<1> DEFINE t == Cons(x, s)
<1>1. t \in Seq(S) /\ DOMAIN t = 1 .. Len(s) + 1
  BY DEF Cons
<1>2. t[1] = x /\ \A i \in 2 .. Len(s) + 1 : t[i] = s[i - 1]
  BY DEF Cons
<1> HIDE DEF t
<1>3. \A i \in DOMAIN t : i # 1 => i - 1 \in DOMAIN s /\ t[i] = s[i - 1]
  BY <1>1, <1>2
<1>4. \A i \in DOMAIN s : i + 1 \in DOMAIN t /\ t[i + 1] = s[i]
  BY <1>1, <1>2
<1>5. \A i \in DOMAIN t : i # 1 => t[i] # x
  BY <1>3 DEF Range
<1>6. ASSUME NEW i \in DOMAIN t, NEW j \in DOMAIN t, t[i] = t[j] PROVE i = j
  <2>1. CASE i = 1 \/ j = 1
    BY <1>2, <1>5, <1>6, <2>1
  <2>2. CASE i # 1 /\ j # 1
    <3>1. i - 1 = j - 1
      BY <1>3, <1>6, <2>2 DEF IsInjective
    <3> QED
      BY <1>1, <3>1
  <2> QED
    BY <2>1, <2>2
<1>7. Range(t) = Range(s) \cup {x}
  <2>1. ASSUME NEW y \in Range(t) PROVE y \in Range(s) \cup {x}
    BY <1>2, <1>3, <2>1 DEF Range
  <2>2. x \in Range(t)
    BY <1>1, <1>2 DEF Range
  <2>3. ASSUME NEW y \in Range(s) PROVE y \in Range(t)
    BY <1>4, <2>3 DEF Range
  <2> QED
    BY <2>1, <2>2, <2>3
<1> QED
  BY <1>1, <1>6, <1>7 DEF t, IsInjective

\* Unlinking an address from a list that holds every address once moves those
\* behind it one place forward.
LEMMA RemovedAt ==
  ASSUME NEW S, NEW s \in Seq(S), IsInjective(s), NEW x \in Range(s)
  PROVE  \E p \in 1 .. Len(s) :
           /\ s[p] = x
           /\ RemoveFirst(s, x) \in Seq(S)
           /\ DOMAIN RemoveFirst(s, x) = 1 .. Len(s) - 1
           /\ \A i \in 1 .. Len(s) - 1 :
                RemoveFirst(s, x)[i] = IF i < p THEN s[i] ELSE s[i + 1]
<1>1. PICK p \in 1 .. Len(s) : s[p] = x
  BY DEF Range
<1>2. {i \in 1 .. Len(s) : s[i] = x} = {p}
  BY <1>1 DEF IsInjective
<1>3. Min({p}) = p
  BY DEF Min
<1>4. SelectInSeq(s, LAMBDA v : v = x) = p
  BY <1>2, <1>3 DEF SelectInSeq
<1> DEFINE t == RemoveFirst(s, x)
<1>5. t = SubSeq(s, 1, p - 1) \o SubSeq(s, p + 1, Len(s))
  BY <1>1, <1>4 DEF RemoveFirst, RemoveAt
<1> DEFINE a == SubSeq(s, 1, p - 1)
           c == SubSeq(s, p + 1, Len(s))
<1>a. /\ a \in Seq(S)
      /\ Len(a) = p - 1
      /\ \A i \in 1 .. p - 1 : a[i] = s[i]
  BY <1>1
<1>c. /\ c \in Seq(S)
      /\ Len(c) = Len(s) - p
      /\ \A i \in 1 .. Len(s) - p : c[i] = s[i + p]
  BY <1>1
<1>t. t = a \o c
  BY <1>5
<1> HIDE DEF a, c, t
<1>6. /\ t \in Seq(S)
      /\ DOMAIN t = 1 .. Len(s) - 1
      /\ \A i \in 1 .. Len(s) - 1 : t[i] = IF i < p THEN s[i] ELSE s[i + 1]
  <2>1. t \in Seq(S) /\ DOMAIN t = 1 .. Len(s) - 1
    BY <1>1, <1>a, <1>c, <1>t
  <2>2. \A i \in 1 .. Len(s) - 1 :
          t[i] = IF i <= Len(a) THEN a[i] ELSE c[i - Len(a)]
    BY <1>1, <1>a, <1>c, <1>t
  <2>3. ASSUME NEW i \in 1 .. Len(s) - 1
        PROVE  t[i] = IF i < p THEN s[i] ELSE s[i + 1]
    <3>1. CASE i < p
      <4>1. i \in 1 .. p - 1 /\ i <= Len(a)
        BY <1>1, <1>a, <2>3, <3>1
      <4> QED
        BY <1>a, <2>2, <2>3, <3>1, <4>1
    <3>2. CASE ~(i < p)
      <4>1. /\ i - (p - 1) \in 1 .. Len(s) - p
            /\ ~(i <= Len(a))
            /\ (i - (p - 1)) + p = i + 1
        BY <1>1, <1>a, <2>3, <3>2
      <4>2. t[i] = c[i - (p - 1)]
        BY <1>a, <2>2, <2>3, <4>1
      <4> QED
        BY <1>c, <3>2, <4>1, <4>2
    <3> QED
      BY <3>1, <3>2
  <2> QED
    BY <2>1, <2>3
<1> QED
  BY <1>1, <1>6 DEF t

\* Unlinking an address from a list that holds every address once.
LEMMA RemoveOnce ==
  ASSUME NEW S, NEW s \in Seq(S), IsInjective(s), NEW x \in Range(s)
  PROVE  /\ RemoveFirst(s, x) \in Seq(S)
         /\ IsInjective(RemoveFirst(s, x))
         /\ Range(RemoveFirst(s, x)) = Range(s) \ {x}
<1> DEFINE t == RemoveFirst(s, x)
<1>1. PICK p \in 1 .. Len(s) :
        /\ s[p] = x /\ t \in Seq(S) /\ DOMAIN t = 1 .. Len(s) - 1
        /\ \A i \in 1 .. Len(s) - 1 : t[i] = IF i < p THEN s[i] ELSE s[i + 1]
  BY RemovedAt
<1> HIDE DEF t
<1>6. /\ t \in Seq(S) /\ DOMAIN t = 1 .. Len(s) - 1
      /\ \A i \in 1 .. Len(s) - 1 : t[i] = IF i < p THEN s[i] ELSE s[i + 1]
  BY <1>1
<1> DEFINE old(i) == IF i < p THEN i ELSE i + 1
<1>7. \A i \in DOMAIN t : old(i) \in DOMAIN s \ {p} /\ t[i] = s[old(i)]
  BY <1>1, <1>6
<1>8. \A i, j \in DOMAIN t : old(i) = old(j) => i = j
  BY <1>1, <1>6
<1>9. \A m \in DOMAIN s \ {p} : \E i \in DOMAIN t : old(i) = m
  <2> SUFFICES ASSUME NEW m \in DOMAIN s \ {p}
               PROVE  \E i \in DOMAIN t : old(i) = m
    OBVIOUS
  <2>1. CASE m < p
    BY <1>1, <1>6, <2>1
  <2>2. CASE m > p
    <3>1. m - 1 \in DOMAIN t /\ old(m - 1) = m
      BY <1>1, <1>6, <2>2
    <3> QED
      BY <3>1
  <2> QED
    BY <1>1, <2>1, <2>2
<1> HIDE DEF old
<1>10. IsInjective(t)
  BY <1>7, <1>8 DEF IsInjective
<1>11. Range(t) = Range(s) \ {x}
  <2>1. ASSUME NEW y \in Range(t) PROVE y \in Range(s) \ {x}
    BY <1>1, <1>7, <2>1 DEF Range, IsInjective
  <2>2. ASSUME NEW y \in Range(s) \ {x} PROVE y \in Range(t)
    <3>1. PICK m \in DOMAIN s \ {p} : s[m] = y
      BY <1>1, <2>2 DEF Range
    <3> QED
      BY <1>7, <1>9, <3>1 DEF Range
  <2> QED
    BY <2>1, <2>2
<1> QED
  BY <1>6, <1>10, <1>11 DEF t

\* The addresses that stay keep their order.
LEMMA RemoveKeepsOrder ==
  ASSUME NEW S, NEW s \in Seq(S), IsInjective(s), NEW x \in Range(s), NEW t, t = RemoveFirst(s, x)
  PROVE  /\ \A k, l \in DOMAIN t : k < l =>
              \E m, n \in DOMAIN s : m < n /\ t[k] = s[m] /\ t[l] = s[n]
         /\ \A m, n \in DOMAIN s : m < n /\ s[m] # x /\ s[n] # x =>
              \E k, l \in DOMAIN t : k < l /\ t[k] = s[m] /\ t[l] = s[n]
<1>1. PICK p \in 1 .. Len(s) :
        /\ s[p] = x /\ DOMAIN t = 1 .. Len(s) - 1
        /\ \A i \in 1 .. Len(s) - 1 : t[i] = IF i < p THEN s[i] ELSE s[i + 1]
  BY RemovedAt
<1>2. PICK len \in Nat : len = Len(s) /\ DOMAIN s = 1 .. len /\ p \in 1 .. len
  BY <1>1
<1> DEFINE old(i) == IF i < p THEN i ELSE i + 1
           new(i) == IF i < p THEN i ELSE i - 1
<1>3. \A i \in 1 .. len - 1 : old(i) \in 1 .. len /\ t[i] = s[old(i)]
  BY <1>1, <1>2
<1>4. \A i, j \in 1 .. len - 1 : i < j => old(i) < old(j)
  BY <1>2
<1>5. \A i \in 1 .. len : i # p => new(i) \in 1 .. len - 1 /\ old(new(i)) = i
  BY <1>2
<1>6. \A i, j \in 1 .. len : i # p /\ j # p /\ i < j => new(i) < new(j)
  BY <1>2
<1> HIDE DEF old, new
<1>7. ASSUME NEW k \in DOMAIN t, NEW l \in DOMAIN t, k < l
      PROVE  \E m, n \in DOMAIN s : m < n /\ t[k] = s[m] /\ t[l] = s[n]
  BY <1>1, <1>2, <1>3, <1>4, <1>7
<1>8. ASSUME NEW m \in DOMAIN s, NEW n \in DOMAIN s, m < n, s[m] # x, s[n] # x
      PROVE  \E k, l \in DOMAIN t : k < l /\ t[k] = s[m] /\ t[l] = s[n]
  <2>1. m # p /\ n # p
    BY <1>1, <1>8
  <2>2. /\ new(m) \in DOMAIN t /\ new(n) \in DOMAIN t /\ new(m) < new(n)
        /\ t[new(m)] = s[m] /\ t[new(n)] = s[n]
    BY <1>1, <1>2, <1>3, <1>5, <1>6, <1>8, <2>1
  <2> QED
    BY <2>2
<1> QED
  BY <1>7, <1>8

\* Unlinking the address that was pushed last gives the list before.
LEMMA UnlinkLast ==
  ASSUME NEW S, NEW s \in Seq(S), NEW x \in S
  PROVE  RemoveFirst(Cons(x, s), x) = s
<1> DEFINE t == Cons(x, s)
<1>1. /\ t \in Seq(S) /\ Len(t) = Len(s) + 1 /\ t[1] = x
      /\ \A i \in 1 .. Len(s) : t[i + 1] = s[i]
  BY DEF Cons
<1> HIDE DEF t
<1>2. 1 \in {i \in 1 .. Len(t) : t[i] = x}
  BY <1>1
<1>3. Min({i \in 1 .. Len(t) : t[i] = x}) = 1
  <2> DEFINE P == {i \in 1 .. Len(t) : t[i] = x}
  <2>1. P \subseteq Nat \ {0} /\ 1 \in P
    BY <1>1, <1>2
  <2>2. \A m : (m \in P /\ \A y \in P : m <= y) <=> m = 1
    BY <2>1
  <2> HIDE DEF P
  <2>3. Min(P) = 1
    BY <2>2 DEF Min
  <2> QED
    BY <2>3 DEF P
<1>4. SelectInSeq(t, LAMBDA v : v = x) = 1
  BY <1>2, <1>3 DEF SelectInSeq
<1>5. RemoveFirst(t, x) = SubSeq(t, 1, 0) \o SubSeq(t, 2, Len(t))
  <2>1. \E i \in 1 .. Len(t) : t[i] = x
    BY <1>2
  <2>2. RemoveFirst(t, x) = RemoveAt(t, 1)
    BY <1>4, <2>1 DEF RemoveFirst
  <2> QED
    BY <2>2 DEF RemoveAt
<1>6. SubSeq(t, 1, 0) = <<>>
  BY <1>1
<1>7. SubSeq(t, 2, Len(t)) = s
  BY <1>1
<1>8. <<>> \o s = s
  OBVIOUS
<1> QED
  BY <1>5, <1>6, <1>7, <1>8 DEF t

-----------------------------------------------------------------------------
(* The inductive invariant.                                                *)

\* A free cell holds nothing else, and the handle of a reader belongs to a
\* format of this build.
CellsFit ==
  \A a \in Addr :
    /\ heap[a].kind = "free" => heap[a] = FreeCell
    /\ heap[a].kind = "reader_file" => heap[a].fmt \in Enabled

Inv == TypeOK /\ Owned /\ NothingLeft /\ CellsFit

\* What the cells and their parts are.
LEMMA CellParts ==
  /\ FreeCell \in Cell /\ FreeCell.kind = "free"
  /\ \A f \in Formats, b \in Addr :
       /\ FileCell(f, b) \in Cell
       /\ FileCell(f, b).kind = "file"
       /\ FileCell(f, b).fmt = f
       /\ FileCell(f, b).hnd = b
       /\ ReaderFileCell(f) \in Cell
       /\ ReaderFileCell(f).kind = "reader_file"
       /\ ReaderFileCell(f).fmt = f
BY DEF Cell, Kinds, FreeCell, FileCell, ReaderFileCell

\* At the start nothing is allocated.
LEMMA InvInit == Init => Inv
<1> SUFFICES ASSUME Init PROVE Inv
  OBVIOUS
<1>1. TypeOK
  BY CellParts DEF Init, TypeOK, NoFiles
<1>2. \A a \in Addr : IsFree(a) /\ heap[a].kind = "free"
  BY CellParts DEF Init, IsFree
<1>3. files = <<>> /\ \A f \in Enabled : readers[f] = <<>>
  BY DEF Init, NoFiles
<1>4. Range(<<>>) = {} /\ IsInjective(<<>>)
  BY DEF Range, IsInjective
<1>5. Owned
  BY <1>2, <1>3, <1>4 DEF Owned, FilesOf
<1> QED
  BY <1>1, <1>2, <1>5 DEF Init, Inv, NothingLeft, CellsFit

\* An action that leaves the heap and the lists alone preserves what is said
\* of them.
LEMMA SameLists ==
  ASSUME Inv, session # "undefined", UNCHANGED <<heap, files, readers>>
  PROVE  Owned' /\ CellsFit'
BY DEF Inv, Owned, CellsFit, FilesOf

\* ORLInit and ORLInitFails touch no file.
LEMMA InitPreserves ==
  ASSUME Inv, ORLInit \/ \E x \in {ORL} \cup Enabled : ORLInitFails(x)
  PROVE  Inv'
<1>1. session = "none" /\ own = {}
  BY DEF Inv, ORLInit, ORLInitFails, NothingLeft
<1>2. UNCHANGED <<heap, files, readers>>
  BY DEF ORLInit, ORLInitFails
<1>3. Owned' /\ CellsFit'
  BY <1>1, <1>2, SameLists
<1>4. CASE ORLInit
  BY <1>2, <1>3, <1>4 DEF Inv, ORLInit, TypeOK, NothingLeft
<1>5. ASSUME NEW x \in {ORL} \cup Enabled, ORLInitFails(x)
      PROVE  Inv'
  <2>1. own' = {} \/ (session' = "undefined" /\ own' \subseteq {ORL} \cup Enabled)
    BY <1>1, <1>5 DEF ORLInitFails
  <2>2. TypeOK'
    BY <1>5, <2>1 DEF Inv, ORLInitFails, TypeOK
  <2>3. NothingLeft'
    BY <1>1, <1>2, <2>1 DEF Inv, NothingLeft, IsFree
  <2> QED
    BY <1>3, <2>2, <2>3 DEF Inv
<1> QED
  BY <1>4, <1>5

\* The heap after the two allocations of ORLFileInit.
LEMMA AllocatedCells ==
  ASSUME TypeOK, NEW f \in Enabled, NEW a \in Addr, NEW b \in Addr, a # b
  PROVE  /\ Allocated(a, b, f) \in [Addr -> Cell]
         /\ Allocated(a, b, f)[a] = FileCell(f, b)
         /\ Allocated(a, b, f)[b] = ReaderFileCell(f)
         /\ \A c \in Addr \ {a, b} : Allocated(a, b, f)[c] = heap[c]
<1>1. f \in Formats /\ FileCell(f, b) \in Cell /\ ReaderFileCell(f) \in Cell
  BY FormatsAssumption, CellParts
<1> QED
  BY <1>1 DEF TypeOK, Allocated

\* A refused file leaves the heap and the lists as they were.
LEMMA FailsRestores ==
  ASSUME Inv, NEW f \in Formats, NEW a \in Addr, NEW b \in Addr,
         NEW wild \in BOOLEAN, ORLFileInitFails(f, a, b, wild)
  PROVE  UNCHANGED <<heap, files, readers>>
<1>1. /\ f \in Enabled /\ a # b
      /\ heap[a].kind = "free" /\ heap[b].kind = "free"
  BY DEF ORLFileInitFails, IsFree
<1>2. readers' = readers
  <2>1. readers[f] \in Seq(Addr) /\ readers = [g \in Enabled |-> readers[g]]
    BY <1>1 DEF Inv, TypeOK
  <2>2. RemoveFirst(Cons(b, readers[f]), b) = readers[f]
    BY <2>1, UnlinkLast
  <2>3. readers' = [[readers EXCEPT ![f] = Cons(b, @)]
                      EXCEPT ![f] = RemoveFirst(@, b)]
    BY DEF ORLFileInitFails, Linked
  <2>4. readers' = [readers EXCEPT ![f] = RemoveFirst(Cons(b, readers[f]), b)]
    BY <1>1, <2>1, <2>3
  <2> QED
    BY <2>1, <2>2, <2>4
<1>3. heap' = heap
  <2>1. heap' = [c \in Addr |-> IF c \in {a, b} THEN FreeCell
                                ELSE Allocated(a, b, f)[c]]
    BY DEF ORLFileInitFails, Released
  <2>2. \A c \in Addr : heap[c] = IF c \in {a, b} THEN FreeCell
                                  ELSE Allocated(a, b, f)[c]
    BY <1>1, AllocatedCells DEF Inv, CellsFit
  <2>3. heap = [c \in Addr |-> heap[c]]
    BY DEF Inv, TypeOK
  <2> QED
    BY <2>1, <2>2, <2>3
<1> QED
  BY <1>2, <1>3 DEF ORLFileInitFails
\* A file that loads: both handles are new, and each goes to its list.
LEMMA LoadPreserves ==
  ASSUME Inv, NEW f \in Formats, NEW a \in Addr, NEW b \in Addr,
         ORLFileInit(f, a, b)
  PROVE  Inv'
<1>1. /\ session = "live" /\ session' = "live" /\ f \in Enabled /\ a # b
      /\ heap[a].kind = "free" /\ heap[b].kind = "free"
  BY DEF ORLFileInit, IsFree
<1>2. /\ heap' \in [Addr -> Cell]
      /\ heap'[a].kind = "file" /\ heap'[a].fmt = f /\ heap'[a].hnd = b
      /\ heap'[b].kind = "reader_file" /\ heap'[b].fmt = f
      /\ \A c \in Addr \ {a, b} : heap'[c] = heap[c]
  BY <1>1, AllocatedCells, CellParts, FormatsAssumption DEF Inv, ORLFileInit
<1>3. /\ files \in Seq(Addr) /\ IsInjective(files)
      /\ Range(files) = {c \in Addr : heap[c].kind = "file"}
  BY <1>1 DEF Inv, TypeOK, Owned
<1>4. a \notin Range(files) /\ b \notin Range(files)
  BY <1>1, <1>3
<1>5. /\ files' \in Seq(Addr) /\ IsInjective(files')
      /\ Range(files') = Range(files) \cup {a}
  BY <1>3, <1>4, ConsOnce DEF ORLFileInit
<1>6. /\ readers[f] \in Seq(Addr) /\ IsInjective(readers[f])
      /\ Range(readers[f]) = {c \in Addr : /\ heap[c].kind = "reader_file"
                                           /\ heap[c].fmt = f}
  BY <1>1 DEF Inv, TypeOK, Owned
<1>7. /\ readers' \in [Enabled -> Seq(Addr)]
      /\ readers'[f] = Cons(b, readers[f])
      /\ \A g \in Enabled \ {f} : readers'[g] = readers[g]
  <2>1. Cons(b, readers[f]) \in Seq(Addr)
    BY <1>1, <1>6, ConsOnce
  <2> QED
    BY <1>1, <2>1 DEF Inv, TypeOK, ORLFileInit, Linked
<1>8. /\ IsInjective(readers'[f])
      /\ Range(readers'[f]) = Range(readers[f]) \cup {b}
  BY <1>1, <1>6, <1>7, ConsOnce
<1>9. TypeOK'
  BY <1>1, <1>2, <1>5, <1>7 DEF Inv, TypeOK, ORLFileInit
<1>10. /\ FilesOf(f)' = FilesOf(f) \cup {a}
       /\ \A g \in Enabled \ {f} : FilesOf(g)' = FilesOf(g)
  BY <1>2, <1>3, <1>4, <1>5 DEF FilesOf
<1>11. \A h \in Range(files) : h \in Addr /\ heap'[h] = heap[h]
  BY <1>2, <1>3, <1>4
<1>12. \A g \in Enabled : \A h \in FilesOf(g) :
         /\ h \in Range(files)
         /\ heap[h].hnd \in Range(readers[g])
         /\ heap[h].hnd # b
  <2>1. ASSUME NEW g \in Enabled, NEW h \in FilesOf(g)
        PROVE  /\ h \in Range(files)
               /\ heap[h].hnd \in Range(readers[g])
               /\ heap[h].hnd # b
    <3>1. h \in Range(files)
      BY DEF FilesOf
    <3>2. heap[h].hnd \in Range(readers[g])
      BY <1>1, SMTT(30) DEF Inv, Owned
    <3>3. b \notin Range(readers[g])
      BY <1>1 DEF Inv, Owned
    <3> QED
      BY <3>1, <3>2, <3>3
  <2> QED
    BY <2>1
<1>13. Owned'
  <2>1. IsInjective(files') /\ Range(files') = {c \in Addr : heap'[c].kind = "file"}
    BY <1>1, <1>2, <1>3, <1>5
  <2>2. \A h \in Range(files') : heap'[h].fmt \in Enabled
    BY <1>1, <1>2, <1>5, <1>11 DEF Inv, Owned
  <2>3. ASSUME NEW g \in Enabled
        PROVE  /\ IsInjective(readers'[g])
               /\ Range(readers'[g]) = {c \in Addr : /\ heap'[c].kind = "reader_file"
                                                     /\ heap'[c].fmt = g}
               /\ Range(readers'[g]) = {heap'[h].hnd : h \in FilesOf(g)'}
               /\ \A h, k \in FilesOf(g)' : heap'[h].hnd = heap'[k].hnd => h = k
    <3>1. /\ IsInjective(readers[g])
          /\ Range(readers[g]) = {c \in Addr : /\ heap[c].kind = "reader_file"
                                               /\ heap[c].fmt = g}
          /\ Range(readers[g]) = {heap[h].hnd : h \in FilesOf(g)}
          /\ \A h, k \in FilesOf(g) : heap[h].hnd = heap[k].hnd => h = k
      BY <1>1 DEF Inv, Owned
    <3>2. CASE g = f
      <4>1. Range(readers'[g]) = {c \in Addr : /\ heap'[c].kind = "reader_file"
                                               /\ heap'[c].fmt = g}
        BY <1>1, <1>2, <1>8, <3>1, <3>2
      <4>2. Range(readers'[g]) = {heap'[h].hnd : h \in FilesOf(g)'}
        BY <1>2, <1>8, <1>10, <1>11, <1>12, <3>1, <3>2
      <4>3. \A h, k \in FilesOf(g)' : heap'[h].hnd = heap'[k].hnd => h = k
        BY <1>2, <1>10, <1>11, <1>12, <3>1, <3>2
      <4> QED
        BY <1>8, <3>2, <4>1, <4>2, <4>3
    <3>3. CASE g # f
      <4>1. readers'[g] = readers[g] /\ FilesOf(g)' = FilesOf(g)
        BY <1>7, <1>10, <3>3
      <4>2. \A c \in Addr : (heap'[c].kind = "reader_file" /\ heap'[c].fmt = g)
                        <=> (heap[c].kind = "reader_file" /\ heap[c].fmt = g)
        BY <1>1, <1>2, <3>3
      <4>3. Range(readers[g]) = {c \in Addr : /\ heap'[c].kind = "reader_file"
                                              /\ heap'[c].fmt = g}
        BY <3>1, <4>2
      <4>4. \A h \in FilesOf(g) : heap'[h].hnd = heap[h].hnd
        BY <1>11, <1>12
      <4>5. Range(readers[g]) = {heap'[h].hnd : h \in FilesOf(g)}
        BY <3>1, <4>4
      <4>6. \A h, k \in FilesOf(g) : heap'[h].hnd = heap'[k].hnd => h = k
        BY <3>1, <4>4
      <4> QED
        BY <3>1, <4>1, <4>3, <4>5, <4>6
    <3> QED
      BY <3>2, <3>3
  <2> QED
    BY <2>1, <2>2, <2>3 DEF Owned
<1>14. CellsFit'
  BY <1>1, <1>2 DEF Inv, CellsFit
<1> QED
  BY <1>1, <1>9, <1>13, <1>14 DEF Inv, NothingLeft

\* A file that is refused changes no list and no cell.
LEMMA FailPreserves ==
  ASSUME Inv, NEW f \in Formats, NEW a \in Addr, NEW b \in Addr,
         NEW wild \in BOOLEAN, ORLFileInitFails(f, a, b, wild)
  PROVE  Inv'
<1>1. UNCHANGED <<heap, files, readers>>
  BY FailsRestores
<1>2. session = "live" /\ session' \in {"live", "undefined"}
  BY DEF ORLFileInitFails
<1>3. Owned' /\ CellsFit'
  BY <1>1, <1>2, SameLists
<1>4. TypeOK'
  BY <1>1, <1>2 DEF Inv, TypeOK, ORLFileInitFails
<1> QED
  BY <1>2, <1>3, <1>4 DEF Inv, NothingLeft

\* A file that is closed: the reader finds its handle, and both handles go.
LEMMA ClosePreserves ==
  ASSUME Inv, NEW x \in Addr, ORLFileFini(x)
  PROVE  /\ Inv'
         /\ x \in Range(files)
         /\ Range(files') = Range(files) \ {x}
         /\ \A h \in Range(files) \ {x} : heap'[h] = heap[h]
<1> DEFINE f == heap[x].fmt
           b == heap[x].hnd
<1>1. session = "live" /\ session' = "live" /\ x \in Range(files)
  BY DEF ORLFileFini
<1>2. /\ IsInjective(files) /\ files \in Seq(Addr)
      /\ Range(files) = {a \in Addr : heap[a].kind = "file"}
      /\ f \in Enabled
  BY <1>1 DEF Inv, TypeOK, Owned
<1>3. /\ readers[f] \in Seq(Addr) /\ IsInjective(readers[f])
      /\ Range(readers[f]) = {a \in Addr : /\ heap[a].kind = "reader_file"
                                           /\ heap[a].fmt = f}
  BY <1>1, <1>2 DEF Inv, TypeOK, Owned
<1>4. b \in Range(readers[f]) /\ b \in Addr /\ b # x
  <2>1. x \in FilesOf(f)
    BY <1>1 DEF FilesOf
  <2>2. b \in Range(readers[f])
    BY <1>1, <1>2, <2>1 DEF Inv, Owned
  <2> QED
    BY <1>1, <1>2, <1>3, <2>2
<1>5. /\ readers' = [readers EXCEPT ![f] = RemoveFirst(@, b)]
      /\ files' = RemoveFirst(files, x)
      /\ heap' = Released(heap, {x, b})
      /\ UNCHANGED <<session, own, error>>
  BY <1>4 DEF ORLFileFini
<1>6. /\ files' \in Seq(Addr) /\ IsInjective(files')
      /\ Range(files') = Range(files) \ {x}
  BY <1>1, <1>2, <1>5, RemoveOnce
<1>7. /\ readers' \in [Enabled -> Seq(Addr)]
      /\ readers'[f] = RemoveFirst(readers[f], b)
      /\ \A g \in Enabled \ {f} : readers'[g] = readers[g]
  <2>1. RemoveFirst(readers[f], b) \in Seq(Addr)
    BY <1>3, <1>4, RemoveOnce
  <2> QED
    BY <1>2, <1>5, <2>1 DEF Inv, TypeOK
<1>8. IsInjective(readers'[f]) /\ Range(readers'[f]) = Range(readers[f]) \ {b}
  BY <1>3, <1>4, <1>7, RemoveOnce
<1>9. /\ heap' \in [Addr -> Cell]
      /\ heap'[x] = FreeCell /\ heap'[b] = FreeCell
      /\ \A c \in Addr \ {x, b} : heap'[c] = heap[c]
  BY <1>1, <1>2, <1>4, <1>5, CellParts DEF Inv, TypeOK, Released
<1>10. heap'[x].kind = "free" /\ heap'[b].kind = "free"
  BY <1>9, CellParts
<1>11. b \notin Range(files) /\ heap[b].kind = "reader_file" /\ heap[b].fmt = f
  BY <1>2, <1>3, <1>4
<1>12. \A h \in Range(files) \ {x} : h \in Addr /\ heap'[h] = heap[h]
  BY <1>2, <1>9, <1>11
<1>13. \A g \in Enabled : FilesOf(g)' = FilesOf(g) \ {x}
  BY <1>6, <1>12 DEF FilesOf
<1>14. Owned'
  <2>1. \A c \in Addr : heap'[c].kind = "file" <=> (heap[c].kind = "file" /\ c # x)
    BY <1>9, <1>10, <1>11
  <2>2. Range(files') = {a \in Addr : heap'[a].kind = "file"}
    BY <1>2, <1>6, <2>1
  <2>3. \A h \in Range(files') : heap'[h].fmt \in Enabled
    BY <1>1, <1>6, <1>12 DEF Inv, Owned
  <2>4. ASSUME NEW g \in Enabled
        PROVE  /\ IsInjective(readers'[g])
               /\ Range(readers'[g]) = {c \in Addr : /\ heap'[c].kind = "reader_file"
                                                     /\ heap'[c].fmt = g}
               /\ Range(readers'[g]) = {heap'[h].hnd : h \in FilesOf(g)'}
               /\ \A h, k \in FilesOf(g)' : heap'[h].hnd = heap'[k].hnd => h = k
    <3>1. /\ IsInjective(readers[g])
          /\ Range(readers[g]) = {c \in Addr : /\ heap[c].kind = "reader_file"
                                               /\ heap[c].fmt = g}
          /\ Range(readers[g]) = {heap[h].hnd : h \in FilesOf(g)}
          /\ \A h, k \in FilesOf(g) : heap[h].hnd = heap[k].hnd => h = k
      BY <1>1 DEF Inv, Owned
    <3>2. \A h \in FilesOf(g) : h \in Range(files) /\ heap[h].fmt = g
      BY DEF FilesOf
    <3>3. \A h \in FilesOf(g) \ {x} : heap'[h].hnd = heap[h].hnd
      BY <1>12, <3>2
    <3>4. \A h, k \in FilesOf(g)' : heap'[h].hnd = heap'[k].hnd => h = k
      BY <1>13, <3>1, <3>3
    <3>5. CASE g = f
      <4>1. \A c \in Addr : (heap'[c].kind = "reader_file" /\ heap'[c].fmt = g)
                        <=> /\ heap[c].kind = "reader_file" /\ heap[c].fmt = g
                            /\ c # b
        BY <1>1, <1>2, <1>9, <1>10
      <4>2. Range(readers'[g]) = Range(readers[g]) \ {b}
        BY <1>8, <3>5
      <4>3. Range(readers'[g]) = {c \in Addr : /\ heap'[c].kind = "reader_file"
                                               /\ heap'[c].fmt = g}
        BY <3>1, <4>1, <4>2
      <4>4. x \in FilesOf(g)
        BY <1>1, <3>5 DEF FilesOf
      <4>5. \A h \in FilesOf(g) : heap[h].hnd = b <=> h = x
        BY <3>1, <4>4
      <4>6. Range(readers'[g]) = {heap[h].hnd : h \in FilesOf(g) \ {x}}
        BY <3>1, <4>2, <4>5
      <4>7. Range(readers'[g]) = {heap'[h].hnd : h \in FilesOf(g) \ {x}}
        BY <3>3, <4>6
      <4> QED
        BY <1>8, <1>13, <3>4, <3>5, <4>3, <4>7
    <3>6. CASE g # f
      <4>1. \A c \in Addr : (heap'[c].kind = "reader_file" /\ heap'[c].fmt = g)
                        <=> (heap[c].kind = "reader_file" /\ heap[c].fmt = g)
        BY <1>1, <1>2, <1>9, <1>10, <1>11, <3>6
      <4>2. readers'[g] = readers[g]
        BY <1>7, <3>6
      <4>3. Range(readers[g]) = {c \in Addr : /\ heap'[c].kind = "reader_file"
                                              /\ heap'[c].fmt = g}
        BY <3>1, <4>1
      <4>4. FilesOf(g)' = FilesOf(g)
        BY <1>13, <3>2, <3>6
      <4>5. \A h \in FilesOf(g) : heap'[h].hnd = heap[h].hnd
        BY <3>2, <3>3, <3>6
      <4>6. Range(readers[g]) = {heap'[h].hnd : h \in FilesOf(g)}
        BY <3>1, <4>5
      <4> QED
        BY <3>1, <3>4, <4>2, <4>3, <4>4, <4>6
    <3> QED
      BY <3>5, <3>6
  <2> QED
    BY <1>6, <2>2, <2>3, <2>4 DEF Owned
<1>15. TypeOK'
  BY <1>1, <1>5, <1>6, <1>7, <1>9 DEF Inv, TypeOK
<1>16. CellsFit'
  BY <1>9, <1>10 DEF Inv, CellsFit
<1> QED
  BY <1>1, <1>6, <1>12, <1>14, <1>15, <1>16 DEF Inv, NothingLeft

\* The end of a session frees every file handle there is.
LEMMA FinishPreserves ==
  ASSUME Inv, ORLFini
  PROVE  Inv'
<1>1. session = "live" /\ session' = "none" /\ own' = {}
      /\ files' = <<>> /\ readers' = NoFiles /\ error' = "OKAY"
  BY DEF ORLFini
<1> DEFINE gone == (UNION {Range(readers[f]) : f \in Enabled}) \cup Range(files)
<1>2. heap' = Released(heap, gone)
  BY DEF ORLFini
<1>3. \A a \in Addr : heap'[a] = FreeCell
  <2> SUFFICES ASSUME NEW a \in Addr PROVE heap'[a] = FreeCell
    OBVIOUS
  <2>1. heap[a].kind \in {"free", "file", "reader_file"}
    BY DEF Inv, TypeOK, Cell, Kinds
  <2>2. heap'[a] = IF a \in gone THEN FreeCell ELSE heap[a]
    BY <1>2 DEF Released
  <2>3. CASE heap[a].kind = "free"
    BY <2>2, <2>3 DEF Inv, CellsFit
  <2>4. CASE heap[a].kind = "file"
    BY <1>1, <2>2, <2>4 DEF Inv, Owned
  <2>5. CASE heap[a].kind = "reader_file"
    <3>1. heap[a].fmt \in Enabled
      BY <2>5 DEF Inv, CellsFit
    <3>2. a \in Range(readers[heap[a].fmt])
      BY <1>1, <2>5, <3>1 DEF Inv, Owned
    <3> QED
      BY <2>2, <3>1, <3>2
  <2> QED
    BY <2>1, <2>3, <2>4, <2>5
<1>4. heap' \in [Addr -> Cell]
  BY <1>2, <1>3, CellParts DEF Released
<1>5. \A a \in Addr : heap'[a].kind = "free"
  BY <1>3, CellParts
<1>6. Range(<<>>) = {} /\ IsInjective(<<>>)
  BY DEF Range, IsInjective
<1>7. Owned'
  BY <1>1, <1>5, <1>6 DEF Owned, FilesOf, NoFiles
<1>8. TypeOK'
  BY <1>1, <1>4 DEF TypeOK, NoFiles
<1>9. NothingLeft' /\ CellsFit'
  BY <1>1, <1>3, <1>5 DEF NothingLeft, IsFree, CellsFit
<1> QED
  BY <1>7, <1>8, <1>9 DEF Inv

\* Every step preserves the invariant.
LEMMA InvStep == Inv /\ [Next]_vars => Inv'
<1> SUFFICES ASSUME Inv, [Next]_vars PROVE Inv'
  OBVIOUS
<1>1. CASE ORLInit \/ \E x \in {ORL} \cup Enabled : ORLInitFails(x)
  BY <1>1, InitPreserves
<1>2. CASE \E f \in Formats, a, b \in Addr : ORLFileInit(f, a, b)
  BY <1>2, LoadPreserves
<1>3. CASE \E f \in Formats, a, b \in Addr, wild \in BOOLEAN :
             ORLFileInitFails(f, a, b, wild)
  BY <1>3, FailPreserves
<1>4. ASSUME UNCHANGED vars PROVE Inv'
  BY <1>4 DEF vars, Inv, TypeOK, Owned, NothingLeft, CellsFit, FilesOf, IsFree
<1>5. CASE \E f \in Formats : ORLFileInitUnsupported(f)
  BY <1>4, <1>5 DEF ORLFileInitUnsupported
<1>6. CASE \E x \in Addr : ORLFileFini(x)
  BY <1>6, ClosePreserves
<1>7. CASE ORLFini
  BY <1>7, FinishPreserves
<1> QED
  BY <1>1, <1>2, <1>3, <1>4, <1>5, <1>6, <1>7 DEF Next

\* The invariant holds throughout.
LEMMA Invariance == Spec => []Inv
<1> QED
  BY InvInit, InvStep, PTL DEF Spec

-----------------------------------------------------------------------------
(* The theorems.                                                           *)

\* Whatever is opened, refused and closed, each variable keeps its type; in
\* particular every list holds addresses of the heap and nothing else.
THEOREM TypeCorrect == Spec => []TypeOK
<1>1. Inv => TypeOK
  BY DEF Inv
<1> QED
  BY <1>1, Invariance, PTL

\* For every heap and every build: the handles in the heap are exactly those
\* the lists reach, each once, and a file's two handles belong together.
THEOREM HandlesAreOwned == Spec => []Owned
<1>1. Inv => Owned
  BY DEF Inv
<1> QED
  BY <1>1, Invariance, PTL

\* For every heap and every build: ORLFini gives back all that the session
\* allocated, and so does an ORLInit that fails.
THEOREM SessionsLeaveNothing == Spec => []NothingLeft
<1>1. Inv => NothingLeft
  BY DEF Inv
<1> QED
  BY <1>1, Invariance, PTL

-----------------------------------------------------------------------------
(* The two lists have the files in the same order.                         *)

\* What is pushed on a list is in front of what was there, in its order.
LEMMA ConsShifts ==
  ASSUME NEW S, NEW s \in Seq(S), NEW x, NEW t, t = Cons(x, s)
  PROVE  /\ 1 \in DOMAIN t /\ t[1] = x
         /\ \A i \in DOMAIN s : i + 1 \in DOMAIN t /\ t[i + 1] = s[i] /\ 1 < i + 1
         /\ \A i \in DOMAIN t : i # 1 => i - 1 \in DOMAIN s /\ t[i] = s[i - 1]
         /\ DOMAIN s \subseteq Nat /\ DOMAIN t \subseteq Nat \ {0}
BY DEF Cons

\* The handles of the files of another format are others.
LEMMA OthersDiffer ==
  ASSUME Inv, session # "undefined", NEW f \in Enabled, NEW h \in FilesOf(f)
  PROVE  /\ heap[h].hnd \in Range(readers[f]) /\ h \in Range(files)
         /\ \A g \in Enabled \ {f} : heap[h].hnd \notin Range(readers[g])
<1>1. /\ Range(readers[f]) = {heap[k].hnd : k \in FilesOf(f)}
      /\ \A g \in Enabled : Range(readers[g]) =
           {c \in Addr : heap[c].kind = "reader_file" /\ heap[c].fmt = g}
  BY DEF Inv, Owned
<1> QED
  BY <1>1 DEF FilesOf

\* A file that loads is the first of either list.
LEMMA LoadKeepsOrder ==
  ASSUME Inv, SameOrder, NEW f \in Formats, NEW a \in Addr, NEW b \in Addr,
         ORLFileInit(f, a, b)
  PROVE  SameOrder'
<1>1. /\ session = "live" /\ f \in Enabled /\ a # b
      /\ heap[a].kind = "free" /\ heap[b].kind = "free"
      /\ files' = Cons(a, files) /\ readers' = [readers EXCEPT ![f] = Cons(b, @)]
      /\ files \in Seq(Addr) /\ readers \in [Enabled -> Seq(Addr)]
      /\ Range(files) = {c \in Addr : heap[c].kind = "file"}
  BY DEF ORLFileInit, IsFree, Linked, Inv, TypeOK, Owned
<1>2. heap'[a].hnd = b /\ \A c \in Addr \ {a, b} : heap'[c] = heap[c]
  BY <1>1, AllocatedCells, CellParts, FormatsAssumption DEF Inv, ORLFileInit
<1>3. \A i \in DOMAIN files : heap'[files[i]] = heap[files[i]]
  <2> SUFFICES ASSUME NEW i \in DOMAIN files PROVE heap'[files[i]] = heap[files[i]]
    OBVIOUS
  <2>1. files[i] \in Range(files)
    BY DEF Range
  <2> QED
    BY <1>1, <1>2, <2>1
<1>4. /\ 1 \in DOMAIN files' /\ files'[1] = a
      /\ \A i \in DOMAIN files : i + 1 \in DOMAIN files' /\ files'[i + 1] = files[i] /\ 1 < i + 1
      /\ DOMAIN files \subseteq Nat
  BY <1>1, ConsShifts
<1>5. ASSUME NEW g \in Enabled, NEW k \in DOMAIN readers[g], NEW l \in DOMAIN readers[g], k < l
      PROVE  \E i, j \in DOMAIN files' :
               /\ i < j
               /\ heap'[files'[i]].hnd = readers[g][k] /\ heap'[files'[j]].hnd = readers[g][l]
  <2>1. PICK i \in DOMAIN files, j \in DOMAIN files :
          i < j /\ heap[files[i]].hnd = readers[g][k] /\ heap[files[j]].hnd = readers[g][l]
    BY <1>1, <1>5 DEF SameOrder
  <2>2. /\ i + 1 \in DOMAIN files' /\ j + 1 \in DOMAIN files' /\ i + 1 < j + 1
        /\ files'[i + 1] = files[i] /\ files'[j + 1] = files[j]
    BY <1>4, <2>1
  <2> QED
    BY <1>3, <2>1, <2>2
<1>6. ASSUME NEW g \in Enabled, NEW k \in DOMAIN readers'[g], NEW l \in DOMAIN readers'[g], k < l
      PROVE  \E i, j \in DOMAIN files' :
               /\ i < j
               /\ heap'[files'[i]].hnd = readers'[g][k] /\ heap'[files'[j]].hnd = readers'[g][l]
  <2>1. CASE g # f
    <3>1. readers'[g] = readers[g]
      BY <1>1, <2>1
    <3> QED
      BY <1>5, <1>6, <3>1
  <2>2. CASE g = f
    <3>1. readers'[g] = Cons(b, readers[g]) /\ readers[g] \in Seq(Addr)
      BY <1>1, <2>2
    <3>2. /\ readers'[g][1] = b /\ k \in Nat \ {0} /\ l \in Nat \ {0}
          /\ l # 1 => l - 1 \in DOMAIN readers[g] /\ readers'[g][l] = readers[g][l - 1]
          /\ k # 1 => k - 1 \in DOMAIN readers[g] /\ readers'[g][k] = readers[g][k - 1]
      BY <1>6, <3>1, ConsShifts
    <3>3. l # 1
      BY <1>6, <3>2
    <3>4. CASE k = 1
      <4>1. readers[g][l - 1] \in Range(readers[g])
        BY <3>2, <3>3 DEF Range
      <4>2. PICK h \in FilesOf(g) : heap[h].hnd = readers[g][l - 1]
        <5>1. Range(readers[g]) = {heap[h].hnd : h \in FilesOf(g)}
          BY <1>1 DEF Inv, Owned
        <5> QED
          BY <4>1, <5>1
      <4>3. PICK j \in DOMAIN files : files[j] = h
        BY DEF FilesOf, Range
      <4>4. j + 1 \in DOMAIN files' /\ files'[j + 1] = h /\ 1 < j + 1
        BY <1>4, <4>3
      <4>5. heap'[h].hnd = readers'[g][l]
        BY <1>3, <3>2, <3>3, <4>2, <4>3
      <4> QED
        BY <1>2, <1>4, <3>2, <3>4, <4>4, <4>5
    <3>5. CASE k # 1
      <4>1. k - 1 \in DOMAIN readers[g] /\ l - 1 \in DOMAIN readers[g] /\ k - 1 < l - 1
        BY <1>6, <3>2, <3>3, <3>5
      <4> QED
        BY <1>5, <3>2, <3>3, <3>5, <4>1
    <3> QED
      BY <3>4, <3>5
  <2> QED
    BY <2>1, <2>2
<1> QED
  BY <1>6 DEF SameOrder

\* A file that is closed leaves the order of the others.
LEMMA CloseKeepsOrder ==
  ASSUME Inv, SameOrder, NEW x \in Addr, ORLFileFini(x)
  PROVE  SameOrder'
<1> DEFINE f == heap[x].fmt
           b == heap[x].hnd
<1>1. /\ session = "live" /\ x \in Range(files) /\ f \in Enabled /\ x \in FilesOf(f)
      /\ files \in Seq(Addr) /\ IsInjective(files)
      /\ readers \in [Enabled -> Seq(Addr)] /\ IsInjective(readers[f])
  BY DEF ORLFileFini, Inv, TypeOK, Owned, FilesOf
<1>2. b \in Range(readers[f]) /\ \A g \in Enabled \ {f} : b \notin Range(readers[g])
  BY <1>1, OthersDiffer
<1>3. /\ readers' = [readers EXCEPT ![f] = RemoveFirst(@, b)]
      /\ files' = RemoveFirst(files, x)
  BY <1>2 DEF ORLFileFini
<1>4. \A h \in Range(files) \ {x} : heap'[h] = heap[h]
  BY ClosePreserves
<1>5. \A m, n \in DOMAIN files : m < n /\ files[m] # x /\ files[n] # x =>
        \E i, j \in DOMAIN files' : i < j /\ files'[i] = files[m] /\ files'[j] = files[n]
  BY <1>1, <1>3, RemoveKeepsOrder
<1> HIDE DEF b, f
<1>6. ASSUME NEW g \in Enabled, NEW k \in DOMAIN readers[g], NEW l \in DOMAIN readers[g], k < l,
             readers[g][k] # b, readers[g][l] # b
      PROVE  \E i, j \in DOMAIN files' :
               /\ i < j
               /\ heap'[files'[i]].hnd = readers[g][k] /\ heap'[files'[j]].hnd = readers[g][l]
  <2>1. PICK m \in DOMAIN files, n \in DOMAIN files :
          m < n /\ heap[files[m]].hnd = readers[g][k] /\ heap[files[n]].hnd = readers[g][l]
    BY <1>1, <1>6 DEF SameOrder
  <2>2. files[m] # x /\ files[n] # x
    BY <1>6, <2>1 DEF b
  <2>3. files[m] \in Range(files) \ {x} /\ files[n] \in Range(files) \ {x}
    BY <2>2 DEF Range
  <2>4. PICK i \in DOMAIN files', j \in DOMAIN files' :
          i < j /\ files'[i] = files[m] /\ files'[j] = files[n]
    BY <1>5, <2>1, <2>2
  <2> QED
    BY <1>4, <2>1, <2>3, <2>4
<1>7. ASSUME NEW g \in Enabled, NEW k \in DOMAIN readers'[g], NEW l \in DOMAIN readers'[g], k < l
      PROVE  \E i, j \in DOMAIN files' :
               /\ i < j
               /\ heap'[files'[i]].hnd = readers'[g][k] /\ heap'[files'[j]].hnd = readers'[g][l]
  <2>1. CASE g # f
    <3>1. readers'[g] = readers[g]
      BY <1>1, <1>3, <2>1
    <3>2. readers[g][k] # b /\ readers[g][l] # b
      BY <1>2, <1>7, <2>1, <3>1 DEF Range
    <3> QED
      BY <1>6, <1>7, <3>1, <3>2
  <2>2. CASE g = f
    <3>1. readers'[g] = RemoveFirst(readers[g], b) /\ readers[g] \in Seq(Addr)
      BY <1>1, <1>3, <2>2
    <3>2. PICK m \in DOMAIN readers[g], n \in DOMAIN readers[g] :
            m < n /\ readers'[g][k] = readers[g][m] /\ readers'[g][l] = readers[g][n]
      BY <1>1, <1>2, <1>7, <2>2, <3>1, RemoveKeepsOrder
    <3>3. Range(readers'[g]) = Range(readers[g]) \ {b}
      BY <1>1, <1>2, <2>2, <3>1, RemoveOnce
    <3>4. readers'[g][k] # b /\ readers'[g][l] # b
      BY <1>7, <3>3 DEF Range
    <3> QED
      BY <1>6, <3>2, <3>4
  <2> QED
    BY <2>1, <2>2
<1> QED
  BY <1>7 DEF SameOrder

\* For every heap and every build: a reader's list has its files in the order of
\* the list of ORL, whatever was opened, refused and closed.
THEOREM ListsHaveTheSameOrder == Spec => []SameOrder
<1>1. Init => SameOrder
  BY DEF Init, NoFiles, SameOrder
<1>2. ASSUME Inv, SameOrder, [Next]_vars PROVE SameOrder'
  <2>1. CASE session' = "undefined"
    BY <2>1 DEF SameOrder
  <2>2. ASSUME session' # "undefined", UNCHANGED <<heap, files, readers>>, session # "undefined"
        PROVE  SameOrder'
    BY <1>2, <2>2 DEF SameOrder
  <2>3. CASE ORLInit \/ \E x \in {ORL} \cup Enabled : ORLInitFails(x)
    BY <2>1, <2>2, <2>3 DEF ORLInit, ORLInitFails
  <2>4. ASSUME NEW f \in Formats, NEW a \in Addr, NEW b \in Addr, ORLFileInit(f, a, b)
        PROVE  SameOrder'
    BY <1>2, <2>4, LoadKeepsOrder
  <2>5. ASSUME NEW f \in Formats, NEW a \in Addr, NEW b \in Addr, NEW wild \in BOOLEAN,
               ORLFileInitFails(f, a, b, wild)
        PROVE  SameOrder'
    <3>1. UNCHANGED <<heap, files, readers>> /\ session # "undefined"
      BY <1>2, <2>5, FailsRestores DEF ORLFileInitFails
    <3> QED
      BY <2>1, <2>2, <3>1
  <2>6. CASE (\E f \in Formats : ORLFileInitUnsupported(f)) \/ UNCHANGED vars
    BY <2>1, <2>2, <2>6 DEF ORLFileInitUnsupported, vars
  <2>7. ASSUME NEW x \in Addr, ORLFileFini(x) PROVE SameOrder'
    BY <1>2, <2>7, CloseKeepsOrder
  <2>8. CASE ORLFini
    <3>1. readers' = NoFiles
      BY <2>8 DEF ORLFini
    <3> QED
      BY <3>1 DEF SameOrder, NoFiles
  <2> QED
    BY <1>2, <2>3, <2>4, <2>5, <2>6, <2>7, <2>8 DEF Next
<1> QED
  BY <1>1, <1>2, Invariance, PTL DEF Spec

-----------------------------------------------------------------------------
(* The lists implement one set of open files.                              *)

\* With no file on the list, none is open.
LEMMA NoneOpenInitially ==
  ASSUME files = <<>>
  PROVE  OpenAs = Client!NoneOpen
<1>1. Range(files) = {}
  BY DEF Range
<1> QED
  BY <1>1 DEF OpenAs, Client!NoneOpen

\* The set of open files depends on the heap and the list only.
LEMMA SameOpen ==
  ASSUME UNCHANGED <<heap, files>>
  PROVE  OpenAs' = OpenAs
BY DEF OpenAs

\* Two functions on the addresses, of which one is the other changed at m.
LEMMA ChangedAt ==
  ASSUME NEW g, NEW k, NEW m \in Addr, NEW v,
         g = [a \in Addr |-> g[a]], k = [a \in Addr |-> k[a]],
         \A a \in Addr : k[a] = IF a = m THEN v ELSE g[a]
  PROVE  k = [g EXCEPT ![m] = v]
OBVIOUS

\* A load opens a handle that was not open.
LEMMA LoadOpens ==
  ASSUME Inv, Inv', NEW f \in Formats, NEW a \in Addr, NEW b \in Addr,
         ORLFileInit(f, a, b)
  PROVE  Client!Open(a, f) /\ f \in Enabled
<1>1. /\ session = "live" /\ session' = "live" /\ f \in Enabled /\ a # b
      /\ heap[a].kind = "free" /\ heap[b].kind = "free" /\ error' = "OKAY"
  BY DEF ORLFileInit, IsFree
<1>2. /\ heap'[a].fmt = f
      /\ \A c \in Addr \ {a, b} : heap'[c] = heap[c]
  BY <1>1, AllocatedCells, CellParts, FormatsAssumption DEF Inv, ORLFileInit
<1>3. /\ files \in Seq(Addr) /\ IsInjective(files)
      /\ Range(files) = {c \in Addr : heap[c].kind = "file"}
  BY <1>1 DEF Inv, TypeOK, Owned
<1>4. a \notin Range(files) /\ b \notin Range(files)
  BY <1>1, <1>3
<1>5. Range(files') = Range(files) \cup {a}
  BY <1>3, <1>4, ConsOnce DEF ORLFileInit
<1>6. \A c \in Addr : OpenAs'[c] = IF c = a THEN f ELSE OpenAs[c]
  BY <1>1, <1>2, <1>4, <1>5 DEF OpenAs
<1>7. OpenAs' = [OpenAs EXCEPT ![a] = f]
  <2>1. OpenAs = [c \in Addr |-> OpenAs[c]] /\ OpenAs' = [c \in Addr |-> OpenAs'[c]]
    BY DEF OpenAs
  <2> QED
    BY <1>6, <2>1, ChangedAt
<1>8. OpenAs[a] = NULL
  BY <1>4 DEF OpenAs
<1> QED
  BY <1>1, <1>7, <1>8 DEF Client!Open

\* Closing a file makes its handle, and no other, one that is not open.
LEMMA FiniCloses ==
  ASSUME Inv, NEW x \in Addr, ORLFileFini(x)
  PROVE  Client!Close(x)
<1>1. /\ session = "live" /\ session' = session /\ error' = error
  BY DEF ORLFileFini
<1>2. /\ x \in Range(files)
      /\ Range(files') = Range(files) \ {x}
      /\ \A h \in Range(files) \ {x} : heap'[h] = heap[h]
  BY ClosePreserves
<1>3. \A c \in Addr : OpenAs'[c] = IF c = x THEN NULL ELSE OpenAs[c]
  BY <1>2 DEF OpenAs
<1>4. OpenAs' = [OpenAs EXCEPT ![x] = NULL]
  <2>1. OpenAs = [c \in Addr |-> OpenAs[c]] /\ OpenAs' = [c \in Addr |-> OpenAs'[c]]
    BY DEF OpenAs
  <2> QED
    BY <1>3, <2>1, ChangedAt
<1>5. OpenAs[x] # NULL
  <2>1. heap[x].fmt \in Enabled
    BY <1>1, <1>2 DEF Inv, Owned
  <2> QED
    BY <1>2, <2>1, FormatsAssumption, NullAssumption DEF OpenAs
<1> QED
  BY <1>1, <1>4, <1>5 DEF Client!Close

\* For every heap and every build: the calls of ORL do to the lists of handles
\* what OpenFiles says they do to the open files.  A refused file and a failed
\* ORLInit, which edit the lists and the heap on their way, change nothing.
THEOREM Refinement == Spec => ImplementsOpenFiles
<1>1. Init => Client!Init
  BY NoneOpenInitially DEF Init, Client!Init
<1>2. ASSUME Inv, Inv', [Next]_vars
      PROVE  [Client!Next]_(Client!vars)
  <2>1. CASE ORLInit
    BY <2>1, SameOpen DEF ORLInit, Client!Start, Client!Next
  <2>2. ASSUME NEW x \in {ORL} \cup Enabled, ORLInitFails(x)
        PROVE  [Client!Next]_(Client!vars)
    <3>1. OpenAs' = OpenAs /\ error' = error /\ error \in {"OKAY", "ERROR"}
      BY <1>2, <2>2, SameOpen DEF ORLInitFails, Inv, TypeOK
    <3>2. session' = session \/ session' = "undefined"
      BY <2>2 DEF ORLInitFails
    <3> QED
      BY <3>1, <3>2 DEF Client!vars, Client!Undefine, Client!Next
  <2>3. ASSUME NEW f \in Formats, NEW a \in Addr, NEW b \in Addr,
               ORLFileInit(f, a, b)
        PROVE  [Client!Next]_(Client!vars)
    BY <1>2, <2>3, LoadOpens DEF Client!Next
  <2>4. ASSUME NEW f \in Formats, NEW a \in Addr, NEW b \in Addr,
               NEW wild \in BOOLEAN, ORLFileInitFails(f, a, b, wild)
        PROVE  [Client!Next]_(Client!vars)
    <3>1. OpenAs' = OpenAs
      BY <1>2, <2>4, FailsRestores, SameOpen
    <3>2. /\ session = "live" /\ error' = "ERROR" /\ f \in Enabled
          /\ session' = session \/ session' = "undefined"
      BY <2>4 DEF ORLFileInitFails
    <3> QED
      BY <3>1, <3>2 DEF Client!Undefine, Client!Refuse, Client!Next
  <2>5. CASE (\E f \in Formats : ORLFileInitUnsupported(f)) \/ UNCHANGED vars
    <3>1. UNCHANGED vars
      BY <2>5 DEF ORLFileInitUnsupported
    <3> QED
      BY <3>1, SameOpen DEF vars, Client!vars
  <2>6. CASE \E x \in Addr : ORLFileFini(x)
    BY <1>2, <2>6, FiniCloses DEF Client!Next
  <2>7. CASE ORLFini
    <3>1. OpenAs' = Client!NoneOpen'
      <4>1. files' = <<>>
        BY <2>7 DEF ORLFini
      <4>2. Range(files') = {}
        BY <4>1 DEF Range
      <4> QED
        BY <4>2 DEF OpenAs, Client!NoneOpen
    <3>2. Client!NoneOpen' = Client!NoneOpen
      BY DEF Client!NoneOpen
    <3> QED
      BY <2>7, <3>1, <3>2 DEF ORLFini, Client!Finish, Client!Next
  <2> QED
    BY <1>2, <2>1, <2>2, <2>3, <2>4, <2>5, <2>6, <2>7 DEF Next
<1> QED
  BY <1>1, <1>2, Invariance, PTL DEF Spec, ImplementsOpenFiles, Client!Spec

=============================================================================
