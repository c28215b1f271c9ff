---------------------------- MODULE SectionNames ----------------------------
(***************************************************************************)
(* What a name index of ORL promises its callers.                          *)
(*                                                                         *)
(* A name index is a multimap: every name, taken up to the folding of      *)
(* letter case that the index was created with, has a sequence of data in  *)
(* the order of their insertion.  ElfFileScan and CoffFileScan use one to  *)
(* visit every section of a name in the order of the section handles, the  *)
(* OMF reader one to find the symbols of a name.  OrlHash implements it.   *)
(***************************************************************************)
EXTENDS Sequences

CONSTANTS
  Keys,     \* the names
  Datas,    \* what is stored under a name: section or symbol handles
  FoldOf    \* a name to its representative: equal iff the names compare equal

Names == {FoldOf[k] : k \in Keys}

VARIABLES
  open,     \* has the index been created and not been freed
  named,    \* the data stored under each folded name, oldest first
  answer    \* the data the last query returned

vars == <<open, named, answer>>

TypeOK ==
  /\ open \in BOOLEAN
  /\ named \in [Names -> Seq(Datas)]
  /\ answer \in Seq(Datas)

Empty == [n \in Names |-> <<>>]

Init ==
  /\ open = FALSE
  /\ named = Empty
  /\ answer = <<>>

Create ==
  /\ ~open
  /\ open' = TRUE
  /\ UNCHANGED <<named, answer>>

Insert(k, d) ==
  /\ open
  /\ named' = [named EXCEPT ![FoldOf[k]] = Append(@, d)]
  /\ UNCHANGED <<open, answer>>

Query(k) ==
  /\ open
  /\ answer' = named[FoldOf[k]]
  /\ UNCHANGED <<open, named>>

Free ==
  /\ open
  /\ open' = FALSE
  /\ named' = Empty
  /\ answer' = <<>>

Next ==
  \/ Create
  \/ \E k \in Keys, d \in Datas : Insert(k, d)
  \/ \E k \in Keys : Query(k)
  \/ Free

Spec == Init /\ [][Next]_vars

=============================================================================
