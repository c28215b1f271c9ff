---------------------------- MODULE SectionScans ----------------------------
(***************************************************************************)
(* What ORLFileScan promises of a file that is open (orl.h, the comment of *)
(* ORLFileScan): without a name it calls the return function for every     *)
(* section, in the order of the sections in the file, with a name for      *)
(* exactly the sections of that name; it stops at the first answer that is *)
(* not ORL_OKAY and returns that answer.  The return function may scan the *)
(* file again.  ElfFile and CoffFile implement it, CoffFile with the place *)
(* of a section in its table for an offset.                                *)
(***************************************************************************)
EXTENDS Naturals, Sequences, FiniteSets, Sublists

CONSTANTS
  FoldOf,     \* a section name to its representative: letter case is ignored
  Answers,    \* what a call returns; "OKAY" is one of them
  ANY         \* the NULL name that asks for every section

VARIABLES
  img,        \* the file: img.secs[i].off and .name of every section i
  sections,   \* the sections of the open file in their order, <<>> if closed
  scans,      \* for every scan in progress, innermost first, the name that was
              \* asked for and what is left of it; its return function is busy
              \* with the head
  result      \* what the last call returned

vars == <<img, sections, scans, result>>

Numbers == DOMAIN img.secs

\* The sections in the order of their offsets; equal offsets in any order.
Layouts ==
  {s \in [1 .. Len(img.secs) -> Numbers] :
     /\ \A i, j \in DOMAIN s : s[i] = s[j] => i = j
     /\ \A i, j \in DOMAIN s : i < j => img.secs[s[i]].off <= img.secs[s[j]].off}

Wanted(name) ==
  Those(sections, {h \in Numbers : name = ANY \/ FoldOf[img.secs[h].name] = FoldOf[name]})

Init ==
  /\ sections = <<>>
  /\ scans = <<>>
  /\ result = "OKAY"

Open ==
  /\ sections = <<>>
  /\ sections' \in Layouts
  /\ result' = "OKAY"
  /\ UNCHANGED <<img, scans>>

Begin(name) ==
  /\ sections # <<>>
  /\ scans # <<>> => scans[1].left # <<>>
  /\ UNCHANGED <<img, sections, result>>
  /\ scans' = <<[name |-> name, left |-> Wanted(name)]>> \o scans

\* The return function of the innermost scan answers.
Return(answer) ==
  /\ scans # <<>> /\ scans[1].left # <<>>
  /\ IF answer = "OKAY" /\ Len(scans[1].left) > 1
     THEN scans' = [scans EXCEPT ![1].left = Tail(@)] /\ result' = result
     ELSE scans' = Tail(scans) /\ result' = answer
  /\ UNCHANGED <<img, sections>>

\* A scan for a name that no section has ends well.
ReturnUncalled ==
  /\ scans # <<>> /\ scans[1].left = <<>>
  /\ scans' = Tail(scans)
  /\ result' = "OKAY"
  /\ UNCHANGED <<img, sections>>

\* Calls of ORL that scan something else, or fail.
Other ==
  /\ UNCHANGED <<img, sections, scans>>
  /\ result' \in Answers

Close ==
  /\ scans = <<>>
  /\ sections' = <<>>
  /\ result' = "OKAY"
  /\ UNCHANGED <<img, scans>>

Next ==
  \/ Other
  \/ Open
  \/ \E name \in DOMAIN FoldOf \cup {ANY} : Begin(name)
  \/ \E answer \in Answers : Return(answer)
  \/ ReturnUncalled
  \/ Close

Spec == Init /\ [][Next]_vars

=============================================================================
