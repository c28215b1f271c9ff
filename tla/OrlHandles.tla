----------------------------- MODULE OrlHandles -----------------------------
(***************************************************************************)
(* The handles of ORL: src/src/orlentry.c and src/src/orlflhnd.c over the  *)
(* file handle lists of the ELF and COFF readers (elfentr.c, elfflhn.c,    *)
(* coffentr.c, coffflhn.c).                                                *)
(*                                                                         *)
(* An open file is two objects on two lists: the ORL file handle, which    *)
(* the client holds, on the list of the ORL handle, and the handle of the  *)
(* format's reader on the list of that reader.  Every list is linked       *)
(* through `next' and grows at the front; it is a sequence here.  Both     *)
(* live in the client's heap, whose addresses are used again after they    *)
(* are freed; the ORL handle and the readers' own handles, which live as   *)
(* long as the session, are kept apart from them in `own'.                 *)
(*                                                                         *)
(* What a reader does while it loads a file is abstracted to its result    *)
(* (ElfFile and its successors model it).  Allocation fails only where the *)
(* code looks at the result, in ORLInit.                                   *)
(*                                                                         *)
(* Handing free() the uninitialised orig_sec_handles of an ELF file whose  *)
(* load failed early (elfflhn.c:65) has no defined effect: whatever block  *)
(* the leftover bits name is the allocator's business.  If they are NULL   *)
(* nothing happens; in every other case the session is "undefined" and     *)
(* nothing is claimed of it.                                               *)
(***************************************************************************)
EXTENDS Naturals, Sequences, FiniteSets, Functions, SequencesExt

CONSTANTS
  Addr,       \* addresses the client's allocator may return
  Formats,    \* orl_file_format: ORL_ELF, ORL_COFF, ORL_OMF, unrecognized
  Enabled,    \* the formats of this build (ORL_ENABLE_ELF and so on)
  ORL,        \* stands for the ORL handle itself
  ELF,        \* the format whose early load failures free a wild pointer
  NULL

ASSUME FormatsAssumption == ELF \in Formats /\ Enabled \subseteq Formats

ASSUME NullAssumption == NULL \notin Addr /\ NULL \notin Formats

ASSUME OrlAssumption == ORL \notin Formats

Kinds == {"free", "file", "reader_file"}

\* What is at an address: for the handle of an open file its format, for an ORL
\* file handle also its file_hnd.elf or file_hnd.coff.
Cell == [kind : Kinds, fmt : Formats \cup {NULL}, hnd : Addr \cup {NULL}]

FreeCell == [kind |-> "free", fmt |-> NULL, hnd |-> NULL]
FileCell(f, b) == [kind |-> "file", fmt |-> f, hnd |-> b]
ReaderFileCell(f) == [kind |-> "reader_file", fmt |-> f, hnd |-> NULL]

VARIABLES
  session,    \* "none", "live" (the client has an ORL handle), "undefined"
  own,        \* which of the ORL handle (ORL) and elf_hnd, coff_hnd exist
  heap,       \* the cell at every address
  files,      \* orl_hnd->first_file_hnd and its chain of next
  readers,    \* for every enabled format the chain of elf_hnd, coff_hnd
  error       \* orl_hnd->error

vars == <<session, own, heap, files, readers, error>>

TypeOK ==
  /\ session \in {"none", "live", "undefined"}
  /\ own \subseteq {ORL} \cup Enabled
  /\ heap \in [Addr -> Cell]
  /\ files \in Seq(Addr)
  /\ readers \in [Enabled -> Seq(Addr)]
  /\ error \in {"OKAY", "ERROR"}

-----------------------------------------------------------------------------
IsFree(a) == heap[a].kind = "free"

\* The heap after cli_free of every address of S.
Released(h, S) == [a \in Addr |-> IF a \in S THEN FreeCell ELSE h[a]]

NoFiles == [f \in Enabled |-> <<>>]

Init ==
  /\ session = "none"
  /\ own = {}
  /\ heap = [a \in Addr |-> FreeCell]
  /\ files = <<>>
  /\ readers = NoFiles
  /\ error = "OKAY"

\* ORLInit: the ORL handle, then the handle of every enabled reader.
ORLInit ==
  /\ session = "none"
  /\ session' = "live"
  /\ own' = {ORL} \cup Enabled
  /\ error' = "OKAY"
  /\ UNCHANGED <<heap, files, readers>>

\* ORLInit when cli_alloc returns NULL for the handle x.  For the ORL handle,
\* or after it for the ELF handle (the first reader), the client gets NULL and
\* the ORL handle is freed; CoffInit writes to what it got without looking.
ORLInitFails(x) ==
  /\ session = "none"
  /\ session' = IF x \in {ORL, ELF} THEN "none" ELSE "undefined"
  /\ own' = IF x \in {ORL, ELF} THEN ({ORL} \cup own) \ {ORL}
            ELSE {ORL} \cup (Enabled \ {x})
  /\ UNCHANGED <<heap, files, readers, error>>

-----------------------------------------------------------------------------
(* ORLFileInit allocates the ORL file handle a and calls ElfFileInit or    *)
(* CoffFileInit, which allocates its own handle b and links it before it   *)
(* loads the file.                                                         *)

Allocated(a, b, f) ==
  [heap EXCEPT ![a] = FileCell(f, b), ![b] = ReaderFileCell(f)]

\* Faulty: the reader appends the handle to its list.
LinkedLast(b, f) == [readers EXCEPT ![f] = Append(@, b)]

Linked(b, f) == [readers EXCEPT ![f] = Cons(b, @)]

\* Faulty: puts the NULL `next' of the new handle on the list.
ORLFileInitNext(f, a, b) ==
  /\ session = "live"
  /\ f \in Enabled
  /\ IsFree(a) /\ IsFree(b) /\ a # b
  /\ heap' = Allocated(a, b, f)
  /\ readers' = Linked(b, f)
  /\ files' = Cons(heap[a].hnd, files)
  /\ error' = "OKAY"
  /\ UNCHANGED <<session, own>>

\* The load succeeds: the ORL file handle is linked too.
ORLFileInit(f, a, b) ==
  /\ session = "live"
  /\ f \in Enabled
  /\ IsFree(a) /\ IsFree(b) /\ a # b
  /\ heap' = Allocated(a, b, f)
  /\ readers' = Linked(b, f)
  /\ files' = Cons(a, files)
  /\ error' = "OKAY"
  /\ UNCHANGED <<session, own>>

\* Faulty: the reader frees its handle without unlinking it.
ORLFileInitFailsLinked(f, a, b, wild) ==
  /\ session = "live"
  /\ f \in Enabled
  /\ IsFree(a) /\ IsFree(b) /\ a # b
  /\ wild => f = ELF
  /\ readers' = Linked(b, f)
  /\ heap' = Released(Allocated(a, b, f), {a, b})
  /\ error' = "ERROR"
  /\ session' = IF wild THEN "undefined" ELSE session
  /\ UNCHANGED <<own, files>>

\* The load fails: the reader unlinks and frees its handle, ORLFileInit keeps
\* the error and frees the other one.  `wild' is whether the ELF reader then
\* frees an orig_sec_handles that nobody has set and that is not NULL.
ORLFileInitFails(f, a, b, wild) ==
  /\ session = "live"
  /\ f \in Enabled
  /\ IsFree(a) /\ IsFree(b) /\ a # b
  /\ wild => f = ELF
  /\ readers' = [Linked(b, f) EXCEPT ![f] = RemoveFirst(@, b)]
  /\ heap' = Released(Allocated(a, b, f), {a, b})
  /\ error' = "ERROR"
  /\ session' = IF wild THEN "undefined" ELSE session
  /\ UNCHANGED <<own, files>>

\* A format this build does not have: NULL, and the error of an earlier call.
ORLFileInitUnsupported(f) ==
  /\ session = "live"
  /\ f \notin Enabled
  /\ UNCHANGED vars

\* Faulty: unlinks the file that is first on the list.
ORLFileFiniFirst(h) ==
  LET f == heap[h].fmt
      b == heap[h].hnd
  IN  /\ session = "live"
      /\ h \in Range(files)
      /\ readers' = [readers EXCEPT ![f] = RemoveFirst(@, b)]
      /\ files' = Tail(files)
      /\ heap' = Released(heap, {h, b})
      /\ UNCHANGED <<session, own, error>>

\* ORLFileFini: the reader unlinks and frees its handle (ORL_ERROR, and
\* nothing more, if the handle is not on its list), then ORLRemoveFileLinks
\* does the same with the ORL file handle.
ORLFileFini(h) ==
  LET f == heap[h].fmt
      b == heap[h].hnd
      found == b \in Range(readers[f])
  IN  /\ session = "live"
      /\ h \in Range(files)
      /\ readers' = [readers EXCEPT ![f] = RemoveFirst(@, b)]
      /\ files' = IF found THEN RemoveFirst(files, h) ELSE files
      /\ heap' = IF found THEN Released(heap, {h, b}) ELSE heap
      /\ UNCHANGED <<session, own, error>>

\* Faulty: the ORL file handles are not freed.
ORLFiniReadersOnly ==
  /\ session = "live"
  /\ heap' = Released(heap, UNION {Range(readers[f]) : f \in Enabled})
  /\ own' = {}
  /\ readers' = NoFiles
  /\ files' = <<>>
  /\ session' = "none"
  /\ error' = "OKAY"

\* ORLFini: ElfFini and CoffFini free what is on their lists and themselves,
\* then the ORL file handles go and at last the ORL handle.
ORLFini ==
  /\ session = "live"
  /\ heap' = Released(heap, (UNION {Range(readers[f]) : f \in Enabled})
                            \cup Range(files))
  /\ own' = {}
  /\ readers' = NoFiles
  /\ files' = <<>>
  /\ session' = "none"
  /\ error' = "OKAY"

Next ==
  \/ ORLInit
  \/ \E x \in {ORL} \cup Enabled : ORLInitFails(x)
  \/ \E f \in Formats, a, b \in Addr : ORLFileInit(f, a, b)
  \/ \E f \in Formats, a, b \in Addr, wild \in BOOLEAN :
       ORLFileInitFails(f, a, b, wild)
  \/ \E f \in Formats : ORLFileInitUnsupported(f)
  \/ \E h \in Addr : ORLFileFini(h)
  \/ ORLFini

Spec == Init /\ [][Next]_vars

-----------------------------------------------------------------------------
(* Properties.                                                             *)

FilesOf(f) == {h \in Range(files) : heap[h].fmt = f}

\* Every ORL file handle in the heap is on the list exactly once, every file
\* handle of a reader is on the list of that reader exactly once, and an open
\* file's two handles belong to each other and to no other file: nothing is
\* unreachable (leaked), linked after it was freed, or freed through two files
\* (ORLFileInit, ORLFileFini, ORLRemoveFileLinks and their counterparts).
Owned ==
  session # "undefined" =>
    /\ IsInjective(files)
    /\ Range(files) = {a \in Addr : heap[a].kind = "file"}
    /\ \A h \in Range(files) : heap[h].fmt \in Enabled
    /\ \A f \in Enabled :
         /\ IsInjective(readers[f])
         /\ Range(readers[f]) = {a \in Addr : /\ heap[a].kind = "reader_file"
                                              /\ heap[a].fmt = f}
         /\ Range(readers[f]) = {heap[h].hnd : h \in FilesOf(f)}
         /\ \A h, k \in FilesOf(f) : heap[h].hnd = heap[k].hnd => h = k

\* A reader's list has its files in the order in which the ORL list has them,
\* although either is edited by a walk of its own.
SameOrder ==
  session # "undefined" =>
    \A f \in Enabled : \A k, l \in DOMAIN readers[f] :
      k < l => \E i, j \in DOMAIN files :
                 /\ i < j
                 /\ heap[files[i]].hnd = readers[f][k] /\ heap[files[j]].hnd = readers[f][l]

\* When the client has no session, everything ORL ever allocated is free again,
\* whatever was opened, refused and closed in between (ORLInit, ORLFini).
NothingLeft ==
  session = "none" => own = {} /\ \A a \in Addr : IsFree(a)

\* The two lists of handles implement the one set of open files a client
\* thinks of.
OpenAs == [h \in Addr |-> IF h \in Range(files) THEN heap[h].fmt ELSE NULL]

Client == INSTANCE OpenFiles
            WITH Handles <- Addr, NoFormat <- NULL, open <- OpenAs

ImplementsOpenFiles == Client!Spec

=============================================================================
