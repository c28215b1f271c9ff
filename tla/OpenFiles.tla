----------------------------- MODULE OpenFiles -----------------------------
(***************************************************************************)
(* What the life-cycle calls of ORL (ORLInit, ORLFileInit, ORLFileFini,    *)
(* ORLFini, ORLGetError) promise a client: a session, the files open in    *)
(* it, each with its format, and the result of the last load.  A file that *)
(* cannot be loaded leaves every other file as it was.  OrlHandles         *)
(* implements it.                                                          *)
(***************************************************************************)
CONSTANTS
  Handles,    \* what a client holds for an open file
  Formats,    \* orl_file_format
  Enabled,    \* the formats this build supports
  NoFormat    \* the format of a handle that is not open

VARIABLES
  session,    \* "none", "live", or "undefined" once the C program has none
  open,       \* the format of every open handle, NoFormat for the others
  error       \* what ORLGetError returns

vars == <<session, open, error>>

NoneOpen == [h \in Handles |-> NoFormat]

TypeOK ==
  /\ session \in {"none", "live", "undefined"}
  /\ open \in [Handles -> Enabled \cup {NoFormat}]
  /\ error \in {"OKAY", "ERROR"}

Init ==
  /\ session = "none"
  /\ open = NoneOpen
  /\ error = "OKAY"

Start ==
  /\ session = "none"
  /\ session' = "live"
  /\ error' = "OKAY"
  /\ UNCHANGED open

\* A file of format f is loaded and gets the handle h.
Open(h, f) ==
  /\ session = "live"
  /\ open[h] = NoFormat
  /\ open' = [open EXCEPT ![h] = f]
  /\ error' = "OKAY"
  /\ UNCHANGED session

\* A file of format f cannot be loaded; nothing else happens to the session.
\* A format the build does not support is not even reported by ORLGetError.
Refuse(f) ==
  /\ session = "live"
  /\ error' = IF f \in Enabled THEN "ERROR" ELSE error
  /\ UNCHANGED <<session, open>>

Close(h) ==
  /\ session = "live"
  /\ open[h] # NoFormat
  /\ open' = [open EXCEPT ![h] = NoFormat]
  /\ UNCHANGED <<session, error>>

\* The end of a session closes every file.
Finish ==
  /\ session = "live"
  /\ session' = "none"
  /\ open' = NoneOpen
  /\ error' = "OKAY"

\* The C program has no defined behaviour from here on.
Undefine ==
  /\ session' = "undefined"
  /\ error' \in {"OKAY", "ERROR"}
  /\ UNCHANGED open

Next ==
  \/ Start
  \/ \E h \in Handles, f \in Enabled : Open(h, f)
  \/ \E f \in Formats : Refuse(f)
  \/ \E h \in Handles : Close(h)
  \/ Finish
  \/ Undefine

Spec == Init /\ [][Next]_vars

=============================================================================
