------------------------------ MODULE Identify ------------------------------
(***************************************************************************)
(* ORLFileIdentify (orlentry.c), built for all three formats: what format  *)
(* it takes a file for, and where in the file it leaves the client, who    *)
(* gives the same file to ORLFileInit next.                                *)
(*                                                                         *)
(* A file f begins at f.start, as a member of an archive does, and ends at *)
(* f.eof.  f.at says what the four bytes at a place are: "elf", "theadr",  *)
(* "machine", "machine_obj" (the machines only an object file may have),   *)
(* "mz", "pe"; they are "other" elsewhere.  f.lfanew is the place of the   *)
(* PE header that an MZ file gives; f.name, f.fits, f.summed and f.tail    *)
(* describe a THEADR record: the length of its name, whether its length    *)
(* agrees with that, whether its checksum is right or 0, and what its last *)
(* byte looks like, with whatever is behind it in memory.                  *)
(***************************************************************************)
EXTENDS Integers

What(f, p) == IF p \in DOMAIN f.at THEN f.at[p] ELSE "other"
CanRead(f, p, n) == p + n <= f.eof

As(format, p) == [format |-> format, pos |-> p]
Unrecognized(p) == As("unrecognized", p)

\* Faulty: forgets the four bytes of the machine.
IdentifyPEShort(f, p) ==
  LET offset == f.lfanew % 65536
      pe     == p + offset
  IN  IF ~CanRead(f, p + 60, 4) THEN Unrecognized(p + 60)
      ELSE IF ~CanRead(f, pe, 4) THEN Unrecognized(pe)
      ELSE IF What(f, pe) # "pe" THEN Unrecognized(pe + 4)
      ELSE IF ~CanRead(f, pe + 4, 4) THEN Unrecognized(pe + 4)
      ELSE As(IF What(f, pe + 4) = "machine" THEN "COFF" ELSE "unrecognized", p + 4)

\* A file that begins with "MZ".  Sixteen bits are kept of f.lfanew; all seeks
\* are relative, and the last one goes back to the beginning.
IdentifyPE(f, p) ==
  LET offset == f.lfanew % 65536
      pe     == p + offset
  IN  IF ~CanRead(f, p + 60, 4) THEN Unrecognized(p + 60)
      ELSE IF ~CanRead(f, pe, 4) THEN Unrecognized(pe)
      ELSE IF What(f, pe) # "pe" THEN Unrecognized(pe + 4)
      ELSE IF ~CanRead(f, pe + 4, 4) THEN Unrecognized(pe + 4)
      ELSE As(IF What(f, pe + 4) = "machine" THEN "COFF" ELSE "unrecognized", p)

\* By the machine in the first two bytes of `word', which were read at p.
IdentifyMachine(f, word, p) ==
  CASE word \in {"machine", "machine_obj"} -> As("COFF", p)
    [] word = "mz"                         -> IdentifyPE(f, p)
    [] OTHER                               -> Unrecognized(p)

\* A file that begins with a THEADR record.  When the rest of the record cannot
\* be read, which has moved the file on by `moved', the file is wound back as if
\* it could; when its checksum is wrong, its last byte is taken for a machine.
IdentifyOmf(f, moved) ==
  LET len  == f.name + 1
      back == f.start + moved - len
  IN  IF ~f.fits THEN IdentifyMachine(f, "theadr", f.start)
      ELSE IF CanRead(f, f.start + 4, len)
      THEN IF f.summed THEN As("OMF", f.start) ELSE IdentifyMachine(f, f.tail, f.start)
      ELSE IF back < 0 \/ ~CanRead(f, back, 4) THEN Unrecognized(back)
      ELSE IdentifyMachine(f, What(f, back), back)

\* ORLFileIdentify
IdentifyFile(f, moved) ==
  LET word == What(f, f.start)
  IN  IF ~CanRead(f, f.start, 4) THEN Unrecognized(f.start)
      ELSE CASE word = "elf"    -> As("ELF", f.start)
             [] word = "theadr" -> IdentifyOmf(f, moved)
             [] OTHER           -> IdentifyMachine(f, word, f.start)

\* How far a read of the rest of the THEADR record may get before it fails.
Moves(f) == {0, f.eof - f.start - 4} \cap Nat

\* Identification left a file that it recognised where it found it, and what is
\* there is of the format it said; a file that begins like an ELF or COFF object
\* or with a good THEADR record is recognised (orlentry.c:116-119, 150-163,
\* 184-196, 216-228).  Not for a THEADR record that is cut off or whose checksum
\* is wrong, where other bytes are looked at.
RightIn(f, format, p) ==
  LET word == What(f, f.start)
      pe   == f.start + (f.lfanew % 65536)
  IN  word # "theadr" \/ (CanRead(f, f.start + 4, f.name + 1) /\ (f.fits => f.summed)) =>
        /\ format # "unrecognized" => p = f.start
        /\ CanRead(f, f.start, 4) =>
             /\ format = "ELF" <=> word = "elf"
             /\ format = "OMF" <=> word = "theadr" /\ f.fits
             /\ format = "COFF" <=>
                  \/ word \in {"machine", "machine_obj"}
                  \/ word = "mz" /\ What(f, pe) = "pe" /\ What(f, pe + 4) = "machine"
                     /\ CanRead(f, f.start + 60, 4) /\ CanRead(f, pe, 8)

=============================================================================
