------------------------------ MODULE Sublists ------------------------------
(***************************************************************************)
(* The elements of a list that are in a set, in their order: SelectSeq of  *)
(* the standard modules, with a set in place of the test and a function in *)
(* place of the recursive operator, which the proofs can expand.           *)
(***************************************************************************)
EXTENDS Naturals, Sequences

Those(s, T) ==
  LET Upto[i \in 0 .. Len(s)] ==
        IF i = 0 THEN <<>>
        ELSE IF s[i] \in T THEN Append(Upto[i - 1], s[i]) ELSE Upto[i - 1]
  IN  Upto[Len(s)]

=============================================================================
