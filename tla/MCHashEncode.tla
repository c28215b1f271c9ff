---------------------------- MODULE MCHashEncode ----------------------------
(***************************************************************************)
(* Keys over a dot, two letters in both cases, an underscore (whose code   *)
(* lies between the two alphabets) and a byte above 127, which the C       *)
(* locale does not fold.  Seven characters carry bits past the 28th, so    *)
(* that the nibble folded back into the hash is not zero.                  *)
(***************************************************************************)
EXTENDS HashEncode, TLC

MCChars == {46, 65, 95, 97, 90, 122, 233}
MCToUpper == [c \in MCChars |-> IF c \in 97 .. 122 THEN c - 32 ELSE c]
MCCharMap == [c \in MCChars |-> IF c \in 65 .. 90 THEN c + 32 ELSE c]

=============================================================================
