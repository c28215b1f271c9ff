----------------------------- MODULE HashEncode -----------------------------
(***************************************************************************)
(* The hash function of the section names: hash_encode of                  *)
(* src/src/orlhash.c with its folding of letter case, run on two keys at   *)
(* once, one character of each per step, as far as strcasecmp (the         *)
(* compare_func of the same tables) has found no difference.               *)
(*                                                                         *)
(* h is a uint32_t.  Between two iterations its top four bits are clear,   *)
(* so the shift by four puts the old bits 24..27 in the top; the model     *)
(* keeps the low 28 bits and that top nibble apart, so that no             *)
(* intermediate value leaves the integers TLC computes with.               *)
(***************************************************************************)
EXTENDS Naturals, Bitwise

CONSTANTS
  Chars,      \* unsigned char values of the keys, none of them 0
  ToUpper,    \* toupper of the C library, on Chars
  CharMap,    \* charmap of strcasecmp.c, on Chars
  TableSize,  \* hash_table->size
  MaxLen      \* bound of the model: the longest key

ASSUME CharsAssumption == Chars \subseteq 1 .. 255
ASSUME FoldingAssumption ==
  ToUpper \in [Chars -> 1 .. 255] /\ CharMap \in [Chars -> 1 .. 255]
ASSUME SizesAssumption == TableSize \in Nat \ {0} /\ MaxLen \in Nat

Low24 == 2 ^ 24
Low28 == 2 ^ 28

VARIABLES
  h1, h2,   \* the hash of the characters read so far of either key
  len       \* their number

vars == <<h1, h2, len>>

TypeOK == h1 \in 0 .. Low28 - 1 /\ h2 \in 0 .. Low28 - 1 /\ len \in 0 .. MaxLen

-----------------------------------------------------------------------------
\* Faulty: forgets that adding the character can carry into the top nibble.
HashStepNoCarry(h, c) ==
  LET low    == (h % Low24) * 16 + c
      nibble == (h \div Low24) % 16
      byte   == (low \div 16) % 16
  IN  low - byte * 16 + (byte ^^ nibble) * 16

\* One iteration of the loop: h = ( h << 4 ) + c; then, with g the top four
\* bits of h, h ^ ( g >> 24 ) ^ g.
HashStep(h, c) ==
  LET low    == (h % Low24) * 16 + c
      nibble == ((h \div Low24) + (low \div Low28)) % 16
      kept   == low % Low28
      byte   == (kept \div 16) % 16
  IN  kept - byte * 16 + (byte ^^ nibble) * 16

\* Faulty: hashes the letters as they are.
FoldCharNot(c) == c

\* What the loop reads of a character when ignorecase is set.
FoldChar(c) == ToUpper[c]

\* strcasecmp compares two characters through its table.
SameChar(c, d) == CharMap[c] = CharMap[d]

\* return h % size
Bucket(h) == h % TableSize

Init == h1 = 0 /\ h2 = 0 /\ len = 0

ReadPair(c, d) ==
  /\ len < MaxLen
  /\ SameChar(c, d)
  /\ h1' = HashStep(h1, FoldChar(c))
  /\ h2' = HashStep(h2, FoldChar(d))
  /\ len' = len + 1

Next == \E c, d \in Chars : ReadPair(c, d)

Spec == Init /\ [][Next]_vars

-----------------------------------------------------------------------------
\* Two names that strcasecmp finds equal are in the same bucket
\* (string_hash_ignorecase against string_cmp_ignorecase): what OrlHash takes
\* as ConsistentHash.  The two fold case by different means, toupper of the C
\* library and a table of the repository that maps to lower case.
EqualNamesSameBucket == Bucket(h1) = Bucket(h2)

=============================================================================
