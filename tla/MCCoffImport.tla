---------------------------- MODULE MCCoffImport ----------------------------
(* Names that fit a symbol, that just do not, that need a larger string      *)
(* table, and some that need a second enlargement.                           *)
EXTENDS CoffImport
ShortNames == {1, 6, 8, 337, 512, 1000}
LongNames == {2100}
=============================================================================
