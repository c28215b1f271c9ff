---------------------------- MODULE MCCoffFile ----------------------------
(***************************************************************************)
(* An object file with two sections, the first with relocations and line   *)
(* numbers of two functions, one of them with a .bf symbol and so many     *)
(* lines that the 16 bits of a line number do not hold the sum, the other  *)
(* with a long name; the same file cut off within and behind its symbols   *)
(* and within its strings; one with more relocations; a stripped image; an *)
(* import library, one for a machine it is not made for, a file for a      *)
(* machine ORL does not know; a file with linker directives; a file with a *)
(* section behind its string table.                                        *)
(***************************************************************************)
EXTENDS CoffFile, TLC

CONSTANTS text, long, rel, symtab, strtab, nosuch

Sec(name, kind, off, size) ==
  [name |-> name, long |-> name = long, kind |-> kind, off |-> off, size |-> size,
   relocs |-> 0, reloff |-> 0, lines |-> <<>>]

Text(n) ==
  [Sec(text, "prog", 2, 2) EXCEPT !.relocs = n, !.reloff = 5,
     !.lines = <<[num |-> 0, ref |-> 1], [num |-> 2, ref |-> 1],
                 [num |-> 0, ref |-> 4], [num |-> 65000, ref |-> 3]>>]

Sym(value, aux) ==
  [value |-> value, aux |-> aux, static |-> 0, long |-> FALSE, eight |-> FALSE,
   bf |-> FALSE, line |-> 0]

\* A function without and one with a .bf symbol, whose auxiliary entry has its
\* line, and one more.
Syms == <<[Sym(4, 1) EXCEPT !.eight = TRUE], Sym(0, 0), [Sym(2, 0) EXCEPT !.static = 2],
          [Sym(1, 0) EXCEPT !.long = TRUE], [Sym(1, 1) EXCEPT !.bf = TRUE],
          [Sym(0, 0) EXCEPT !.line = 700]>>

File(secs, syms, symoff, strs, eof) ==
  [import |-> "no", notes |-> {}, machine |-> TRUE, hdr |-> 2, secs |-> secs, syms |-> syms,
   symoff |-> symoff, strs |-> strs, eof |-> eof]

Object(n) ==
  File(<<Text(n), Sec(long, "bss", 0, 4)>>, Syms, 10, 2, 19)

Stripped == File(<<Sec(text, "prog", 2, 2)>>, Syms, 0, 0, 4)
Import ==
  [File(<<[Text(1) EXCEPT !.lines = <<>>]>>, <<[Sym(0, 1) EXCEPT !.eight = TRUE], Sym(0, 0)>>,
        6, 1, 10) EXCEPT !.import = "yes"]

\* Data of 3 follow the string table, as debug information does in images that
\* were edited after they were linked.
Late ==
  File(<<Sec(long, "prog", 2, 2), Sec(text, "prog", 13, 3)>>, Syms, 4, 2, 16)

\* All texts of up to two directives of five kinds.
Directives ==
  [cmd : {"export", "defaultlib", "merge"}, colon : BOOLEAN, words : {<<>>, <<"a">>, <<"a", "b">>}]
    \cup {[cmd |-> "entry", colon |-> TRUE, words |-> <<"a">>]}
Notes == [ds : UNION {[1 .. n -> Directives] : n \in 0 .. 2}, space : BOOLEAN]

\* An object file that has nothing but them.
Noted == [File(<<Sec(text, "note", 2, 2)>>, <<>>, 0, 0, 4) EXCEPT !.notes = Notes]

MCHashOf == (text :> 0) @@ (long :> 0) @@ (rel :> 1) @@ (symtab :> 1) @@ (strtab :> 0)
              @@ (nosuch :> 1)
MCFoldOf == [n \in DOMAIN MCHashOf |-> n]

AllImages ==
  {Object(2), Object(4), Stripped, Import, [Import EXCEPT !.import = "unsupported"],
   [Stripped EXCEPT !.machine = FALSE],
   [Object(2) EXCEPT !.eof = 14], [Object(2) EXCEPT !.eof = 16], [Object(2) EXCEPT !.eof = 18], Noted}
ObjectsOnly == {Object(2), Object(4)}
LateOnly == {Late}

=============================================================================
