----------------------------- MODULE MCElfFile -----------------------------
(***************************************************************************)
(* An object file with two code sections whose names differ in case only   *)
(* (as COMDAT groups have them), stored in the other order, empty sections *)
(* at equal offsets, a relocation section for one of them and one for none; *)
(* a file with a pair of relocation sections for one section; a file with  *)
(* an empty one of such a pair; a file whose .bss, which takes no space in *)
(* it, is larger than what follows; a file with linker directives.         *)
(***************************************************************************)
EXTENDS ElfFile, TLC

CONSTANTS text, TEXT, rel, strtab, nosuch

Sec(type, name, off, size) ==
  [type |-> type, name |-> name, off |-> off, size |-> size,
   link |-> 0, info |-> 0, ents |-> <<>>]

Rel(off, ents, link, info) ==
  [type |-> "rel", name |-> rel, off |-> off, size |-> Len(ents),
   link |-> link, info |-> info, ents |-> ents]

Sym(off, ents, link) ==
  [type |-> "sym", name |-> strtab, off |-> off, size |-> Len(ents),
   link |-> link, info |-> 0, ents |-> ents]

\* The entries of a relocation section are its offsets, those of a symbol table
\* the sections of the symbols.
Object == [notes |-> {}, eof |-> 12,
           secs |-> <<Sec("prog", text, 3, 2), Rel(7, <<0, 1, 0>>, 4, 1),
                      Sec("prog", TEXT, 1, 2), Sym(5, <<0, 1>>, 5),
                      Sec("str", strtab, 10, 2), Rel(7, <<1>>, 4, 0)>>]

\* Both tables of the pair have entries.
Pair == [notes |-> {}, eof |-> 6,
         secs |-> <<Sec("prog", text, 1, 1), Rel(2, <<0>>, 4, 1),
                    Rel(3, <<0>>, 4, 1), Sym(4, <<1>>, 5), Sec("str", strtab, 5, 1)>>]

\* One table of the pair has none.
Funky == [notes |-> {}, eof |-> 9,
          secs |-> <<Sec("prog", text, 1, 2), Rel(3, <<0>>, 4, 1),
                     Rel(4, <<>>, 4, 1), Sym(4, <<1>>, 5), Sec("str", strtab, 5, 2)>>]

\* .bss at the end of what the file has of its sections, and not in the file.
Bss == [notes |-> {}, eof |-> 6,
        secs |-> <<Sec("prog", text, 1, 2), Sec("nobits", TEXT, 3, 6),
                   Sec("str", strtab, 3, 2)>>]

\* All texts of up to two directives of three kinds, and a file with them.
Directives ==
  {[cmd |-> c, colon |-> TRUE, words |-> w] :
     c \in {"export", "entry", "merge"}, w \in {<<>>, <<"a">>, <<"a", "b">>}}
Notes == [ds : UNION {[1 .. n -> Directives] : n \in 0 .. 2}, space : BOOLEAN]
Noted == [notes |-> Notes, eof |-> 2, secs |-> <<Sec("note", text, 1, 1)>>]

MCHashOf == (text :> 0) @@ (TEXT :> 0) @@ (rel :> 0) @@ (strtab :> 1) @@ (nosuch :> 1)
MCFoldOf == (text :> text) @@ (TEXT :> text) @@ (rel :> rel) @@ (strtab :> strtab)
              @@ (nosuch :> nosuch)
MCOffsets == {0, 2}

AllImages == {Object, Pair, Funky, Bss, Noted}
FunkyOnly == {Funky}
BssOnly == {Bss}

=============================================================================
