----------------------------- MODULE MCOrlHash -----------------------------
(***************************************************************************)
(* A table of two buckets and three names of which two differ only in the  *)
(* case of their letters; the third shares their bucket.  A fourth name is *)
(* alone in its bucket.                                                    *)
(***************************************************************************)
EXTENDS OrlHash, TLC

CONSTANTS text, TEXT, data, bss, d1, d2

MCKeys == {text, TEXT, data, bss}
MCDatas == {d1, d2}
MCHashOf == (text :> 0) @@ (TEXT :> 0) @@ (data :> 0) @@ (bss :> 1)
MCFoldOf == (text :> text) @@ (TEXT :> text) @@ (data :> data) @@ (bss :> bss)

=============================================================================
