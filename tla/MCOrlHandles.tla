---------------------------- MODULE MCOrlHandles ----------------------------
(***************************************************************************)
(* Three files of two formats in a heap that has room for no more, so that *)
(* addresses are used again at once; a third format is not enabled.        *)
(***************************************************************************)
EXTENDS OrlHandles

CONSTANTS COFF, OMF, a1, a2, a3, a4, a5, a6

MCAddr == {a1, a2, a3, a4, a5, a6}
MCFormats == {ELF, COFF, OMF}
MCEnabled == {ELF, COFF}

=============================================================================
