--------------------------- MODULE MCThreadUpdate ---------------------------
(***************************************************************************)
(* ThreadUpdate for code of x64, with one expanded instruction, and for    *)
(* code of ARM64.                                                          *)
(***************************************************************************)
EXTENDS ThreadUpdate

\* Of two moved instructions, the first becomes two.
MCPartsX64 == <<2, 1>>

\* Of the three moved instructions of ARM64, none expands.
MCPartsARM64 == <<1, 1, 1>>
=============================================================================
