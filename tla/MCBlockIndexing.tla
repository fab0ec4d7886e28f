--------------------------- MODULE MCBlockIndexing ---------------------------
(***************************************************************************)
(* Five heights and seven blocks are enough for a fork of depth three, for a *)
(* fork inside a fork, and for a new genesis below, at and above the last  *)
(* indexed height.                                                         *)
(***************************************************************************)
EXTENDS BlockIndexing

MCNewGenesisHeights == {2, 3, 4, 5}
=============================================================================
