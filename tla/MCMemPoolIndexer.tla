-------------------------- MODULE MCMemPoolIndexer --------------------------
(***************************************************************************)
(* Two kinds (the saver must be caught between two caches), one key that   *)
(* is published more than once and an invalid action; channels of one, so  *)
(* that publishers block.                                                  *)
(***************************************************************************)
EXTENDS MemPoolIndexer

CONSTANTS flipKey, answersHash

MCKindOrder == <<flipKey, answersHash>>
=============================================================================
