---------------------------- MODULE MCFlipLoader ----------------------------
(* FlipLoader for TLC: two flips and a channel with room for one header, so
   that a block with two flips blocks the indexer. *)
EXTENDS FlipLoader
=============================================================================
