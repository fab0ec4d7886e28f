--------------------------- MODULE MCDelegations ---------------------------
(* Delegations for TLC: two delegators, two pools, a log of two blocks.  The
   delegators are interchangeable, and so are the pools. *)
EXTENDS Delegations

Symmetry == Permutations(Delegator) \cup Permutations(Pool)
=============================================================================
