-------------------------------- MODULE Sums --------------------------------
(***************************************************************************)
(* Sums over lists, for the properties that say of amounts that they add   *)
(* up.                                                                     *)
(***************************************************************************)
EXTENDS Integers, Sequences

\* The sum of a list of integers: a recursive function, which proofs can expand.
SumOfList(list) ==
    LET upTo[n \in 0..Len(list)] == IF n = 0 THEN 0 ELSE upTo[n - 1] + list[n]
    IN  upTo[Len(list)]
=============================================================================
