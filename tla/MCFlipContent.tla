--------------------------- MODULE MCFlipContent ---------------------------
(***************************************************************************)
(* FlipContent for TLC: two flips, a batch of both, two attempts; a flip   *)
(* that can be saved beside another of any content.                        *)
(***************************************************************************)
EXTENDS FlipContent

MCFlipContents == {c \in [Flip -> Contents] : \E f \in Flip : c[f] = "readable"}
=============================================================================
