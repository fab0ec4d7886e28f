--------------------------- MODULE MCEpochResults ---------------------------
(***************************************************************************)
(* The rewards and the results of one epoch, for TLC.  Two identities,     *)
(* both of which may be delegators of the pool p, which may be rewarded    *)
(* itself; every mixture of four fates of an identity: a newbie that is    *)
(* promoted, a penalized delegator that is promoted, a delegator that      *)
(* missed the validation and is killed, and a candidate that did not come. *)
(***************************************************************************)
EXTENDS EpochResult

\* One reward that goes to the balance and the stake.
MCAmounts == {<<1, 2>>}

Promoted ==
  [prev |-> "Newbie", new |-> "Verified", pool |-> NoPool, newPool |-> NoPool,
   penalized |-> FALSE, missedValidation |-> FALSE, missed |-> FALSE, present |-> TRUE,
   available |-> 5, birthday |-> 2, staked |-> TRUE, consensus |-> {0, 1}, reported |-> {0},
   ignoredGrades |-> FALSE]

MCInputs ==
  {Promoted,
   [Promoted EXCEPT !.pool = "p", !.newPool = "p", !.penalized = TRUE, !.birthday = 1,
                    !.ignoredGrades = TRUE],
   [Promoted EXCEPT !.pool = "p", !.new = "Killed", !.missedValidation = TRUE,
                    !.missed = TRUE, !.birthday = 3],
   [Promoted EXCEPT !.prev = "Candidate", !.new = "Undefined", !.present = FALSE,
                    !.available = 0, !.staked = FALSE]}

MCSpec == ResultInit /\ [][ResultNext]_<<rewardVars, resultVars>>
=============================================================================
