------------------------------ MODULE MCResets ------------------------------
(***************************************************************************)
(* What a reset takes back in the tables that hold current values, for     *)
(* TLC: the undo log, or the rows of committee rewards.  They share no     *)
(* table, so a behaviour is one of either and the other stays as it is.    *)
(*                                                                         *)
(* Undo log: one row of each kind, a log kept for two blocks and four      *)
(* blocks, so that a reset can go back inside the window, to its edge and  *)
(* below it, and rows are created, changed, deleted and created again.     *)
(* Committee rewards: where blocks need not reward anybody, the updates of *)
(* a1 alone with two shares, whose runs are interrupted by other updates,  *)
(* by blocks without one and by a new share; where every block rewards     *)
(* somebody, two addresses with at most one update in a block, and blocks  *)
(* enough to go back past what the first resets have lost and save again.  *)
(***************************************************************************)
EXTENDS UndoLog, CommitteeRewards

CONSTANTS a1, a2, FirstShare,
    MaxMixedSaves \* bound: the saves where an address has all kinds of updates

VARIABLE resetTable \* the table of this behaviour

Changes == resetTable = "changes"
Rewards == resetTable = "balance_updates"

MCInit ==
  /\ Init /\ CommitteeInit
  /\ resetTable \in {"changes", "balance_updates"}
  /\ Changes => ~rewardEveryBlock

BlockEffects ==
  IF rewardEveryBlock THEN [Addresses -> {<<>>, <<"other">>, <<"committee">>}]
  ELSE {e \in [Addresses -> Effects] : e[a2] = <<>>}

MCShares == IF rewardEveryBlock THEN {FirstShare} ELSE Shares

MCNext ==
  /\ UNCHANGED resetTable
  /\ \/ Changes /\ Next /\ UNCHANGED committeeVars
     \/ Rewards /\ CommitteeNext(BlockEffects, MCShares) /\ UNCHANGED vars
                /\ (rewardEveryBlock \/ saves' <= MaxMixedSaves)

MCSpec == MCInit /\ [][MCNext]_<<resetTable, vars, committeeVars>>
=============================================================================
