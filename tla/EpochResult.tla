---------------------------- MODULE EpochResult ----------------------------
(***************************************************************************)
(* What the indexer makes of the rewards when a validation is finished     *)
(* (detectEpochResult of indexer/indexer.go, indexer/rewards.go,           *)
(* indexer/delegatee_epoch_rewards.go, indexer/context.go and              *)
(* indexer/validation_summary.go).  It goes through the identities of the  *)
(* state before the block once and fills, identity by identity, the rows   *)
(* of the epoch, the sizes of the pools, the penalized members of every    *)
(* pool, the bounds of the rewards by age and a summary of what was earned *)
(* and missed.  What EpochRewards collects is its input.                   *)
(*                                                                         *)
(* An identity is a record of what the two states and the statistics of    *)
(* the validation say of it (external).  The float weights of age and      *)
(* stake, and the shares, count as 1: an amount that was missed is the     *)
(* number of shares it stands for.  Counts of flips are bytes.  Left out:  *)
(* the statistics of the flips, which become rows as they are, with their  *)
(* authors, and the birthdays and flip keys of the identities.             *)
(***************************************************************************)
EXTENDS EpochRewards

CONSTANTS
    Identities,      \* addresses of the identities of the state before the block
    IdentityInputs,  \* what may be said of an identity
    GodAddress,      \* its rewards do not count for the bounds
    NewEpoch,        \* number of the epoch that begins
    NoPool           \* not delegated

ASSUME ResultAssumption ==
    /\ NewEpoch \in Nat \ {0} /\ NoPool \notin Recipients
    /\ \A id \in IdentityInputs : id.available \in 0..255   \* a byte

VARIABLES
    phase,        \* "rewards", "identities", "done"
    iterated,     \* history: identity -> its input
    epochRows,    \* EpochResult.Identities: <<[addr, missed, birth, scores]>>
    leftOver,     \* validationRewardsAddresses
    poolSizes,    \* PoolSizeChanges: pool -> [old, new], TotalDelegated of both
    poolRows,     \* delegateeEpochRewardsWrapper: <<[pool, penalized]>>
    bounds,       \* rewardsBounds: class of age -> [min, max]
    summaries,    \* ValidationRewardSummaries: address -> summary
    killedBy      \* collector.killedAddrs set by the validation

resultVars == <<phase, iterated, epochRows, leftOver, poolSizes, poolRows, bounds, summaries, killedBy>>

requiredFlips == 3
Byte(n) == n % 256

Validated == {"Newbie", "Verified", "Human"}      \* NewbieOrBetter
NewInEpoch == {"Invite", "Candidate"}
Gone == {"Killed", "Undefined"}

Set(f, key, value) == [k \in DOMAIN f \cup {key} |-> IF k = key THEN value ELSE f[k]]

-----------------------------------------------------------------------------
(* detectEpochRewards                                                       *)

\* convertRewards: fund rewards are kept apart and name no identity.
ValidationRewardsAddresses == {rewards[i].addr : i \in {j \in DOMAIN rewards : rewards[j].type \notin FundTypes}}

\* convertDelegateesEpochRewards: a row for every pool that got rewards.
convertDelegateesEpochRewards ==
    SetToSeq({[pool |-> p, penalized |-> 0] : p \in {k[1] : k \in DOMAIN delegateeRewards}})

detectEpochRewards ==
    /\ phase = "rewards"
    /\ phase' = "identities"
    /\ leftOver' = ValidationRewardsAddresses
    /\ poolRows' = convertDelegateesEpochRewards
    /\ UNCHANGED <<rewardVars, iterated, epochRows, poolSizes, bounds, summaries, killedBy>>

-----------------------------------------------------------------------------
(* Pools, bounds and scores of an identity                                  *)

incPenalizedDelegators(rows, pool) ==
    IF \E i \in DOMAIN rows : rows[i].pool = pool
    THEN [i \in DOMAIN rows |-> IF rows[i].pool = pool THEN [rows[i] EXCEPT !.penalized = @ + 1] ELSE rows[i]]
    ELSE Append(rows, [pool |-> pool, penalized |-> 1])

\* incPoolSize, for the pool before and the pool after.
incPoolSize(sizes, pool, prev) ==
    IF pool = NoPool THEN sizes
    ELSE LET size == IF pool \in DOMAIN sizes THEN sizes[pool] ELSE [old |-> 0, new |-> 0]
         IN  Set(sizes, pool, IF prev THEN [size EXCEPT !.old = @ + 1] ELSE [size EXCEPT !.new = @ + 1])

\* Six classes of age; the last one is open.
determineRewardBoundType(age) == IF age <= 5 THEN age ELSE 6

addIfBound(b, addr, age, amount) ==
    IF amount = 0 THEN b
    ELSE LET type == determineRewardBoundType(age)
             one == [addr |-> addr, amount |-> amount]
         IN  IF type \notin DOMAIN b THEN Set(b, type, [min |-> one, max |-> one])
             ELSE [b EXCEPT ![type].min = IF @.amount > amount THEN one ELSE @,
                            ![type].max = IF @.amount < amount THEN one ELSE @]

BirthEpoch(id) == IF id.prev \in NewInEpoch THEN NewEpoch - 1 ELSE id.birthday

\* Which scores the totals of the identity are made from.
ScoresOf(id) ==
    CASE id.present /\ id.new \in Validated \cup {"Suspended", "Zombie"} -> "new state"
      [] id.present /\ id.new \notin Validated \cup {"Suspended", "Zombie"} /\ ~id.missed -> "previous and this"
      [] OTHER -> "previous state"

-----------------------------------------------------------------------------
(* validationRewardSummariesCalculator                                      *)

\* init: the last row of a type counts.
RewardOf(addr, type) ==
    LET rows == {i \in DOMAIN rewards : rewards[i].addr = addr /\ rewards[i].type = type}
    IN  IF rows = {} THEN 0 ELSE rewards[Max(rows)].balance + rewards[Max(rows)].stake

RewardedCount(flips, addr) == Cardinality({f \in Range(flips) : f[1] = addr})

Reason(missed, id, otherwise) ==
    IF missed = 0 THEN "none" ELSE IF id.penalized THEN "penalty" ELSE otherwise

calculateValidationRewardSummary(addr, id) ==
    LET missed == IF id.new \notin Validated \/ id.penalized THEN 1 ELSE 0
    IN  [earned |-> RewardOf(addr, "Validation"), missed |-> missed,
         reason |-> Reason(missed, id, "not validated")]

calculateCandidateRewardSummary(addr, id) ==
    LET missed == IF id.prev = "Candidate" /\ (id.new \notin Validated \/ id.penalized) THEN 1 ELSE 0
    IN  [earned |-> RewardOf(addr, "Candidate"), missed |-> missed,
         reason |-> Reason(missed, id, "not validated")]

calculateStakingRewardSummary(addr, id) ==
    LET missed == IF id.staked /\ (id.new \notin Validated \/ id.penalized) THEN 1 ELSE 0
    IN  [earned |-> RewardOf(addr, "Staking"), missed |-> missed,
         reason |-> Reason(missed, id, "not validated")]

FlipsReason(missed, id) ==
    Reason(missed, id, IF id.missedValidation THEN "missed validation" ELSE "not all flips")

calculateFlipsRewardSummary(addr, id) ==
    LET missed == IF id.available = 0 THEN 0
                  ELSE IF rules = "upgrade10"
                  THEN Byte(requiredFlips - RewardedCount(basicFlips, addr))
                  ELSE Byte(id.available - (RewardedCount(basicFlips, addr) + RewardedCount(extraFlips, addr)))
    IN  [earned |-> RewardOf(addr, "Flips"), missed |-> missed, reason |-> FlipsReason(missed, id)]

calculateExtraFlipsRewardSummary(addr, id) ==
    LET missed == IF id.staked /\ id.available > requiredFlips
                  THEN Byte(id.available - requiredFlips - RewardedCount(extraFlips, addr)) ELSE 0
    IN  [earned |-> RewardOf(addr, "ExtraFlips"), missed |-> missed, reason |-> FlipsReason(missed, id)]

calculateInvitationsRewardSummary(addr, id) ==
    [earned |-> SumOf(Range(InvitationTypes) \cup {"SavedInvite", "SavedInviteWin"}, LAMBDA t : RewardOf(addr, t)),
     missed |-> 0, reason |-> IF id.penalized THEN "penalty" ELSE "none"]

calculateInviteeRewardSummary(addr, id) ==
    [earned |-> SumOf(Range(InviteeTypes), LAMBDA t : RewardOf(addr, t)), missed |-> 0,
     reason |-> IF id.penalized THEN "penalty"
                ELSE IF id.new \notin Validated THEN "not validated" ELSE "none"]

\* flipsWithReportConsensus: what the identity had to solve and is reported by all.
calculateReportsRewardSummary(addr, id) ==
    LET rewarded == {r.flip : r \in {x \in Range(reportRewards) : x.addr = addr}}
        missed == Cardinality(id.consensus \ rewarded)
        ignored == id.ignoredGrades /\ id.consensus \cap id.reported # {}
    IN  [earned |-> RewardOf(addr, "ReportedFlips"), missed |-> missed,
         reason |-> Reason(missed, id, IF ignored THEN "ignored grades" ELSE "not all reports")]

calculateValidationRewardSummaries(addr, id) ==
    [validation |-> calculateValidationRewardSummary(addr, id),
     candidate |-> calculateCandidateRewardSummary(addr, id),
     staking |-> calculateStakingRewardSummary(addr, id),
     flips |-> calculateFlipsRewardSummary(addr, id),
     extraFlips |-> calculateExtraFlipsRewardSummary(addr, id),
     invitations |-> calculateInvitationsRewardSummary(addr, id),
     invitee |-> calculateInviteeRewardSummary(addr, id),
     reports |-> calculateReportsRewardSummary(addr, id)]

-----------------------------------------------------------------------------
(* The loop over the identities                                             *)

\* The node rewards no flip beyond those an identity may have made (external).
Consistent(addr, id) ==
    \A f \in Range(basicFlips) \cup Range(extraFlips) : f[1] = addr => f[2] <= id.available

ConvertIdentity(addr, id) ==
    /\ phase = "identities"
    /\ addr \in Identities \ DOMAIN iterated
    /\ Consistent(addr, id)
    /\ iterated' = Set(iterated, addr, id)
    /\ poolRows' = IF id.pool # NoPool /\ id.penalized THEN incPenalizedDelegators(poolRows, id.pool) ELSE poolRows
    /\ poolSizes' = incPoolSize(incPoolSize(poolSizes, id.pool, TRUE), id.newPool, FALSE)
    /\ epochRows' = Append(epochRows, [addr |-> addr, missed |-> ~id.present \/ id.missed,
                                       birth |-> BirthEpoch(id), scores |-> ScoresOf(id)])
    /\ leftOver' = leftOver \ {addr}
    /\ bounds' = IF addr # GodAddress /\ addr \in DOMAIN totalRewards
                 THEN addIfBound(bounds, addr, NewEpoch - BirthEpoch(id), totalRewards[addr]) ELSE bounds
    /\ killedBy' = IF id.prev \notin Gone /\ id.new \in Gone THEN killedBy \cup {addr} ELSE killedBy
    /\ summaries' = Set(summaries, addr, calculateValidationRewardSummaries(addr, id))
    /\ UNCHANGED <<rewardVars, phase>>

\* Mutant: only identities have rows.
CompleteWithoutLeftOver ==
    /\ phase = "identities"
    /\ Identities = DOMAIN iterated
    /\ phase' = "done"
    /\ UNCHANGED <<rewardVars, iterated, epochRows, leftOver, poolSizes, poolRows, bounds, summaries, killedBy>>

\* Rewarded addresses that are no identity get a row of their own.
CompleteEpochResult ==
    /\ phase = "identities"
    /\ Identities = DOMAIN iterated
    /\ phase' = "done"
    /\ epochRows' = epochRows \o SetToSeq({[addr |-> a, missed |-> TRUE, birth |-> 0, scores |-> "none"] : a \in leftOver})
    /\ UNCHANGED <<rewardVars, iterated, leftOver, poolSizes, poolRows, bounds, summaries, killedBy>>

ResultInit ==
    /\ RewardsInit
    /\ phase = "rewards" /\ iterated = <<>>
    /\ epochRows = <<>> /\ leftOver = {} /\ poolSizes = <<>> /\ poolRows = <<>>
    /\ bounds = <<>> /\ summaries = <<>> /\ killedBy = {}

ResultNext ==
    \/ phase = "rewards" /\ RewardsNext /\ UNCHANGED resultVars
    \/ detectEpochRewards
    \/ \E addr \in Identities, id \in IdentityInputs : ConvertIdentity(addr, id)
    \/ CompleteEpochResult

-----------------------------------------------------------------------------
(* Types; the classes of age have the numbers of the code.                    *)
ResultTypeOK ==
    /\ phase \in {"rewards", "identities", "done"}
    /\ DOMAIN iterated \subseteq Identities /\ DOMAIN summaries = DOMAIN iterated
    /\ \A t \in DOMAIN bounds : t \in 1..6
    /\ killedBy \subseteq Identities /\ leftOver \subseteq Recipients

(* The summary of an identity says that it earned, over all kinds, exactly    *)
(* what the totals of the collector say: the calculator keeps one row per     *)
(* type, so a type that came in two rows would lose one of them.              *)
EarnedIsGiven ==
    \A a \in DOMAIN summaries :
        SumOf(DOMAIN summaries[a], LAMBDA kind : summaries[a][kind].earned) = At(totalRewards, a)

(* Flips rewarded and flips missed add up to the flips that could be rewarded *)
(* under the rules of the time; the subtraction of bytes never wraps around.  *)
FlipCountsAddUp ==
    \A a \in DOMAIN summaries :
        LET basic == RewardedCount(basicFlips, a)
            extra == RewardedCount(extraFlips, a)
            id    == iterated[a]
        IN  /\ id.available > 0 =>
                  summaries[a].flips.missed =
                      IF rules = "upgrade10" THEN requiredFlips - basic ELSE id.available - basic - extra
            /\ id.staked /\ id.available > requiredFlips =>
                  summaries[a].extraFlips.missed = id.available - requiredFlips - extra

\* The rewarded flips of an author (addRewardedFlips, addRewardedExtraFlips)
\* are listed once, so that rewarded and missed flips add up to those that
\* could be rewarded (calculateFlipsRewardSummary,
\* calculateExtraFlipsRewardSummary).
FlipRewardsAddUp == FlipsAreListedOnce /\ FlipCountsAddUp

(* In the end every address with a validation reward has exactly one row among *)
(* the identities of the epoch, which the rows of its rewards refer to.        *)
EveryRewardedHasARow ==
    phase = "done" =>
        /\ \A a \in ValidationRewardsAddresses \cup Identities : \E i \in DOMAIN epochRows : epochRows[i].addr = a
        /\ \A i, j \in DOMAIN epochRows : epochRows[i].addr = epochRows[j].addr => i = j

(* The bounds of an age are rewards of identities of that age, and no reward  *)
(* of it lies outside of them.                                                *)
BoundsBracketRewards ==
    \A a \in (DOMAIN iterated \cap DOMAIN totalRewards) \ {GodAddress} :
        LET Age(x) == determineRewardBoundType(NewEpoch - BirthEpoch(iterated[x]))
            b == bounds[Age(a)]
        IN  /\ b.min.amount <= totalRewards[a] /\ totalRewards[a] <= b.max.amount
            /\ \A e \in {b.min, b.max} : e.amount = totalRewards[e.addr] /\ Age(e.addr) = Age(a)

(* A pool has one row, whether it got rewards or not, with all its penalized  *)
(* members, and its sizes count the members before and after.                 *)
PoolsOfEpochAgree ==
    LET MembersOf(p) == {a \in DOMAIN iterated : iterated[a].pool = p}
    IN  /\ \A i, j \in DOMAIN poolRows : poolRows[i].pool = poolRows[j].pool => i = j
        /\ \A i \in DOMAIN poolRows : poolRows[i].penalized =
              Cardinality({a \in MembersOf(poolRows[i].pool) : iterated[a].penalized})
        /\ \A p \in DOMAIN poolSizes :
              /\ poolSizes[p].old = Cardinality(MembersOf(p))
              /\ poolSizes[p].new = Cardinality({a \in DOMAIN iterated : iterated[a].newPool = p})

\* The rows of an epoch's result agree with each other (detectEpochResult,
\* calculateValidationRewardSummaries, convertDelegateesEpochRewards): the
\* summaries with the rewards, the identities with the rewarded, the bounds
\* with the totals and the pools with their members.
EpochRowsAgree ==
    /\ ResultTypeOK
    /\ EarnedIsGiven
    /\ EveryRewardedHasARow
    /\ BoundsBracketRewards
    /\ PoolsOfEpochAgree
=============================================================================
