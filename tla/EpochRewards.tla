---------------------------- MODULE EpochRewards ----------------------------
(***************************************************************************)
(* The rewards of a block that ends a validation, as the node announces    *)
(* them to the statistics collector (core/stats/collector.go), together    *)
(* with the mining rewards of the block.  One reward reaches up to five    *)
(* places: the list of rewards, where some types are merged into one row   *)
(* per address; the totals by address; the totals of the pool it goes to   *)
(* and the share of the delegator in them; and a list of what was rewarded *)
(* (flips, reports, invitations, invitees).                                *)
(*                                                                         *)
(* An amount is <<balance, stake>>; nil and zero are the same.  A reward   *)
(* has the address that gets its balance (the pool of a delegator) and the *)
(* one that gets its stake.                                                *)
(*                                                                         *)
(* External, the node: the amounts of a call are not shared with another   *)
(* call (the collector adds later amounts to those of the first); an       *)
(* address gets a reward of a type that is not merged at most once; flips  *)
(* are announced once, all with the basic reward before upgrade 10 and     *)
(* since upgrade 11, the first three with it in between, the rest with the *)
(* extra reward since upgrade 10.                                          *)
(***************************************************************************)
EXTENDS Integers, Sequences, SequencesExt, FiniteSetsExt

CONSTANTS
    Recipients,        \* addresses that get rewards
    Pools,             \* those of them that others delegate to
    Ages,              \* ages of invitations: 0 (saved) to 3
    Amounts,           \* amounts of a reward: pairs of naturals
    FlipCounts,        \* how many flips of an author may be rewarded
    ReportedIdxs,      \* indexes of reported flips; those below FlipCidsCount exist
    FlipCidsCount,     \* flips of the shard
    MaxRewards         \* bound: rewards of the block

ASSUME RewardsAssumption ==
    /\ Pools \subseteq Recipients /\ Ages \subseteq 0..3
    /\ Amounts \subseteq Nat \X Nat
    /\ FlipCounts \subseteq Nat /\ ReportedIdxs \subseteq Int
    /\ FlipCidsCount \in Nat /\ MaxRewards \in Nat

VARIABLES
    rules,            \* c.consensusConf: "before10", "upgrade10" or "upgrade11"
    rewards,          \* RewardsStats.Rewards: <<[addr, type, balance, stake]>>
    totalRewards,     \* RewardsStats.TotalRewardsByAddr
    delegateeRewards, \* DelegateesEpochRewards: <<delegatee, type>> -> balance
    delegatorRewards, \* ... their DelegatorsEpochRewards: <<delegatee, delegator, type>> -> balance
    basicFlips,       \* RewardsStats.RewardedFlipCids
    extraFlips,       \* RewardsStats.RewardedExtraFlipCids
    reportRewards,    \* RewardsStats.ReportedFlipRewards
    invites,          \* RewardsStats.RewardedInvites and RewardedInvitees
    savedInvites,     \* SavedInviteRewardsCountByAddrAndType: <<addr, type>> -> count
    miningRewards,    \* c.stats.MiningRewards
    committeeRow,     \* pending.finalCommitteeRewardsByAddr: address -> its row
    committees,       \* <<OriginalFinalCommittee, PoolFinalCommittee>>
    given             \* history: <<[from, to, type, amount]>>

rewardVars == <<rules, rewards, totalRewards, delegateeRewards, delegatorRewards, basicFlips,
                extraFlips, reportRewards, invites, savedInvites, miningRewards, committeeRow,
                committees, given>>
rewardedVars == <<basicFlips, extraFlips, reportRewards, invites, savedInvites>>
epochVars  == <<rewards, totalRewards, delegateeRewards, delegatorRewards, rewardedVars>>
miningVars == <<miningRewards, committeeRow, committees>>

FundTypes == {"FoundationPayouts", "ZeroWalletFund"}
InviteeTypes == <<"Invitee1", "Invitee2", "Invitee3">>
InvitationTypes == <<"Invitations", "Invitations2", "Invitations3">>
MergedTypes == Range(InvitationTypes) \cup {"SavedInvite", "SavedInviteWin", "ReportedFlips",
                                            "Flips", "ExtraFlips", "Validation"}
RewardTypes == MergedTypes \cup Range(InviteeTypes) \cup FundTypes \cup {"Staking", "Candidate"}
MiningTypes == {"Proposer", "Committee"}

Zero == <<0, 0>>
Total(amount) == amount[1] + amount[2]
Plus(f, key, n) == [k \in DOMAIN f \cup {key} |->
                       (IF k \in DOMAIN f THEN f[k] ELSE 0) + IF k = key THEN n ELSE 0]

-----------------------------------------------------------------------------
(* What every reward of the epoch goes through                              *)

Row(addr, type, amount) == [addr |-> addr, type |-> type, balance |-> amount[1], stake |-> amount[2]]

\* Mutant: rows are never merged.
AlwaysAppend(list, addr, type, amount) ==
    IF amount = Zero THEN list ELSE Append(list, Row(addr, type, amount))

\* addReward with increaseEpochRewardIfExists.
addReward(list, addr, type, amount) ==
    LET Same(i) == list[i].addr = addr /\ list[i].type = type
    IN  IF amount = Zero THEN list
        ELSE IF type \in MergedTypes /\ \E i \in DOMAIN list : Same(i)
        THEN [i \in DOMAIN list |->
                IF Same(i) THEN [list[i] EXCEPT !.balance = @ + amount[1], !.stake = @ + amount[2]]
                ELSE list[i]]
        ELSE Append(list, Row(addr, type, amount))

addAddrTotalReward(addr, amount) ==
    totalRewards' = IF amount = Zero THEN totalRewards ELSE Plus(totalRewards, addr, Total(amount))

\* Only the balance part goes to the pool.
addDelegateeReward(delegator, delegatee, balance, type) ==
    IF balance = 0 THEN UNCHANGED <<delegateeRewards, delegatorRewards>>
    ELSE /\ delegateeRewards' = Plus(delegateeRewards, <<delegatee, type>>, balance)
         /\ delegatorRewards' = Plus(delegatorRewards, <<delegatee, delegator, type>>, balance)

Give(from, to, type, amount) ==
    /\ Len(given) < MaxRewards
    /\ type \in MergedTypes \cup MiningTypes \/ \A g \in Range(given) : ~(g.to = to /\ g.type = type)
    /\ given' = Append(given, [from |-> from, to |-> to, type |-> type, amount |-> amount])
    /\ UNCHANGED rules

\* The part that the Add...Reward calls share.
AddEpochReward(balanceDest, stakeDest, amount, type) ==
    /\ Give(balanceDest, stakeDest, type, amount)
    /\ rewards' = addReward(rewards, stakeDest, type, amount)
    /\ IF balanceDest # stakeDest
       THEN addDelegateeReward(stakeDest, balanceDest, amount[1], type)
       ELSE UNCHANGED <<delegateeRewards, delegatorRewards>>
    /\ addAddrTotalReward(stakeDest, amount)
    /\ UNCHANGED miningVars

AddValidationReward(balanceDest, stakeDest, amount) ==
    /\ AddEpochReward(balanceDest, stakeDest, amount, "Validation")
    /\ UNCHANGED rewardedVars

AddCandidateReward(balanceDest, stakeDest, amount) ==
    /\ AddEpochReward(balanceDest, stakeDest, amount, "Candidate")
    /\ UNCHANGED rewardedVars

AddStakingReward(balanceDest, stakeDest, amount) ==
    /\ AddEpochReward(balanceDest, stakeDest, amount, "Staking")
    /\ UNCHANGED rewardedVars

-----------------------------------------------------------------------------
(* Flips                                                                    *)

FlipsOf(author, first, last) == [i \in 1..(last - first + 1) |-> <<author, first + i - 1>>]

\* What the node hands to the two calls (external).
BasicAnnounced(author, count) ==
    FlipsOf(author, 1, IF rules = "upgrade10" /\ count > 3 THEN 3 ELSE count)
ExtraAnnounced(author, count) == FlipsOf(author, 4, count)

\* Mutant: the extra reward lists its flips under every rule.
AlwaysListExtra(flips) ==
    /\ extraFlips' = extraFlips \o flips
    /\ UNCHANGED <<basicFlips, reportRewards, invites, savedInvites>>

\* The lists that AddFlipsBasicReward makes longer.
ListBasicFlips(flips) ==
    /\ IF rules # "upgrade11" \/ Len(flips) <= 3
       THEN basicFlips' = basicFlips \o flips /\ UNCHANGED extraFlips
       ELSE /\ basicFlips' = basicFlips \o SubSeq(flips, 1, 3)
            /\ extraFlips' = extraFlips \o SubSeq(flips, 4, Len(flips))
    /\ UNCHANGED <<reportRewards, invites, savedInvites>>

AddFlipsBasicReward(balanceDest, stakeDest, amount, count) ==
    /\ \A f \in Range(basicFlips) : f[1] # stakeDest
    /\ AddEpochReward(balanceDest, stakeDest, amount, "Flips")
    /\ ListBasicFlips(BasicAnnounced(stakeDest, count))

\* Since upgrade 11 the basic reward has already listed them.
ListExtraFlips(flips) ==
    /\ extraFlips' = IF rules = "upgrade11" THEN extraFlips ELSE extraFlips \o flips
    /\ UNCHANGED <<basicFlips, reportRewards, invites, savedInvites>>

AddFlipsExtraReward(balanceDest, stakeDest, amount, count) ==
    /\ rules # "before10"
    /\ count > 3
    /\ \A g \in Range(given) : ~(g.to = stakeDest /\ g.type = "ExtraFlips")
    /\ AddEpochReward(balanceDest, stakeDest, amount, "ExtraFlips")
    /\ ListExtraFlips(ExtraAnnounced(stakeDest, count))

\* addReportedFlipReward: listed only if the index leads to a flip.
AddReportedFlipsReward(balanceDest, stakeDest, amount, flipIdx) ==
    /\ AddEpochReward(balanceDest, stakeDest, amount, "ReportedFlips")
    /\ reportRewards' = IF flipIdx \in 0..(FlipCidsCount - 1)
                        THEN Append(reportRewards, [addr |-> stakeDest, amount |-> amount, flip |-> flipIdx])
                        ELSE reportRewards
    /\ UNCHANGED <<basicFlips, extraFlips, invites, savedInvites>>

-----------------------------------------------------------------------------
(* Invitations and funds                                                    *)

AddInviteeReward(addr, stake, age) ==
    /\ AddEpochReward(addr, addr, <<0, stake>>, InviteeTypes[age])
    /\ invites' = Append(invites, InviteeTypes[age])
    /\ UNCHANGED <<basicFlips, extraFlips, reportRewards, savedInvites>>

determineInvitationsRewardType(age, isSavedInviteWinner) ==
    IF age > 0 THEN InvitationTypes[age]
    ELSE IF isSavedInviteWinner THEN "SavedInviteWin" ELSE "SavedInvite"

\* addRewardedInvite: a saved invitation is counted, another one listed, with
\* the transaction that used it.
AddInvitationsReward(balanceDest, stakeDest, amount, age, isSavedInviteWinner, hasTx) ==
    LET type == determineInvitationsRewardType(age, isSavedInviteWinner)
    IN  /\ AddEpochReward(balanceDest, stakeDest, amount, type)
        /\ IF age = 0
           THEN savedInvites' = Plus(savedInvites, <<stakeDest, type>>, 1) /\ UNCHANGED invites
           ELSE /\ invites' = IF hasTx THEN Append(invites, type) ELSE invites
                /\ UNCHANGED savedInvites
        /\ UNCHANGED <<basicFlips, extraFlips, reportRewards>>

\* AddFoundationPayout and AddZeroWalletFund do not count for the address.
AddFundReward(addr, balance, type) ==
    /\ Give(addr, addr, type, <<balance, 0>>)
    /\ rewards' = addReward(rewards, addr, type, <<balance, 0>>)
    /\ UNCHANGED <<totalRewards, delegateeRewards, delegatorRewards, rewardedVars, miningVars>>

-----------------------------------------------------------------------------
(* Mining rewards                                                           *)

\* addMiningReward.
addMiningReward(list, addr, amount, type) ==
    IF amount = Zero THEN list ELSE Append(list, Row(addr, type, amount))

\* The rewards of one call: the pool gets the balance, the delegator the stake.
Parts(balanceDest, stakeDest, amount) ==
    IF balanceDest = stakeDest THEN << <<balanceDest, amount>> >>
    ELSE << <<balanceDest, <<amount[1], 0>> >>, <<stakeDest, <<0, amount[2]>> >> >>

AddProposerReward(balanceDest, stakeDest, amount) ==
    /\ Give(balanceDest, stakeDest, "Proposer", amount)
    /\ miningRewards' = FoldLeft(LAMBDA list, part : addMiningReward(list, part[1], part[2], "Proposer"),
                                 miningRewards, Parts(balanceDest, stakeDest, amount))
    /\ UNCHANGED <<epochVars, committeeRow, committees>>

\* addFinalCommitteeReward on the list and the rows by address.
addFinalCommitteeReward(acc, addr, amount) ==
    IF addr \in DOMAIN acc.row
    THEN [acc EXCEPT !.list[acc.row[addr]].balance = @ + amount[1],
                     !.list[acc.row[addr]].stake   = @ + amount[2]]
    ELSE LET list == addMiningReward(acc.list, addr, amount, "Committee")
         IN  [list |-> list,
              row  |-> IF list = acc.list THEN acc.row
                       ELSE [a \in DOMAIN acc.row \cup {addr} |->
                               IF a = addr THEN Len(list) ELSE acc.row[a]]]

AddFinalCommitteeReward(balanceDest, stakeDest, amount) ==
    LET acc == FoldLeft(LAMBDA a, part : addFinalCommitteeReward(a, part[1], part[2]),
                        [list |-> miningRewards, row |-> committeeRow], Parts(balanceDest, stakeDest, amount))
    IN  /\ Give(balanceDest, stakeDest, "Committee", amount)
        /\ miningRewards' = acc.list
        /\ committeeRow' = acc.row
        /\ committees' = <<committees[1] \cup {stakeDest}, committees[2] \cup {balanceDest}>>
        /\ UNCHANGED epochVars

-----------------------------------------------------------------------------
RewardsInit ==
    /\ rules \in {"before10", "upgrade10", "upgrade11"}
    /\ rewards = <<>> /\ totalRewards = <<>>
    /\ delegateeRewards = <<>> /\ delegatorRewards = <<>>
    /\ basicFlips = <<>> /\ extraFlips = <<>> /\ reportRewards = <<>>
    /\ invites = <<>> /\ savedInvites = <<>>
    /\ miningRewards = <<>> /\ committeeRow = <<>> /\ committees = <<{}, {}>>
    /\ given = <<>>

RewardsNext ==
    \/ \E stakeDest \in Recipients, amount \in Amounts : \E balanceDest \in Pools \cup {stakeDest} :
          \/ AddValidationReward(balanceDest, stakeDest, amount)
          \/ AddCandidateReward(balanceDest, stakeDest, amount)
          \/ AddStakingReward(balanceDest, stakeDest, amount)
          \/ \E count \in FlipCounts : AddFlipsBasicReward(balanceDest, stakeDest, amount, count)
          \/ \E count \in FlipCounts : AddFlipsExtraReward(balanceDest, stakeDest, amount, count)
          \/ \E idx \in ReportedIdxs : AddReportedFlipsReward(balanceDest, stakeDest, amount, idx)
          \/ \E age \in Ages, winner, hasTx \in BOOLEAN :
                AddInvitationsReward(balanceDest, stakeDest, amount, age, winner, hasTx)
          \/ AddProposerReward(balanceDest, stakeDest, amount)
          \/ AddFinalCommitteeReward(balanceDest, stakeDest, amount)
    \/ \E addr \in Recipients, amount \in Amounts, age \in Ages \ {0} : AddInviteeReward(addr, amount[2], age)
    \/ \E addr \in Recipients, amount \in Amounts, type \in FundTypes : AddFundReward(addr, amount[1], type)

-----------------------------------------------------------------------------
SumOf(set, Size(_)) == FoldSet(LAMBDA x, sum : Size(x) + sum, 0, set)
Given(P(_)) == SumOf({i \in DOMAIN given : P(given[i])}, LAMBDA i : Total(given[i].amount))
At(f, key) == IF key \in DOMAIN f THEN f[key] ELSE 0

(* Types; finalCommitteeRewardsByAddr leads to the row of the address.         *)
RewardsTypeOK ==
    /\ \A i \in DOMAIN rewards : rewards[i].type \in RewardTypes /\ rewards[i].addr \in Recipients
    /\ DOMAIN totalRewards \subseteq Recipients
    /\ \A k \in DOMAIN delegateeRewards : delegateeRewards[k] \in Nat \ {0}
    /\ \A a \in DOMAIN committeeRow :
          committeeRow[a] \in DOMAIN miningRewards /\ miningRewards[committeeRow[a]].addr = a

(* However rewards arrive, merged rows included, an address has at most one    *)
(* row of a type, whose amount is all it was given of that type, and its total *)
(* is the sum of its rows without the funds.                                   *)
RewardsAddUp ==
    /\ \A i, j \in DOMAIN rewards :
          rewards[i].addr = rewards[j].addr /\ rewards[i].type = rewards[j].type => i = j
    /\ \A i \in DOMAIN rewards :
          rewards[i].balance + rewards[i].stake =
              Given(LAMBDA g : g.to = rewards[i].addr /\ g.type = rewards[i].type)
    /\ \A a \in Recipients :
          At(totalRewards, a) = Given(LAMBDA g : g.to = a /\ g.type \notin FundTypes \cup MiningTypes)

(* The balance that a pool got for a type is the sum of what its delegators    *)
(* brought, each counted with all of its rewards of the type.                  *)
PoolRewardsAddUp ==
    \A k \in DOMAIN delegateeRewards :
        /\ delegateeRewards[k] =
              SumOf({d \in DOMAIN delegatorRewards : <<d[1], d[3]>> = k}, LAMBDA d : delegatorRewards[d])
        /\ delegateeRewards[k] =
              SumOf({i \in DOMAIN given : given[i].from = k[1] /\ given[i].to # k[1] /\ given[i].type = k[2]},
                    LAMBDA i : given[i].amount[1])

(* No flip is listed twice, whether as basic or as extra, under any of the     *)
(* rules; with the basic rewards of an upgrade that lists both kinds at once   *)
(* the extra rewards must not list them again.                                 *)
FlipsAreListedOnce ==
    LET all == basicFlips \o extraFlips
    IN  \A i, j \in DOMAIN all : all[i] = all[j] => i = j

(* Of the final committee an address has one row, a pool included that gets    *)
(* rewards through several members; the rows together are what was given.      *)
MiningRewardsAddUp ==
    /\ \A i, j \in DOMAIN miningRewards :
          miningRewards[i].type = "Committee" /\ miningRewards[j].type = "Committee"
          /\ miningRewards[i].addr = miningRewards[j].addr => i = j
    /\ \A type \in MiningTypes :
          SumOf({i \in DOMAIN miningRewards : miningRewards[i].type = type},
                LAMBDA i : miningRewards[i].balance + miningRewards[i].stake)
          = Given(LAMBDA g : g.type = type)

\* The lists of rewards add up to what the node announced (addReward,
\* addAddrTotalReward, addDelegateeReward, addMiningReward): for each
\* address, for each pool and for mining.
RewardListsAddUp == RewardsTypeOK /\ RewardsAddUp /\ PoolRewardsAddUp /\ MiningRewardsAddUp
=============================================================================
