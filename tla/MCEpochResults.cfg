SPECIFICATION MCSpec
CONSTANTS
  Recipients = {"a","b","p"}
  Amounts <- MCAmounts
  FlipCounts = {5}
  ReportedIdxs = {0,1}
  FlipCidsCount = 1
  MaxRewards = 2
  Pools={"p"}
  Ages={0,2}
  Identities = {"a","b"}
  IdentityInputs <- MCInputs
  GodAddress = "g"
  NewEpoch = 8
  NoPool = "-"
INVARIANTS
    RewardListsAddUp
    FlipRewardsAddUp
    EpochRowsAgree
CHECK_DEADLOCK FALSE
