SPECIFICATION MCSpec
CONSTANTS
    TokenKeys = {t1}
    SummaryKeys = {s1}
    MiningKeys = {m1}
    ChangesBlocksCount = 2
    MaxHeight = 4
    MaxValue = 1
    MaxChanges = 4
    a1 = a1
    a2 = a2
    FirstShare = 1
    Addresses = {a1, a2}
    Shares = {1, 2}
    BlocksCount = 3
    MaxRewardHeight = 5
    MaxSaves = 7
    MaxMixedSaves = 5
INVARIANTS
    TablesFollowBlocks
    CommitteeRowsAreExact
    ShortForksAreAccepted
CHECK_DEADLOCK FALSE
