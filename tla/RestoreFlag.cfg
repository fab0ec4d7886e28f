SPECIFICATION Spec
CONSTANTS
    MaxHeight = 3
    MaxBlocks = 5
    FirstGenesis = 1
    NewGenesisHeights = {}
    BlocksCount = 2
    RestoreInitially = FALSE
INVARIANTS BalancesAgreeOnSameFork
