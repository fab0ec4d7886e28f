SPECIFICATION FairSpec
CONSTANTS
    MaxHeight = 5
    MaxBlocks = 7
    FirstGenesis = 1
    NewGenesisHeights <- MCNewGenesisHeights
    BlocksCount = 2
    RestoreInitially = FALSE
INVARIANTS
    TypeOK
    MirrorsNode
    HeightsFit
    BalancesFollowState
PROPERTIES
    StoreIsAStack
    EveryBlockIsIndexed
