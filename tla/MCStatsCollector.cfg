SPECIFICATION MCSpec
CONSTANTS
  d1 = d1
  d2 = d2
  p1 = p1
  Accounts <- MCAccounts
  PoolAccounts <- MCPools
  MaxBrackets = 4
  RewardParts <- MCParts
  Holders = {"s", "c"}
  Sender = "s"
  MaxDepth = 3
  MaxOps = 5
  MaxContractTxs = 2
  Votings = {"v"}
  Members = {"m"}
  EventKinds <- MCKinds
  VotingDuration = 2
  MaxVotingHeight = 4
  MaxVotingTxs = 2
  MaxVotingResets = 1
  Tokens = {"t"}
  RawHolders = {"a", "a0", "0"}
  AddressOf <- MCAddressOf
  MaxTokenBalance = 1
  MaxReceipts = 3
INVARIANTS
    BalanceRowsAreSound
    CoinsAreAccounted
    ContractStatsAreExact
    VotingStatsAreExact
    VotingsAgreeWithTables
    TokenRowsAreSound
CHECK_DEADLOCK FALSE
