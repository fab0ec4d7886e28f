SPECIFICATION MCSpec
CONSTANTS
  Voters = {"a"}
  VotedHashes = {"h", "i"}
  OversizedVotes <- MCOversizedVotes
  QueueCapacity <- MCQueueCapacity
  BlockRange = 1
  MaxRound = 2
  MaxVotes = 1
  MaxVoteEvents = 3
  MaxLostAnswers = 1
  Peers = {"a", "b"}
  PeersQueueSize = 2
  Expiration = 3
  MaxHours = 6
  MaxPublished = 3
  Upgrades = {11, 12}
  CurrentVersion = 11
  VotersOfUpgrades = {"n"}
  ShortHistoryItems = 2
  ShortHistoryMinShift = 1
  UpgradeQueueSize = 1
  Word = 64
  MaxTip = 4
  MaxUpgradeResets = 1
  Items <- MCItems
  BlocksAfterValidation = 1
  PostponedBy = 1
  HeightWord = 32
  MaxBlocks = 3
  MaxForks = 1
  MaxNow = 3
  NodeAddresses <- MCNodeAddresses
  NodeStates <- MCNodeStates
  NoAddress = "none"
  PageSize = 1
  MaxUpdates = 2
INVARIANTS
    VotesAreSaved
    RecentResultsAreKept
    SummaryFollowsHistory
    RefreshesAreInTime
    PagesCoverTheList
    OnlineCacheIsSound
PROPERTIES
    EverythingIsTracked
    CountedAreLive
    StaleSummaryIsRefreshed
CHECK_DEADLOCK FALSE
