SPECIFICATION FairSpec
CONSTANTS
    flipKey = flipKey
    answersHash = answersHash
    KindOrder <- MCKindOrder
    Keys = {a}
    Invalid = Invalid
    QueueSize = 1
    MaxActions = 3
INVARIANTS
    NothingIsLostOrDoubled
PROPERTIES
    EveryActionIsRecorded
