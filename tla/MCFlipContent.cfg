CONSTANTS
  Flip = {f1, f2}
  FlipContents <- MCFlipContents
  BatchSize = 2
  AttemptsLimit = 2
  RetryInterval = 0
  FirstDelay = 1
  MaxOverdue = 1
  MaxHeight = 3
  MaxResets = 2
  MaxInterrupts = 1
SPECIFICATION Spec
INVARIANTS
    QueueFollowsBlocks
    OnlyOvertakenGoAstray
PROPERTIES
    QueueDrains
CHECK_DEADLOCK FALSE
