CONSTANTS
  Flip = {f1, f2}
  NoFlip = NoFlip
  ChanSize = 1
  FlipsToRetry = 1
  MaxHeight = 2
  MaxResets = 1
  MaxRestarts = 1
SPECIFICATION Spec
PROPERTIES
    IndexerProceeds
    EveryFlipIsSized
CHECK_DEADLOCK FALSE
