CONSTANTS
  Delegator = {a, b}
  Pool = {p, q}
  NoOne = NoOne
  ChangesBlocksCount = 2
  MaxHeight = 3
  MaxResets = 1
  MaxTx = 2
  MaxChanged = 1
SYMMETRY Symmetry
SPECIFICATION Spec
INVARIANTS
    PoolTablesAreSound
    HistoryGoesBack
CHECK_DEADLOCK FALSE
