\* Any messages at all: references reused, unknown or replaced by live ones,
\* more shares taken off than there are, and stale level indices; among them
\* every lossless feed of that length.
SPECIFICATION Spec
CONSTANTS
  Side = {"Sell"}
  r1 = r1
  r2 = r2
  r3 = r3
  Refs = {r1, r2, r3}
  Prices = {1, 2, 3}
  Shares = {1, 2}
  PoolSize = 3
  MaxLevels = 2
  WordMod = 16
  MaxMsgs = 5
VIEW LiveView
SYMMETRY RefSymmetry
INVARIANTS TypeOK LevelsSorted PoolConsistent BboCorrect NoLeak
PROPERTIES ImplementsPriceTimeBook
CHECK_DEADLOCK FALSE
