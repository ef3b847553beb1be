\* A lossless feed in which an order whose level has been shifted is taken off
\* the wrong level.
SPECIFICATION Spec
CONSTANTS
  Side = {"Buy"}
  r1 = r1
  r2 = r2
  Refs = {r1, r2}
  Prices = {1, 2}
  Shares = {1, 2}
  PoolSize = 2
  MaxLevels = 2
  WordMod = 16
  MaxMsgs = 5
INVARIANTS BboOnLosslessFeed
CHECK_DEADLOCK FALSE
