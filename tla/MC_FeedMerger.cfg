SPECIFICATION FairSpec
CONSTANTS
  Feeds <- BothFeeds
  Block = 1
  MaxSeq = 2
  Depth = 2
  MergedDepth = 2
  MaxArrivals = 4
INVARIANTS NotTooOld KeptWithinARing ParsedOnce
PROPERTIES NewOnce  ArrivedIsParsed
CHECK_DEADLOCK FALSE
