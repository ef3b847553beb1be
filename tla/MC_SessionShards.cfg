SPECIFICATION FairSpec
CONSTANTS
  NumShards = 2
  Locates <- TwoLocates
  Watched <- OneLocate
  Codes <- StartOpenClose
  MaxSessions = 2
  MaxPackets = 4
  QueueDepth = 2
INVARIANTS BooksOneSession GapOnlyAfterReset
PROPERTIES OldOrdersGone
CHECK_DEADLOCK FALSE
