SPECIFICATION FairSpec
CONSTANTS
  MaxSessions = 2
  MaxSeq = 2
  Events <- FirstPacket
  Configured = 1
  QueueDepth = 2
  MaxStarts = 3
  MaxFaults = 2
 
PROPERTIES FileAdvances EnqueuedIsSaved
CHECK_DEADLOCK FALSE
