\* Two shards, two signals at any point, every failure of init and of thread
\* creation.
SPECIFICATION Spec
CONSTANTS
  NumShards = 2
  MaxSignals = 2
INVARIANTS FreedUnused  NoTerminate CleanExit
PROPERTIES SignalEnds
