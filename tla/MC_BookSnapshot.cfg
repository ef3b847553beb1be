\* A book of three levels does not fit the second buffer; two faults, so that what a
\* restart finds after a crash can be saved over and crash again.
SPECIFICATION Spec
CONSTANTS
  NumShards = 2
  NumBooks = 2
  Buffer = 1
  MaxLevels = 3
  MaxUpdates = 2
  MaxEvents = 1
  MaxFaults = 2
INVARIANTS LoadFindsWhole EodBehindLatest 
\* The bounds leave nothing to do at last.
CHECK_DEADLOCK FALSE
