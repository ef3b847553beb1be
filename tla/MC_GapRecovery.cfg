\* Every packet may be lost, late or both; the connection or the login fails once.
\* A failed login ends the process.
CHECK_DEADLOCK FALSE
SPECIFICATION FairSpec
CONSTANTS
  MaxPackets = 4
  PerPacket = 1
  Losable <- AllPackets
  Late <- AllPackets
  MaxCount = 2
  RecDepth = 1
  MaxChunk = 2
  MaxStream = 0
  RequireLogin = TRUE
  HasSecondary = TRUE
  MaxFaults = 1
INVARIANTS NothingSkipped 
  
