SPECIFICATION FairSpec
CONSTANTS
  a = a
  b = b
  Items = {a, b}
  Capacity = 2
  MaxPos = 5
INVARIANTS NoSlotRace
PROPERTIES ImplementsFifo Drained
