SPECIFICATION FairSpec
CONSTANTS
  shard = shard
  r1 = r1
  r2 = r2
  Writers = {shard}
  Readers = {r1, r2}
  Words = {1, 2}
  SeqMod = 6
  MaxStores = 3
INVARIANTS NoTornRead
PROPERTIES ImplementsRegister LoadReturns
