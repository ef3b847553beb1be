\* Histogram in miniature: 4 linear buckets and 2 octaves of 2, where a latency
\* of 8 falls past the buckets, 16 on max_ and 33 is capped.
SPECIFICATION Spec
CONSTANTS
  LinearBits = 2
  SubBits = 1
  Octaves = 2
  CapBit = 5
  LineWords = 2
  PerMille = {500, 999}
  MaxMsgs = 3
  Packets <- MC_Packets
  MaxPayload = 320
  Latencies = {1, 5, 7, 8, 16, 33}
  MaxPackets = 1
INVARIANTS  PercentileBetween ParsedAsCarried
CHECK_DEADLOCK FALSE
