SPECIFICATION FairSpec
CONSTANTS
  Requests = {r1, r2, r3, r4, h1}
  Probes = {h1}
  MaxConcurrent = 2
  MaxQueued = 2
INVARIANTS
  QueueIsExact
PROPERTIES
  GateIsKept
  NobodyWaitsForever
