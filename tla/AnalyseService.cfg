SPECIFICATION Spec
CONSTANTS
  a1 = a1  a2 = a2  a3 = a3  n1 = n1  n2 = n2
  home = home
  Conns = {a1, a2, a3, n1, n2}
  Analysers = {p1, p2, p3, p4, p5}
  NoAnalyser = NoAnalyser
  NoAddress = NoAddress
  AddressOf <- MCAddressOf
  MaxSessions = 3
  MaxSessionsPerAddress = 2
  PoolSize = 1
SYMMETRY Symmetry
INVARIANTS
  SlotBudget
  NoOrphan
  ProcessBudget
  SingleOwner
PROPERTIES
  EvictionIsEarned
  NeverRecycled
