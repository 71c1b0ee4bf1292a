SPECIFICATION FairSpec
CONSTANTS
  a1 = a1  a2 = a2  a3 = a3  n1 = n1  n2 = n2
  home = home
  Conns = {a1, a2, n1}
  Analysers = {p1, p2, p3, p4}
  NoAnalyser = NoAnalyser
  NoAddress = NoAddress
  AddressOf <- MCAddressOf
  MaxSessions = 2
  MaxSessionsPerAddress = 1
  PoolSize = 2
INVARIANTS
  NobodyWaitsInVain
  ShortfallIsScheduled
PROPERTIES
  EveryConnectionSettles
