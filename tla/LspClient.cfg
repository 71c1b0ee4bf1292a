SPECIFICATION FairSpec
CONSTANTS
  NoSocket = NoSocket
  Sockets = {s1, s2}
INVARIANTS
  ComesBack
  StatusIsHonest
  InSync
PROPERTIES
  OnlyStaleFlagsCross
  HiddenHoldsNothing
CHECK_DEADLOCK FALSE
