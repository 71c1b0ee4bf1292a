SPECIFICATION FairSpec
CONSTANTS
  MaxRuns = 2
  Lines <- MCLines
  End = End
  Capacity = 2
  MaxChars = 3
  MaxReads = 2
INVARIANTS
  OutputIsItsOwn
  WaitingIsHonest
CONSTRAINT
  Unhurried
PROPERTIES
  ConsoleIsKept
  AsksAreHeard
  AnswersArrive
CHECK_DEADLOCK FALSE
