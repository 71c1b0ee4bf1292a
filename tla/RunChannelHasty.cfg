SPECIFICATION Spec
CONSTANTS
  MaxRuns = 2
  Lines <- MCLines
  End = End
  Capacity = 2
  MaxChars = 3
  MaxReads = 2
PROPERTY
  NothingRunsAtReset
CHECK_DEADLOCK FALSE
