CONSTANTS
  MaxTests = 1
  MaxGroups = 1
  MaxDepth = 1
  MaxExprs = 1
  MaxPerFixture = 1
  MaxOutput = 0
  PipeCapacity = 2
  FdLimit = 2
  Endings <- AlwaysReturned
  MaxRuns = 1
SPECIFICATION Spec
CHECK_DEADLOCK FALSE
INVARIANTS
  VerdictSound
