CONSTANTS
  MaxTests = 1
  MaxGroups = 1
  MaxDepth = 1
  MaxExprs = 0
  MaxPerFixture = 0
  MaxOutput = 2
  PipeCapacity = 2
  FdLimit = 2
  Endings <- AnyEnding
  MaxRuns = 1
SPECIFICATION FairSpec
CHECK_DEADLOCK FALSE
PROPERTIES
  RunEnds
