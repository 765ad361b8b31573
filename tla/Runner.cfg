CONSTANTS
  MaxTests = 2
  MaxGroups = 2
  MaxDepth = 2
  MaxExprs = 3
  MaxPerFixture = 2
  MaxOutput = 1
  PipeCapacity = 5
  FdLimit = 3
  Endings <- AnyEnding
  MaxRuns = 2
SPECIFICATION FairSpec
CHECK_DEADLOCK FALSE
INVARIANTS
  TypeOK
  OwnFailureReported
  BlameIsOwnOrGroup
  CompleteReport
  DescriptorsBalanced
PROPERTIES
  ImplementsReport
  RunEnds
