CONSTANTS
  MaxTokens = 11
SPECIFICATION Spec
CHECK_DEADLOCK FALSE
INVARIANTS
  TypeOK
  DeletedOnce
  TreeIsWhole
  LeaksAreUnfinished
PROPERTIES
  ParserEnds
