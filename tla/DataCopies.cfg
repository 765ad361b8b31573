SPECIFICATION Spec
CONSTANTS
  Tests <- MCTests
  Files <- MCFiles
  Texts <- MCTexts
  NoData = "no data"
  MaxTests = 1
  MaxGroups = 1
  MaxDepth = 3
INVARIANT CopiesAreCopies
CHECK_DEADLOCK FALSE
