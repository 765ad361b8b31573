SPECIFICATION Spec
CONSTANTS
  Tests <- MCTests
  Files <- MCFiles
  Texts <- MCTexts
  NoData = "no data"
  MaxTests = 3
  MaxGroups = 3
  MaxDepth = 3
INVARIANTS TypeOK RowsBecomeTests
CHECK_DEADLOCK FALSE
