CONSTANTS
  x = x
  y = y
  Globals <- TwoGlobals
  Values <- TwoValues
  initial = 0
  MaxDepth = 2
  MaxStatements = 1
  MaxMocked = 1
SPECIFICATION Spec
CHECK_DEADLOCK FALSE
INVARIANTS
  TypeOK
  GroupsUndoAssignments
  IntactGroupsKeepState
PROPERTIES
  TestUndoesAssignments
SYMMETRY Interchangeable
