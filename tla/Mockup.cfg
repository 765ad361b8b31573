CONSTANTS
  f = f
  g = g
  a = a
  b = b
  Funs <- TwoFuns
  Bodies <- TwoBodies
  original = original
  MaxDepth = 3
  MaxMocks = 2
SPECIFICATION NarrowSpec
INVARIANTS
  TypeOK
  FramesAreOpenGroups
PROPERTIES
  TestsLeaveGroupsAlone
  ImplementsScope
