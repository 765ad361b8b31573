CONSTANTS
  f = f
  g = g
  a = a
  b = b
  Funs <- TwoFuns
  Bodies <- TwoBodies
  original = original
  MaxDepth = 2
  MaxMocks = 1
SPECIFICATION Spec
INVARIANTS
  NestedGroupsReverted
