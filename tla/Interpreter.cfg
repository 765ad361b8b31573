CONSTANTS
  a = a
  b = b
  ab = ab
  Files <- ThreeFiles
  PathPrefixes <- OnePrefix
  Names <- SomeNames
  MaxArgs = 5
  MaxUnloaded = 3
  MaxLines = 1
SPECIFICATION Spec
CHECK_DEADLOCK FALSE
INVARIANTS
  TypeOK
  OnlyLoadedRun
  AllLoadedRun
  SessionSurvives
  NothingLeftOver
