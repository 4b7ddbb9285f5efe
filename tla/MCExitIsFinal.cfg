SPECIFICATION Spec
CONSTANTS
  Scripts <- Lists
  MaxDepth = 5
  MaxLevel = 2
  UsizeMax = 15
CHECK_DEADLOCK FALSE
INVARIANT ExitIsFinal
