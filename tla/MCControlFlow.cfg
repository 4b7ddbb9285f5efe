SPECIFICATION Spec
CONSTANTS
  Scripts <- ScriptKinds
  MaxDepth = 5
  MaxLevel = 2
  UsizeMax = 15
CHECK_DEADLOCK FALSE
INVARIANTS UnwindingSound ExitIsFinalOtherwise
PROPERTIES ImplementsStructuredControl
