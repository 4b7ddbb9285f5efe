SPECIFICATION BuiltinsSpec
CONSTANTS
  Real <- MCReal
  Names = {"d", "l"}
  CdPath <- MCCdPath
  CdableVars <- MCCdableVars
  MaxStack = 2
  MaxPath = 2
  Known = {"a", "b"}
  WithArg = {"b"}
  Characters = {"-", "a", "b", "x"}
  ArgLists <- MCArgLists
  CalleeArgs <- MCCalleeArgs
  Width = 4
  CountMax = 5
  Literals <- MCLiterals
  ArithNames = {"x", "y", "z"}
  ReadonlyNames = {"z"}
  Stores <- MCStores
  Trees <- MCTrees
INVARIANTS DirectoriesAgree ArgumentsScanned ArithmeticSound
PROPERTIES StackMovesOnStack ScanAdvances
CHECK_DEADLOCK FALSE
