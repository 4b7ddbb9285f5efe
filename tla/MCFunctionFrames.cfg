SPECIFICATION Spec
CONSTANTS
  x = x
  v1 = v1
  v2 = v2
  t1 = t1
  Unset = Unset
  Names <- OneName
  Values <- AllValues
  Temporary <- TemporaryValues
  Scripts <- ScriptKinds
  MaxDepth = 2
  MaxNest = 3
SYMMETRY Sym
CHECK_DEADLOCK FALSE
INVARIANTS TablesAgree TakenDown
PROPERTIES ReadonlyGlobalFixed ImplementsDynamicScope
