CONSTANTS
  p1 = p1
  p2 = p2
  sh = sh
  OSPids = {p1, p2}
  Pids = {p1, p2, sh}
  ShellPid = sh
  NoPid = NoPid
  Statuses = {0, 143}
  KillStatus = 143
  NoStatus = NoStatus
  JobIdMax = 3
  PidReuse = FALSE
  Forwarding = {p1, p2}
  MaxOperands = 2
  Pipelines <- MCPipelines
SPECIFICATION JobsSpec
SYMMETRY PidSymmetry
INVARIANTS
  JobsSound
  StatusesTrue
  NothingLost
  TableTypeOK
  IndexConsistent
  SummariesCurrent
  NoIdReused
PROPERTIES
  WaitAllLeavesNoJob
  ImplementsLedger
CHECK_DEADLOCK FALSE
