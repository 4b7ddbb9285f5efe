CONSTANTS
  OSPids = {p1, p2}
  Pids = {p1, p2, sh}
  ShellPid = sh
  NoPid = NoPid
  Statuses = {0, 143}
  KillStatus = 143
  NoStatus = NoStatus
  JobIdMax = 3
  PidReuse = FALSE
  Forwarding = {}
  MaxOperands = 2
SPECIFICATION ShellFairSpec
PROPERTY
  WaitNextReturns
CHECK_DEADLOCK FALSE
