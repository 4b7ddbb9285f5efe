CONSTANTS
  OSPids = {p1, p2}
  Pids = {p1, p2, sub, sh}
  ShellPid = sh
  NoPid = NoPid
  Statuses = {143}
  KillStatus = 143
  NoStatus = NoStatus
  JobIdMax = 3
  PidReuse = TRUE
  Forwarding = {p1}
  MaxOperands = 1
SPECIFICATION FairSpec
CHECK_DEADLOCK FALSE
INVARIANT LastBackgroundAnswerable
PROPERTIES
  WaitReturns
  ZombiesReaped
