CONSTANTS
  Procs = {a, b}
  Owners = {a, b}
  MaxSends = 2
  MaxRestarts = 1
SPECIFICATION FairSpec
CHECK_DEADLOCK FALSE
PROPERTY
  SignalsTaken
