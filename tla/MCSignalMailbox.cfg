CONSTANTS
  Procs = {a, b}
  Owners = {a, b}
  MaxSends = 2
  MaxRestarts = 1
SPECIFICATION RacedSpec
SYMMETRY ProcSymmetry
CHECK_DEADLOCK FALSE
INVARIANTS
  DispatchSound
  LostOnlyInRace
