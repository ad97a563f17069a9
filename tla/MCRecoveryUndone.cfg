SPECIFICATION Spec
CONSTANTS
  Change = {p}
  Callers = 1
  MaxSnapshots = 2
  MaxBoots = 0
  MaxRestores = 1
  MaxWrites = 1
  MaxFaults = 0
  MaxRestarts = 0
INVARIANTS RestoreSticks
CHECK_DEADLOCK FALSE
