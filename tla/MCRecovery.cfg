SPECIFICATION Spec
CONSTANTS
  Change = {p}
  Callers = 1
  MaxSnapshots = 2
  MaxBoots = 1
  MaxRestores = 1
  MaxWrites = 0
  MaxFaults = 1
  MaxRestarts = 1
INVARIANTS RestoresWhole 
PROPERTIES VerifiedBeforeForgotten
CHECK_DEADLOCK FALSE
