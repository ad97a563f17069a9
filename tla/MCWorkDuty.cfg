SPECIFICATION FairSpec
CONSTANTS
  First = 1
  Every = 2
  MaxTime = 5
  MaxEdits = 1
  MaxSwitches = 2
  MaxRestarts = 1
  MaxFaults = 1
INVARIANTS CatchUpOnce ExecutedOnce
PROPERTIES DueIsClaimed ClosedIsPaused
CHECK_DEADLOCK FALSE
