SPECIFICATION FairSpec
CONSTANTS
  Run = {a, b}
  Session = {s}
  MaxRestarts = 1
  MaxFaults = 1
INVARIANTS PromptedOnce LocksAreExact AloneInSession OwnEnd
PROPERTIES RunsMoveOn
CHECK_DEADLOCK FALSE
