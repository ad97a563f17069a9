SPECIFICATION FairSpec
CONSTANTS
  Request = {r}
  Employee = {r}
  Workflow = {r}
  Controlled = {r}
  MaxRestarts = 1
  MaxFaults = 1
INVARIANTS StartedOnce NeverAfterCancel RootsStopped FencedTreesRest
PROPERTIES RunsStop FinalIsProjected
CHECK_DEADLOCK FALSE
