SPECIFICATION FairSpec
CONSTANTS
    Run = {1, 2, 3}
    Bucket = {1, 2}
    Local = 2
    Key = {k}
    Global = 2
    PerBucket = 1
    MaxTime = 1
    MaxFaults = 1
    MaxRestarts = 1
INVARIANTS MemoryIsOnDisk
PROPERTIES NeverGrowsPast ServedInTurn QueuedIsServed
CHECK_DEADLOCK FALSE
