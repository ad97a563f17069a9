SPECIFICATION Spec
CONSTANTS
    Run = {1, 2}
    Bucket = {1, 2}
    Local = 2
    Key = {k}
    Global = 2
    PerBucket = 2
    MaxTime = 1
    MaxFaults = 0
    MaxRestarts = 1
INVARIANTS
    NoneIsStranded
CHECK_DEADLOCK FALSE
