CONSTANTS
    Image = {v1, v2}
    Absent = Absent
    Malformed = Malformed
    NoIntent = NoIntent
    BadIntent = BadIntent
    MaxTamper = 2
    MaxFaults = 2
SPECIFICATION FairSpec
INVARIANTS NothingTorn
PROPERTIES UnknownIsKept AtomicSpec IntentIsResolved
