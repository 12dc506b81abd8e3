CONSTANTS
    SerialN = 1
    BulkN = 2
    BurstN = 1
    PollMax = 2
    PushN = 2
    MaxLog = 6
    Faults = {"slow", "timeout", "lost", "elect", "crash"}
    MaxFaults = 1
SPECIFICATION LiveSpec
INVARIANTS
    TypeOK
    VerdictIsTrue
    HealthyPasses
    StopIsClean
PROPERTY EndsCleanly
