CONSTANTS
    r1 = r1
    r2 = r2
    Requests = {r1, r2}
    Queue = 1
    Depth = 1
    None = None
SPECIFICATION LiveSpec
PROPERTIES
    BreakSettlesCalls
    AbandonedPipelineEnds
    EveryAttemptEnds
