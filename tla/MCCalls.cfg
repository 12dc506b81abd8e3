CONSTANTS
    c1 = c1
    c2 = c2
    c3 = c3
    NumNodes = 2
    NoNode = NoNode
    Callers = {c1, c2}
    Requests <- OneIsCreateTopic
    Local = {c2}
    Streams <- FiveStreams
    NoStream = NoStream
    MaxIdlePerNode = 1
    Faults = {"connect", "timeout", "close", "break", "refuse", "elect", "crash"}
    MaxFaults = 1
SPECIFICATION LiveSpec
INVARIANTS
    TypeOK
    OwnResponse
    StreamsAreExclusive
    StepsInOrder
PROPERTIES
    StableSucceeds
    DeadStreamCostsNothing
