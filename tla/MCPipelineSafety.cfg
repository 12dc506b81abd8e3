CONSTANTS
    r1 = r1
    r2 = r2
    r3 = r3
    Requests = {r1, r2, r3}
    Queue = 2
    Depth = 1
    None = None
SPECIFICATION Spec
SYMMETRY RequestSymmetry
INVARIANTS
    TypeOK
    OwnAnswer
    RejectedNeverServed
    NoLostReply
    InFlightBound
    AtMostOneStranded
PROPERTY ChannelSpec
