CONSTANTS
    c1 = c1
    c2 = c2
    c3 = c3
    NumNodes = 2
    NoNode = NoNode
    Callers = {c1, c2}
    Idempotent = {c2}
    Malformed = {}
    Pipes <- FivePipes
    NoPipe = NoPipe
    Faults = {"connect", "timeout", "close", "break", "refuse", "elect", "crash"}
    MaxFaults = 1
SPECIFICATION Spec
INVARIANTS
    TypeOK
    NoSecondTry
    OffsetIsOwn
    CopiesBounded
PROPERTIES
    OpenSlotKept
    SettledNeverFails
