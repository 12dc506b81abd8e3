CONSTANTS
    c1 = c1
    c2 = c2
    c3 = c3
    NumNodes = 2
    NoNode = NoNode
    Callers = {c1, c2, c3}
    Idempotent = {}
    Malformed = {c3}
    Pipes <- ThreePipes
    NoPipe = NoPipe
    Faults = {"connect", "timeout", "close", "break", "refuse", "elect"}
    MaxFaults = 1
SPECIFICATION LiveSpec
PROPERTY StableSucceeds
