CONSTANTS
    c1 = c1
    c2 = c2
    c3 = c3
    NumNodes = 1
    NoNode = NoNode
    Callers = {c1, c2}
    Idempotent = {}
    Malformed = {}
    Pipes <- FivePipes
    NoPipe = NoPipe
    Faults = {"break"}
    MaxFaults = 1
SPECIFICATION Spec
INVARIANT SinglePipeline
SYMMETRY CallerSymmetry
