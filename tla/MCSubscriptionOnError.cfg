CONSTANTS
    m1 = m1
    m2 = m2
    NumNodes = 2
    NoNode = NoNode
    Msgs = {m1}
    AckModes = {"manual"}
    Prefetch = 2
    Conns <- ThreeConns
    NoConn = NoConn
    Leases <- TwoLeases
    NoLease = NoLease
    Cap = 1
    Faults = {"connect", "throw", "slow", "timeout", "break", "error", "elect", "crash", "garbage"}
    MaxFaults = 1
SPECIFICATION Spec
INVARIANT FailuresReported
