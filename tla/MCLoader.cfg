CONSTANTS
    Words <- Names
    Hosts <- EveryHost
    Versions <- Released
    NoBinding = NoBinding
SPECIFICATION Spec
INVARIANTS
    TypeOK
    EveryFailureIsNamed
    PresentIsFound
    WasiTriState
