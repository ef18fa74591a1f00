SPECIFICATION Spec
CONSTANTS
    Machines <- MCMachines
    MaxEntry = 6
    Threads = {1, 2}
    Boot = 1
    Readers <- MCReaders
    Capacity = 2
    FifoDepth = 2
    MaxBytes <- MCMaxBytes
INVARIANTS
    TypeOK
    EoiBalanced
    Routed
    NoTornAssign
    NoInterruptPanic
    Accounted
    InOrder
    Announced
PROPERTIES
    DropsOldest
    KeysRead
