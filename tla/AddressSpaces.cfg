SPECIFICATION Spec
CONSTANTS
    Entries = 6
    Levels = 3
    Memories <- MCMemories
    Leftovers <- MCLeftovers
    Devices <- MCDevices
    MaxDevices = 2
    StackPage = 72
    StackPages = 7
    MaxSpaces = 2
INVARIANTS
    AskedIsMapped
    KernelVisible
    TablesPrivate
    OwnFrames
    NoWildTable
    ReserveSuffices
