SPECIFICATION FreeSpec
CONSTANTS
    PageUnits = 2
    MemoryMaps <- Maps
    KernelImage <- Image
    HeapPages = 2
    Entries = 8
    Levels = 2
    AllocSizes <- Sizes
INVARIANT Conserved
