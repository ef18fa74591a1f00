SPECIFICATION FairSpec
CONSTANTS
    t1 = t1
    t2 = t2
    t3 = t3
    Thread <- TwoThreads
    Boot = Boot
    Quantum = 2
    Capacity = 8192
    SleepTimes <- Naps
    MaxPending = 1
PROPERTIES
    ReadyRuns
    SleeperWakes
