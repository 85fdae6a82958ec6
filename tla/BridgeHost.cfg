SPECIFICATION Spec
CONSTANTS
    Heaps <- MCLeaking
    WindowSize = 4
    MinSamples = 3
    MinRSquared = 70
    RollingThreshold = 10
    TotalHeap = 4
    OfflineTimeout = 1
    MaxGap = 2
INVARIANTS
    TypeOK
    SteadyHeapQuiet
    LeakProjected
    HeardIsRegistered
