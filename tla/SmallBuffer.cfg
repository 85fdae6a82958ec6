SPECIFICATION Spec
CONSTANTS
    MaxTasks = 2
    DeltaTasks = 1
    TaskNames = {"idle", "app"}
    Words = {0, 1, 2}
    SeqMod = 3
    PayloadBytes = 45
    Torn = Torn
    Snapshots <- MCResizing
    KeyframeInterval = 2
    LoopMod = 100
    FrameBytes = 78
    MaxCycles = 4
    LineCapacity = 1
INVARIANTS
    SyncedStateExact
    HeaderMatchesPayload
PROPERTIES
    ImplementsMirror
