SPECIFICATION Spec
CONSTANTS
    MaxTasks = 2
    Tasks <- MCTasks
    Systems <- MCSystems
    KeyframeInterval = 3
    SeqMod = 3
    ReportInterval = 2
    Cyccnt = 7
    CycleMod = 8
    MaxCycles = 5
INVARIANTS
    TypeOK
    ReaderExact
    NoLossNoGap
CHECK_DEADLOCK FALSE
