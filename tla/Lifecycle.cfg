SPECIFICATION Spec
CONSTANTS
    app = app
    power = power
    Starters <- MCCallers
    Stoppers <- MCCallers
    MaxCreations = 2
    MaxCycles = 5
    CycleMod = 3
    LoopMod = 3
    ReportInterval = 2
CONSTRAINT DoubledBound
SYMMETRY Symmetry
INVARIANTS
    TypeOK
    HandleNamesTask
    DeletesLiveTask
    ElapsedExact
    MeanInRange
    WindowBounded
