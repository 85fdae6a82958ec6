SPECIFICATION Spec
CONSTANTS
    MaxTasks = 16
    DeltaTasks = 15
    SeqMod = 65536
    TaskNames <- MCNames
    Words = {0}
    Snapshots <- MCSnapshots
    MockSnapshots <- MCMockSnapshots
    Timestamps <- MCTimestamps
    FirstSeqs = {65535}
    MaxFrames = 3
    NULL = NULL
    NoCulprit = NoCulprit
    OverflowNames <- MCOverflowNames
    Errors <- MCErrors
    MaxDamaged = 30
INVARIANTS
    TypeOK
    RoundTrip
    DamageRejected
    CrashReadable
PROPERTIES
    SizesAgree
CHECK_DEADLOCK FALSE
