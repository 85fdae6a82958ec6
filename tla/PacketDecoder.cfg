SPECIFICATION FairSpec
CONSTANTS
    Byte = {0, 1, 2, 3, 4, 5, 6, 7}
    Sync0 = 6
    Sync1 = 7
    Version = 1
    HeaderSize = 3
    CrcSize = 1
    Frames <- MCFrames
    MaxDamage = 3
    MaxDrops = 3
INVARIANTS
    TypeOK
    HuntingFindsFrame
    CleanLineExact
PROPERTIES
    ResyncsEventually
