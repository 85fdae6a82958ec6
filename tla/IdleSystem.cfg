SPECIFICATION IdleSystemSpec
CONSTANTS
    TaskIds = {t1, t2}
    Freed = Freed
    MaxTasks = 2
    HeapSize = 2
    WordMod = 8
    Percent = 2
INVARIANTS
    IdleSystemShowsIdle
