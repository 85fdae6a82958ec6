SPECIFICATION Spec
CONSTANTS
    TaskIds = {t1, t2}
    Freed = Freed
    MaxTasks = 1
    HeapSize = 2
    WordMod = 4
    Percent = 1
SYMMETRY Symmetry
INVARIANTS
    TypeOK
    HeapFieldsOrdered
    PeriodWriteBackFresh
