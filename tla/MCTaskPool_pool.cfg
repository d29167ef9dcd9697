\* Three tasks compete for two indices: the queue can run empty.
CONSTANTS
    Threads = {t1, t2, t3}
    Tasks = {k1, k2, k3}
    MaxIndex = 1
    NoTask = NoTask
    NoThread = NoThread
    Free = Free
    InTransit = InTransit
SPECIFICATION FairSpec
INVARIANTS TypeOK IndexConservation
PROPERTIES SlotNeverOverwritten UnderflowsOnlyWhenFull ErasedIndexReturns RefinesAllocator
