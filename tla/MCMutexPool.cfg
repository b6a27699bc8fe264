CONSTANTS
    Threads = {t1, t2, t3}
    DevIds = {d0, d1}
    Mutexes = {m1, m2, m3}
    Absent = Absent  NoThread = NoThread  NoMutex = NoMutex
SPECIFICATION FairSpec
INVARIANTS
    TypeOK
    UnlockFindsLocked
PROPERTIES
    ImplementsDeviceMutex
    PoolProgress
