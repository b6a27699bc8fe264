CONSTANTS
    Readers = {r1, r2, b}
    Writers = {w1, b}
SPECIFICATION FairSpec
INVARIANTS
    TypeOK
    NoLostWakeup
PROPERTIES
    ImplementsRWLock
    LockProgress
    WriterAdmitted
