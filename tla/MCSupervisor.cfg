CONSTANTS
    Requests = {r1, r2, r3, r4, r5, r6}
    Limit = 2
    Absent = Absent
SPECIFICATION FairSpec
INVARIANTS
    ExactSinceReset
PROPERTIES
    BootsOnlyFrozen
    FrozenIsBooted
CHECK_DEADLOCK FALSE
