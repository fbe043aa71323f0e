SPECIFICATION Spec
CONSTANTS
    t1 = t1
    t2 = t2
    t3 = t3
    Threads = {t1, t2, t3}
    NoThread = NoThread
    NumBuffers = 3
    MaxHeld = 2
SYMMETRY ThreadSymmetry
INVARIANTS
    BuffersExclusive
    LimitRespected
    SleepOnlyWhenFull
PROPERTY
    NoSelfDeadlock
\* the program ends when alloc_or_die terminates
CHECK_DEADLOCK FALSE
