SPECIFICATION FairSpec
CONSTANTS
    t1 = t1
    t2 = t2
    t3 = t3
    Threads = {t1, t2, t3}
    LockedBit = 0
    InitBit = 24
    FirstByte <- BigEndianFirstByte
    WeakCAS = TRUE
    MaxThrows = 2
    Asserts = TRUE
INVARIANTS
    ConstructorExclusive
    UsersSeeBuiltObject
    LockWordIsLock
    ReleaseAssertionHolds
PROPERTIES
    InitWordWrittenUnderLock
    ImplementsOnceInit
    AcquireReturns
\* a failed assertion ends the program
CHECK_DEADLOCK FALSE
