SPECIFICATION FairSpec
CONSTANTS
    t1 = t1
    t2 = t2
    t3 = t3
    Threads = {t1, t2, t3}
    LockedBit = 0
    InitBit = 56
    FirstByte <- BigEndianFirstByte
    WeakCAS = TRUE
    MaxThrows = 2
INVARIANTS
    ConstructorExclusive
    UsersSeeBuiltObject
PROPERTIES
    ImplementsOnceInit
    AcquireReturns
