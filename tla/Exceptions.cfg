SPECIFICATION Spec
CONSTANTS
    Null = Null
    t1 = t1
    t2 = t2
    e1 = e1
    e2 = e2
    e3 = e3
    s1 = s1
    s2 = s2
    Threads = {t1, t2}
    Objs = {e1, e2, e3}
    ForeignObjs = {}
    Slots = {s1, s2}
    MaxDepth = 3
    Habits = {}
SYMMETRY Symmetry
INVARIANTS
    RefCountExact
    DestroyOnlyBuilt
    CaughtListMatchesHandlers
    UncaughtExact
    NoLeak
PROPERTIES
    ImplementsSharedOwnership
\* the program may end, and the bounds stop it
CHECK_DEADLOCK FALSE
