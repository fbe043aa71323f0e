SPECIFICATION Spec
CONSTANTS
    Null = Null
    t1 = t1
    e1 = e1
    e2 = e2
    e3 = e3
    f1 = f1
    f2 = f2
    s1 = s1
    Threads = {t1}
    Objs = {e1, e2, e3}
    ForeignObjs = {f1, f2}
    Slots = {s1}
    MaxDepth = 5
    Habits = {"foreignCatch", "exitInCatch"}
SYMMETRY Symmetry
INVARIANTS
    NoDangling
    NoUndefinedBehaviour
    AssertionsHold
\* the program may end, and the bounds stop it
CHECK_DEADLOCK FALSE
