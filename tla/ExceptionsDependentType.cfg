SPECIFICATION Spec
CONSTANTS
    Null = Null
    t1 = t1
    e1 = e1
    e2 = e2
    s1 = s1
    Threads = {t1}
    Objs = {e1, e2}
    ForeignObjs = {}
    Slots = {s1}
    MaxDepth = 3
    Habits = {}
SYMMETRY Symmetry
INVARIANTS
    CurrentTypeIsRight
\* the program may end, and the bounds stop it
CHECK_DEADLOCK FALSE
