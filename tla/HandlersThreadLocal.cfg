SPECIFICATION Spec
CONSTANTS
    Null = Null
    t1 = t1
    t2 = t2
    h1 = h1
    h2 = h2
    Threads = {t1, t2}
    MainThread = t1
    Fns = {h1, h2}
    Programs <- ThreadLocalPrograms
    MaxCalls = 5
    Blocks = 1
    Reserve = 1
    Dsos = {1, 2}
INVARIANTS
    ThreadLocalHandlers
\* a program may end, and the bounds stop it
CHECK_DEADLOCK FALSE
